---------------------------- MODULE Unification ----------------------------
(***************************************************************************)
(* What unify() promises: a sequence of unifications that succeeds leaves  *)
(* a trail with exactly the solutions of the equations, one that fails had *)
(* no solution.  A packed string stands for the list of its characters     *)
(* (trilog.h: STR), and the two representations meet in unify(); an        *)
(* integer is the atom of its name there, and a float is only itself.      *)
(***************************************************************************)
EXTENDS Terms

CONSTANTS
  VarCount,     \* variables
  MaxEquations  \* bound of the model: unifications in a row

ASSUME UnificationAssumption == VarCount \in Nat /\ MaxEquations \in Nat

VARIABLES
  trail,      \* the bindings made so far
  outcome,    \* "ok" as long as every unification succeeded
  equations   \* history: what has been unified

vars == <<trail, outcome, equations>>

Vars == {Var(id, FALSE, 0) : id \in 1 .. VarCount}
Leaves == Vars \cup {Const("a", 0), Const("[]", 0)}
Lists == {Func(".", <<x, y>>, 0) : x \in Vars \cup {Const("a", 0)},
                                   y \in Vars \cup {Const("[]", 0)}}
Strings == {Str(<< >>, 0), Str(<<"a">>, 0), Str(<<"a", "a">>, 0)}
Ones == {Const("1", 0), Number("INT", 2), Number("FLOAT", 2)}
Inputs == Leaves \cup Lists \cup Strings \cup Ones

\* X = Y, or a goal's argument against that of a clause head.  A unification
\* that makes the trail cyclic may run forever and is no step.
Unify(a, b) ==
  LET r == unify(a, b, trail, [at |-> 0, counter |-> VarCount + 1])
  IN /\ Acyclic(r.trail)
     /\ trail' = r.trail
     /\ outcome' = IF r.ok THEN "ok" ELSE "failed"
     /\ equations' = Append(equations, <<a, b>>)

Init == trail = << >> /\ outcome = "ok" /\ equations = << >>
Next == /\ outcome = "ok" /\ Len(equations) < MaxEquations
        /\ \E a, b \in Inputs : Unify(a, b)
Spec == Init /\ [][Next]_vars

-----------------------------------------------------------------------------
(* Ground terms, in which a list has one representation only               *)

Nil == <<"[]">>
Pair(h, t) == <<".", h, t>>
AtomA == <<"a">>
One == <<"1">>
Float(twice) == <<"FLOAT", twice>>
Ground == {AtomA, One, Float(2), Nil, Pair(AtomA, Nil),
           Pair(AtomA, Pair(AtomA, Nil))}

RECURSIVE Meaning(_, _)
Meaning(t, assignment) ==
  CASE t.type = "VAR"   -> assignment[t.id]
    [] is_named(t)      -> <<TextOf(t)>>
    [] t.type = "FLOAT" -> Float(t.twice)
    [] t.type = "STR"   -> FoldRight(LAMBDA c, rest : Pair(<<c>>, rest),
                                     t.chars, Nil)
    [] t.type = "FUNC"  -> Pair(Meaning(t.args[1], assignment),
                                Meaning(t.args[2], assignment))

Solves(assignment, a, b) == Meaning(a, assignment) = Meaning(b, assignment)

Assignments == [1 .. VarCount -> Ground]

\* unify() is sound and loses no solution, whatever the order of the arguments,
\* the bindings it finds, the representation of the lists and the types of the
\* numbers (unify.c:3-93).
MostGeneral ==
  equations = << >> \/ \A s \in Assignments :
    (\A i \in DOMAIN equations : Solves(s, equations[i][1], equations[i][2]))
    <=> /\ outcome = "ok"
        /\ \A i \in DOMAIN trail :
             Solves(s, Var(trail[i].var_id, FALSE, 0), trail[i].value)
=============================================================================
