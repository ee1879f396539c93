------------------------------- MODULE Trail -------------------------------
(***************************************************************************)
(* The binding trail as the solver uses it: unification pushes bindings,   *)
(* backtracking cuts the trail back to the mark of the newest choice       *)
(* point, and last-call reclaiming drops a window at its end after         *)
(* rewriting what refers to it.  Which terms are unified, when a choice    *)
(* point is kept and how far a window reaches are nondeterministic.        *)
(* VarsOf is VarIds here.                                                  *)
(*                                                                         *)
(* There is no occurs check, and a variable can even be bound to itself    *)
(* (TODO lists X = X): deref() and unify() then run forever.  Such a       *)
(* unification is not a step of this module.                               *)
(***************************************************************************)
EXTENDS Terms, TrailIndex

CONSTANT MaxDepth   \* bound of the model: nesting of a binding's value

ASSUME DepthAssumption == MaxDepth \in Nat

VarTerm(id) == Var(id, id <= QueryVars, 0)
Variables == {VarTerm(id) : id \in Known}
Inputs == {Const("a", 0)} \cup Variables
          \cup {Func("f", <<x>>, 0) : x \in Variables}

\* What unify(a, b) does to the trail, if it comes to an end.
Unified(a, b) ==
  {r \in {unify(a, b, bindings, [at |-> 0, counter |-> var_counter])} :
     Acyclic(r.trail) /\ Len(r.trail) <= MaxBindings}

Unify(a, b) ==
  \E r \in Unified(a, b) :
    /\ r.ok
    /\ bindings' = r.trail
    /\ EnterSlots(bindings, r.trail)
    /\ UNCHANGED <<var_counter, choices>>

\* The caller cuts the trail back to where the attempt began.
UnifyFails(a, b) ==
  \E r \in Unified(a, b) :
    /\ ~r.ok
    /\ EnterSlots(bindings, r.trail)
    /\ UNCHANGED <<bindings, var_counter, choices>>

\* Mutant: a patched binding keeps its ceiling.
Patched_OldCeiling(b) ==
  [b EXCEPT !.value = substitute(bindings, b.value, 0)]

\* Mutant: bindings are followed, but not inside a structure.
Patched_Shallow(b) ==
  [b EXCEPT !.value = deref(bindings, b.value), !.var_ceiling = var_counter]

\* The value may now hold newer variables than when b was made.
Patched(b) ==
  [b EXCEPT !.value = substitute(bindings, b.value, 0),
            !.var_ceiling = var_counter]

Patch(b, from) ==
  IF \/ b.var_ceiling <= window_min_var_id(from)
     \/ ~term_refs_range(bindings, b.value, from, Len(bindings))
  THEN b ELSE Patched(b)

\* The dropped bindings take their variables with them; whoever still needs
\* those has been rewritten.
Reclaim(from) ==
  /\ MayReclaim(from)
  /\ bindings' = [i \in 1 .. from |-> Patch(bindings[i], from)]
  /\ \A i \in 1 .. from : Depth(bindings'[i].value) <= MaxDepth
  /\ UNCHANGED <<var_bind_index, var_counter, choices>>

Next ==
  \/ NewVar
  \/ \E a \in Variables, b \in Inputs : Unify(a, b) \/ UnifyFails(a, b)
  \/ Push \/ Backtrack
  \/ \E from \in 0 .. MaxBindings : Reclaim(from)

Spec == Init /\ [][Next]_vars

-----------------------------------------------------------------------------
(* Correctness                                                             *)

Values(trail, ids) == [id \in ids |-> Value(trail, VarTerm(id))]

\* Reclaiming a window changes the value of no variable but those it drops.
ReclaimInvisible ==
  [][Reclaiming =>
       LET kept == Known \ Dropped
       IN Values(bindings', kept) = Values(bindings, kept)]_vars

\* Nor does it change what backtracking to the newest choice point will find:
\* "LCO must not break backtracking" (test/solver_quad.pl:169).
ChoiceIntact ==
  [][Reclaiming =>
       LET AtChoice(trail) == Values(SubSeq(trail, 1, newest_mark), Known)
       IN AtChoice(bindings') = AtChoice(bindings)]_vars
=============================================================================
