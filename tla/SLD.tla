-------------------------------- MODULE SLD --------------------------------
(***************************************************************************)
(* What a query means: depth-first, left-to-right SLD resolution with cut, *)
(* if-then-else, negation, findall/3 and exceptions, written as a function *)
(* from a program and a list of goals to the sequence of answers, with     *)
(* substitutions instead of a trail and no stack to prune.  It is what the *)
(* solver of solve.c promises (README.md:183-185).                         *)
(*                                                                         *)
(* catch/3, once/1, with_output_to/2 and the conditions of if-then-else    *)
(* commit to the first solution of their goal.                             *)
(***************************************************************************)
EXTENDS Terms

\* A point of the computation: the substitution, and the next new variable.
Point(s, next) == [s |-> s, next |-> next]

\* The answers in order; whether a cut was executed that prunes what is to the
\* left of the goal; the ball that ended the computation, if any (a set).
Outcome(answers, cut, balls) == [answers |-> answers, cut |-> cut,
                                 balls |-> balls]
Fails == Outcome(<< >>, FALSE, {})
Succeeds(p) == Outcome(<< p >>, FALSE, {})
Throws(ball) == Outcome(<< >>, FALSE, {ball})

Atom(name) == Const(name, 0)
ErrorBall(what) == Func("error", << Atom(what), Atom("context") >>, 0)

RECURSIVE Walk(_, _)
Walk(s, t) == IF t.type = "VAR" /\ t.id \in DOMAIN s THEN Walk(s, s[t.id])
              ELSE t

RECURSIVE Resolved(_, _)
Resolved(s, t) ==
  LET w == Walk(s, t)
  IN IF w.type = "FUNC"
     THEN Func(w.name, [i \in DOMAIN w.args |-> Resolved(s, w.args[i])], 0)
     ELSE w

\* The most general unifier of a list of pairs, if there is one (a set).
RECURSIVE Unifier(_, _)
Unifier(pairs, s) ==
  IF pairs = << >> THEN {s}
  ELSE LET a == Walk(s, pairs[1][1])
           b == Walk(s, pairs[1][2])
           rest == Tail(pairs)
       IN CASE a.type = "VAR" ->
                 Unifier(rest, IF b.type = "VAR" /\ a.id = b.id THEN s
                               ELSE s @@ (a.id :> b))
            [] a.type # "VAR" /\ b.type = "VAR" ->
                 Unifier(rest, s @@ (b.id :> a))
            [] a.type = "CONST" /\ b.type = "CONST" ->
                 IF a.name = b.name THEN Unifier(rest, s) ELSE {}
            [] a.type = "FUNC" /\ b.type = "FUNC" ->
                 IF a.name = b.name /\ Arity(a) = Arity(b)
                 THEN Unifier(Zip(a.args, b.args) \o rest, s) ELSE {}
            [] OTHER -> {}

Renamed(t, next) ==
  rename_vars_mapped(t, [id \in VarIds(t) |-> next + id], FALSE, 0)

\* A new variable above all those of a term.
Above(t) == Max(VarIds(t) \cup {0}) + 1

Same(t, name, arity) ==
  t.type \in {"CONST", "FUNC"} /\ t.name = name /\ Arity(t) = arity

FirstOnly(o) ==
  IF o.answers = << >> THEN o ELSE Outcome(<< o.answers[1] >>, FALSE, {})
Opaque(o) == [o EXCEPT !.cut = FALSE]

ListOf(ts) == FoldRight(LAMBDA t, rest : Func(".", <<t, rest>>, 0), ts,
                        Atom("[]"))

RECURSIVE Conj(_, _, _), Each(_, _, _), Goal(_, _, _), Resolve(_, _, _, _)

\* All solutions of a list of goals from a point on.
Conj(program, goals, p) ==
  IF goals = << >> THEN Succeeds(p)
  ELSE LET first == Goal(program, goals[1], p)
           rest == Each(program, Tail(goals), first.answers)
       IN IF rest.cut \/ rest.balls # {}
          THEN [rest EXCEPT !.cut = rest.cut \/ first.cut]
          ELSE Outcome(rest.answers, first.cut, first.balls)

\* The rest of the goals from each point in turn, until one cuts or throws.
Each(program, goals, points) ==
  IF points = << >> THEN Fails
  ELSE LET one == Conj(program, goals, points[1])
           others == Each(program, goals, Tail(points))
       IN IF one.cut \/ one.balls # {} THEN one
          ELSE [others EXCEPT !.answers = one.answers \o others.answers]

\* The clauses of a predicate in turn, until the body of one cuts.
Resolve(program, clauses, t, p) ==
  IF clauses = << >> THEN Fails
  ELSE LET clause == Func("clause", << clauses[1].head >> \o clauses[1].body, 0)
           copy == Renamed(clause, p.next).args
           next == p.next + Above(clause)
           tried == {Conj(program, Tail(copy), Point(s, next)) :
                       s \in Unifier(<< <<t, copy[1]>> >>, p.s)}
           others == Resolve(program, Tail(clauses), t, p)
       IN IF tried = {} THEN others
          ELSE LET one == CHOOSE o \in tried : TRUE
               IN IF one.cut \/ one.balls # {} THEN Opaque(one)
                  ELSE [others EXCEPT !.answers = one.answers \o @]

\* A plain disjunction.
Or(left, right) ==
  IF left.cut \/ left.balls # {} THEN left
  ELSE [right EXCEPT !.answers = left.answers \o @]

Goal(program, goal, p) ==
  LET t == Walk(p.s, goal)
      arg(i) == Walk(p.s, t.args[i])
      all(g) == Conj(program, << g >>, p)
      first(g) == FirstOnly(all(g))
      then(c, g) == Conj(program, << g >>, c.answers[1])
      is_if(g) == Same(g, "->", 2)
      predicate == SelectSeq(program, LAMBDA c : Same(t, c.head.name,
                                                      Arity(c.head)))
  IN CASE Same(t, "true", 0) -> Succeeds(p)
       [] Same(t, "fail", 0) -> Fails
       [] Same(t, "!", 0) -> Outcome(<< p >>, TRUE, {})
       [] Same(t, ",", 2) -> Conj(program, t.args, p)
       [] Same(t, ";", 2) /\ is_if(arg(1)) ->
            LET c == first(arg(1).args[1])
            IN IF c.answers # << >> THEN then(c, arg(1).args[2])
               ELSE IF c.balls # {} THEN Opaque(c) ELSE all(arg(2))
       [] Same(t, ";", 2) /\ ~is_if(arg(1)) -> Or(all(arg(1)), all(arg(2)))
       [] is_if(t) ->
            LET c == first(arg(1))
            IN IF c.answers # << >> THEN then(c, arg(2)) ELSE Opaque(c)
       [] Same(t, "call", 1) ->
            IF arg(1).type = "VAR" THEN Throws(ErrorBall("instantiation_error"))
            ELSE Opaque(all(arg(1)))
       [] Same(t, "once", 1) ->
            IF arg(1).type = "VAR" THEN Throws(ErrorBall("instantiation_error"))
            ELSE Opaque(first(arg(1)))
       [] Same(t, "\\+", 1) ->
            LET c == first(arg(1))
            IN IF c.answers # << >> THEN Fails
               ELSE IF c.balls # {} THEN Opaque(c) ELSE Succeeds(p)
       [] Same(t, "with_output_to", 2) ->
            LET c == first(arg(2))
            IN IF c.answers = << >> THEN Opaque(c)
               ELSE Goal(program, Func("=", << arg(1).args[1], Atom("text") >>,
                                       0), c.answers[1])
       [] Same(t, "=", 2) ->
            LET S == Unifier(<< t.args >>, p.s)
            IN IF S = {} THEN Fails
               ELSE Succeeds(Point(CHOOSE s \in S : TRUE, p.next))
       [] Same(t, "findall", 3) ->
            LET c == all(arg(2))
                copies == [i \in DOMAIN c.answers |->
                             Resolved(c.answers[i].s, t.args[1])]
                \* the copies' unbound variables become new ones
                copy == Renamed(ListOf(copies), p.next)
            IN IF c.balls # {} THEN Outcome(<< >>, FALSE, c.balls)
               ELSE Goal(program, Func("=", << t.args[3], copy >>, 0),
                         Point(p.s, p.next + Above(ListOf(copies))))
       [] Same(t, "throw", 1) -> Throws(Resolved(p.s, arg(1)))
       [] Same(t, "catch", 3) ->
            LET c == first(arg(1))
                ball == CHOOSE b \in c.balls : TRUE
                U == Unifier(<< <<t.args[2], ball>> >>, p.s)
            IN IF c.balls = {} THEN Opaque(c)
               ELSE IF U = {} THEN Throws(ball)
               ELSE Conj(program, << arg(3) >>,
                         Point(CHOOSE s \in U : TRUE,
                               Max({p.next, Above(ball)})))
       [] predicate = << >> -> Throws(ErrorBall("existence_error"))
       [] OTHER -> Resolve(program, predicate, t, p)
=============================================================================
