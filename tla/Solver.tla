------------------------------- MODULE Solver -------------------------------
(***************************************************************************)
(* solve_all (solve.c) on real terms: a goal list, a stack of frames, the  *)
(* binding trail, the temporary term pool, cut, last-call reclaiming, and  *)
(* the constructs that call solve_all again.  One action per label and per *)
(* way through it, as in SolveMarks, which this module implements; the     *)
(* answers are compared with those of SLD.                                 *)
(*                                                                         *)
(* A cell of the pool carries the serial number of the batch (the step) it *)
(* was allocated in, and the pool is the sequence of the batches it holds, *)
(* so that a cell whose batch is gone is a dangling pointer.  The pool is  *)
(* large enough here; SolveMarks has the steps that run out of it.         *)
(***************************************************************************)
EXTENDS SLD

CONSTANTS
  Library,   \* the clauses every program has
  Scripts,   \* the sessions' queries: a program's other clauses and a goal list
  QueryVars  \* the variables 1 .. QueryVars of a query are named

None == [type |-> "NONE", at |-> 0]

VARIABLES
  program, query,      \* ctx->database and the query that is running
  pc,                  \* as in SolveMarks
  cn, stack, cut_point, reclaim_mark, found_any,  \* locals of solve_all
  clause_idx, env_mark, ret,
  callers,             \* suspended activations, innermost last
  bindings, var_counter, bind_floor, nest_depth,
  pool, fresh,         \* batches in the temporary pool; the next batch
  term_floor,
  template, touched,   \* protect_template and protect_template_touched
  collected,           \* the answers findall/3 has collected, newest first
  has_error, ball,
  answers, anomalies   \* history: what was answered; known defects that struck

activation == <<cn, stack, cut_point, reclaim_mark, found_any>>
locals == <<activation, clause_idx, env_mark>>
nesting == <<callers, bind_floor, nest_depth, template, touched, collected,
             term_floor>>
errors == <<has_error, ball>>
input == <<program, query>>
vars == <<input, pc, locals, ret, nesting, bindings, var_counter, pool, fresh,
          errors, answers, anomalies>>

InlineKinds == {"catch", "ite", "if"}
Kind == IF callers = << >> THEN "top" ELSE Last(callers).kind
Bound == Len(bindings)
Newest == Last(stack)

\* term_alloc() in this step: a batch of its own.
Alloc == pool' = Append(pool, fresh) /\ fresh' = fresh + 1
NoAlloc == UNCHANGED <<pool, fresh>>

\* A copy of a term that lives in the given batch.
Stamped(t, at) == rename_vars_mapped(t, [id \in VarIds(t) |-> id], TRUE, at)

\* Goals with the stack height a cut in them has to restore; the code keeps
\* one cut_point for the whole list instead.
Goals(ts, bar) == [i \in DOMAIN ts |-> [t |-> ts[i], bar |-> bar]]
List(goals, at) == [goals |-> goals, at |-> at]

first_goal == deref(bindings, Head(cn.goals).t)
bar == Head(cn.goals).bar
remaining == Tail(cn.goals)
Is(name, arity) == Same(first_goal, name, arity)
argument(i) == deref(bindings, first_goal.args[i])
is_ite == Is(";", 2) /\ Same(argument(1), "->", 2)

-----------------------------------------------------------------------------
(* Entering and leaving solve_all                                          *)

EnterSolve(goals, bound, offset) ==
  /\ cn' = goals
  /\ stack' = << [goals |-> goals, clause_index |-> 0, env_mark |-> bound,
                  cut_point |-> 1, term_mark |-> offset] >>
  /\ cut_point' = 1
  /\ reclaim_mark' = bound
  /\ found_any' = FALSE
  /\ clause_idx' = 0 /\ env_mark' = 0

NoGoals == List(<< >>, 0)
Return(value) == pc' = "return" /\ ret' = value

\* trilog_exec_query_multi().  The model numbers variables and batches from 1
\* again; the code goes on counting, and only the order of the numbers matters.
\* Nothing of an earlier query is left but a stale ball, whose cells have been
\* given back.
StartQuery ==
  /\ pc = "idle"
  /\ \E s \in Scripts :
       /\ query' = s.goals
       /\ program' = Library \o s.clauses
       /\ EnterSolve(List(Goals([i \in DOMAIN s.goals |->
                                   Stamped(s.goals[i], 1)], 1), 1), 0, 1)
  /\ pool' = << 1 >> /\ fresh' = 2
  /\ bindings' = << >> /\ var_counter' = QueryVars + 1
  /\ has_error' = FALSE
  /\ answers' = << >> /\ anomalies' = {}
  /\ pc' = "A"
  /\ UNCHANGED <<ret, nesting, ball>>

\* toplevel_query(): thrown_ball is left as it is.
Garbage == Atom("garbage")

EndQuery ==
  /\ pc = "return" /\ callers = << >>
  /\ pc' = "idle" /\ ret' = FALSE
  /\ program' = Library /\ query' = << >>
  /\ ball' = IF ball = None THEN None ELSE Garbage
  /\ EnterSolve(NoGoals, 0, 0)
  /\ pool' = << >> /\ fresh' = 1
  /\ bindings' = << >> /\ var_counter' = 1
  /\ has_error' = FALSE
  /\ answers' = << >> /\ anomalies' = {}
  /\ UNCHANGED nesting

-----------------------------------------------------------------------------
(* Label A                                                                 *)

\* What print_bindings() shows of the query's variables: variables that are
\* unbound are numbered in the order in which they are met.
RECURSIVE Numbering(_, _)
Numbering(ts, seen) ==
  IF ts = << >> THEN seen
  ELSE LET t == Head(ts)
       IN CASE t.type = "VAR" ->
                 Numbering(Tail(ts), IF Contains(seen, t.id) THEN seen
                                     ELSE Append(seen, t.id))
            [] t.type = "FUNC" -> Numbering(t.args \o Tail(ts), seen)
            [] OTHER -> Numbering(Tail(ts), seen)

Canonical(ts) ==
  LET ids == Numbering(ts, << >>)
      map == [id \in ToSet(ids) |-> CHOOSE i \in DOMAIN ids : ids[i] = id]
  IN [k \in DOMAIN ts |->
        Value(<< >>, rename_vars_mapped(ts[k], map, FALSE, 0))]

QueryTerms == [id \in 1 .. QueryVars |-> Var(id, TRUE, 0)]
Answer == Canonical([id \in 1 .. QueryVars |->
                       substitute(bindings, QueryTerms[id], 0)])

NoGoal == pc = "A" /\ cn.goals = << >>

\* A condition, a guarded goal, \+: the first solution is enough.  The toplevel
\* prints the answer and goes on if a frame is left.
Solution ==
  /\ NoGoal
  /\ found_any' = TRUE
  /\ IF Kind = "top"
     THEN /\ answers' = Append(answers, Answer)
          /\ IF Len(stack) > 1 THEN pc' = "C" /\ UNCHANGED ret ELSE Return(TRUE)
     ELSE Return(TRUE) /\ UNCHANGED answers
  /\ Kind # "findall"
  /\ UNCHANGED <<input, cn, stack, cut_point, reclaim_mark, clause_idx,
                 env_mark, nesting, bindings, var_counter, pool, fresh, errors,
                 anomalies>>

\* findall_callback(): a resolved copy of the template, above the pool floor.
Collect ==
  /\ NoGoal /\ Kind = "findall"
  /\ found_any' = TRUE
  /\ collected' = Func(".", << substitute(bindings, template, fresh),
                               collected >>, fresh)
  /\ Alloc
  /\ term_floor' = Len(pool')
  /\ pc' = "C"
  /\ UNCHANGED <<input, cn, stack, cut_point, reclaim_mark, clause_idx,
                 env_mark, ret, callers, bind_floor, nest_depth, template,
                 touched, bindings, var_counter, errors, answers, anomalies>>

AtGoal == pc = "A" /\ cn.goals # << >>

\* The first goal is replaced by others, in a new goal array.
ReplaceBy(goals) == cn' = List(goals \o remaining, fresh) /\ Alloc

Cut ==
  /\ AtGoal /\ Is("!", 0)
  /\ stack' = SubSeq(stack, 1, cut_point)
  /\ ReplaceBy(<< >>)
  /\ anomalies' = anomalies \cup (IF cut_point # bar THEN {"cut"} ELSE {})
  /\ UNCHANGED <<input, pc, cut_point, reclaim_mark, found_any, clause_idx,
                 env_mark, ret, nesting, bindings, var_counter, errors,
                 answers>>

\* call/1 is opaque to cut by the standard, (,)/2 is not.
Rewrite ==
  /\ AtGoal
  /\ \/ Is("call", 1) /\ argument(1).type # "VAR"
        /\ ReplaceBy(Goals(<< argument(1) >>, Len(stack)))
     \/ Is(",", 2) /\ ReplaceBy(Goals(<< argument(1), argument(2) >>, bar))
  /\ UNCHANGED <<input, pc, stack, cut_point, reclaim_mark, found_any,
                 clause_idx, env_mark, ret, nesting, bindings, var_counter,
                 errors, answers, anomalies>>

Raise(what) ==
  /\ has_error' = TRUE
  /\ ball' = Stamped(what, fresh)
  /\ Alloc
  /\ Return(FALSE)

CallOfVariable ==
  /\ AtGoal /\ Is("call", 1) /\ argument(1).type = "VAR"
  /\ Raise(ErrorBall("instantiation_error"))
  /\ UNCHANGED <<input, locals, nesting, bindings, var_counter, answers,
                 anomalies>>

\* (;)/2: the goals of the second branch are allocated first and the frame is
\* marked above them.
Disjunction ==
  /\ AtGoal /\ Is(";", 2) /\ ~is_ite
  /\ stack' = Append(stack,
       [goals |-> List(Goals(<< argument(2) >>, bar) \o remaining, fresh),
        clause_index |-> 0, env_mark |-> Bound, cut_point |-> cut_point,
        term_mark |-> Len(pool) + 1])
  /\ cn' = List(Goals(<< argument(1) >>, bar) \o remaining, fresh + 1)
  /\ pool' = pool \o << fresh, fresh + 1 >> /\ fresh' = fresh + 2
  /\ reclaim_mark' = Bound
  /\ UNCHANGED <<input, pc, cut_point, found_any, clause_idx, env_mark, ret,
                 nesting, bindings, var_counter, errors, answers, anomalies>>

\* A nested solve() or solve_all() for one goal.
Counts(kind) == IF kind = "capture" THEN 0 ELSE 1

\* The terms that are needed afterwards are fetched before the nested solve.
Held(kind) ==
  CASE kind = "catch"   -> << first_goal.args[2], argument(3) >>
    [] kind = "ite"     -> << deref(bindings, argument(1).args[2]),
                              argument(2) >>
    [] kind = "if"      -> << argument(2) >>
    [] kind = "findall" -> << first_goal.args[3] >>
    [] kind = "capture" -> << argument(1).args[1] >>
    [] OTHER            -> << >>

Suspend(kind) ==
  callers' = Append(callers,
    [kind |-> kind, held |-> Held(kind), cn |-> cn, stack |-> stack,
     cut_point |-> cut_point, reclaim_mark |-> reclaim_mark,
     found_any |-> found_any, emark |-> Bound, bind_floor |-> bind_floor,
     term_floor |-> term_floor, template |-> template, touched |-> touched,
     collected |-> collected, var_counter |-> var_counter])

Enter(kind, goal) ==
  /\ Suspend(kind)
  /\ nest_depth' = nest_depth + Counts(kind)
  /\ EnterSolve(List(Goals(<< goal >>, 1), fresh), Bound, Len(pool) + 1)
  /\ Alloc
  /\ pc' = "A"
  /\ UNCHANGED <<input, ret, bindings, term_floor, errors, answers, anomalies>>

\* Mutant: a condition without an else branch leaves bind_floor alone.
RaisedFloor_NotIf(kind) ==
  IF kind \in {"catch", "ite"} THEN Max({Bound, bind_floor}) ELSE bind_floor

RaisedFloor(kind) ==
  IF kind \in InlineKinds THEN Max({Bound, bind_floor}) ELSE bind_floor

Nest(kind, goal) ==
  /\ Enter(kind, goal)
  /\ bind_floor' = RaisedFloor(kind)
  /\ UNCHANGED <<var_counter, template, touched, collected>>

NestInline ==
  /\ AtGoal
  /\ \/ Is("catch", 3) /\ Nest("catch", argument(1))
     \/ is_ite /\ Nest("ite", deref(bindings, argument(1).args[1]))
     \/ Is("->", 2) /\ Nest("if", argument(1))

Inlined == \/ Is("!", 0) \/ Is("call", 1) \/ Is(",", 2) \/ Is("catch", 3)
           \/ Is(";", 2) \/ Is("->", 2)

Select ==
  /\ AtGoal /\ ~Inlined
  /\ pc' = "B"
  /\ clause_idx' = 0
  /\ env_mark' = Bound
  /\ UNCHANGED <<input, activation, ret, nesting, bindings, var_counter, pool,
                 fresh, errors, answers, anomalies>>

-----------------------------------------------------------------------------
(* Unification and clause selection                                        *)

\* What unify(a, b) does from a trail on; there are no strings here.  There is
\* no occurs check, and a variable can be bound to itself: on a cyclic trail
\* deref() or substitute() runs forever (Hang).
UnifyFrom(a, b, trail) ==
  unify(a, b, trail, [at |-> fresh, counter |-> var_counter])

Unified(a, b, trail) ==
  {r \in {UnifyFrom(a, b, trail)} : Acyclic(r.trail)}

\* bind() notes that the variable findall/3 collects has been bound.
Touches(old, new) ==
  \E i \in Len(old) + 1 .. Len(new) :
    template # None /\ template.type = "VAR" /\ new[i].var_id = template.id

SetTrail(trail) ==
  /\ bindings' = trail
  /\ touched' = (touched \/ Touches(bindings, trail))

Builtins == {<<"true", 0>>, <<"fail", 0>>, <<"=", 2>>, <<"once", 1>>,
             <<"\\+", 1>>, <<"with_output_to", 2>>, <<"findall", 3>>,
             <<"throw", 1>>}
Builtin == \E b \in Builtins : Is(b[1], b[2])

\* The clauses whose head has the goal's name and arity.
Clauses == {i \in DOMAIN program : Is(program[i].head.name,
                                      Arity(program[i].head))}

\* son()'s loop: try the clauses from index i on against the goal, each with
\* new variables for its head.  idx is 0 when none matches.
RECURSIVE Match(_, _)
Match(i, counter) ==
  LET undone == SubSeq(bindings, 1, env_mark)
      ids == VarIds(program[i].head)
      head == rename_vars_mapped(program[i].head, FreshMap(ids, counter),
                                 FALSE, fresh)
      next == counter + Cardinality(ids)
      r == unify(Head(cn.goals).t, head, undone,
                 [at |-> fresh, counter |-> next])
  IN CASE i > Len(program) -> [idx |-> 0, trail |-> undone, first |-> counter,
                               counter |-> counter]
       [] i <= Len(program) /\ i \notin Clauses -> Match(i + 1, counter)
       [] i \in Clauses /\ ~r.ok -> Match(i + 1, next)
       [] i \in Clauses /\ r.ok -> [idx |-> i, trail |-> r.trail,
                                    first |-> counter, counter |-> next]

\* The renamed body: the head's variables keep the numbers they were given.
\* A clause's variables are numbered in the order in which they occur.
Body(m, at) ==
  LET c == program[m.idx]
      ids == UNION {VarIds(c.body[j]) : j \in DOMAIN c.body}
      map == FreshMap(ids \cup VarIds(c.head), m.first)
  IN [goals |-> [j \in DOMAIN c.body |->
                   rename_vars_mapped(c.body[j], map, FALSE, at)],
      counter |-> m.first + Cardinality(DOMAIN map)]

\* First-argument indexing, with the goal as it was before the match.  (With
\* packed strings, two lists or two empty lists never exclude each other.)
deref_before(t) == deref(SubSeq(bindings, 1, env_mark), t)

Excluded(goal, head) ==
  /\ Arity(goal) > 0
  /\ LET a == deref_before(goal.args[1])
         b == head.args[1]
     IN a.type # "VAR" /\ b.type # "VAR" /\ ~(a.type = b.type /\ a.name = b.name)

\* Mutant: the clause right after the one tried is overlooked.
has_more_alternatives_SkipsOne(goal, from) ==
  \E i \in Clauses : i > from /\ ~Excluded(goal, program[i].head)

has_more_alternatives(goal, from) ==
  \E i \in Clauses : i >= from /\ ~Excluded(goal, program[i].head)

-----------------------------------------------------------------------------
(* Label B: builtins                                                       *)

AtBuiltin == pc = "B" /\ clause_idx = 0
LeaveB == clause_idx' = 0 /\ env_mark' = 0

\* once/1, \+/1 and with_output_to/2 solve their goal where they are; a
\* variable is not callable (with_output_to/2 does not look).
NestBuiltin ==
  /\ AtBuiltin
  /\ \/ Is("once", 1) /\ argument(1).type # "VAR" /\ Nest("once", argument(1))
     \/ Is("\\+", 1) /\ argument(1).type # "VAR" /\ Nest("not", argument(1))
     \/ Is("with_output_to", 2) /\ Nest("capture", argument(2))

\* findall/3 solves a renamed, resolved copy of the goal, and protects the
\* template from last-call reclaiming.
NestFindall ==
  /\ AtBuiltin /\ Is("findall", 3)
  /\ LET t == substitute(bindings, argument(1), fresh)
         g == substitute(bindings, argument(2), fresh)
         ids == VarIds(t) \cup VarIds(g)
         Copy(x) == rename_vars_mapped(x, FreshMap(ids, var_counter), TRUE,
                                       fresh)
     IN /\ Enter("findall", Copy(g))
        /\ template' = Copy(t)
        /\ touched' = (t.type # "VAR")
        /\ var_counter' = var_counter + Cardinality(ids)
  /\ collected' = Atom("[]")
  /\ UNCHANGED bind_floor

BuiltinOk ==
  /\ AtBuiltin
  /\ \/ Is("true", 0) /\ UNCHANGED <<bindings, touched>>
     \/ Is("=", 2) /\ \E r \in Unified(argument(1), argument(2), bindings) :
                        r.ok /\ SetTrail(r.trail)
  /\ ReplaceBy(<< >>)
  /\ pc' = "A"
  /\ LeaveB
  /\ UNCHANGED <<input, stack, cut_point, reclaim_mark, found_any, ret, callers,
                 bind_floor, nest_depth, template, collected, term_floor,
                 var_counter, errors, answers, anomalies>>

BuiltinFail ==
  /\ AtBuiltin
  /\ \/ Is("fail", 0) /\ UNCHANGED <<bindings, touched>>
     \/ Is("=", 2) /\ \E r \in Unified(argument(1), argument(2), bindings) :
                        ~r.ok /\ SetTrail(r.trail)
  /\ pc' = "C"
  /\ LeaveB
  /\ UNCHANGED <<input, activation, ret, callers, bind_floor, nest_depth,
                 template, collected, term_floor, var_counter, pool, fresh,
                 errors, answers, anomalies>>

\* throw/1, a goal that is not callable, an undefined procedure.
Error ==
  CASE Is("throw", 1) -> {substitute(bindings, argument(1), fresh)}
    [] (Is("once", 1) \/ Is("\\+", 1)) /\ argument(1).type = "VAR" ->
         {ErrorBall("instantiation_error")}
    [] ~Builtin /\ Clauses = {} -> {ErrorBall("existence_error")}
    [] OTHER -> {}

SonError ==
  /\ AtBuiltin
  /\ \E e \in Error : Raise(e)
  /\ LeaveB
  /\ UNCHANGED <<input, activation, nesting, bindings, var_counter, answers,
                 anomalies>>

-----------------------------------------------------------------------------
(* Label B: clauses                                                        *)

ToClauses == pc = "B" /\ (clause_idx > 0 \/ (~Builtin /\ Clauses # {}))

NoClause(m) ==
  /\ m.idx = 0
  /\ bindings' = m.trail
  /\ var_counter' = m.counter
  /\ pc' = "C"
  /\ LeaveB
  /\ UNCHANGED <<input, activation, ret, nesting, pool, fresh, errors, answers,
                 anomalies>>

\* What follows a match: `m' is the match, `body' the renamed body.
more(m) == has_more_alternatives(first_goal, m.idx + 1)
body_goals(m, at) == Goals(Body(m, at).goals, Len(stack))
Empty(m) == program[m.idx].body = << >> /\ remaining = << >>

\* The resolvent becomes the goal list.
GoOn(m) ==
  /\ cn' = List(body_goals(m, fresh) \o remaining, fresh)
  /\ var_counter' = Body(m, fresh).counter

Keep(m) == SetTrail(m.trail) /\ Alloc

NextGoal ==
  /\ pc' = "A"
  /\ LeaveB
  /\ UNCHANGED <<input, found_any, ret, callers, bind_floor, nest_depth,
                 template, collected, term_floor, errors, answers>>

MatchPush(m) ==
  /\ m.idx > 0 /\ more(m)
  /\ GoOn(m) /\ Keep(m)
  /\ stack' = Append(stack, [goals |-> cn, clause_index |-> m.idx,
                             env_mark |-> env_mark, cut_point |-> cut_point,
                             term_mark |-> Len(pool)])
  /\ cut_point' = Len(stack)
  /\ reclaim_mark' = env_mark
  /\ UNCHANGED anomalies
  /\ NextGoal

\* No named variable in the window [from, to), and nothing the template of an
\* active findall/3 is chained to.
lco_safe(trail, from, to) ==
  /\ \A i \in from + 1 .. to : ~trail[i].named
  /\ ~ /\ template # None
       /\ touched \/ Touches(bindings, trail)
       /\ chain_hits_window(trail, template, from, to)

reclaim_floor_ok == reclaim_mark > bind_floor \/ nest_depth = 0

\* Something has been bound since reclaim_mark and may be given back.
Window(m) == /\ m.idx > 0 /\ ~more(m)
             /\ Len(m.trail) > reclaim_mark
             /\ ~Empty(m) /\ reclaim_floor_ok

\* A named variable blocks the window: stop tracking the older part of it, or
\* all of it.
MatchGiveUp(m) ==
  /\ Window(m) /\ ~lco_safe(m.trail, reclaim_mark, Len(m.trail))
  /\ GoOn(m) /\ Keep(m)
  /\ reclaim_mark' = IF lco_safe(m.trail, env_mark, Len(m.trail))
                     THEN env_mark ELSE Len(m.trail)
  /\ UNCHANGED <<stack, cut_point, anomalies>>
  /\ NextGoal

\* The rewriting of an older binding, in a batch of its own.
Patch(m, b, at) ==
  LET from == reclaim_mark
      to == Len(m.trail)
      window_min_var_id == Min({m.trail[i].var_id : i \in from + 1 .. to})
  IN IF \/ b.var_ceiling <= window_min_var_id
        \/ ~term_refs_range(m.trail, b.value, from, to)
     THEN b
     ELSE [b EXCEPT !.value = substitute(m.trail, b.value, at),
                    !.var_ceiling = Body(m, at).counter]

RECURSIVE Batches(_)
Batches(t) ==
  {t.at} \cup (IF t.type = "FUNC"
               THEN UNION {Batches(t.args[i]) : i \in DOMAIN t.args} ELSE {})

\* Known defects of last-call reclaiming.  "patch": it rewrites a binding that
\* is older than a choice point (or than the trail a suspended activation cuts
\* back to), and backtracking does not undo that.  "dropped": in a nested
\* activation it drops the binding of a variable that its caller knows, of
\* which only the bindings, not the caller's goals, are rewritten.
oldest_safe ==
  IF callers = << >> /\ Len(stack) = 1 THEN 0 ELSE Newest.env_mark

Rewrites(old, new) ==
  IF \E i \in 1 .. oldest_safe : new[i].value # old[i].value THEN {"patch"}
  ELSE {}

Drops(trail, from) ==
  IF /\ callers # << >> /\ Kind # "not"
     /\ \E i \in from + 1 .. Len(trail) :
          trail[i].var_id < Last(callers).var_counter
  THEN {"dropped"} ELSE {}

MatchReclaim(m) ==
  /\ Window(m) /\ lco_safe(m.trail, reclaim_mark, Len(m.trail))
  /\ LET resolvent == body_goals(m, fresh) \o remaining
         patched == [i \in 1 .. reclaim_mark |->
                       Patch(m, m.trail[i], fresh + 1)]
         allocated == \E i \in DOMAIN patched :
                        fresh + 1 \in Batches(patched[i].value)
         pool_ == pool \o (IF allocated THEN << fresh, fresh + 1 >>
                           ELSE << fresh >>)
     IN /\ cn' = List([j \in DOMAIN resolvent |->
                         [resolvent[j] EXCEPT
                            !.t = substitute(m.trail, @, fresh)]], fresh)
        /\ bindings' = patched
        /\ pool' = pool_ /\ fresh' = fresh + 2
        /\ stack' = IF allocated /\ Len(stack) > 1
                    THEN [stack EXCEPT ![Len(stack)].term_mark = Len(pool_)]
                    ELSE stack
        /\ anomalies' = anomalies \cup Rewrites(m.trail, patched)
                        \cup Drops(m.trail, reclaim_mark)
  /\ touched' = (touched \/ Touches(bindings, m.trail))
  /\ var_counter' = Body(m, fresh).counter
  /\ UNCHANGED <<cut_point, reclaim_mark>>
  /\ NextGoal

\* A deterministic tail call that bound nothing: trail and pool fall back to
\* where the activation started and the body is renamed again.
base_term == Max({stack[1].term_mark, term_floor})
base_env == Max({stack[1].env_mark, bind_floor})

TailReset(m) ==
  /\ m.idx > 0 /\ ~more(m) /\ ~Window(m)
  /\ Len(m.trail) = env_mark
  /\ ~Empty(m) /\ Len(stack) <= 1 /\ remaining = << >>
  /\ lco_safe(m.trail, base_env, Len(m.trail))

MatchTailReset(m) ==
  /\ TailReset(m)
  /\ LET again == [m EXCEPT !.first = Body(m, fresh).counter]
     IN /\ cn' = List(body_goals(again, fresh), fresh)
        /\ var_counter' = Body(again, fresh).counter
  /\ bindings' = SubSeq(m.trail, 1, base_env)
  /\ reclaim_mark' = base_env
  /\ pool' = Append(SubSeq(pool, 1, base_term), fresh) /\ fresh' = fresh + 1
  /\ anomalies' = anomalies \cup Drops(m.trail, base_env)
  /\ UNCHANGED <<stack, cut_point, touched>>
  /\ NextGoal

MatchLast(m) ==
  /\ m.idx > 0 /\ ~more(m) /\ ~Window(m) /\ ~TailReset(m)
  /\ GoOn(m) /\ Keep(m)
  /\ UNCHANGED <<stack, cut_point, reclaim_mark, anomalies>>
  /\ NextGoal

\* The match that son() finds, if its unification comes to an end.
Matches ==
  IF ToClauses
  THEN {m \in {Match(clause_idx + 1, var_counter)} : Acyclic(m.trail)} ELSE {}

-----------------------------------------------------------------------------
(* Label C                                                                 *)

Exhausted ==
  /\ pc = "C"
  /\ Len(stack) = 1
  /\ Return(found_any)
  /\ UNCHANGED <<input, locals, nesting, bindings, var_counter, pool, fresh,
                 errors, answers, anomalies>>

\* Mutant: backtracking inside findall/3 gives back collected answers.
RestoredPool_NoFloor == SubSeq(pool, 1, Newest.term_mark)

RestoredPool == SubSeq(pool, 1, Max({Newest.term_mark, term_floor}))

Backtrack ==
  /\ pc = "C" /\ Len(stack) > 1
  /\ stack' = Front(stack)
  /\ cn' = Newest.goals
  /\ clause_idx' = Newest.clause_index
  /\ env_mark' = IF Newest.clause_index = 0 THEN 0 ELSE Newest.env_mark
  /\ cut_point' = Newest.cut_point
  /\ pool' = RestoredPool
  /\ bindings' = SubSeq(bindings, 1, Newest.env_mark)
  /\ reclaim_mark' = Newest.env_mark
  /\ pc' = IF Newest.clause_index = 0 THEN "A" ELSE "B"
  /\ UNCHANGED <<input, found_any, ret, nesting, var_counter, fresh, errors,
                 answers, anomalies>>

-----------------------------------------------------------------------------
(* Returning from a nested solve_all                                       *)

caller == Last(callers)
Returning(kinds) == pc = "return" /\ callers # << >> /\ caller.kind \in kinds

\* The caller's locals come back; reclaim_mark is what the construct sets.
Resume(mark) ==
  /\ callers' = Front(callers)
  /\ stack' = caller.stack
  /\ cut_point' = caller.cut_point
  /\ found_any' = caller.found_any
  /\ reclaim_mark' = mark
  /\ bind_floor' = caller.bind_floor
  /\ nest_depth' = nest_depth - Counts(caller.kind)
  /\ term_floor' = caller.term_floor
  /\ template' = caller.template /\ touched' = caller.touched
  /\ collected' = caller.collected
  /\ LeaveB
  /\ UNCHANGED <<input, var_counter, answers>>

\* The caller goes on with its remaining goals, preceded by `ts'.
Proceed(ts) ==
  LET goals == caller.cn.goals
  IN /\ cn' = List(Goals(ts, goals[1].bar) \o Tail(goals), fresh)
     /\ Alloc
     /\ pc' = "A" /\ ret' = FALSE

\* The caller backtracks; its goal list is not used any more.
GoToC == pc' = "C" /\ ret' = FALSE /\ cn' = caller.cn /\ NoAlloc

\* The caller returns FALSE in turn.
PassOn == Return(FALSE) /\ cn' = caller.cn /\ NoAlloc

CutTrail == bindings' = SubSeq(bindings, 1, caller.emark)

\* catch/3, (C->T;E) and (C->T).
InlineSucceeds ==
  /\ Returning(InlineKinds) /\ ret
  /\ Resume(Bound)
  /\ Proceed(IF caller.kind = "catch" THEN << >> ELSE << caller.held[1] >>)
  /\ UNCHANGED <<bindings, errors, anomalies>>

ElseBranch ==
  /\ Returning({"ite"}) /\ ~ret /\ ball = None
  /\ Resume(Bound)
  /\ CutTrail
  /\ Proceed(<< caller.held[2] >>)
  /\ UNCHANGED <<errors, anomalies>>

InlineFails ==
  /\ Returning({"catch", "if"}) /\ ~ret /\ ball = None
  /\ Resume(Bound)
  /\ CutTrail
  /\ GoToC
  /\ UNCHANGED <<errors, anomalies>>

\* A ball may be one that an earlier query left behind.
Stale == IF has_error THEN {} ELSE {"stale"}

CondThrew ==
  /\ Returning({"ite", "if"}) /\ ~ret /\ ball # None
  /\ Resume(Bound)
  /\ PassOn
  /\ anomalies' = anomalies \cup Stale
  /\ UNCHANGED <<bindings, errors>>

Catching == Unified(caller.held[1], ball, SubSeq(bindings, 1, caller.emark))

Caught ==
  /\ Returning({"catch"}) /\ ~ret /\ ball # None
  /\ \E r \in Catching : r.ok /\ bindings' = r.trail
  /\ Resume(Bound)
  /\ Proceed(<< caller.held[2] >>)
  /\ has_error' = FALSE /\ ball' = None
  /\ anomalies' = anomalies \cup Stale

Rethrown ==
  /\ Returning({"catch"}) /\ ~ret /\ ball # None
  /\ \E r \in Catching : ~r.ok
  /\ Resume(Bound)
  /\ CutTrail
  /\ has_error' = TRUE
  /\ PassOn
  /\ anomalies' = anomalies \cup Stale
  /\ UNCHANGED ball

\* once/1 and with_output_to/2.
MetaSucceeds ==
  /\ Returning({"once"}) /\ ret
  /\ Resume(caller.reclaim_mark)
  /\ Proceed(<< >>)
  /\ UNCHANGED <<bindings, errors, anomalies>>

MetaFails ==
  /\ Returning({"once", "capture"}) /\ ~ret
  /\ Resume(caller.reclaim_mark)
  /\ IF has_error THEN PassOn ELSE GoToC
  /\ UNCHANGED <<bindings, errors, anomalies>>

NotReturns ==
  /\ Returning({"not"})
  /\ Resume(caller.reclaim_mark)
  /\ CutTrail
  /\ CASE has_error               -> PassOn
       [] ~has_error /\ found_any -> GoToC
       [] OTHER                   -> Proceed(<< >>)
  /\ UNCHANGED <<errors, anomalies>>

\* reverse_list() builds the list anew; an error leaves the trail alone.
Elements(list) ==
  LET RECURSIVE From(_)
      From(l) == IF is_cons(l) THEN Append(From(l.args[2]), l.args[1])
                 ELSE << >>
  IN From(list)

ListAt(ts, at) ==
  FoldRight(LAMBDA t, rest : Func(".", <<t, rest>>, at), ts, Const("[]", at))

\* with_output_to/2 and findall/3 unify their result with an argument; findall/3
\* drops the goal's bindings before, unless an error occurred.
Delivered == IF caller.kind = "capture" THEN Atom("text")
          ELSE ListAt(Elements(collected), fresh)
Restored == IF caller.kind = "capture" THEN bindings
            ELSE SubSeq(bindings, 1, caller.emark)

Deliver ==
  \E r \in Unified(caller.held[1], Delivered, Restored) :
    /\ bindings' = r.trail
    /\ IF r.ok THEN Proceed(<< >>) ELSE GoToC

CaptureReturns ==
  /\ Returning({"capture"}) /\ ret
  /\ Resume(caller.reclaim_mark)
  /\ Deliver
  /\ UNCHANGED <<errors, anomalies>>

FindallReturns ==
  /\ Returning({"findall"})
  /\ Resume(caller.reclaim_mark)
  /\ IF has_error THEN PassOn /\ UNCHANGED bindings ELSE Deliver
  /\ UNCHANGED <<errors, anomalies>>

-----------------------------------------------------------------------------
Init ==
  /\ pc = "idle" /\ ret = FALSE
  /\ program = Library /\ query = << >>
  /\ cn = NoGoals
  /\ stack = << [goals |-> NoGoals, clause_index |-> 0, env_mark |-> 0,
                 cut_point |-> 1, term_mark |-> 0] >>
  /\ cut_point = 1 /\ reclaim_mark = 0 /\ clause_idx = 0 /\ env_mark = 0
  /\ found_any = FALSE
  /\ callers = << >> /\ bind_floor = 0 /\ nest_depth = 0
  /\ template = None /\ touched = FALSE /\ collected = Atom("[]")
  /\ bindings = << >> /\ var_counter = 1
  /\ pool = << >> /\ fresh = 1 /\ term_floor = 0
  /\ has_error = FALSE /\ ball = None
  /\ answers = << >> /\ anomalies = {}

\* A unification that makes the trail cyclic.
Cyclic ==
  \/ AtBuiltin /\ Is("=", 2) /\ Unified(argument(1), argument(2), bindings) = {}
  \/ ToClauses /\ Matches = {}
  \/ Returning({"catch"}) /\ ~ret /\ ball # None /\ Catching = {}
  \/ /\ Returning({"capture", "findall"}) /\ ~has_error
     /\ caller.kind = "capture" => ret
     /\ Unified(caller.held[1], Delivered, Restored) = {}

Hang == Cyclic /\ UNCHANGED vars

AtA == Solution \/ Collect \/ Cut \/ Rewrite \/ CallOfVariable \/ Disjunction
       \/ NestInline \/ Select
AtB == \/ NestBuiltin \/ NestFindall \/ BuiltinOk \/ BuiltinFail \/ SonError
       \/ \E m \in Matches : \/ NoClause(m) \/ MatchPush(m) \/ MatchGiveUp(m)
                             \/ MatchReclaim(m) \/ MatchTailReset(m)
                             \/ MatchLast(m)
AtC == Exhausted \/ Backtrack
AtReturn == InlineSucceeds \/ ElseBranch \/ InlineFails \/ CondThrew
            \/ Caught \/ Rethrown \/ MetaSucceeds \/ MetaFails \/ NotReturns
            \/ CaptureReturns \/ FindallReturns

Next == StartQuery \/ EndQuery \/ AtA \/ AtB \/ AtC \/ AtReturn \/ Hang

Spec == Init /\ [][Next]_vars

-----------------------------------------------------------------------------
(* Correctness                                                             *)

Expected ==
  LET o == Conj(program, query, Point(<< >>, QueryVars + 1))
  IN [answers |-> [i \in DOMAIN o.answers |->
                     Canonical([id \in 1 .. QueryVars |->
                                  Resolved(o.answers[i].s, QueryTerms[id])])],
      balls |-> {Canonical(<< b >>) : b \in o.balls}]

Finished == pc = "return" /\ callers = << >>

RightAnswers ==
  /\ answers = Expected.answers
  /\ (IF has_error THEN {Canonical(<< ball >>)} ELSE {}) = Expected.balls

\* A query has the answers that SLD resolution gives it, in that order, and
\* ends with the uncaught ball it should, whatever was reclaimed from trail and
\* pool on the way; the executions in which a known defect struck are left out.
AnswersRight == Finished /\ anomalies = {} => RightAnswers

\* A cut prunes the choice points of its own clause, or of its own call/1, and
\* no others (solve.c:329-341 prunes to the height stored at the last frame
\* that was pushed or popped).
CutIsLocal == Finished /\ anomalies \subseteq {"cut"} => RightAnswers

\* A variable of the caller keeps the value that a nested solve gave it
\* (solve.c:599-602).
NestedKeepsBindings ==
  Finished /\ anomalies \subseteq {"dropped", "patch"} => RightAnswers

\* No goal, frame, binding, ball or collected answer that can still be used
\* leads into a part of the pool that was given back (solve.c:658-686, 715-720).
Live(ts) == UNION {Batches(t) : t \in ts}
GoalBatches(list) == {list.at} \cup Live({g.t : g \in ToSet(list.goals)})
StackBatches(s) == UNION {GoalBatches(f.goals) : f \in ToSet(Tail(s))}

Reachable ==
  (IF pc \in {"A", "B"} THEN GoalBatches(cn) ELSE {})
  \cup (IF pc # "return" THEN StackBatches(stack) ELSE {})
  \cup Live({b.value : b \in ToSet(bindings)})
  \cup (IF has_error THEN Batches(ball) ELSE {})
  \cup Batches(collected)
  \cup (IF template # None THEN Batches(template) ELSE {})
  \cup UNION {GoalBatches(c.cn) \cup StackBatches(c.stack)
              \cup Live(ToSet(c.held)) \cup Batches(c.collected)
              : c \in ToSet(callers)}

NothingDangles == Reachable \subseteq ToSet(pool) \cup {0}

NoDangling == anomalies = {} => NothingDangles

-----------------------------------------------------------------------------
(* The solver keeps its marks as SolveMarks says                           *)

MarksFrame(f) ==
  [clause_index |-> IF f.clause_index = 0 THEN 0 ELSE 1,
   env_mark |-> f.env_mark, cut_point |-> f.cut_point,
   term_mark |-> f.term_mark]
MarksStack(s) == [i \in DOMAIN s |-> MarksFrame(s[i])]

MarksCaller(c) ==
  [kind |-> c.kind, stack |-> MarksStack(c.stack), cut_point |-> c.cut_point,
   reclaim_mark |-> c.reclaim_mark, found_any |-> c.found_any,
   emark |-> c.emark, bind_floor |-> c.bind_floor, term_floor |-> c.term_floor]

Marks == INSTANCE SolveMarks WITH
  MaxStack <- 100, MaxBindings <- 100, PoolSize <- 1000, MaxNest <- 100,
  NestKinds <- {"catch", "ite", "if", "once", "not", "findall", "capture"},
  stack <- MarksStack(stack),
  clause_idx <- IF clause_idx = 0 THEN 0 ELSE 1,
  callers <- [k \in DOMAIN callers |-> MarksCaller(callers[k])],
  bind_count <- Len(bindings), term_offset <- Len(pool),
  ball <- ball # None

\* Every step of the solver on terms is a step of SolveMarks, whose invariants
\* therefore hold of it.
MarksImplemented == Marks!Spec
=============================================================================
