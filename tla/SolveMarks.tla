----------------------------- MODULE SolveMarks -----------------------------
(***************************************************************************)
(* The control skeleton of solve_all (src/src/solve.c): the marks that the *)
(* solver keeps on the binding trail and on the temporary half of the term *)
(* pool, the frame stack, cut, last-call reclaiming, and the recursive     *)
(* solve_all calls made by catch/3, if-then-else, once/1, \+/1, findall/3  *)
(* and with_output_to/2.                                                   *)
(*                                                                         *)
(* Terms are abstracted away.  Which goal comes next, how many variables a *)
(* unification binds and how much it allocates are nondeterministic, so    *)
(* what holds here holds for every program.  Two sizes stand for the data: *)
(*   bind_count   the length of ctx->bindings (env->count always equals it *)
(*                where solve_all looks at either),                        *)
(*   term_offset  ctx->term_pool_offset, counted in allocation units.      *)
(***************************************************************************)
EXTENDS Integers, Sequences, FiniteSets

CONSTANTS
  MaxStack,     \* MAX_STACK: frames in one activation (an assert guards it)
  MaxBindings,  \* MAX_BINDINGS: trail entries (an assert guards it)
  PoolSize,     \* room for temporary terms; running out is an error
  MaxNest,      \* bound of the model: solve_all calls active inside another
  NestKinds     \* the constructs allowed to start a nested solve_all

InlineKinds  == {"catch", "ite", "if"}             \* handled at label A
BuiltinKinds == {"once", "not", "findall", "capture"}  \* called from son

ASSUME BoundsAssumption ==
  /\ MaxStack \in Nat \ {0, 1}
  /\ MaxBindings \in Nat
  /\ PoolSize \in Nat
  /\ MaxNest \in Nat
  /\ NestKinds \subseteq InlineKinds \cup BuiltinKinds

VARIABLES
  pc,            \* where the active solve_all is: "idle" between queries,
                 \* "A", "B", "C" (the labels), "return" (it is returning)
  stack,         \* frames of the active activation; stack[1] is the sentinel
  cut_point, reclaim_mark, found_any,     \* its locals
  clause_idx, env_mark,      \* its locals, live at "B" only; 0 elsewhere
  ret,           \* value being returned at "return"; FALSE elsewhere
  callers,       \* suspended activations, innermost last
  bind_count, bind_floor, nest_depth, term_offset, term_floor,
  has_error, ball  \* has_runtime_error, and thrown_ball # NULL

activation == <<stack, cut_point, reclaim_mark, found_any>>
locals == <<activation, clause_idx, env_mark>>
nesting == <<callers, bind_floor, nest_depth>>
errors == <<has_error, ball>>
vars == <<pc, locals, ret, nesting, bind_count, term_offset, term_floor,
          errors>>

MaxOf(a, b) == IF a > b THEN a ELSE b

\* clause_idx is 0 for a fresh goal or a disjunction's second branch, and
\* positive for the retry of a goal whose next clause is to be tried.
Frame == [clause_index : {0, 1}, env_mark : Nat, cut_point : Nat,
          term_mark : Nat]

Caller == [kind : InlineKinds \cup BuiltinKinds, stack : Seq(Frame),
           cut_point : Nat, reclaim_mark : Nat, found_any : BOOLEAN,
           emark : Nat, bind_floor : Nat, term_floor : Nat]

\* What the active activation was started for.
Kind == IF callers = << >> THEN "top" ELSE callers[Len(callers)].kind

\* term_alloc(): any number of units that still fits.
Alloc == term_offset' \in term_offset .. PoolSize
Bind(from) == bind_count' \in from .. MaxBindings

Top == stack[Len(stack)]

-----------------------------------------------------------------------------
(* Entering and leaving solve_all                                          *)

\* The first lines of solve_all: push the sentinel, initialise the locals.
Sentinel(bound, offset) ==
  [clause_index |-> 0, env_mark |-> bound, cut_point |-> 1,
   term_mark |-> offset]

EnterSolve(bound, offset) ==
  /\ stack' = << Sentinel(bound, offset) >>
  /\ cut_point' = 1
  /\ reclaim_mark' = bound
  /\ clause_idx' = 0
  /\ env_mark' = 0
  /\ found_any' = FALSE

Return(value) == pc' = "return" /\ ret' = value

\* trilog_exec_query_multi(): the query was parsed into the temporary pool.
StartQuery ==
  /\ pc = "idle"
  /\ Alloc
  /\ bind_count' = 0
  /\ has_error' = FALSE
  /\ EnterSolve(0, term_offset')
  /\ pc' = "A"
  /\ UNCHANGED <<ret, nesting, term_floor, ball>>

\* toplevel_query(): the error flag is cleared and the temporary pool emptied.
\* thrown_ball keeps its value.  The locals are out of scope from here on, and
\* nothing reads bind_count before the next query sets it to 0.
EndQuery ==
  /\ pc = "return" /\ callers = << >>
  /\ pc' = "idle"
  /\ has_error' = FALSE
  /\ term_offset' = 0
  /\ EnterSolve(0, 0)
  /\ ret' = FALSE
  /\ bind_count' = 0
  /\ UNCHANGED <<nesting, term_floor, ball>>

-----------------------------------------------------------------------------
(* Label A                                                                 *)

\* The yield callback asked for the query to be aborted.  Only the active
\* activation returns; a caller takes that for its goal's result and goes on.
YieldAbort ==
  /\ pc = "A"
  /\ Return(found_any)
  /\ UNCHANGED <<locals, nesting, bind_count, term_offset, term_floor, errors>>

\* No goal is left.  solve() and \+ stop at the first solution, findall's
\* callback stores a copy of the template and raises the pool floor above it,
\* the toplevel's callback may ask for more.
Solution ==
  /\ pc = "A"
  /\ found_any' = TRUE
  /\ \/ /\ Kind # "findall"
        /\ Return(TRUE)
        /\ UNCHANGED <<term_offset, term_floor>>
     \/ /\ Kind = "findall"
        /\ Alloc
        /\ term_floor' = term_offset'
        /\ pc' = "C"
        /\ UNCHANGED ret
     \/ /\ Kind = "top"
        /\ pc' = "C"
        /\ UNCHANGED <<term_offset, term_floor, ret>>
  /\ UNCHANGED <<stack, cut_point, reclaim_mark, clause_idx, env_mark, nesting,
                 bind_count, errors>>

Cut ==
  /\ pc = "A"
  /\ stack' = SubSeq(stack, 1, cut_point)
  /\ Alloc
  /\ UNCHANGED <<pc, cut_point, reclaim_mark, clause_idx, env_mark, found_any,
                 ret, nesting, bind_count, term_floor, errors>>

\* call/N and (,)/2 rewrite the first goal in place.
Rewrite ==
  /\ pc = "A"
  /\ Alloc
  /\ UNCHANGED <<pc, locals, ret, nesting, bind_count, term_floor, errors>>

\* call/N of a variable or a number throws; goals_alloc() fails without a ball
\* when the pool is exhausted.
FailAtA ==
  /\ pc = "A"
  /\ has_error' = TRUE
  /\ ball' \in {ball, TRUE}
  /\ Alloc
  /\ Return(FALSE)
  /\ UNCHANGED <<locals, nesting, bind_count, term_floor>>

\* (;)/2: the frame for the second branch is marked after that branch's goal
\* array is allocated.
Disjunction ==
  /\ pc = "A"
  /\ Len(stack) < MaxStack
  /\ \E mark \in term_offset .. PoolSize :
       /\ stack' = Append(stack, [clause_index |-> 0, env_mark |-> bind_count,
                                  cut_point |-> cut_point,
                                  term_mark |-> mark])
       /\ term_offset' \in mark .. PoolSize
  /\ reclaim_mark' = bind_count
  /\ UNCHANGED <<pc, cut_point, clause_idx, env_mark, found_any, ret, nesting,
                 bind_count, term_floor, errors>>

\* A nested solve() starts: the C call saves the caller's locals.  The inline
\* constructs raise bind_floor to the current trail length; every kind but
\* with_output_to counts as a nesting level.
PushCaller(kind) ==
  callers' = Append(callers,
    [kind |-> kind, stack |-> stack, cut_point |-> cut_point,
     reclaim_mark |-> reclaim_mark, found_any |-> found_any,
     emark |-> bind_count, bind_floor |-> bind_floor,
     term_floor |-> term_floor])

RaisedFloor(kind) ==
  IF kind \in InlineKinds THEN MaxOf(bind_count, bind_floor) ELSE bind_floor

Counts(kind) == IF kind = "capture" THEN 0 ELSE 1

\* Mutant: the builtins lower nest_depth again but never raised it.
CountNest_InlineOnly(kind) ==
  nest_depth' = IF kind \in InlineKinds THEN nest_depth + 1 ELSE nest_depth

CountNest(kind) == nest_depth' = nest_depth + Counts(kind)

Nest(kind) ==
  /\ kind \in NestKinds
  /\ Len(callers) < MaxNest
  /\ Alloc
  /\ PushCaller(kind)
  /\ bind_floor' = RaisedFloor(kind)
  /\ CountNest(kind)
  /\ EnterSolve(bind_count, term_offset')
  /\ pc' = "A"
  /\ UNCHANGED <<ret, bind_count, term_floor, errors>>

NestInline == pc = "A" /\ \E kind \in InlineKinds : Nest(kind)

\* A goal that is none of the above goes to label B with clause_idx = 0.
Select ==
  /\ pc = "A"
  /\ pc' = "B"
  /\ clause_idx' = 0
  /\ env_mark' = bind_count
  /\ UNCHANGED <<activation, ret, nesting, bind_count, term_offset, term_floor,
                 errors>>

-----------------------------------------------------------------------------
(* Label B: son() and what follows a match                                 *)

NestBuiltin ==
  /\ pc = "B" /\ clause_idx = 0
  /\ \E kind \in BuiltinKinds : Nest(kind)

\* clause_idx and env_mark are set again before label B is next reached.
LeaveB == clause_idx' = 0 /\ env_mark' = 0

\* A builtin succeeded: no clause, no last-call work.
BuiltinOk ==
  /\ pc = "B" /\ clause_idx = 0
  /\ Bind(bind_count)
  /\ Alloc
  /\ pc' = "A"
  /\ LeaveB
  /\ UNCHANGED <<activation, ret, nesting, term_floor, errors>>

\* A builtin failed, perhaps after binding something.
BuiltinFail ==
  /\ pc = "B" /\ clause_idx = 0
  /\ Bind(bind_count)
  /\ Alloc
  /\ pc' = "C"
  /\ LeaveB
  /\ UNCHANGED <<activation, ret, nesting, term_floor, errors>>

\* A builtin or an undefined procedure raised an error, or the pool ran out.
SonError ==
  /\ pc = "B"
  /\ Bind(env_mark)
  /\ Alloc
  /\ has_error' = TRUE
  /\ ball' \in {ball, TRUE}
  /\ Return(FALSE)
  /\ LeaveB
  /\ UNCHANGED <<activation, nesting, term_floor>>

NoClause ==
  /\ pc = "B"
  /\ bind_count' = env_mark
  /\ pc' = "C"
  /\ LeaveB
  /\ UNCHANGED <<activation, ret, nesting, term_offset, term_floor, errors>>

reclaim_floor_ok == reclaim_mark > bind_floor \/ nest_depth = 0

\* A clause matched and another clause may match too: keep a frame for it.
MatchPush ==
  /\ pc = "B"
  /\ Len(stack) < MaxStack
  /\ Bind(env_mark)
  /\ Alloc
  /\ stack' = Append(stack, [clause_index |-> 1, env_mark |-> env_mark,
                             cut_point |-> cut_point,
                             term_mark |-> term_offset])
  /\ cut_point' = Len(stack)
  /\ reclaim_mark' = env_mark
  /\ pc' = "A"
  /\ LeaveB
  /\ UNCHANGED <<found_any, ret, nesting, term_floor, errors>>

\* The last matching clause, nothing reclaimed: the body is empty, nothing was
\* bound since reclaim_mark, or the floor forbids it.
MatchLast ==
  /\ pc = "B"
  /\ Bind(env_mark)
  /\ Alloc
  /\ pc' = "A"
  /\ LeaveB
  /\ UNCHANGED <<activation, ret, nesting, term_floor, errors>>

\* A named variable lies in the window: stop tracking part or all of it.
MatchGiveUp ==
  /\ pc = "B"
  /\ Bind(env_mark)
  /\ Alloc
  /\ bind_count' > reclaim_mark /\ reclaim_floor_ok
  /\ reclaim_mark' \in {env_mark, bind_count'}
  /\ pc' = "A"
  /\ LeaveB
  /\ UNCHANGED <<stack, cut_point, found_any, ret, nesting, term_floor,
                 errors>>

\* Last-call reclaiming: the resolvent and the older bindings are rewritten so
\* that they no longer need the window, which is then dropped.  When patching
\* the older bindings allocated, the newest choice point's term mark is raised
\* above the patches.
\*
\* Mutant: the mark of the frame below the newest one is raised.
Ratchet_Older(from, to) ==
  stack' = IF to > from /\ Len(stack) > 1
           THEN [stack EXCEPT ![Len(stack) - 1].term_mark = to]
           ELSE stack

Ratchet(from, to) ==
  stack' = IF to > from /\ Len(stack) > 1
           THEN [stack EXCEPT ![Len(stack)].term_mark = to]
           ELSE stack

MatchReclaim ==
  /\ pc = "B"
  /\ reclaim_floor_ok
  /\ \E bound \in env_mark .. MaxBindings : bound > reclaim_mark
  /\ bind_count' = reclaim_mark
  /\ \E pre_patch \in term_offset .. PoolSize :
       /\ term_offset' \in pre_patch .. PoolSize
       /\ Ratchet(pre_patch, term_offset')
  /\ pc' = "A"
  /\ LeaveB
  /\ UNCHANGED <<cut_point, reclaim_mark, found_any, ret, nesting, term_floor,
                 errors>>

\* Mutants: the fallback ignores where a nested activation started.
base_term_Floor == term_floor
base_env_Floor  == bind_floor

\* Where a deterministic tail call lets the pool and the trail fall back to.
base_term == MaxOf(stack[1].term_mark, term_floor)
base_env  == MaxOf(stack[1].env_mark, bind_floor)

\* Deterministic tail call that bound nothing: the pool and the trail fall back
\* to where this activation started, and the body is rebuilt from the clause.
MatchTailReset ==
  /\ pc = "B"
  /\ Len(stack) <= 1
  /\ ~ (env_mark > reclaim_mark /\ reclaim_floor_ok)
  /\ term_offset' \in base_term .. PoolSize
  /\ bind_count' = base_env
  /\ reclaim_mark' = base_env
  /\ pc' = "A"
  /\ LeaveB
  /\ UNCHANGED <<stack, cut_point, found_any, ret, nesting, term_floor,
                 errors>>

-----------------------------------------------------------------------------
(* Label C                                                                 *)

Exhausted ==
  /\ pc = "C"
  /\ Len(stack) = 1 \/ has_error
  /\ Return(IF has_error THEN FALSE ELSE found_any)
  /\ UNCHANGED <<locals, nesting, bind_count, term_offset, term_floor, errors>>

\* Mutant: answers that findall has collected are given back.
RestoredOffset_NoFloor(mark) == mark

RestoredOffset(mark) == MaxOf(mark, term_floor)

\* Mutant: the cut barrier of the goals that are resumed is not restored.
RestoreMarks_KeepCut(f) ==
  /\ term_offset' = RestoredOffset(f.term_mark)
  /\ bind_count' = f.env_mark
  /\ reclaim_mark' = f.env_mark
  /\ UNCHANGED cut_point

RestoreMarks(f) ==
  /\ cut_point' = f.cut_point
  /\ term_offset' = RestoredOffset(f.term_mark)
  /\ bind_count' = f.env_mark
  /\ reclaim_mark' = f.env_mark

Backtrack ==
  /\ pc = "C" /\ ~has_error
  /\ Len(stack) > 1
  /\ stack' = SubSeq(stack, 1, Len(stack) - 1)
  /\ clause_idx' = Top.clause_index
  /\ env_mark' = IF Top.clause_index = 0 THEN 0 ELSE Top.env_mark
  /\ RestoreMarks(Top)
  /\ pc' = IF Top.clause_index = 0 THEN "A" ELSE "B"
  /\ UNCHANGED <<found_any, ret, nesting, term_floor, errors>>

-----------------------------------------------------------------------------
(* Returning from a nested solve_all                                       *)

Caller_ == callers[Len(callers)]

\* The caller's locals come back; reclaim_mark is what the construct sets.
Resume(mark) ==
  /\ callers' = SubSeq(callers, 1, Len(callers) - 1)
  /\ stack' = Caller_.stack
  /\ cut_point' = Caller_.cut_point
  /\ found_any' = Caller_.found_any
  /\ LeaveB
  /\ reclaim_mark' = mark
  /\ bind_floor' = Caller_.bind_floor
  /\ nest_depth' = nest_depth - Counts(Caller_.kind)

Proceed(label) == pc' = label /\ ret' = FALSE

Returning(kinds) ==
  pc = "return" /\ callers # << >> /\ Caller_.kind \in kinds

\* What follows allocates the next resolvent; when the pool has no room for it
\* solve_all returns FALSE with the error flag set and no ball of its own.
GoOn ==
  \/ Alloc /\ Proceed("A") /\ UNCHANGED has_error
  \/ Alloc /\ Return(FALSE) /\ has_error' = TRUE

\* catch/3, (C->T;E) and (C->T) go on with the remaining goals.
InlineSucceeds ==
  /\ Returning(InlineKinds) /\ ret
  /\ Resume(bind_count)
  /\ GoOn
  /\ UNCHANGED <<bind_count, term_floor, ball>>

\* The condition failed and no ball is set: the trail is cut back and
\* if-then-else takes its else branch.
ElseBranch ==
  /\ Returning({"ite"}) /\ ~ret /\ ~ball
  /\ Resume(bind_count)
  /\ bind_count' = Caller_.emark
  /\ GoOn
  /\ UNCHANGED <<term_floor, ball>>

\* The guarded goal, or the condition of (->)/2, failed: backtrack.
InlineFails ==
  /\ Returning({"catch", "if"}) /\ ~ret /\ ~ball
  /\ Resume(bind_count)
  /\ bind_count' = Caller_.emark
  /\ Proceed("C")
  /\ UNCHANGED <<term_offset, term_floor, errors>>

\* (->)/2 and (;)/2 leave a ball to their caller.
CondThrew ==
  /\ Returning({"ite", "if"}) /\ ~ret /\ ball
  /\ Resume(bind_count)
  /\ Return(FALSE)
  /\ UNCHANGED <<bind_count, term_offset, term_floor, errors>>

\* catch/3 takes the ball, cuts the trail back and unifies it with the catcher.
Caught ==
  /\ Returning({"catch"}) /\ ~ret /\ ball
  /\ Resume(bind_count)
  /\ Bind(Caller_.emark)
  /\ Alloc
  /\ \/ has_error' = FALSE /\ Proceed("A")
     \/ has_error' = TRUE /\ Return(FALSE)
  /\ ball' = FALSE
  /\ UNCHANGED term_floor

Rethrown ==
  /\ Returning({"catch"}) /\ ~ret /\ ball
  /\ Resume(bind_count)
  /\ bind_count' = Caller_.emark
  /\ Alloc
  /\ has_error' = TRUE /\ ball' = TRUE
  /\ Return(FALSE)
  /\ UNCHANGED term_floor

\* once/1 and with_output_to/2 keep the bindings of a success; the latter then
\* unifies the captured text with its first argument.
MetaSucceeds ==
  /\ Returning({"once", "capture"}) /\ ret
  /\ Resume(Caller_.reclaim_mark)
  /\ IF Caller_.kind = "once" THEN UNCHANGED bind_count ELSE Bind(bind_count)
  /\ \/ GoOn
     \/ /\ Caller_.kind = "capture"
        /\ Alloc
        /\ Proceed("C")
        /\ UNCHANGED has_error
  /\ UNCHANGED <<term_floor, ball>>

\* A failure or an error leaves the trail as the nested solve left it.
MetaFails ==
  /\ Returning({"once", "capture"}) /\ ~ret
  /\ Resume(Caller_.reclaim_mark)
  /\ IF has_error THEN Return(FALSE) ELSE Proceed("C")
  /\ UNCHANGED <<bind_count, term_offset, term_floor, errors>>

\* \+ drops whatever its goal bound and inverts the answer.
NotReturns ==
  /\ Returning({"not"})
  /\ Resume(Caller_.reclaim_mark)
  /\ bind_count' = Caller_.emark
  /\ \/ has_error /\ Return(FALSE) /\ UNCHANGED <<term_offset, has_error>>
     \/ ~has_error /\ found_any /\ Proceed("C")
        /\ UNCHANGED <<term_offset, has_error>>
     \/ ~has_error /\ ~found_any /\ GoOn
  /\ UNCHANGED <<term_floor, ball>>

\* Mutant: an error leaves the raised floor behind.
RestoreFloor_NotOnError ==
  term_floor' = IF has_error THEN term_floor ELSE Caller_.term_floor

RestoreFloor == term_floor' = Caller_.term_floor

\* findall/3: the floor comes back, the goal's bindings go (not after an
\* error), and the list is unified with the third argument.
FindallReturns ==
  /\ Returning({"findall"})
  /\ Resume(Caller_.reclaim_mark)
  /\ RestoreFloor
  /\ \/ /\ has_error
        /\ Return(FALSE)
        /\ UNCHANGED <<bind_count, term_offset, has_error>>
     \/ /\ ~has_error
        /\ Bind(Caller_.emark)
        /\ GoOn
     \/ /\ ~has_error
        /\ Bind(Caller_.emark)
        /\ Alloc
        /\ Proceed("C")
        /\ UNCHANGED has_error
  /\ UNCHANGED ball

-----------------------------------------------------------------------------
Init ==
  /\ pc = "idle" /\ ret = FALSE
  /\ stack = << Sentinel(0, 0) >>
  /\ cut_point = 1 /\ reclaim_mark = 0 /\ clause_idx = 0 /\ env_mark = 0
  /\ found_any = FALSE
  /\ callers = << >> /\ bind_floor = 0 /\ nest_depth = 0
  /\ bind_count = 0 /\ term_offset = 0 /\ term_floor = 0
  /\ has_error = FALSE /\ ball = FALSE

AtA == Solution \/ Cut \/ Rewrite \/ FailAtA \/ Disjunction \/ NestInline
       \/ Select
AtB == NestBuiltin \/ BuiltinOk \/ BuiltinFail \/ SonError \/ NoClause
       \/ MatchPush \/ MatchLast \/ MatchGiveUp \/ MatchReclaim
       \/ MatchTailReset
AtC == Exhausted \/ Backtrack
AtReturn == InlineSucceeds \/ ElseBranch \/ InlineFails \/ CondThrew
            \/ Caught \/ Rethrown \/ MetaSucceeds \/ MetaFails \/ NotReturns
            \/ FindallReturns

Solving == AtA \/ AtB \/ AtC \/ AtReturn

Next == StartQuery \/ EndQuery \/ YieldAbort \/ Solving

Spec == Init /\ [][Next]_vars

-----------------------------------------------------------------------------
(* Correctness                                                             *)

TypeOK ==
  /\ pc \in {"idle", "A", "B", "C", "return"}
  /\ stack \in Seq(Frame) /\ cut_point \in Nat /\ reclaim_mark \in Nat
  /\ clause_idx \in {0, 1} /\ env_mark \in Nat /\ found_any \in BOOLEAN
  /\ ret \in BOOLEAN /\ callers \in Seq(Caller)
  /\ bind_count \in Nat /\ bind_floor \in Nat /\ nest_depth \in Nat
  /\ term_offset \in Nat /\ term_floor \in Nat
  /\ has_error \in BOOLEAN /\ ball \in BOOLEAN

\* Cut never removes the sentinel frame and never brings back a frame that has
\* been popped, whatever the marks stored in the frames: each of them points
\* below its own frame (solve.c:287-291, 332).
FrameCuts(s) == \A i \in 2 .. Len(s) : s[i].cut_point \in 1 .. i - 1

CutStaysBelow ==
  /\ cut_point \in 1 .. Len(stack)
  /\ FrameCuts(stack)
  /\ \A k \in 1 .. Len(callers) :
       /\ callers[k].cut_point \in 1 .. Len(callers[k].stack)
       /\ FrameCuts(callers[k].stack)

\* The frames of one activation are marked in the order they were pushed,
\* starting with its sentinel.
Ordered(s) ==
  \A i, j \in 1 .. Len(s) :
    i <= j => /\ s[i].env_mark <= s[j].env_mark
              /\ s[i].term_mark <= s[j].term_mark

\* The sentinel of the activation that callers[k] is waiting for.
Callee(k) == IF k = Len(callers) THEN stack[1] ELSE callers[k + 1].stack[1]

\* The assertions solve.c:722 and solve.c:74 never fail: every frame that can
\* still be resumed, in this activation and in the suspended ones, was marked
\* at a trail length that still exists, so that backtracking, cut, last-call
\* reclaiming and tail-call resets in a nested solve never drop a binding that
\* a choice point of its callers was made under.
\* (reclaim_mark itself may exceed the trail: (C->T;E) and catch/3 set it
\* before they cut the trail back, solve.c:419/438 and 488/504.)
TrailMarks ==
  /\ \A i \in 1 .. Len(stack) : /\ stack[i].env_mark <= reclaim_mark
                                /\ stack[i].env_mark <= bind_count
  /\ pc = "B" => env_mark = bind_count
  /\ \A k \in 1 .. Len(callers) :
       LET c == callers[k] IN
       /\ \A i \in 1 .. Len(c.stack) : /\ c.stack[i].env_mark <= c.reclaim_mark
                                       /\ c.stack[i].env_mark <= c.emark
       /\ c.emark = Callee(k).env_mark

\* Likewise for the pool: the goals of a frame that can still be resumed, and
\* the answers findall has collected, lie below term_offset.
PoolMarks ==
  /\ \A i \in 1 .. Len(stack) : stack[i].term_mark <= term_offset
  /\ term_floor <= term_offset
  /\ \A k \in 1 .. Len(callers) :
       LET c == callers[k] IN
       /\ \A i \in 1 .. Len(c.stack) :
            c.stack[i].term_mark <= Callee(k).term_mark
       /\ c.term_floor <= Callee(k).term_mark

MarksOrdered ==
  /\ Ordered(stack)
  /\ \A k \in 1 .. Len(callers) : Ordered(callers[k].stack)

\* bind_floor, term_floor and nest_depth, which the constructs save, change and
\* put back around a nested solve, always describe the activations that are
\* really suspended, whichever way the nested solve ended (success, failure,
\* exception, exhausted pool, abort): between queries they are back at 0.
FloorBelow(c) ==
  IF c.kind \in InlineKinds THEN MaxOf(c.emark, c.bind_floor) ELSE c.bind_floor

Counted == {k \in 1 .. Len(callers) : callers[k].kind # "capture"}

NestingBalanced ==
  /\ bind_floor = IF callers = << >> THEN 0
                  ELSE FloorBelow(callers[Len(callers)])
  /\ \A k \in 1 .. Len(callers) :
       callers[k].bind_floor =
         IF k = 1 THEN 0 ELSE FloorBelow(callers[k - 1])
  /\ nest_depth = Cardinality(Counted)
  /\ (\A k \in 1 .. Len(callers) : callers[k].kind # "findall")
       => term_floor = 0
  /\ \A k \in 1 .. Len(callers) :
       (\A j \in 1 .. k - 1 : callers[j].kind # "findall")
         => callers[k].term_floor = 0
  /\ pc = "idle" => callers = << >> /\ ~has_error

\* A nested solve that resets the pool on a tail call, or backtracks, stays
\* above where it started: it never frees what its caller allocated.  Every
\* step that keeps the activation keeps its base.
BaseKept ==
  [][callers' = callers /\ pc # "idle" /\ pc' # "idle" =>
       /\ stack'[1] = stack[1]
       /\ bind_count' >= stack[1].env_mark
       /\ term_offset' >= stack[1].term_mark]_vars
=============================================================================
