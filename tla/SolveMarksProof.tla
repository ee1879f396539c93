--------------------------- MODULE SolveMarksProof ---------------------------
(***************************************************************************)
(* Proofs that the marks of SolveMarks stay valid, for every size of the   *)
(* stack, the trail and the pool and for any depth of nesting.             *)
(*                                                                         *)
(* The argument looks at one activation at a time.  ActivationOK says that *)
(* its frames are ordered and lie below the trail and the pool; it is kept *)
(* by the five things the solver does to a stack (push, cut, pop, raise    *)
(* the newest term mark, let the trail or the pool grow).  Suspended says  *)
(* that every suspended activation is fine with respect to the place where *)
(* the activation it waits for began.  An activation never moves its own   *)
(* sentinel, so what its callers need is kept by all it does, and on       *)
(* return the caller finds a trail and a pool that contain all its frames. *)
(***************************************************************************)
EXTENDS SolveMarks, SequenceTheorems, FiniteSetTheorems, TLAPS

ActivationOK(s, cp, rm, bound, offset) ==
  /\ s \in Seq(Frame)
  /\ cp \in 1 .. Len(s)
  /\ FrameCuts(s)
  /\ Ordered(s)
  /\ \A i \in 1 .. Len(s) : /\ s[i].env_mark <= rm
                            /\ s[i].env_mark <= bound
                            /\ s[i].term_mark <= offset

Active == ActivationOK(stack, cut_point, reclaim_mark, bind_count, term_offset)

CallerOK(c, callee) ==
  /\ ActivationOK(c.stack, c.cut_point, c.reclaim_mark, c.emark,
                  callee.term_mark)
  /\ c.emark = callee.env_mark
  /\ c.term_floor <= callee.term_mark

Suspended == \A k \in 1 .. Len(callers) : CallerOK(callers[k], Callee(k))

IInv == /\ TypeOK
        /\ Active
        /\ Suspended
        /\ term_floor <= term_offset
        /\ pc = "B" => env_mark = bind_count
        /\ NestingBalanced

-----------------------------------------------------------------------------
(* Frames and stacks                                                       *)

\* What a frame is made of.
LEMMA FrameFields ==
  ASSUME NEW f \in Frame
  PROVE  /\ f.clause_index \in {0, 1} /\ f.env_mark \in Nat
         /\ f.cut_point \in Nat /\ f.term_mark \in Nat
  BY DEF Frame

\* The sentinel of an activation that starts at the given sizes (solve.c:287-291).
LEMMA SentinelType ==
  ASSUME NEW b \in Nat, NEW o \in Nat
  PROVE  /\ Sentinel(b, o) \in Frame
         /\ Sentinel(b, o).env_mark = b /\ Sentinel(b, o).term_mark = o
  BY DEF Sentinel, Frame

\* A new activation is fine.
LEMMA FreshActivation ==
  ASSUME NEW b \in Nat, NEW o \in Nat, NEW rm \in Nat, NEW bound \in Nat,
         NEW offset \in Nat,
         b <= rm, b <= bound, o <= offset
  PROVE  /\ ActivationOK(<< Sentinel(b, o) >>, 1, rm, bound, offset)
         /\ << Sentinel(b, o) >>[1] = Sentinel(b, o)
<1> DEFINE s == << Sentinel(b, o) >>
<1>1. Sentinel(b, o) \in Frame BY SentinelType
<1>2. s \in Seq(Frame) /\ Len(s) = 1 /\ s[1] = Sentinel(b, o) BY <1>1
<1> QED BY <1>2, SentinelType DEF ActivationOK, FrameCuts, Ordered

\* A longer trail, a longer pool or a later reclaim_mark do no harm.
LEMMA Grow ==
  ASSUME NEW s, NEW cp, NEW rm \in Nat, NEW b \in Nat, NEW o \in Nat,
         NEW rm2 \in Nat, NEW b2 \in Nat, NEW o2 \in Nat,
         ActivationOK(s, cp, rm, b, o),
         rm <= rm2 \/ b <= rm2, rm <= b2 \/ b <= b2, o <= o2
  PROVE  ActivationOK(s, cp, rm2, b2, o2)
<1>1. ASSUME NEW i \in 1 .. Len(s)
      PROVE  s[i].env_mark \in Nat /\ s[i].term_mark \in Nat
  BY <1>1, ElementOfSeq, FrameFields DEF ActivationOK
<1> QED BY SMTT(30), <1>1 DEF ActivationOK

\* A frame pushed at the trail length b and the pool offset t.
LEMMA Push ==
  ASSUME NEW s, NEW cp \in Nat, NEW rm \in Nat, NEW b \in Nat, NEW o \in Nat,
         NEW t \in Nat, NEW cp2 \in Nat, NEW f \in Frame, NEW r,
         ActivationOK(s, cp, rm, b, o), o <= t, cp2 \in {cp, Len(s)},
         f.env_mark = b, f.cut_point = cp, f.term_mark = t, r = Append(s, f)
  PROVE  ActivationOK(r, cp2, b, b, t) /\ r[1] = s[1]
<1>1. f \in Frame OBVIOUS
<1>2. s \in Seq(Frame) /\ Len(s) \in Nat /\ 1 <= Len(s) BY DEF ActivationOK
<1>3. /\ r \in Seq(Frame) /\ Len(r) = Len(s) + 1
      /\ \A i \in 1 .. Len(s) : r[i] = s[i]
      /\ r[Len(s) + 1] = f
  BY <1>1, <1>2
<1>4. \A i \in 1 .. Len(s) : s[i].env_mark \in Nat /\ s[i].term_mark \in Nat
  BY <1>2, ElementOfSeq, FrameFields
<1>5. f.env_mark = b /\ f.term_mark = t /\ f.cut_point = cp OBVIOUS
<1>6. FrameCuts(r)
  <2> SUFFICES ASSUME NEW i \in 2 .. Len(s) + 1
               PROVE  r[i].cut_point \in 1 .. i - 1
    BY <1>2, <1>3 DEF FrameCuts
  <2>1. CASE i = Len(s) + 1
    BY <2>1, <1>2, <1>3, <1>5 DEF ActivationOK
  <2>2. CASE i # Len(s) + 1
    <3>1. i \in 2 .. Len(s) /\ i \in 1 .. Len(s) BY <2>2, <1>2
    <3> QED BY <3>1, <1>3 DEF ActivationOK, FrameCuts
  <2> QED BY <2>1, <2>2
<1>7. Ordered(r)
  <2> SUFFICES ASSUME NEW i \in 1 .. Len(s) + 1, NEW j \in 1 .. Len(s) + 1,
                      i <= j
               PROVE  /\ r[i].env_mark <= r[j].env_mark
                      /\ r[i].term_mark <= r[j].term_mark
    BY <1>2, <1>3 DEF Ordered
  <2>1. CASE j = Len(s) + 1 /\ i = j
    BY <2>1, <1>3, <1>5
  <2>2. CASE j = Len(s) + 1 /\ i # j
    <3>1. i \in 1 .. Len(s) BY <2>2, <1>2
    <3>2. s[i].env_mark <= b /\ s[i].term_mark <= o
      BY <3>1 DEF ActivationOK
    <3> QED BY SMTT(30), <3>1, <3>2, <2>2, <1>3, <1>4, <1>5
  <2>3. CASE j # Len(s) + 1
    <3>1. i \in 1 .. Len(s) /\ j \in 1 .. Len(s) BY <2>3, <1>2
    <3> QED BY <3>1, <1>3 DEF ActivationOK, Ordered
  <2> QED BY <2>1, <2>2, <2>3
<1>8. \A i \in 1 .. Len(r) : r[i].env_mark <= b /\ r[i].term_mark <= t
  <2> SUFFICES ASSUME NEW i \in 1 .. Len(s) + 1
               PROVE  r[i].env_mark <= b /\ r[i].term_mark <= t
    BY <1>3
  <2>1. CASE i = Len(s) + 1 BY <2>1, <1>3, <1>5
  <2>2. CASE i # Len(s) + 1
    <3>1. i \in 1 .. Len(s) BY <2>2, <1>2
    <3>2. s[i].env_mark <= b /\ s[i].term_mark <= o
      BY <3>1 DEF ActivationOK
    <3> QED BY <3>1, <3>2, <1>3, <1>4
  <2> QED BY <2>1, <2>2
<1>9. cp2 \in 1 .. Len(r) BY <1>2, <1>3 DEF ActivationOK
<1>10. ActivationOK(r, cp2, b, b, t)
  BY <1>3, <1>6, <1>7, <1>8, <1>9 DEF ActivationOK
<1> QED BY <1>2, <1>3, <1>10

\* The oldest n frames of a stack.
LEMMA Keep ==
  ASSUME NEW s \in Seq(Frame), NEW n \in 1 .. Len(s)
  PROVE  LET r == SubSeq(s, 1, n)
         IN /\ r \in Seq(Frame) /\ Len(r) = n
            /\ \A i \in 1 .. n : r[i] = s[i]
<1>1. \A i \in 1 .. n : s[i] \in Frame BY ElementOfSeq
<1> QED BY <1>1, SubSeqProperties

\* Dropping the newest frames, by a cut or by popping one.
LEMMA Drop ==
  ASSUME NEW s, NEW cp \in Nat, NEW rm \in Nat, NEW b \in Nat, NEW o \in Nat,
         NEW n \in 1 .. Len(s), NEW cp2 \in 1 .. n,
         ActivationOK(s, cp, rm, b, o)
  PROVE  /\ ActivationOK(SubSeq(s, 1, n), cp2, rm, b, o)
         /\ SubSeq(s, 1, n)[1] = s[1]
<1> DEFINE r == SubSeq(s, 1, n)
<1>1. s \in Seq(Frame) /\ Len(s) \in Nat BY DEF ActivationOK
<1>2. r \in Seq(Frame) /\ Len(r) = n /\ \A i \in 1 .. n : r[i] = s[i]
  BY <1>1, Keep
<1> HIDE DEF r
<1>3. FrameCuts(r)
  <2> SUFFICES ASSUME NEW i \in 2 .. n PROVE r[i].cut_point \in 1 .. i - 1
    BY <1>2 DEF FrameCuts
  <2>1. i \in 2 .. Len(s) /\ i \in 1 .. n BY <1>1
  <2> QED BY <2>1, <1>2 DEF ActivationOK, FrameCuts
<1>4. \A i \in 1 .. n : i \in 1 .. Len(s) BY <1>1
<1>5. Ordered(r) BY <1>2, <1>4 DEF Ordered, ActivationOK
<1>6. ActivationOK(r, cp2, rm, b, o)
  BY <1>2, <1>3, <1>4, <1>5 DEF ActivationOK
<1> QED BY <1>1, <1>2, <1>6 DEF r

\* Backtracking: the newest frame is popped and its marks become the sizes.
LEMMA Pop ==
  ASSUME NEW s, NEW cp \in Nat, NEW rm \in Nat, NEW b \in Nat, NEW o \in Nat,
         NEW t \in Nat, ActivationOK(s, cp, rm, b, o),
         Len(s) > 1, s[Len(s)].term_mark <= t
  PROVE  LET f == s[Len(s)]
             r == SubSeq(s, 1, Len(s) - 1)
         IN /\ ActivationOK(r, f.cut_point, f.env_mark, f.env_mark, t)
            /\ r[1] = s[1]
            /\ f \in Frame
<1> DEFINE n == Len(s)
           f == s[n]
           r == SubSeq(s, 1, n - 1)
<1>1. s \in Seq(Frame) /\ n \in Nat /\ n - 1 \in 1 .. n BY DEF ActivationOK
<1>2. f \in Frame BY <1>1, ElementOfSeq
<1>3. r \in Seq(Frame) /\ Len(r) = n - 1 /\ \A i \in 1 .. n - 1 : r[i] = s[i]
  BY <1>1, Keep
<1>4. f.cut_point \in 1 .. n - 1 BY <1>1 DEF ActivationOK, FrameCuts
<1>5. ActivationOK(r, f.cut_point, rm, b, o) /\ r[1] = s[1]
  <2> DEFINE m == n - 1
             c == f.cut_point
  <2>1. m \in 1 .. Len(s) /\ c \in 1 .. m BY <1>1, <1>4
  <2> HIDE DEF m, c
  <2>2. ActivationOK(SubSeq(s, 1, m), c, rm, b, o) /\ SubSeq(s, 1, m)[1] = s[1]
    BY SMTT(30), <2>1, Drop
  <2> QED BY <2>2 DEF m, c
<1>6. ASSUME NEW i \in 1 .. n - 1
      PROVE  /\ s[i].env_mark <= f.env_mark
             /\ s[i].term_mark <= f.term_mark
             /\ s[i].term_mark \in Nat
  <2>1. i \in 1 .. n /\ n \in 1 .. n /\ i <= n BY <1>1
  <2> QED BY <2>1, <1>1, ElementOfSeq, FrameFields DEF ActivationOK, Ordered
<1>7. f.env_mark \in Nat /\ f.term_mark \in Nat BY <1>2, FrameFields
<1> HIDE DEF r, f
<1>8. \A i \in 1 .. n - 1 : /\ r[i].env_mark <= f.env_mark
                            /\ r[i].term_mark <= t
  <2> SUFFICES ASSUME NEW i \in 1 .. n - 1
               PROVE  r[i].env_mark <= f.env_mark /\ r[i].term_mark <= t
    OBVIOUS
  <2>1. f.term_mark <= t BY DEF f
  <2>2. r[i] = s[i] BY <1>3
  <2>3. s[i].term_mark <= f.term_mark /\ s[i].term_mark \in Nat BY <1>6
  <2>4. s[i].env_mark <= f.env_mark BY <1>6
  <2> QED BY SMTT(30), <1>7, <2>1, <2>2, <2>3, <2>4
<1>9. ActivationOK(r, f.cut_point, f.env_mark, f.env_mark, t)
  BY <1>3, <1>5, <1>8 DEF ActivationOK
<1> QED BY <1>2, <1>5, <1>9 DEF r, f

\* Last-call reclaiming raises the newest frame's term mark to the pool's top.
LEMMA Raise ==
  ASSUME NEW s, NEW cp \in Nat, NEW rm \in Nat, NEW b \in Nat, NEW o \in Nat,
         NEW o2 \in Nat, NEW r, ActivationOK(s, cp, rm, b, o), o <= o2,
         Len(s) > 1, r = [s EXCEPT ![Len(s)].term_mark = o2]
  PROVE  ActivationOK(r, cp, rm, b, o2) /\ r[1] = s[1]
<1> DEFINE n == Len(s)
           f == [s[n] EXCEPT !.term_mark = o2]
<1>1. s \in Seq(Frame) /\ n \in Nat /\ n \in 1 .. n BY DEF ActivationOK
<1>2. s[n] \in Frame BY <1>1, ElementOfSeq
<1>3. /\ f \in Frame /\ f.term_mark = o2 /\ f.env_mark = s[n].env_mark
      /\ f.cut_point = s[n].cut_point
  BY <1>2 DEF Frame
<1>4. /\ r \in Seq(Frame) /\ Len(r) = n
      /\ \A i \in 1 .. n : r[i] = IF i = n THEN f ELSE s[i]
  <2>1. f \in Frame BY <1>3
  <2>2. r = [s EXCEPT ![n] = f] OBVIOUS
  <2> HIDE DEF f
  <2> QED BY SMTT(30), <2>1, <2>2, <1>1
<1>5. \A i \in 1 .. n : s[i].env_mark \in Nat /\ s[i].term_mark \in Nat
                         /\ s[i].term_mark <= o
  BY <1>1, ElementOfSeq, FrameFields DEF ActivationOK
<1> HIDE DEF f
<1>7. \A i \in 1 .. n : /\ r[i].env_mark = s[i].env_mark
                        /\ r[i].cut_point = s[i].cut_point
                        /\ r[i].term_mark = IF i = n THEN o2 ELSE s[i].term_mark
  BY <1>3, <1>4
<1>8. FrameCuts(r)
  <2> SUFFICES ASSUME NEW i \in 2 .. n PROVE r[i].cut_point \in 1 .. i - 1
    BY <1>4 DEF FrameCuts
  <2>1. s[i].cut_point \in 1 .. i - 1 BY DEF FrameCuts, ActivationOK
  <2>2. i \in 1 .. n BY <1>1
  <2> QED BY <2>1, <2>2, <1>7
<1>9. Ordered(r)
  <2> SUFFICES ASSUME NEW i \in 1 .. n, NEW j \in 1 .. n, i <= j
               PROVE  /\ r[i].env_mark <= r[j].env_mark
                      /\ r[i].term_mark <= r[j].term_mark
    BY <1>4 DEF Ordered
  <2>1. s[i].env_mark <= s[j].env_mark /\ s[i].term_mark <= s[j].term_mark
    BY DEF ActivationOK, Ordered
  <2>2. i = n => j = n BY <1>1
  <2> QED BY SMTT(30), <2>1, <2>2, <1>5, <1>7
<1>10. \A i \in 1 .. n : /\ r[i].env_mark <= rm /\ r[i].env_mark <= b
                         /\ r[i].term_mark <= o2
  BY <1>5, <1>7 DEF ActivationOK
<1>11. ActivationOK(r, cp, rm, b, o2)
  BY <1>4, <1>8, <1>9, <1>10 DEF ActivationOK
<1>12. r[1] = s[1] BY <1>1, <1>4
<1> QED BY <1>11, <1>12

-----------------------------------------------------------------------------
(* Steps inside one activation                                             *)

\* How the two sizes may grow in a step.
LEMMA Sizes ==
  ASSUME TypeOK
  PROVE  /\ Alloc => term_offset' \in Nat /\ term_offset <= term_offset'
         /\ \A from \in Nat : Bind(from) =>
              bind_count' \in Nat /\ from <= bind_count'
  BY BoundsAssumption DEF TypeOK, Alloc, Bind

\* The part of IInv about the suspended activations and the save/restore
\* discipline is untouched by a step inside the active one.
LEMMA LocalStep ==
  ASSUME IInv, TypeOK', Active', UNCHANGED nesting, stack'[1] = stack[1],
         term_floor' <= term_offset', pc' = "B" => env_mark' = bind_count',
         pc' # "idle", Kind = "findall" \/ term_floor' = term_floor
  PROVE  IInv'
<1>1. callers' = callers /\ bind_floor' = bind_floor /\ nest_depth' = nest_depth
  BY DEF nesting
<1>2. Suspended'
  BY <1>1 DEF IInv, Suspended, Callee
<1>3. ASSUME \A k \in 1 .. Len(callers) : callers[k].kind # "findall"
      PROVE  Kind # "findall"
  <2>1. CASE callers = << >> BY <2>1 DEF Kind
  <2>2. CASE callers # << >>
    <3>1. Len(callers) \in 1 .. Len(callers)
      BY SMTT(30), <2>2, EmptySeq DEF IInv, TypeOK
    <3> QED BY <3>1, <2>2, <1>3 DEF Kind
  <2> QED BY <2>1, <2>2
<1>4. NestingBalanced'
  BY <1>1, <1>3 DEF IInv, NestingBalanced, Counted
<1> QED BY <1>2, <1>4 DEF IInv

\* A step that keeps the stack and lets the trail and the pool grow.
LEMMA GrowStep ==
  ASSUME IInv, TypeOK', UNCHANGED <<stack, cut_point, nesting>>,
         reclaim_mark' >= reclaim_mark \/ reclaim_mark' >= bind_count,
         bind_count' >= bind_count \/ bind_count' >= reclaim_mark,
         term_offset' >= term_offset,
         term_floor' <= term_offset', pc' = "B" => env_mark' = bind_count',
         pc' # "idle", Kind = "findall" \/ term_floor' = term_floor
  PROVE  IInv'
<1>1. /\ reclaim_mark \in Nat /\ bind_count \in Nat /\ term_offset \in Nat
      /\ reclaim_mark' \in Nat /\ bind_count' \in Nat /\ term_offset' \in Nat
  BY DEF IInv, TypeOK
<1>2. ActivationOK(stack, cut_point, reclaim_mark', bind_count', term_offset')
  BY <1>1, Grow DEF IInv, Active
<1>3. Active' BY <1>2 DEF Active
<1> QED BY <1>3, LocalStep

\* A new query finds nothing suspended.
LEMMA StartQueryKeeps == IInv /\ StartQuery => IInv'
<1> SUFFICES ASSUME IInv, StartQuery PROVE IInv' OBVIOUS
<1> USE DEF StartQuery, EnterSolve, nesting
<1>1. callers = << >> /\ bind_floor = 0 /\ nest_depth = Cardinality(Counted)
      /\ term_floor = 0 /\ callers' = callers /\ Len(callers) = 0
  BY DEF IInv, NestingBalanced
<1>2. term_offset' \in Nat BY Sizes DEF IInv
<1>3. /\ ActivationOK(<< Sentinel(0, term_offset') >>, 1, 0, 0, term_offset')
      /\ << Sentinel(0, term_offset') >> \in Seq(Frame)
  BY <1>2, FreshActivation DEF ActivationOK
<1>4. Active' BY <1>3 DEF Active
<1>5. TypeOK' BY <1>2, <1>3 DEF IInv, TypeOK
<1>6. Suspended' BY <1>1 DEF Suspended
<1>7. NestingBalanced' BY <1>1 DEF IInv, NestingBalanced, Counted
<1> QED BY <1>1, <1>2, <1>4, <1>5, <1>6, <1>7 DEF IInv

\* The end of a query empties the temporary pool.
LEMMA EndQueryKeeps == IInv /\ EndQuery => IInv'
<1> SUFFICES ASSUME IInv, EndQuery PROVE IInv' OBVIOUS
<1> USE DEF EndQuery, EnterSolve, nesting
<1>1. callers = << >> /\ term_floor = 0 /\ callers' = callers
      /\ Len(callers) = 0 /\ bind_count \in Nat
  BY DEF IInv, NestingBalanced, TypeOK
<1>2. /\ ActivationOK(<< Sentinel(0, 0) >>, 1, 0, 0, 0)
      /\ << Sentinel(0, 0) >> \in Seq(Frame)
  BY <1>1, FreshActivation DEF ActivationOK
<1>3. Active' BY <1>2 DEF Active
<1>4. TypeOK' BY <1>2 DEF IInv, TypeOK
<1>5. Suspended' BY <1>1 DEF Suspended
<1>6. NestingBalanced' BY <1>1 DEF IInv, NestingBalanced, Counted
<1> QED BY <1>1, <1>3, <1>4, <1>5, <1>6 DEF IInv

\* The steps that leave the stack and reclaim_mark alone, or only raise it.
LEMMA GrowthKeeps ==
  ASSUME IInv,
         \/ YieldAbort \/ Solution \/ Rewrite \/ FailAtA \/ Select
         \/ BuiltinOk \/ BuiltinFail \/ SonError \/ NoClause \/ MatchLast
         \/ MatchGiveUp \/ Exhausted
  PROVE  IInv'
<1> USE DEF locals, activation, nesting, errors, Return, LeaveB
<1>1. /\ TypeOK /\ term_floor \in Nat /\ bind_count \in Nat
      /\ term_offset \in Nat /\ reclaim_mark \in Nat /\ env_mark \in Nat
      /\ term_floor <= term_offset /\ (pc = "B" => env_mark = bind_count)
  BY DEF IInv, TypeOK
<1>2. Alloc => term_offset' \in Nat /\ term_offset <= term_offset'
  BY <1>1, Sizes
<1>3. \A from \in Nat : Bind(from) => bind_count' \in Nat /\ from <= bind_count'
  BY <1>1, Sizes
<1>4. CASE YieldAbort
  <2>1. TypeOK' BY <1>1, <1>4 DEF YieldAbort, TypeOK
  <2> QED BY <1>1, <1>4, <2>1, GrowStep DEF YieldAbort
<1>5. CASE Solution
  <2>1. TypeOK' BY <1>1, <1>2, <1>5 DEF Solution, TypeOK
  <2> QED BY <1>1, <1>2, <1>5, <2>1, GrowStep DEF Solution
<1>6. CASE Rewrite
  <2>1. TypeOK' BY <1>1, <1>2, <1>6 DEF Rewrite, TypeOK
  <2> QED BY <1>1, <1>2, <1>6, <2>1, GrowStep DEF Rewrite
<1>7. CASE FailAtA
  <2>1. TypeOK' BY <1>1, <1>2, <1>7 DEF FailAtA, TypeOK
  <2> QED BY <1>1, <1>2, <1>7, <2>1, GrowStep DEF FailAtA
<1>8. CASE Select
  <2>1. TypeOK' BY <1>1, <1>8 DEF Select, TypeOK
  <2> QED BY <1>1, <1>8, <2>1, GrowStep DEF Select
<1>9. CASE BuiltinOk
  <2>1. TypeOK' BY <1>1, <1>2, <1>3, <1>9 DEF BuiltinOk, TypeOK
  <2> QED BY <1>1, <1>2, <1>3, <1>9, <2>1, GrowStep DEF BuiltinOk
<1>10. CASE BuiltinFail
  <2>1. TypeOK' BY <1>1, <1>2, <1>3, <1>10 DEF BuiltinFail, TypeOK
  <2> QED BY <1>1, <1>2, <1>3, <1>10, <2>1, GrowStep DEF BuiltinFail
<1>11. CASE SonError
  <2>1. TypeOK' BY <1>1, <1>2, <1>3, <1>11 DEF SonError, TypeOK
  <2> QED BY <1>1, <1>2, <1>3, <1>11, <2>1, GrowStep DEF SonError
<1>12. CASE NoClause
  <2>1. TypeOK' BY <1>1, <1>12 DEF NoClause, TypeOK
  <2> QED BY <1>1, <1>12, <2>1, GrowStep DEF NoClause
<1>13. CASE MatchLast
  <2>1. TypeOK' BY <1>1, <1>2, <1>3, <1>13 DEF MatchLast, TypeOK
  <2> QED BY <1>1, <1>2, <1>3, <1>13, <2>1, GrowStep DEF MatchLast
<1>14. CASE MatchGiveUp
  <2>1. TypeOK' BY <1>1, <1>2, <1>3, <1>14 DEF MatchGiveUp, TypeOK
  <2> QED BY <1>1, <1>2, <1>3, <1>14, <2>1, GrowStep DEF MatchGiveUp
<1>15. CASE Exhausted
  <2>1. TypeOK' BY <1>1, <1>15 DEF Exhausted, TypeOK
  <2> QED BY <1>1, <1>15, <2>1, GrowStep DEF Exhausted
<1> QED BY <1>4, <1>5, <1>6, <1>7, <1>8, <1>9, <1>10, <1>11, <1>12, <1>13,
           <1>14, <1>15

\* What the steps that touch the stack rely on.
LEMMA InvFacts ==
  ASSUME IInv
  PROVE  /\ TypeOK /\ Active
         /\ stack \in Seq(Frame) /\ Len(stack) \in Nat /\ 1 <= Len(stack)
         /\ cut_point \in Nat /\ reclaim_mark \in Nat /\ bind_count \in Nat
         /\ term_offset \in Nat /\ term_floor \in Nat /\ env_mark \in Nat
         /\ bind_floor \in Nat /\ term_floor <= term_offset
         /\ pc = "B" => env_mark = bind_count
  BY DEF IInv, TypeOK, Active, ActivationOK

\* !/0 (solve.c:329-341).
LEMMA CutKeeps ==
  ASSUME IInv, Cut
  PROVE  IInv' /\ stack'[1] = stack[1]
<1> USE DEF Cut, nesting, errors
<1>1. term_offset' \in Nat /\ term_offset <= term_offset'
  BY Sizes DEF IInv
<1>2. cut_point \in 1 .. Len(stack) /\ cut_point \in 1 .. cut_point
  BY InvFacts DEF Active, ActivationOK
<1>3. /\ ActivationOK(stack', cut_point, reclaim_mark, bind_count, term_offset)
      /\ stack'[1] = stack[1]
  <2>1. ActivationOK(stack, cut_point, reclaim_mark, bind_count, term_offset)
    BY InvFacts DEF Active
  <2>2. /\ cut_point \in Nat /\ reclaim_mark \in Nat /\ bind_count \in Nat
        /\ term_offset \in Nat
    BY InvFacts
  <2>3. LET r == SubSeq(stack, 1, cut_point)
        IN /\ ActivationOK(r, cut_point, reclaim_mark, bind_count, term_offset)
           /\ r[1] = stack[1]
    <3> HIDE DEF Cut
    <3> QED BY SMTT(30), <1>2, <2>1, <2>2, Drop
  <2> QED BY <2>3
<1>4. ActivationOK(stack', cut_point, reclaim_mark, bind_count, term_offset')
  BY <1>1, <1>3, InvFacts, Grow
<1>5. Active' BY <1>4 DEF Active
<1>6. stack' \in Seq(Frame) BY <1>4 DEF ActivationOK
<1>7. TypeOK' BY <1>1, <1>6, InvFacts DEF TypeOK
<1>8. pc' = "A" /\ term_floor' = term_floor /\ term_floor' <= term_offset'
  BY <1>1, InvFacts
<1>20. IInv' BY <1>3, <1>5, <1>7, <1>8, LocalStep
<1> QED BY <1>3, <1>20

\* (;)/2 pushes a frame at the current sizes (solve.c:516-545).
LEMMA DisjunctionKeeps ==
  ASSUME IInv, Disjunction
  PROVE  IInv' /\ stack'[1] = stack[1]
<1> USE DEF Disjunction, nesting, errors
<1>1. PICK mark \in term_offset .. PoolSize :
         /\ stack' = Append(stack, [clause_index |-> 0, env_mark |-> bind_count,
                                    cut_point |-> cut_point,
                                    term_mark |-> mark])
         /\ term_offset' \in mark .. PoolSize
  OBVIOUS
<1>2. /\ mark \in Nat /\ term_offset <= mark
      /\ term_offset' \in Nat /\ mark <= term_offset'
  BY SMTT(30), <1>1, InvFacts, BoundsAssumption
<1>3. /\ ActivationOK(stack', cut_point, bind_count, bind_count, term_offset')
      /\ stack'[1] = stack[1]
  <2> HIDE DEF Disjunction
  <2>1. ActivationOK(stack, cut_point, reclaim_mark, bind_count, term_offset)
    BY InvFacts DEF Active
  <2> DEFINE f == [clause_index |-> 0, env_mark |-> bind_count,
                   cut_point |-> cut_point, term_mark |-> mark]
  <2>2. stack' = Append(stack, f) BY <1>1
  <2>3. /\ f \in Frame /\ f.env_mark = bind_count /\ f.cut_point = cut_point
        /\ f.term_mark = mark
    BY <1>2, InvFacts DEF Frame
  <2> HIDE DEF f
  <2>4. ActivationOK(stack', cut_point, bind_count, bind_count, mark)
    BY <1>2, <2>1, <2>2, <2>3, InvFacts, Push
  <2>5. stack'[1] = stack[1]
    BY <1>2, <2>1, <2>2, <2>3, InvFacts, Push
  <2> QED BY <1>2, <2>4, <2>5, InvFacts, Grow
<1>4. Active' BY <1>3 DEF Active
<1>5. stack' \in Seq(Frame) BY <1>3 DEF ActivationOK
<1>6. TypeOK' BY <1>2, <1>5, InvFacts DEF TypeOK
<1>20. IInv' BY <1>2, <1>3, <1>4, <1>6, InvFacts, LocalStep
<1> QED BY <1>3, <1>20

\* A match with another clause left pushes a frame (solve.c:603-614).
LEMMA MatchPushKeeps ==
  ASSUME IInv, MatchPush
  PROVE  IInv' /\ stack'[1] = stack[1]
<1> USE DEF MatchPush, nesting, errors, LeaveB
<1>1. /\ term_offset' \in Nat /\ term_offset <= term_offset'
      /\ bind_count' \in Nat /\ env_mark <= bind_count'
  BY Sizes, InvFacts
<1>2. /\ ActivationOK(stack', Len(stack), env_mark, bind_count', term_offset')
      /\ stack'[1] = stack[1]
  <2>1. ActivationOK(stack, cut_point, reclaim_mark, bind_count, term_offset)
    BY InvFacts DEF Active
  <2>2. env_mark = bind_count
    BY InvFacts
  <2> DEFINE f == [clause_index |-> 1, env_mark |-> bind_count,
                   cut_point |-> cut_point, term_mark |-> term_offset]
  <2>3. stack' = Append(stack, f) BY <2>2
  <2>4. /\ f \in Frame /\ f.env_mark = bind_count /\ f.cut_point = cut_point
        /\ f.term_mark = term_offset
    BY InvFacts DEF Frame
  <2> DEFINE n == Len(stack)
  <2>5. /\ cut_point \in Nat /\ reclaim_mark \in Nat /\ bind_count \in Nat
        /\ term_offset \in Nat /\ term_offset <= term_offset
        /\ n \in Nat /\ n \in {cut_point, Len(stack)}
    BY InvFacts
  <2> HIDE DEF MatchPush, f, n
  <2>6. ActivationOK(stack', n, bind_count, bind_count, term_offset)
    BY <2>1, <2>3, <2>4, <2>5, Push
  <2>7. stack'[1] = stack[1]
    <3>1. stack \in Seq(Frame) /\ n \in Nat /\ 1 <= n /\ n = Len(stack)
      BY InvFacts DEF n
    <3>2. 1 \in 1 .. Len(stack) BY <3>1
    <3> QED BY <2>3, <2>4, <3>1, <3>2
  <2>8. ActivationOK(stack', Len(stack), bind_count, bind_count, term_offset)
    BY <2>6 DEF n
  <2> QED BY <1>1, <2>2, <2>7, <2>8, InvFacts, Grow
<1>3. Active' BY <1>2 DEF Active
<1>4. stack' \in Seq(Frame) BY <1>2 DEF ActivationOK
<1>5. TypeOK' BY <1>1, <1>4, InvFacts DEF TypeOK
<1>20. IInv' BY <1>1, <1>2, <1>3, <1>5, InvFacts, LocalStep
<1> QED BY <1>2, <1>20

\* Last-call reclaiming stops at reclaim_mark (solve.c:622-652).
LEMMA MatchReclaimKeeps ==
  ASSUME IInv, MatchReclaim
  PROVE  IInv' /\ stack'[1] = stack[1]
<1> USE DEF MatchReclaim, nesting, errors, LeaveB
<1>1. PICK pre_patch \in term_offset .. PoolSize :
         /\ term_offset' \in pre_patch .. PoolSize
         /\ Ratchet(pre_patch, term_offset')
  OBVIOUS
<1>2. /\ term_offset' \in Nat /\ term_offset <= term_offset'
      /\ bind_count' = reclaim_mark
  BY <1>1, InvFacts, BoundsAssumption
<1>3. /\ ActivationOK(stack', cut_point, reclaim_mark, bind_count', term_offset')
      /\ stack'[1] = stack[1]
  <2>1. CASE term_offset' > pre_patch /\ Len(stack) > 1
    <3>1. stack' = [stack EXCEPT ![Len(stack)].term_mark = term_offset']
      BY <1>1, <2>1 DEF Ratchet
    <3>2. /\ ActivationOK(stack', cut_point, reclaim_mark, bind_count,
                          term_offset')
          /\ stack'[1] = stack[1]
      <4>1. ActivationOK(stack, cut_point, reclaim_mark, bind_count, term_offset)
        BY InvFacts DEF Active
      <4> HIDE DEF MatchReclaim
      <4>2. /\ cut_point \in Nat /\ reclaim_mark \in Nat /\ bind_count \in Nat
            /\ term_offset \in Nat /\ term_offset' \in Nat
            /\ term_offset <= term_offset' /\ 1 < Len(stack)
        BY <1>2, <2>1, InvFacts
      <4>3. ActivationOK(stack', cut_point, reclaim_mark, bind_count,
                         term_offset')
        BY <3>1, <4>1, <4>2, Raise
      <4>4. stack'[1] = stack[1] BY SMTT(30), <3>1, <4>1, <4>2, Raise
      <4> QED BY <4>3, <4>4
    <3> QED BY SMTT(30), <1>2, <3>2, InvFacts, Grow
  <2>2. CASE ~ (term_offset' > pre_patch /\ Len(stack) > 1)
    <3>1. stack' = stack BY <1>1, <2>2 DEF Ratchet
    <3> QED BY <1>2, <3>1, InvFacts, Grow DEF Active
  <2> QED BY <2>1, <2>2
<1>4. Active' BY <1>3 DEF Active
<1>5. stack' \in Seq(Frame) BY <1>3 DEF ActivationOK
<1>6. TypeOK' BY <1>2, <1>5, InvFacts DEF TypeOK
<1>20. IInv' BY <1>2, <1>3, <1>4, <1>6, InvFacts, LocalStep
<1> QED BY <1>3, <1>20

\* The tail-call reset stops at the base of the activation (solve.c:658-686).
LEMMA MatchTailResetKeeps == IInv /\ MatchTailReset => IInv'
<1> SUFFICES ASSUME IInv, MatchTailReset PROVE IInv' OBVIOUS
<1>0. /\ stack \in Seq(Frame) /\ Len(stack) \in Nat /\ 1 <= Len(stack)
      /\ bind_floor \in Nat /\ term_floor \in Nat
  BY InvFacts
<1>a. Len(stack) <= 1 BY DEF MatchTailReset
<1>b. Len(stack) = 1
  <2> DEFINE n == Len(stack)
  <2>1. n \in Nat /\ 1 <= n /\ n <= 1 BY <1>0, <1>a
  <2> HIDE DEF n
  <2>2. n = 1 BY <2>1
  <2> QED BY <2>2 DEF n
<1> USE DEF MatchTailReset, nesting, errors, LeaveB
<1>1. Len(stack) = 1 /\ stack[1] \in Frame
  <2>1. Len(stack) = 1 /\ stack \in Seq(Frame) BY <1>0, <1>b
  <2>2. 1 \in 1 .. Len(stack) BY <2>1
  <2> QED BY <2>1, <2>2, ElementOfSeq
<1>2. /\ stack[1].term_mark \in Nat /\ stack[1].env_mark \in Nat
      /\ base_term \in Nat /\ base_env \in Nat
      /\ stack[1].term_mark <= base_term /\ term_floor <= base_term
      /\ stack[1].env_mark <= base_env
  BY <1>0, <1>1, FrameFields DEF MaxOf, base_term, base_env
<1>3. /\ term_offset' \in base_term .. PoolSize
      /\ bind_count' = base_env /\ reclaim_mark' = base_env
  OBVIOUS
<1>4. term_offset' \in Nat /\ base_term <= term_offset'
  BY <1>2, <1>3, BoundsAssumption
<1>5. ActivationOK(stack, cut_point, base_env, base_env, term_offset')
  <2>1. \A i \in 1 .. Len(stack) : /\ stack[i].env_mark <= base_env
                                   /\ stack[i].term_mark <= term_offset'
    BY <1>1, <1>2, <1>4
  <2> QED BY <2>1, InvFacts DEF Active, ActivationOK
<1>6. Active' BY <1>3, <1>5 DEF Active
<1>7. TypeOK' BY <1>2, <1>3, <1>4, InvFacts DEF TypeOK
<1>8. term_floor' <= term_offset' BY <1>2, <1>4, InvFacts
<1> QED BY <1>6, <1>7, <1>8, LocalStep

\* Backtracking falls back to the newest mark (solve.c:711-732).
LEMMA BacktrackKeeps ==
  ASSUME IInv, Backtrack
  PROVE  IInv' /\ stack'[1] = stack[1]
<1> USE DEF Backtrack, RestoreMarks, nesting, errors
<1> DEFINE t == MaxOf(Top.term_mark, term_floor)
<1>1. Len(stack) \in 1 .. Len(stack) BY InvFacts
<1>2. Top \in Frame BY <1>1, InvFacts, ElementOfSeq DEF Top
<1>3. t \in Nat /\ Top.term_mark <= t /\ term_floor <= t /\ term_offset' = t
  BY SMTT(30), <1>2, FrameFields, InvFacts DEF MaxOf, RestoredOffset
<1> HIDE DEF t
<1>4. /\ ActivationOK(stack', Top.cut_point, Top.env_mark, Top.env_mark, t)
      /\ stack'[1] = stack[1]
  BY <1>3, InvFacts, Pop DEF Active, Top
<1>5. Active' BY <1>3, <1>4 DEF Active
<1>6. stack' \in Seq(Frame) BY <1>4 DEF ActivationOK
<1>7. TypeOK' BY <1>2, <1>3, <1>6, FrameFields, InvFacts DEF TypeOK
<1>20. IInv' BY <1>3, <1>4, <1>5, <1>7, InvFacts, LocalStep
<1> QED BY <1>4, <1>20

-----------------------------------------------------------------------------
(* Suspending an activation and coming back to it                          *)

\* A sequence with one more element.
LEMMA Appended ==
  ASSUME NEW S, NEW s \in Seq(S), NEW e \in S, NEW r, r = Append(s, e)
  PROVE  /\ r \in Seq(S) /\ Len(s) \in Nat /\ Len(r) = Len(s) + 1
         /\ \A i \in 1 .. Len(s) : r[i] = s[i]
         /\ r[Len(s) + 1] = e /\ r # << >>
  OBVIOUS

\* A sequence without its last element.
LEMMA Removed ==
  ASSUME NEW S, NEW s \in Seq(S), s # << >>, NEW r,
         r = SubSeq(s, 1, Len(s) - 1)
  PROVE  /\ r \in Seq(S) /\ Len(s) \in Nat /\ 1 <= Len(s)
         /\ Len(r) = Len(s) - 1
         /\ \A i \in 1 .. Len(r) : r[i] = s[i]
         /\ s[Len(s)] \in S
         /\ r = << >> <=> Len(s) = 1
<1>1. Len(s) \in Nat /\ 1 <= Len(s) BY EmptySeq
<1>2. s[Len(s)] \in S /\ \A i \in 1 .. Len(s) : s[i] \in S
  BY <1>1, ElementOfSeq
<1> DEFINE n == Len(s)
           m == n - 1
<1>3. n \in Nat /\ 1 <= n /\ m \in Nat /\ m = n - 1 BY <1>1
<1>4. \A i \in 1 .. n : s[i] \in S BY <1>2
<1>5. r = SubSeq(s, 1, m) OBVIOUS
<1> HIDE DEF n, m
<1>6. \A i \in 1 .. m : s[i] \in S BY <1>3, <1>4
<1>7. /\ r \in Seq(S) /\ Len(r) = m
      /\ \A i \in 1 .. m : r[i] = s[i]
  BY <1>3, <1>5, <1>6, SubSeqProperties
<1>8. r = << >> <=> m = 0 BY <1>3, <1>7, EmptySeq
<1>9. r = << >> <=> n = 1 BY <1>3, <1>8
<1>10. Len(s) = n BY DEF n
<1> HIDE <1>5
<1> QED BY <1>2, <1>3, <1>7, <1>9, <1>10

\* The indices counted by nest_depth are finitely many.
LEMMA CountedFinite ==
  ASSUME callers \in Seq(Caller)
  PROVE  /\ IsFiniteSet(Counted) /\ Cardinality(Counted) \in Nat
         /\ \A k \in Counted : k \in 1 .. Len(callers)
<1>1. IsFiniteSet(1 .. Len(callers)) BY FS_Interval, LenProperties
<1>2. Counted \subseteq 1 .. Len(callers) BY DEF Counted
<1> QED BY <1>1, <1>2, FS_Subset, FS_CardinalityType

\* The bookkeeping of a nested solve as it starts.
LEMMA NestCounts ==
  ASSUME IInv, NEW c \in Caller, callers' = Append(callers, c),
         nest_depth' = nest_depth + Counts(c.kind)
  PROVE  nest_depth' \in Nat /\ nest_depth' = Cardinality(Counted')
<1> DEFINE n == Len(callers)
<1>1. callers \in Seq(Caller) /\ nest_depth = Cardinality(Counted)
  BY DEF IInv, TypeOK, NestingBalanced
<1>2. /\ n \in Nat /\ Len(callers') = n + 1
      /\ \A i \in 1 .. n : callers'[i] = callers[i]
      /\ callers'[n + 1] = c
  BY <1>1, Appended
<1>3. /\ IsFiniteSet(Counted) /\ Cardinality(Counted) \in Nat
      /\ n + 1 \notin Counted
  BY <1>1, <1>2, CountedFinite
<1> HIDE DEF n
<1>4. CASE c.kind = "capture"
  <2>1. Counted' = Counted BY <1>2, <1>4 DEF Counted, n
  <2> QED BY <1>1, <1>3, <1>4, <2>1 DEF Counts
<1>5. CASE c.kind # "capture"
  <2>1. Counted' = Counted \cup {n + 1} BY <1>2, <1>5 DEF Counted, n
  <2>2. Cardinality(Counted') = Cardinality(Counted) + 1
    BY <1>3, <2>1, FS_AddElement
  <2> QED BY <1>1, <1>3, <1>5, <2>2 DEF Counts
<1> QED BY <1>4, <1>5

\* A nested solve starts above everything its caller holds.
LEMMA NestKeeps ==
  ASSUME IInv, NEW kind \in InlineKinds \cup BuiltinKinds, Nest(kind)
  PROVE  IInv'
<1> DEFINE n == Len(callers)
           c == [kind |-> kind, stack |-> stack, cut_point |-> cut_point,
                 reclaim_mark |-> reclaim_mark, found_any |-> found_any,
                 emark |-> bind_count, bind_floor |-> bind_floor,
                 term_floor |-> term_floor]
           snt == Sentinel(bind_count, term_offset')
<1>1. /\ term_offset' \in Nat /\ term_offset <= term_offset'
      /\ bind_count' = bind_count /\ bind_count \in Nat
      /\ term_floor' = term_floor /\ term_floor <= term_offset
      /\ term_floor \in Nat /\ term_offset \in Nat
  BY Sizes, InvFacts DEF Nest
<1>2. c \in Caller
  BY InvFacts DEF Caller, TypeOK
<1>3. /\ c.kind = kind /\ c.stack = stack /\ c.cut_point = cut_point
      /\ c.reclaim_mark = reclaim_mark /\ c.emark = bind_count
      /\ c.bind_floor = bind_floor /\ c.term_floor = term_floor
  OBVIOUS
<1>4. callers' = Append(callers, c) BY DEF Nest, PushCaller
<1> HIDE DEF c
<1>5. callers \in Seq(Caller) BY InvFacts DEF TypeOK
<1>6. /\ callers' \in Seq(Caller) /\ n \in Nat /\ Len(callers') = n + 1
      /\ \A i \in 1 .. n : callers'[i] = callers[i]
      /\ callers'[n + 1] = c /\ callers' # << >>
  BY <1>2, <1>4, <1>5, Appended
<1> HIDE DEF n
<1>7. /\ stack' = << snt >> /\ cut_point' = 1 /\ reclaim_mark' = bind_count
      /\ pc' = "A" /\ clause_idx' = 0 /\ env_mark' = 0 /\ found_any' = FALSE
      /\ bind_floor' = RaisedFloor(kind)
      /\ nest_depth' = nest_depth + Counts(kind)
      /\ UNCHANGED <<ret, errors>>
  BY DEF Nest, EnterSolve, CountNest
<1>8. /\ ActivationOK(stack', 1, bind_count, bind_count, term_offset')
      /\ stack'[1] = snt
  <2>1. bind_count <= bind_count /\ term_offset' <= term_offset' BY <1>1
  <2> QED BY <1>1, <1>7, <2>1, FreshActivation
<1>9. Active' BY <1>1, <1>7, <1>8 DEF Active
<1>10. nest_depth' \in Nat /\ nest_depth' = Cardinality(Counted')
  BY <1>2, <1>3, <1>4, <1>7, NestCounts
<1>11. TypeOK'
  <2>1. bind_floor' \in Nat
    BY <1>7, InvFacts DEF RaisedFloor, MaxOf
  <2> QED BY <1>1, <1>6, <1>7, <1>8, <1>10, <2>1, InvFacts
          DEF TypeOK, ActivationOK, errors
<1>12. CallerOK(c, snt)
  <2>1. ActivationOK(stack, cut_point, reclaim_mark, bind_count, term_offset')
    BY <1>1, InvFacts, Grow DEF Active
  <2>2. snt.env_mark = bind_count /\ snt.term_mark = term_offset'
    BY <1>1, SentinelType
  <2> QED BY <1>1, <1>3, <2>1, <2>2 DEF CallerOK
<1> HIDE DEF snt
<1>13. Suspended'
  <2> SUFFICES ASSUME NEW k \in 1 .. n + 1
               PROVE  CallerOK(callers'[k], Callee(k)')
    BY <1>6 DEF Suspended
  <2>1. CASE k = n + 1
    BY <1>6, <1>8, <1>12, <2>1 DEF Callee
  <2>2. CASE k # n + 1
    <3>1. k \in 1 .. n BY <1>6, <2>2
    <3>2. CASE k = n
      BY <1>3, <1>6, <3>1, <3>2 DEF Callee, IInv, Suspended, n
    <3>3. CASE k # n
      <4>1. k + 1 \in 1 .. n BY <1>6, <3>1, <3>3
      <4> QED BY <1>6, <3>1, <3>3, <4>1 DEF Callee, IInv, Suspended, n
    <3> QED BY <3>2, <3>3
  <2> QED BY <2>1, <2>2
<1>14. NestingBalanced'
  <2>1. /\ bind_floor = IF callers = << >> THEN 0 ELSE FloorBelow(callers[n])
        /\ \A k \in 1 .. n :
             callers[k].bind_floor =
               IF k = 1 THEN 0 ELSE FloorBelow(callers[k - 1])
        /\ (\A k \in 1 .. n : callers[k].kind # "findall") => term_floor = 0
        /\ \A k \in 1 .. n :
             (\A j \in 1 .. k - 1 : callers[j].kind # "findall")
               => callers[k].term_floor = 0
        /\ callers = << >> <=> n = 0
    BY <1>5, EmptySeq DEF IInv, NestingBalanced, n
  <2>2. bind_floor' = FloorBelow(callers'[Len(callers')])
    BY <1>3, <1>6, <1>7 DEF FloorBelow, RaisedFloor
  <2>3. ASSUME NEW k \in 1 .. n + 1
        PROVE  callers'[k].bind_floor =
                 IF k = 1 THEN 0 ELSE FloorBelow(callers'[k - 1])
    <3>1. CASE k = n + 1
      <4>1. CASE n = 0 BY <1>3, <1>6, <2>1, <3>1, <4>1
      <4>2. CASE n # 0
        <5>1. n \in 1 .. n /\ k # 1 /\ k - 1 = n BY <1>6, <3>1, <4>2
        <5> QED BY <1>3, <1>6, <2>1, <3>1, <4>2, <5>1
      <4> QED BY <4>1, <4>2
    <3>2. CASE k # n + 1
      <4>1. k \in 1 .. n /\ (k # 1 => k - 1 \in 1 .. n) BY <1>6, <3>2
      <4> QED BY <1>6, <2>1, <4>1
    <3> QED BY <3>1, <3>2
  <2>4. ASSUME \A k \in 1 .. n + 1 : callers'[k].kind # "findall"
        PROVE  term_floor' = 0
    <3>1. ASSUME NEW k \in 1 .. n PROVE callers[k].kind # "findall"
      BY <1>6, <2>4
    <3> QED BY <1>1, <2>1, <3>1
  <2>5. ASSUME NEW k \in 1 .. n + 1,
               \A j \in 1 .. k - 1 : callers'[j].kind # "findall"
        PROVE  callers'[k].term_floor = 0
    <3>1. ASSUME NEW j \in 1 .. k - 1 PROVE callers[j].kind # "findall"
      BY <1>6, <2>5
    <3>2. CASE k = n + 1
      <4>1. k - 1 = n BY <1>6, <3>2
      <4> QED BY <1>3, <1>6, <2>1, <3>1, <3>2, <4>1
    <3>3. CASE k # n + 1
      <4>1. k \in 1 .. n BY <1>6, <3>3
      <4> QED BY <1>6, <2>1, <3>1, <4>1
    <3> QED BY <3>2, <3>3
  <2>6. pc' # "idle" BY <1>7
  <2> QED BY <1>6, <1>10, <2>2, <2>3, <2>4, <2>5, <2>6 DEF NestingBalanced
<1> QED BY <1>1, <1>7, <1>9, <1>11, <1>13, <1>14 DEF IInv

\* catch/3, if-then-else and (->)/2 start a nested solve.
LEMMA NestInlineKeeps == IInv /\ NestInline => IInv'
  BY NestKeeps DEF NestInline

\* once/1, \+/1, findall/3 and with_output_to/2 start a nested solve.
LEMMA NestBuiltinKeeps == IInv /\ NestBuiltin => IInv'
  BY NestKeeps DEF NestBuiltin

\* The bookkeeping of a nested solve as it ends.
LEMMA ResumeCounts ==
  ASSUME IInv, callers # << >>,
         callers' = SubSeq(callers, 1, Len(callers) - 1),
         nest_depth' = nest_depth - Counts(Caller_.kind)
  PROVE  nest_depth' \in Nat /\ nest_depth' = Cardinality(Counted')
<1> DEFINE n == Len(callers)
<1>1. callers \in Seq(Caller) /\ nest_depth = Cardinality(Counted)
  BY DEF IInv, TypeOK, NestingBalanced
<1>2. /\ n \in Nat /\ 1 <= n /\ Len(callers') = n - 1
      /\ \A i \in 1 .. n - 1 : callers'[i] = callers[i]
  BY <1>1, Removed
<1>3. IsFiniteSet(Counted) /\ Cardinality(Counted) \in Nat
  BY <1>1, CountedFinite
<1>4. n = Len(callers) OBVIOUS
<1> HIDE DEF n
<1>5. Counted' = Counted \ {n}
  <2>1. Counted = {k \in 1 .. n : callers[k].kind # "capture"}
    BY <1>4 DEF Counted
  <2>2. Counted' = {k \in 1 .. n - 1 : callers[k].kind # "capture"}
    BY <1>2 DEF Counted
  <2> QED BY <1>2, <2>1, <2>2
<1>6. n \in Counted <=> Caller_.kind # "capture"
  BY <1>2, <1>4 DEF Counted, Caller_
<1>7. Cardinality(Counted') =
        IF n \in Counted THEN Cardinality(Counted) - 1 ELSE Cardinality(Counted)
  BY <1>3, <1>5, FS_RemoveElement
<1>8. Cardinality(Counted') \in Nat
  BY <1>3, <1>5, FS_RemoveElement, FS_CardinalityType
<1> QED BY <1>1, <1>3, <1>6, <1>7, <1>8 DEF Counts

\* What a suspended activation finds when the one it waits for returns.
LEMMA ResumeFinds ==
  ASSUME IInv, callers # << >>, NEW mark, Resume(mark)
  PROVE  /\ callers' \in Seq(Caller) /\ Suspended' /\ Caller_ \in Caller
         /\ ActivationOK(stack', cut_point', Caller_.reclaim_mark,
                         Caller_.emark, term_offset)
         /\ Caller_.emark <= bind_count
         /\ Caller_.term_floor <= term_offset
<1> DEFINE n == Len(callers)
<1>1. callers \in Seq(Caller) BY InvFacts DEF TypeOK
<1>2. /\ callers' \in Seq(Caller) /\ n \in Nat /\ 1 <= n /\ Len(callers') = n - 1
      /\ \A i \in 1 .. n - 1 : callers'[i] = callers[i]
      /\ callers[n] \in Caller
  BY <1>1, Removed DEF Resume
<1>3. n = Len(callers) /\ Caller_ = callers[n] BY DEF Caller_
<1>4. /\ stack' = Caller_.stack /\ cut_point' = Caller_.cut_point
  BY DEF Resume
<1> HIDE DEF n
<1>5. \A k \in 1 .. n : CallerOK(callers[k], Callee(k))
  BY <1>3 DEF IInv, Suspended
<1>6. Suspended'
  <2> SUFFICES ASSUME NEW k \in 1 .. n - 1
               PROVE  CallerOK(callers'[k], Callee(k)')
    BY <1>2 DEF Suspended
  <2>1. k \in 1 .. n /\ k # n /\ k + 1 \in 1 .. n BY <1>2
  <2>2. Callee(k) = callers[k + 1].stack[1] BY <1>3, <2>1 DEF Callee
  <2>3. CASE k = n - 1
    <3>1. k = Len(callers') /\ callers[k + 1] = Caller_
      BY <1>2, <1>3, <2>3
    <3>2. Callee(k)' = stack'[1] BY <3>1 DEF Callee
    <3>3. Callee(k)' = Callee(k) BY <1>4, <2>2, <3>1, <3>2
    <3> QED BY <1>2, <1>5, <2>1, <3>3
  <2>4. CASE k # n - 1
    <3>1. k # Len(callers') /\ k + 1 \in 1 .. n - 1 BY <1>2, <2>4
    <3>2. Callee(k)' = callers'[k + 1].stack[1] BY <3>1 DEF Callee
    <3>3. callers'[k + 1] = callers[k + 1] BY <1>2, <3>1
    <3> QED BY <1>2, <1>5, <2>1, <2>2, <3>2, <3>3
  <2> QED BY <2>3, <2>4
<1>7. n \in 1 .. n /\ Callee(n) = stack[1] BY <1>2, <1>3 DEF Callee
<1>8. CallerOK(Caller_, stack[1]) BY <1>3, <1>5, <1>7
<1>9. /\ stack[1].env_mark <= bind_count /\ stack[1].term_mark <= term_offset
      /\ stack[1] \in Frame
  <2>1. /\ stack \in Seq(Frame) /\ 1 \in 1 .. Len(stack)
        /\ ActivationOK(stack, cut_point, reclaim_mark, bind_count, term_offset)
    BY InvFacts DEF Active
  <2> QED BY <2>1, ElementOfSeq DEF ActivationOK
<1>10. /\ Caller_.reclaim_mark \in Nat /\ Caller_.emark \in Nat
       /\ Caller_.term_floor \in Nat /\ stack[1].term_mark \in Nat
       /\ stack[1].env_mark \in Nat /\ term_offset \in Nat /\ bind_count \in Nat
  BY <1>2, <1>3, <1>9, FrameFields, InvFacts DEF Caller
<1>11. ActivationOK(Caller_.stack, Caller_.cut_point, Caller_.reclaim_mark,
                    Caller_.emark, term_offset)
  <2>1. ActivationOK(Caller_.stack, Caller_.cut_point, Caller_.reclaim_mark,
                     Caller_.emark, stack[1].term_mark)
    BY <1>8 DEF CallerOK
  <2> QED BY <1>9, <1>10, <2>1, Grow
<1>12. Caller_.emark <= bind_count /\ Caller_.term_floor <= term_offset
  BY <1>8, <1>9, <1>10 DEF CallerOK
<1> QED BY <1>2, <1>3, <1>4, <1>6, <1>11, <1>12

\* What every construct leaves behind when its nested solve returns.
ResumeArgs ==
  /\ reclaim_mark' \in Nat
  /\ Caller_.emark <= reclaim_mark' \/ reclaim_mark' = Caller_.reclaim_mark
  /\ bind_count' \in Nat /\ Caller_.emark <= bind_count'
  /\ term_offset' \in Nat /\ term_offset <= term_offset'
  /\ pc' \in {"A", "C", "return"} /\ ret' \in BOOLEAN
  /\ has_error' \in BOOLEAN /\ ball' \in BOOLEAN
  /\ term_floor' = IF Caller_.kind = "findall" THEN Caller_.term_floor
                   ELSE term_floor

\* A caller that resumes finds its frames below the trail and the pool.
LEMMA ResumeKeeps ==
  ASSUME IInv, callers # << >>, Resume(reclaim_mark'), ResumeArgs
  PROVE  IInv'
<1> USE DEF ResumeArgs
<1> DEFINE n == Len(callers)
<1>1. /\ callers' \in Seq(Caller) /\ Suspended' /\ Caller_ \in Caller
      /\ ActivationOK(stack', cut_point', Caller_.reclaim_mark,
                      Caller_.emark, term_offset)
      /\ Caller_.emark <= bind_count /\ Caller_.term_floor <= term_offset
  BY ResumeFinds
<1>2. /\ Caller_.reclaim_mark \in Nat /\ Caller_.emark \in Nat
      /\ Caller_.term_floor \in Nat /\ Caller_.bind_floor \in Nat
      /\ Caller_.found_any \in BOOLEAN
      /\ term_offset \in Nat /\ term_floor \in Nat /\ term_floor <= term_offset
  BY <1>1, InvFacts DEF Caller
<1>3. ActivationOK(stack', cut_point', reclaim_mark', bind_count', term_offset')
  <2>1. Caller_.reclaim_mark <= reclaim_mark' \/ Caller_.emark <= reclaim_mark'
    BY <1>2
  <2> QED BY <1>1, <1>2, <2>1, Grow
<1>4. /\ found_any' = Caller_.found_any /\ clause_idx' = 0 /\ env_mark' = 0
      /\ bind_floor' = Caller_.bind_floor
      /\ nest_depth' = nest_depth - Counts(Caller_.kind)
      /\ callers' = SubSeq(callers, 1, n - 1)
  BY DEF Resume, LeaveB
<1>5. Active' BY <1>3, <1>4 DEF Active
<1>6. nest_depth' \in Nat /\ nest_depth' = Cardinality(Counted')
  BY <1>4, ResumeCounts
<1>7. TypeOK'
  <2>1. cut_point' \in Nat /\ stack' \in Seq(Frame)
    <3>1. /\ stack' \in Seq(Frame) /\ cut_point' \in 1 .. Len(stack')
      BY <1>3 DEF ActivationOK
    <3> QED BY <3>1
  <2>2. term_floor' \in Nat
    BY <1>2, InvFacts DEF TypeOK
  <2> QED BY <1>1, <1>2, <1>4, <1>6, <2>1, <2>2 DEF TypeOK
<1>8. term_floor' <= term_offset'
  <2>1. term_floor' <= term_offset /\ term_floor' \in Nat BY <1>1, <1>2
  <2> QED BY <1>2, <2>1
<1>9. NestingBalanced'
  <2>1. callers \in Seq(Caller) BY InvFacts DEF TypeOK
  <2>2. /\ n \in Nat /\ 1 <= n /\ Len(callers') = n - 1
        /\ \A i \in 1 .. n - 1 : callers'[i] = callers[i]
        /\ callers' = << >> <=> n = 1
    BY SMTT(30), <1>4, <2>1, Removed
  <2>3. n = Len(callers) /\ Caller_ = callers[n] BY DEF Caller_
  <2> HIDE DEF n
  <2>4. /\ \A k \in 1 .. n :
             callers[k].bind_floor =
               IF k = 1 THEN 0 ELSE FloorBelow(callers[k - 1])
        /\ (\A k \in 1 .. n : callers[k].kind # "findall") => term_floor = 0
        /\ \A k \in 1 .. n :
             (\A j \in 1 .. k - 1 : callers[j].kind # "findall")
               => callers[k].term_floor = 0
    BY <2>3 DEF IInv, NestingBalanced
  <2>5. bind_floor' = IF callers' = << >> THEN 0
                      ELSE FloorBelow(callers'[Len(callers')])
    <3>1. CASE n = 1 BY <1>4, <2>2, <2>3, <2>4, <3>1
    <3>2. CASE n # 1
      <4>1. n \in 1 .. n /\ n - 1 \in 1 .. n - 1 BY <2>2, <3>2
      <4>2. callers[n].bind_floor = FloorBelow(callers[n - 1])
        BY <2>4, <3>2, <4>1
      <4>3. callers'[n - 1] = callers[n - 1] BY <2>2, <4>1
      <4> QED BY <1>4, <2>2, <2>3, <3>2, <4>2, <4>3
    <3> QED BY <3>1, <3>2
  <2>6. ASSUME NEW k \in 1 .. n - 1
        PROVE  callers'[k].bind_floor =
                 IF k = 1 THEN 0 ELSE FloorBelow(callers'[k - 1])
    <3>1. k \in 1 .. n /\ (k # 1 => k - 1 \in 1 .. n - 1) BY <2>2
    <3> QED BY <2>2, <2>4, <3>1
  <2>7. ASSUME \A k \in 1 .. n - 1 : callers'[k].kind # "findall"
        PROVE  term_floor' = 0
    <3>1. ASSUME NEW k \in 1 .. n - 1 PROVE callers[k].kind # "findall"
      BY <2>2, <2>7
    <3>2. CASE Caller_.kind = "findall"
      <4>1. n \in 1 .. n BY <2>2
      <4> QED BY <2>3, <2>4, <3>1, <3>2, <4>1
    <3>3. CASE Caller_.kind # "findall"
      <4>1. ASSUME NEW k \in 1 .. n PROVE callers[k].kind # "findall"
        <5>1. k = n \/ k \in 1 .. n - 1 BY <2>2
        <5> QED BY <2>3, <3>1, <3>3, <5>1
      <4> QED BY <2>4, <3>3, <4>1
    <3> QED BY <3>2, <3>3
  <2>8. ASSUME NEW k \in 1 .. n - 1,
               \A j \in 1 .. k - 1 : callers'[j].kind # "findall"
        PROVE  callers'[k].term_floor = 0
    <3>1. k \in 1 .. n /\ \A j \in 1 .. k - 1 : j \in 1 .. n - 1 BY <2>2
    <3>2. \A j \in 1 .. k - 1 : callers[j].kind # "findall"
      BY <2>2, <2>8, <3>1
    <3> QED BY <2>2, <2>4, <3>1, <3>2
  <2>9. pc' # "idle" OBVIOUS
  <2> QED BY <1>6, <2>2, <2>5, <2>6, <2>7, <2>8, <2>9 DEF NestingBalanced
<1> QED BY <1>1, <1>4, <1>5, <1>7, <1>8, <1>9 DEF IInv

\* The ways in which a nested solve's caller goes on.
LEMMA ReturnKeeps ==
  ASSUME IInv, AtReturn
  PROVE  IInv'
<1> USE DEF Returning, GoOn, Proceed, Return, errors
<1>1. /\ TypeOK /\ bind_count \in Nat /\ term_offset \in Nat
      /\ term_floor \in Nat /\ has_error \in BOOLEAN /\ ball \in BOOLEAN
  BY InvFacts DEF TypeOK
<1>2. Alloc => term_offset' \in Nat /\ term_offset <= term_offset'
  BY <1>1, Sizes
<1>3. \A from \in Nat : Bind(from) => bind_count' \in Nat /\ from <= bind_count'
  BY <1>1, Sizes
<1>4. /\ callers # << >>
      /\ Resume(bind_count) \/ Resume(Caller_.reclaim_mark)
  BY DEF AtReturn, InlineSucceeds, ElseBranch, InlineFails, CondThrew, Caught,
         Rethrown, MetaSucceeds, MetaFails, NotReturns, FindallReturns
<1>5. /\ Resume(reclaim_mark')
      /\ reclaim_mark' = bind_count \/ reclaim_mark' = Caller_.reclaim_mark
  BY <1>4 DEF Resume
<1>6. /\ Caller_.emark \in Nat /\ Caller_.reclaim_mark \in Nat
      /\ Caller_.emark <= bind_count
  BY <1>4, <1>5, ResumeFinds DEF Caller
<1> HIDE DEF Returning, GoOn, Proceed, Return, errors
<1>7. ASSUME InlineSucceeds PROVE ResumeArgs
  <2> USE <1>7 DEF InlineSucceeds, Returning, GoOn, Proceed, Return, errors, InlineKinds
  <2>1. bind_count' \in Nat /\ Caller_.emark <= bind_count'
    BY <1>1, <1>3, <1>6
  <2>2. term_offset' \in Nat /\ term_offset <= term_offset'
    BY <1>1, <1>2
  <2>3. /\ pc' \in {"A", "C", "return"} /\ ret' \in BOOLEAN
        /\ has_error' \in BOOLEAN /\ ball' \in BOOLEAN
    BY <1>1
  <2>4. term_floor' = IF Caller_.kind = "findall" THEN Caller_.term_floor
                      ELSE term_floor
    OBVIOUS
  <2> HIDE <1>7
  <2> QED BY <1>1, <1>5, <1>6, <2>1, <2>2, <2>3, <2>4 DEF ResumeArgs
<1>8. ASSUME ElseBranch PROVE ResumeArgs
  <2> USE <1>8 DEF ElseBranch, Returning, GoOn, Proceed, Return, errors
  <2>1. bind_count' \in Nat /\ Caller_.emark <= bind_count'
    BY <1>1, <1>3, <1>6
  <2>2. term_offset' \in Nat /\ term_offset <= term_offset'
    BY <1>1, <1>2
  <2>3. /\ pc' \in {"A", "C", "return"} /\ ret' \in BOOLEAN
        /\ has_error' \in BOOLEAN /\ ball' \in BOOLEAN
    BY <1>1
  <2>4. term_floor' = IF Caller_.kind = "findall" THEN Caller_.term_floor
                      ELSE term_floor
    OBVIOUS
  <2> HIDE <1>8
  <2> QED BY <1>1, <1>5, <1>6, <2>1, <2>2, <2>3, <2>4 DEF ResumeArgs
<1>9. ASSUME InlineFails PROVE ResumeArgs
  <2> USE <1>9 DEF InlineFails, Returning, GoOn, Proceed, Return, errors
  <2>1. bind_count' \in Nat /\ Caller_.emark <= bind_count'
    BY <1>1, <1>3, <1>6
  <2>2. term_offset' \in Nat /\ term_offset <= term_offset'
    BY <1>1, <1>2
  <2>3. /\ pc' \in {"A", "C", "return"} /\ ret' \in BOOLEAN
        /\ has_error' \in BOOLEAN /\ ball' \in BOOLEAN
    BY <1>1
  <2>4. term_floor' = IF Caller_.kind = "findall" THEN Caller_.term_floor
                      ELSE term_floor
    OBVIOUS
  <2> HIDE <1>9
  <2> QED BY <1>1, <1>5, <1>6, <2>1, <2>2, <2>3, <2>4 DEF ResumeArgs
<1>10. ASSUME CondThrew PROVE ResumeArgs
  <2> USE <1>10 DEF CondThrew, Returning, GoOn, Proceed, Return, errors
  <2>1. bind_count' \in Nat /\ Caller_.emark <= bind_count'
    BY <1>1, <1>3, <1>6
  <2>2. term_offset' \in Nat /\ term_offset <= term_offset'
    BY <1>1, <1>2
  <2>3. /\ pc' \in {"A", "C", "return"} /\ ret' \in BOOLEAN
        /\ has_error' \in BOOLEAN /\ ball' \in BOOLEAN
    BY <1>1
  <2>4. term_floor' = IF Caller_.kind = "findall" THEN Caller_.term_floor
                      ELSE term_floor
    OBVIOUS
  <2> HIDE <1>10
  <2> QED BY <1>1, <1>5, <1>6, <2>1, <2>2, <2>3, <2>4 DEF ResumeArgs
<1>11. ASSUME Caught PROVE ResumeArgs
  <2> USE <1>11 DEF Caught, Returning, GoOn, Proceed, Return, errors
  <2>1. bind_count' \in Nat /\ Caller_.emark <= bind_count'
    BY <1>1, <1>3, <1>6
  <2>2. term_offset' \in Nat /\ term_offset <= term_offset'
    BY <1>1, <1>2
  <2>3. /\ pc' \in {"A", "C", "return"} /\ ret' \in BOOLEAN
        /\ has_error' \in BOOLEAN /\ ball' \in BOOLEAN
    BY <1>1
  <2>4. term_floor' = IF Caller_.kind = "findall" THEN Caller_.term_floor
                      ELSE term_floor
    OBVIOUS
  <2> HIDE <1>11
  <2> QED BY <1>1, <1>5, <1>6, <2>1, <2>2, <2>3, <2>4 DEF ResumeArgs
<1>12. ASSUME Rethrown PROVE ResumeArgs
  <2> USE <1>12 DEF Rethrown, Returning, GoOn, Proceed, Return, errors
  <2>1. bind_count' \in Nat /\ Caller_.emark <= bind_count'
    BY <1>1, <1>3, <1>6
  <2>2. term_offset' \in Nat /\ term_offset <= term_offset'
    BY <1>1, <1>2
  <2>3. /\ pc' \in {"A", "C", "return"} /\ ret' \in BOOLEAN
        /\ has_error' \in BOOLEAN /\ ball' \in BOOLEAN
    BY <1>1
  <2>4. term_floor' = IF Caller_.kind = "findall" THEN Caller_.term_floor
                      ELSE term_floor
    OBVIOUS
  <2> HIDE <1>12
  <2> QED BY <1>1, <1>5, <1>6, <2>1, <2>2, <2>3, <2>4 DEF ResumeArgs
<1>13. ASSUME MetaSucceeds PROVE ResumeArgs
  <2> USE <1>13 DEF MetaSucceeds, Returning, GoOn, Proceed, Return, errors
  <2>1. bind_count' \in Nat /\ Caller_.emark <= bind_count'
    BY <1>1, <1>3, <1>6
  <2>2. term_offset' \in Nat /\ term_offset <= term_offset'
    BY <1>1, <1>2
  <2>3. /\ pc' \in {"A", "C", "return"} /\ ret' \in BOOLEAN
        /\ has_error' \in BOOLEAN /\ ball' \in BOOLEAN
    BY <1>1
  <2>4. term_floor' = IF Caller_.kind = "findall" THEN Caller_.term_floor
                      ELSE term_floor
    OBVIOUS
  <2> HIDE <1>13
  <2> QED BY <1>1, <1>5, <1>6, <2>1, <2>2, <2>3, <2>4 DEF ResumeArgs
<1>14. ASSUME MetaFails PROVE ResumeArgs
  <2> USE <1>14 DEF MetaFails, Returning, GoOn, Proceed, Return, errors
  <2>1. bind_count' \in Nat /\ Caller_.emark <= bind_count'
    BY <1>1, <1>3, <1>6
  <2>2. term_offset' \in Nat /\ term_offset <= term_offset'
    BY <1>1, <1>2
  <2>3. /\ pc' \in {"A", "C", "return"} /\ ret' \in BOOLEAN
        /\ has_error' \in BOOLEAN /\ ball' \in BOOLEAN
    BY <1>1
  <2>4. term_floor' = IF Caller_.kind = "findall" THEN Caller_.term_floor
                      ELSE term_floor
    OBVIOUS
  <2> HIDE <1>14
  <2> QED BY <1>1, <1>5, <1>6, <2>1, <2>2, <2>3, <2>4 DEF ResumeArgs
<1>15. ASSUME NotReturns PROVE ResumeArgs
  <2> USE <1>15 DEF NotReturns, Returning, GoOn, Proceed, Return, errors
  <2>1. bind_count' \in Nat /\ Caller_.emark <= bind_count'
    BY <1>1, <1>3, <1>6
  <2>2. term_offset' \in Nat /\ term_offset <= term_offset'
    BY <1>1, <1>2
  <2>3. /\ pc' \in {"A", "C", "return"} /\ ret' \in BOOLEAN
        /\ has_error' \in BOOLEAN /\ ball' \in BOOLEAN
    BY <1>1
  <2>4. term_floor' = IF Caller_.kind = "findall" THEN Caller_.term_floor
                      ELSE term_floor
    OBVIOUS
  <2> HIDE <1>15
  <2> QED BY <1>1, <1>5, <1>6, <2>1, <2>2, <2>3, <2>4 DEF ResumeArgs
<1>16. ASSUME FindallReturns PROVE ResumeArgs
  <2> USE <1>16 DEF FindallReturns, RestoreFloor, Returning, GoOn, Proceed, Return, errors
  <2>1. bind_count' \in Nat /\ Caller_.emark <= bind_count'
    BY <1>1, <1>3, <1>6
  <2>2. term_offset' \in Nat /\ term_offset <= term_offset'
    BY <1>1, <1>2
  <2>3. /\ pc' \in {"A", "C", "return"} /\ ret' \in BOOLEAN
        /\ has_error' \in BOOLEAN /\ ball' \in BOOLEAN
    BY <1>1
  <2>4. term_floor' = IF Caller_.kind = "findall" THEN Caller_.term_floor
                      ELSE term_floor
    OBVIOUS
  <2> HIDE <1>16
  <2> QED BY <1>1, <1>5, <1>6, <2>1, <2>2, <2>3, <2>4 DEF ResumeArgs
<1>17. ResumeArgs
  BY <1>7, <1>8, <1>9, <1>10, <1>11, <1>12, <1>13, <1>14, <1>15, <1>16
     DEF AtReturn
<1> QED BY <1>4, <1>5, <1>17, ResumeKeeps

-----------------------------------------------------------------------------
(* The invariant                                                           *)

\* The invariant holds initially.
LEMMA InitIInv == Init => IInv
<1> SUFFICES ASSUME Init PROVE IInv OBVIOUS
<1> USE DEF Init
<1>1. ActivationOK(<< Sentinel(0, 0) >>, 1, 0, 0, 0) BY FreshActivation
<1>2. Active BY <1>1 DEF Active
<1>3. callers = << >> /\ Len(callers) = 0 /\ callers \in Seq(Caller)
  BY EmptySeq
<1>4. TypeOK BY <1>1, <1>3 DEF TypeOK, ActivationOK
<1>5. Suspended BY <1>3 DEF Suspended
<1>6. Counted = {} BY <1>3 DEF Counted
<1>7. NestingBalanced BY <1>3, <1>6, FS_EmptySet DEF NestingBalanced
<1> QED BY <1>2, <1>4, <1>5, <1>7 DEF IInv

\* A step inside the active activation keeps its sentinel.
LEMMA InsideKeeps ==
  ASSUME IInv,
         AtA \/ AtB \/ AtC, ~NestInline, ~NestBuiltin
  PROVE  IInv' /\ stack'[1] = stack[1]
<1> DEFINE Grows == \/ Solution \/ Rewrite \/ FailAtA \/ Select \/ BuiltinOk
                    \/ BuiltinFail \/ SonError \/ NoClause \/ MatchLast
                    \/ MatchGiveUp \/ Exhausted
<1>1. CASE Grows
  <2>2. IInv' BY <1>1, GrowthKeeps
  <2>3. UNCHANGED stack
    BY <1>1 DEF Solution, Rewrite, FailAtA, Select, BuiltinOk, BuiltinFail,
                SonError, NoClause, MatchLast, MatchGiveUp, Exhausted, locals,
                activation
  <2> QED BY <2>2, <2>3
<1>2. CASE Cut BY <1>2, CutKeeps
<1>3. CASE Disjunction BY <1>3, DisjunctionKeeps
<1>4. CASE MatchPush BY <1>4, MatchPushKeeps
<1>5. CASE MatchReclaim BY <1>5, MatchReclaimKeeps
<1>6. CASE MatchTailReset
  <2>1. UNCHANGED stack BY <1>6 DEF MatchTailReset
  <2> QED BY <1>6, <2>1, MatchTailResetKeeps
<1>7. CASE Backtrack BY <1>7, BacktrackKeeps
<1> QED BY <1>1, <1>2, <1>3, <1>4, <1>5, <1>6, <1>7 DEF AtA, AtB, AtC

\* The invariant is inductive.
LEMMA NextIInv == IInv /\ [Next]_vars => IInv'
<1> SUFFICES ASSUME IInv, [Next]_vars PROVE IInv' OBVIOUS
<1>1. CASE StartQuery BY <1>1, StartQueryKeeps
<1>2. CASE EndQuery BY <1>2, EndQueryKeeps
<1>3. CASE YieldAbort BY <1>3, GrowthKeeps
<1>4. CASE Solving
  BY <1>4, InsideKeeps, NestInlineKeeps, NestBuiltinKeeps, ReturnKeeps
     DEF Solving
<1>5. CASE UNCHANGED vars
  <2> USE <1>5 DEF vars, locals, activation, nesting, errors
  <2>1. TypeOK' BY DEF IInv, TypeOK
  <2>2. Active' BY DEF IInv, Active
  <2>3. Suspended' BY DEF IInv, Suspended, Callee
  <2>4. NestingBalanced' BY DEF IInv, NestingBalanced, Counted
  <2> QED BY <2>1, <2>2, <2>3, <2>4 DEF IInv
<1> QED BY <1>1, <1>2, <1>3, <1>4, <1>5 DEF Next

\* Every reachable state of the solver satisfies the inductive invariant.
THEOREM Invariance == Spec => []IInv
  BY InitIInv, NextIInv, PTL DEF Spec

-----------------------------------------------------------------------------
(* What it implies                                                         *)

\* Type correctness: in particular nest_depth, bind_floor and every mark that
\* solve_all restores stay non-negative.
THEOREM TypeCorrect == Spec => []TypeOK
<1>1. IInv => TypeOK BY DEF IInv
<1> QED BY <1>1, Invariance, PTL

\* A cut, here or in a suspended activation, keeps the sentinel and never
\* resurrects a popped frame (solve.c:287-291, 332).
THEOREM CutSafe == Spec => []CutStaysBelow
<1>1. IInv => CutStaysBelow
  <2> SUFFICES ASSUME IInv PROVE CutStaysBelow OBVIOUS
  <2>1. cut_point \in 1 .. Len(stack) /\ FrameCuts(stack)
    BY DEF IInv, Active, ActivationOK
  <2>2. \A k \in 1 .. Len(callers) :
          /\ callers[k].cut_point \in 1 .. Len(callers[k].stack)
          /\ FrameCuts(callers[k].stack)
    BY DEF IInv, Suspended, CallerOK, ActivationOK
  <2> QED BY <2>1, <2>2 DEF CutStaysBelow
<1> QED BY <1>1, Invariance, PTL

\* The frames of every activation are marked in the order of their pushes.
THEOREM MarksStayOrdered == Spec => []MarksOrdered
<1>1. IInv => MarksOrdered
  BY DEF IInv, Active, Suspended, CallerOK, ActivationOK, MarksOrdered
<1> QED BY <1>1, Invariance, PTL

\* No frame that can still be resumed is marked above the trail, so the
\* assertions of solve.c:74 and solve.c:722 hold.
THEOREM TrailSafe == Spec => []TrailMarks
<1>1. IInv => TrailMarks
  <2> SUFFICES ASSUME IInv PROVE TrailMarks OBVIOUS
  <2>1. \A i \in 1 .. Len(stack) : /\ stack[i].env_mark <= reclaim_mark
                                   /\ stack[i].env_mark <= bind_count
    BY DEF IInv, Active, ActivationOK
  <2>2. ASSUME NEW k \in 1 .. Len(callers)
        PROVE  LET c == callers[k] IN
               /\ \A i \in 1 .. Len(c.stack) :
                    /\ c.stack[i].env_mark <= c.reclaim_mark
                    /\ c.stack[i].env_mark <= c.emark
               /\ c.emark = Callee(k).env_mark
    BY DEF IInv, Suspended, CallerOK, ActivationOK
  <2>3. pc = "B" => env_mark = bind_count BY DEF IInv
  <2> QED BY <2>1, <2>2, <2>3 DEF TrailMarks
<1> QED BY <1>1, Invariance, PTL

\* No frame that can still be resumed, and no answer findall has collected,
\* lies in the part of the pool that has been given back.
THEOREM PoolSafe == Spec => []PoolMarks
<1>1. IInv => PoolMarks
  <2> SUFFICES ASSUME IInv PROVE PoolMarks OBVIOUS
  <2>1. \A i \in 1 .. Len(stack) : stack[i].term_mark <= term_offset
    BY DEF IInv, Active, ActivationOK
  <2>2. ASSUME NEW k \in 1 .. Len(callers)
        PROVE  LET c == callers[k] IN
               /\ \A i \in 1 .. Len(c.stack) :
                    c.stack[i].term_mark <= Callee(k).term_mark
               /\ c.term_floor <= Callee(k).term_mark
    BY DEF IInv, Suspended, CallerOK, ActivationOK
  <2>3. term_floor <= term_offset BY DEF IInv
  <2> QED BY <2>1, <2>2, <2>3 DEF PoolMarks
<1> QED BY <1>1, Invariance, PTL

\* bind_floor, term_floor and nest_depth always describe the activations that
\* are really suspended, whichever way the nested solves before ended.
THEOREM NestingSafe == Spec => []NestingBalanced
<1>1. IInv => NestingBalanced BY DEF IInv
<1> QED BY <1>1, Invariance, PTL

\* A solve_all, nested or not, never goes below the trail length and the pool
\* offset it was started with: what its callers hold stays.
THEOREM BaseSafe == Spec => BaseKept
<1> DEFINE Keeps == callers' = callers /\ pc # "idle" /\ pc' # "idle" =>
                      /\ stack'[1] = stack[1]
                      /\ bind_count' >= stack[1].env_mark
                      /\ term_offset' >= stack[1].term_mark
<1>1. IInv /\ IInv' /\ [Next]_vars => [Keeps]_vars
  <2> SUFFICES ASSUME IInv, IInv', Next, callers' = callers, pc # "idle",
                      pc' # "idle"
               PROVE  /\ stack'[1] = stack[1]
                      /\ bind_count' >= stack[1].env_mark
                      /\ term_offset' >= stack[1].term_mark
    OBVIOUS
  <2>1. callers \in Seq(Caller) BY InvFacts DEF TypeOK
  <2>2. ~StartQuery /\ ~EndQuery BY DEF StartQuery, EndQuery
  <2>3. ASSUME NestInline \/ NestBuiltin PROVE FALSE
    <3>1. PICK c : callers' = Append(callers, c)
      BY <2>3 DEF NestInline, NestBuiltin, Nest, PushCaller
    <3>2. Len(callers') # Len(callers) BY <2>1, <3>1
    <3> QED BY <3>2
  <2>4. ASSUME AtReturn PROVE FALSE
    <3>1. callers # << >> /\ callers' = SubSeq(callers, 1, Len(callers) - 1)
      BY <2>4 DEF AtReturn, InlineSucceeds, ElseBranch, InlineFails,
         CondThrew, Caught, Rethrown, MetaSucceeds, MetaFails, NotReturns,
         FindallReturns, Returning, Resume
    <3>2. /\ Len(callers) \in Nat /\ Len(callers') = Len(callers) - 1
      BY <2>1, <3>1, Removed
    <3> QED BY <3>2
  <2>5. stack'[1] = stack[1]
    <3>1. CASE YieldAbort
      BY <3>1 DEF YieldAbort, locals, activation
    <3>2. CASE Solving
      BY <2>3, <2>4, <3>2, InsideKeeps DEF Solving
    <3> QED BY <2>2, <3>1, <3>2 DEF Next
  <2>6. 1 \in 1 .. Len(stack') /\ Active'
    <3>1. Active' /\ cut_point' \in 1 .. Len(stack') /\ stack' \in Seq(Frame)
      BY DEF IInv, Active, ActivationOK
    <3>2. Len(stack') \in Nat BY <3>1, LenProperties
    <3> QED BY <3>1, <3>2
  <2>7. /\ stack'[1].env_mark <= bind_count'
        /\ stack'[1].term_mark <= term_offset'
    BY <2>6 DEF Active, ActivationOK
  <2> QED BY <2>5, <2>7
<1>2. Spec => [][Keeps]_vars
  BY <1>1, Invariance, PTL DEF Spec
<1> QED BY <1>2 DEF BaseKept
=============================================================================
