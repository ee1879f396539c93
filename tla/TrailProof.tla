----------------------------- MODULE TrailProof -----------------------------
(***************************************************************************)
(* The index and the ceilings of the trail are right for any number of     *)
(* variables, bindings and choice points, and whatever is bound.           *)
(***************************************************************************)
EXTENDS TrailIndex, InductionLemmas, SequenceTheorems, TLAPS

\* A variable has one binding at most, at the slot of its entry in the index,
\* and the binding's value is made of variables older than its ceiling.
SlotOK(i) ==
  /\ bindings[i].var_id \in Known
  /\ var_bind_index[bindings[i].var_id] = i
  /\ bindings[i].var_ceiling \in 1 .. var_counter
  /\ VarsOf(bindings[i].value) \subseteq 1 .. bindings[i].var_ceiling - 1

\* Choice points are marked in the order of their pushes and inside the trail.
ChoicesInside ==
  /\ choices \in Seq(Nat)
  /\ \A j, k \in 1 .. Len(choices) : j <= k => choices[j] <= choices[k]
  /\ \A k \in 1 .. Len(choices) : choices[k] <= Len(bindings)

TrailInv ==
  /\ bindings \in Seq(Range(bindings))
  /\ var_counter \in 1 .. MaxVars + 1
  /\ var_bind_index \in [1 .. MaxVars -> Nat]
  /\ \A i \in 1 .. Len(bindings) : SlotOK(i)
  /\ ChoicesInside

LEMMA Lengths ==
  ASSUME NEW s, s \in Seq(Range(s))
  PROVE  Len(s) \in Nat /\ DOMAIN s = 1 .. Len(s)
OBVIOUS

LEMMA PartOfTrail ==
  ASSUME NEW s, s \in Seq(Range(s)), NEW m \in 0 .. Len(s),
         NEW t, t = SubSeq(s, 1, m)
  PROVE  /\ t \in Seq(Range(t)) /\ Len(t) = m
         /\ \A i \in 1 .. m : t[i] = s[i]
<1>1. t \in Seq(Range(s)) /\ Len(t) = m /\ \A i \in 1 .. m : t[i] = s[i]
  OBVIOUS
<1>2. DOMAIN t = 1 .. m
  BY <1>1
<1>3. \A i \in 1 .. m : t[i] \in Range(t)
  BY <1>2 DEF Range
<1>4. t \in Seq(Range(t))
  <2>1. t = [i \in 1 .. m |-> t[i]] /\ m \in Nat
    BY <1>1
  <2>2. PICK S : S = Range(t)
    OBVIOUS
  <2>3. t \in [1 .. m -> S]
    BY <1>3, <2>1, <2>2
  <2>4. t \in Seq(S)
    <3>1. \E k \in Nat : t \in [1 .. k -> S]
      BY <2>1, <2>3
    <3> QED BY <3>1, SeqDef
  <2> QED BY <2>2, <2>4
<1> QED BY <1>1, <1>4

LEMMA InitHolds == Init => TrailInv
<1> SUFFICES ASSUME Init PROVE TrailInv
  OBVIOUS
<1>1. bindings = << >> /\ choices = << >> /\ Len(bindings) = 0 /\ Len(choices) = 0
  BY DEF Init
<1>2. bindings \in Seq(Range(bindings)) /\ choices \in Seq(Nat)
  BY <1>1
<1>3. var_counter \in 1 .. MaxVars + 1 /\ var_bind_index \in [1 .. MaxVars -> Nat]
  BY TrailAssumption DEF Init
<1> QED BY <1>1, <1>2, <1>3 DEF TrailInv, ChoicesInside

LEMMA NewVarKeeps == ASSUME TrailInv, NewVar PROVE TrailInv'
<1>1. /\ var_counter \in 1 .. MaxVars + 1 /\ var_counter <= MaxVars
      /\ var_counter' = var_counter + 1
      /\ UNCHANGED <<bindings, var_bind_index, choices>>
  BY DEF TrailInv, NewVar
<1>2. var_counter' \in 1 .. MaxVars + 1 /\ Known \subseteq Known'
  BY <1>1, TrailAssumption DEF Known
<1>3. ASSUME NEW i \in 1 .. Len(bindings) PROVE SlotOK(i)'
  <2>1. SlotOK(i)
    BY DEF TrailInv
  <2> QED BY <1>1, <1>2, <2>1 DEF SlotOK
<1> QED BY <1>1, <1>2, <1>3 DEF TrailInv, ChoicesInside

LEMMA UnifyKeeps == ASSUME TrailInv, IndexUnify PROVE TrailInv'
<1> DEFINE n == Len(bindings)
           m == Len(bindings')
<1>1. /\ bindings \in Seq(Range(bindings)) /\ bindings' \in Seq(Range(bindings'))
      /\ IsPrefix(bindings, bindings') /\ UNCHANGED <<var_counter, choices>>
      /\ EnterSlots(bindings, bindings')
      /\ var_counter \in 1 .. MaxVars + 1 /\ var_bind_index \in [1 .. MaxVars -> Nat]
  BY DEF TrailInv, IndexUnify
<1>2. /\ n \in Nat /\ m \in Nat /\ Len(bindings) = n /\ Len(bindings') = m
      /\ DOMAIN bindings = 1 .. n /\ DOMAIN bindings' = 1 .. m
  BY <1>1, Lengths
<1>3. n <= m /\ \A i \in 1 .. n : bindings'[i] = bindings[i]
  BY <1>1, <1>2 DEF IsPrefix
<1>4. \A i \in n + 1 .. m :
        /\ Binds(bindings'[i])
        /\ \A j \in n + 1 .. i - 1 : bindings'[j].var_id # bindings'[i].var_id
  BY DEF IndexUnify
<1> HIDE DEF n, m
<1>5. /\ DOMAIN var_bind_index' = 1 .. MaxVars
      /\ var_bind_index' = [id \in 1 .. MaxVars |-> var_bind_index'[id]]
      /\ \A id \in 1 .. MaxVars :
           LET S == {i \in n + 1 .. m : bindings'[i].var_id = id}
           IN var_bind_index'[id] = IF S = {} THEN var_bind_index[id] ELSE Max(S)
  BY <1>1, <1>2 DEF EnterSlots
<1>6. Known' = Known /\ Known \subseteq 1 .. MaxVars
  BY <1>1, TrailAssumption DEF Known
<1>7. ASSUME NEW k \in 1 .. m PROVE SlotOK(k)'
  <2>1. CASE k <= n
    <3>1. k \in 1 .. n /\ bindings'[k] = bindings[k] /\ SlotOK(k)
      BY <1>2, <1>3, <2>1 DEF TrailInv
    <3>2. bindings[k].var_id \in Ids(bindings) /\ bindings[k].var_id \in 1 .. MaxVars
      BY <1>2, <1>6, <3>1 DEF Ids, SlotOK
    <3>3. {i \in n + 1 .. m : bindings'[i].var_id = bindings[k].var_id} = {}
      BY <1>4, <3>2 DEF Binds
    <3>4. var_bind_index'[bindings[k].var_id] = k
      BY <1>5, <3>1, <3>2, <3>3 DEF SlotOK
    <3> QED BY <1>1, <1>6, <3>1, <3>4 DEF SlotOK
  <2>2. CASE k > n
    <3>1. k \in n + 1 .. m
      BY <1>2, <2>2
    <3>2. Binds(bindings'[k])
      BY <1>4, <3>1
    <3>3. bindings'[k].var_id \in Known /\ bindings'[k].var_id \in 1 .. MaxVars
      BY <1>6, <3>2 DEF Binds
    <3>4. {i \in n + 1 .. m : bindings'[i].var_id = bindings'[k].var_id} = {k}
      <4>1. ASSUME NEW i \in n + 1 .. m, bindings'[i].var_id = bindings'[k].var_id
            PROVE  i = k
        <5>1. ~(i < k) /\ ~(k < i)
          BY <1>2, <1>4, <3>1, <4>1
        <5> QED BY <1>2, <5>1
      <4> QED BY <3>1, <4>1
    <3>5. Max({k}) = k
      BY MaxOfOne
    <3>6. var_bind_index'[bindings'[k].var_id] = k
      BY <1>5, <3>3, <3>4, <3>5
    <3>7. /\ bindings'[k].var_ceiling = var_counter'
          /\ VarsOf(bindings'[k].value) \subseteq 1 .. var_counter - 1
      BY <1>1, <3>2 DEF Binds, Known
    <3> QED BY <1>1, <1>6, <3>3, <3>6, <3>7 DEF SlotOK
  <2> QED BY <1>2, <2>1, <2>2
<1>8. ChoicesInside'
  BY <1>1, <1>2, <1>3 DEF TrailInv, ChoicesInside
<1>9. var_bind_index' \in [1 .. MaxVars -> Nat]
  <2> SUFFICES ASSUME NEW id \in 1 .. MaxVars PROVE var_bind_index'[id] \in Nat
    BY <1>5
  <2>1. PICK S : S = {i \in n + 1 .. m : bindings'[i].var_id = id}
    OBVIOUS
  <2>2. CASE S = {}
    BY <1>1, <1>5, <2>1, <2>2
  <2>3. CASE S # {}
    <3>1. PICK k \in S : TRUE
      BY <2>3
    <3>2. S = {k} /\ k \in Nat
      <4>1. ASSUME NEW i \in S PROVE i = k
        <5>1. ~(i < k) /\ ~(k < i)
          BY <1>2, <1>4, <2>1, <3>1, <4>1
        <5> QED BY <1>2, <2>1, <3>1, <5>1
      <4> QED BY <1>2, <2>1, <3>1, <4>1
    <3>3. Max({k}) = k
      BY <3>2, MaxOfOne
    <3> QED BY <1>5, <2>1, <2>3, <3>2, <3>3
  <2> QED BY <2>2, <2>3
<1> QED BY <1>1, <1>2, <1>7, <1>8, <1>9 DEF TrailInv

LEMMA UnifyFailsKeeps == ASSUME TrailInv, IndexUnifyFails PROVE TrailInv'
<1>1. /\ UNCHANGED <<bindings, var_counter, choices>>
      /\ var_bind_index' \in [1 .. MaxVars -> Nat]
  BY DEF TrailInv, IndexUnifyFails
<1>2. DOMAIN bindings = 1 .. Len(bindings)
  BY Lengths DEF TrailInv
<1>3. ASSUME NEW i \in 1 .. Len(bindings) PROVE SlotOK(i)'
  <2>1. SlotOK(i) /\ bindings[i].var_id \in Ids(bindings)
    BY <1>2 DEF TrailInv, Ids
  <2>2. bindings[i].var_id \in DOMAIN var_bind_index
    BY <2>1, TrailAssumption DEF SlotOK, TrailInv, Known
  <2>3. var_bind_index'[bindings[i].var_id] = var_bind_index[bindings[i].var_id]
    BY <2>1, <2>2 DEF IndexUnifyFails
  <2> QED BY <1>1, <2>1, <2>3 DEF SlotOK, Known
<1> QED BY <1>1, <1>3 DEF TrailInv, ChoicesInside

LEMMA PushKeeps == ASSUME TrailInv, Push PROVE TrailInv'
<1> DEFINE n == Len(bindings)
           c == Len(choices)
<1>1. /\ choices' = Append(choices, n)
      /\ UNCHANGED <<bindings, var_bind_index, var_counter>>
  BY DEF Push
<1>2. n \in Nat /\ c \in Nat /\ Len(choices) = c /\ Len(bindings) = n
  BY Lengths DEF TrailInv, ChoicesInside
<1>3. /\ choices \in Seq(Nat)
      /\ \A j, k \in 1 .. c : j <= k => choices[j] <= choices[k]
      /\ \A k \in 1 .. c : choices[k] <= n
  BY DEF TrailInv, ChoicesInside
<1> HIDE DEF n, c
<1>4. /\ choices' \in Seq(Nat) /\ Len(choices') = c + 1
      /\ \A k \in 1 .. c + 1 : choices'[k] = IF k = c + 1 THEN n ELSE choices[k]
  BY <1>1, <1>2, <1>3
<1>5. \A k \in 1 .. c + 1 : choices'[k] <= n
  BY <1>2, <1>3, <1>4
<1>6. ASSUME NEW j \in 1 .. c + 1, NEW k \in 1 .. c + 1, j <= k
      PROVE  choices'[j] <= choices'[k]
  <2>1. CASE k = c + 1
    BY <1>2, <1>4, <1>5, <2>1
  <2>2. CASE k # c + 1
    <3>1. j \in 1 .. c /\ k \in 1 .. c /\ j # c + 1
      BY <1>2, <1>6, <2>2
    <3>2. choices'[j] = choices[j] /\ choices'[k] = choices[k]
      BY <1>4, <2>2, <3>1
    <3>3. choices[j] <= choices[k]
      BY <1>3, <1>6, <3>1
    <3> QED BY <3>2, <3>3
  <2> QED BY <2>1, <2>2
<1>7. ChoicesInside'
  BY <1>1, <1>2, <1>4, <1>5, <1>6 DEF ChoicesInside
<1>8. \A i \in 1 .. n : SlotOK(i)'
  BY <1>1, <1>2 DEF TrailInv, SlotOK, Known
<1> QED BY <1>1, <1>2, <1>7, <1>8 DEF TrailInv

LEMMA BacktrackKeeps == ASSUME TrailInv, Backtrack PROVE TrailInv'
<1> DEFINE n == Len(bindings)
           c == Len(choices)
           m == choices[c]
<1>1. /\ choices' = SubSeq(choices, 1, c - 1) /\ bindings' = SubSeq(bindings, 1, m)
      /\ choices # << >> /\ UNCHANGED <<var_bind_index, var_counter>>
  BY DEF Backtrack, Front, Last
<1>2. /\ n \in Nat /\ c \in Nat /\ c # 0 /\ Len(choices) = c /\ Len(bindings) = n
      /\ bindings \in Seq(Range(bindings))
  BY <1>1, Lengths DEF TrailInv, ChoicesInside
<1>3. /\ choices \in Seq(Nat)
      /\ \A j, k \in 1 .. c : j <= k => choices[j] <= choices[k]
      /\ \A k \in 1 .. c : choices[k] <= n
  BY DEF TrailInv, ChoicesInside
<1>4. m \in 0 .. n /\ m = choices[c]
  <2> HIDE DEF n, c
  <2>1. c \in 1 .. c
    BY <1>2
  <2> QED BY <1>2, <1>3, <2>1
<1> HIDE DEF n, c, m
<1>5. /\ choices' \in Seq(Nat) /\ Len(choices') = c - 1
      /\ \A k \in 1 .. c - 1 : choices'[k] = choices[k]
  BY <1>1, <1>2, <1>3
<1>6. /\ bindings' \in Seq(Range(bindings')) /\ Len(bindings') = m
      /\ \A i \in 1 .. m : bindings'[i] = bindings[i]
  <2>1. bindings \in Seq(Range(bindings)) /\ m \in 0 .. Len(bindings)
    BY <1>2, <1>4
  <2>2. bindings' = SubSeq(bindings, 1, m)
    BY <1>1
  <2> QED BY <2>1, <2>2, PartOfTrail
<1>7. \A k \in 1 .. c - 1 : choices'[k] <= m
  <2> SUFFICES ASSUME NEW k \in 1 .. c - 1 PROVE choices[k] <= m
    BY <1>5
  <2>1. k \in 1 .. c /\ c \in 1 .. c /\ k <= c
    BY <1>2
  <2> QED BY <1>3, <1>4, <2>1
<1>8. \A j, k \in 1 .. c - 1 : j <= k => choices'[j] <= choices'[k]
  BY <1>2, <1>3, <1>5
<1>9. \A i \in 1 .. m : SlotOK(i)'
  <2> SUFFICES ASSUME NEW i \in 1 .. m PROVE SlotOK(i)'
    OBVIOUS
  <2>1. SlotOK(i) /\ bindings'[i] = bindings[i]
    BY <1>2, <1>4, <1>6 DEF TrailInv
  <2> QED BY <1>1, <2>1 DEF SlotOK, Known
<1>10. ChoicesInside'
  BY <1>5, <1>6, <1>7, <1>8 DEF ChoicesInside
<1> QED BY <1>1, <1>6, <1>9, <1>10 DEF TrailInv

LEMMA ReclaimKeeps ==
  ASSUME TrailInv, NEW from \in 0 .. MaxBindings, IndexReclaim(from)
  PROVE  TrailInv'
<1> DEFINE n == Len(bindings)
           c == Len(choices)
<1>1. /\ bindings' \in Seq(Range(bindings')) /\ Len(bindings') = from
      /\ UNCHANGED <<var_bind_index, var_counter, choices>>
      /\ from < n /\ from >= newest_mark /\ from \in Nat
  BY TrailAssumption DEF IndexReclaim, MayReclaim
<1>2. /\ n \in Nat /\ c \in Nat /\ Len(bindings) = n /\ Len(choices) = c
      /\ DOMAIN bindings = 1 .. n
  BY Lengths DEF TrailInv, ChoicesInside
<1>3. /\ choices \in Seq(Nat)
      /\ \A j, k \in 1 .. c : j <= k => choices[j] <= choices[k]
  BY DEF TrailInv, ChoicesInside
<1>4. newest_mark = IF choices = << >> THEN 0 ELSE choices[c]
  BY DEF newest_mark, Last
<1> HIDE DEF n, c
<1>5. \A k \in 1 .. c : choices[k] <= from
  <2> SUFFICES ASSUME NEW k \in 1 .. c PROVE choices[k] <= from
    OBVIOUS
  <2>1. choices # << >> /\ c \in 1 .. c /\ k <= c
    BY <1>2
  <2>2. choices[k] <= choices[c] /\ choices[k] \in Nat /\ choices[c] \in Nat
    BY <1>2, <1>3, <2>1
  <2> QED BY <1>1, <1>4, <2>1, <2>2
<1>6. ASSUME NEW i \in 1 .. from PROVE SlotOK(i)'
  <2>1. i \in 1 .. n /\ SlotOK(i)
    BY <1>1, <1>2 DEF TrailInv
  <2>2. CASE bindings'[i] = bindings[i]
    BY <1>1, <2>1, <2>2 DEF SlotOK, Known
  <2>3. CASE IndexPatch(bindings[i], bindings'[i])
    <3>1. /\ bindings'[i].var_id = bindings[i].var_id
          /\ bindings'[i].var_ceiling = var_counter
          /\ VarsOf(bindings'[i].value) \subseteq 1 .. var_counter - 1
      BY <2>3 DEF IndexPatch, Known
    <3>2. var_counter \in 1 .. var_counter
      BY DEF TrailInv
    <3> QED BY <1>1, <2>1, <3>1, <3>2 DEF SlotOK, Known
  <2> QED BY <2>2, <2>3 DEF IndexReclaim
<1>7. ChoicesInside'
  BY <1>1, <1>2, <1>3, <1>5 DEF ChoicesInside
<1> QED BY <1>1, <1>6, <1>7 DEF TrailInv

LEMMA StepHolds == ASSUME TrailInv, [IndexNext]_vars PROVE TrailInv'
<1>1. ASSUME UNCHANGED vars PROVE TrailInv'
  BY <1>1 DEF vars, TrailInv, ChoicesInside, SlotOK, Known
<1> QED BY <1>1, NewVarKeeps, UnifyKeeps, UnifyFailsKeeps, PushKeeps, BacktrackKeeps,
           ReclaimKeeps DEF IndexNext

\* The inductive invariant of the trail, for every bound.
THEOREM TrailInvariance == IndexSpec => []TrailInv
BY InitHolds, StepHolds, PTL DEF IndexSpec

\* What the index leads to is the binding that a search of the trail finds.
THEOREM IndexRight == IndexSpec => []IndexAgrees
<1>1. TrailInv => IndexAgrees
  <2> SUFFICES ASSUME TrailInv, NEW id \in 1 .. MaxVars, NEW S,
                      S = {i \in 1 .. Len(bindings) : bindings[i].var_id = id}
               PROVE  lookup_slot(id) = IF S = {} THEN 0 ELSE Max(S)
    BY Lengths DEF IndexAgrees, TrailInv
  <2>1. \A i \in S : SlotOK(i) /\ bindings[i].var_id = id /\ i = var_bind_index[id]
    BY DEF TrailInv, SlotOK
  <2>2. CASE S = {}
    <3>1. var_bind_index[id] \in Nat /\ Len(bindings) \in Nat
      BY Lengths DEF TrailInv
    <3>2. \A i \in 1 .. Len(bindings) : bindings[i].var_id # id
      BY <2>2
    <3>3. lookup_slot(id) = 0
      BY <3>1, <3>2 DEF lookup_slot
    <3> QED BY <2>2, <3>3
  <2>3. CASE S # {}
    <3>1. PICK k \in S : TRUE
      BY <2>3
    <3>2. S = {k} /\ k = var_bind_index[id] /\ bindings[k].var_id = id
      BY <2>1, <3>1
    <3>3. k \in 1 .. Len(bindings) /\ Len(bindings) \in Nat
      BY <3>1, Lengths DEF TrailInv
    <3>4. Max({k}) = k
      BY <3>3, MaxOfOne
    <3>5. lookup_slot(id) = k
      BY <3>2, <3>3 DEF lookup_slot
    <3> QED BY <2>3, <3>2, <3>4, <3>5
  <2> QED BY <2>2, <2>3
<1> QED BY <1>1, TrailInvariance, PTL

\* A binding's ceiling is above every variable in its value.
THEOREM CeilingsHold == IndexSpec => []CeilingSound
<1>1. TrailInv => CeilingSound
  <2> SUFFICES ASSUME TrailInv, NEW i \in 1 .. Len(bindings),
                      NEW id \in VarsOf(bindings[i].value)
               PROVE  id < bindings[i].var_ceiling
    BY Lengths DEF CeilingSound, TrailInv
  <2>1. SlotOK(i)
    BY DEF TrailInv
  <2> QED BY <2>1 DEF SlotOK
<1> QED BY <1>1, TrailInvariance, PTL

\* What a window leaves behind: a value that was not rewritten has only older
\* variables, or none of the window's, and one that was has no bound variable.
LEMMA WindowDropped ==
  ASSUME TrailInv, NEW from \in 0 .. MaxBindings, IndexReclaim(from)
  PROVE  \A i \in DOMAIN bindings' : VarsOf(bindings'[i].value) \cap Dropped = {}
<1> DEFINE n == Len(bindings)
<1>1. /\ bindings' \in Seq(Range(bindings')) /\ Len(bindings') = from
      /\ from < n /\ from \in Nat
  BY TrailAssumption DEF IndexReclaim, MayReclaim
<1>2. /\ n \in Nat /\ Len(bindings) = n /\ DOMAIN bindings = 1 .. n
      /\ DOMAIN bindings' = 1 .. from
  BY <1>1, Lengths DEF TrailInv
<1> HIDE DEF n
<1>3. Dropped = {bindings[i].var_id : i \in from + 1 .. n}
  BY <1>1, <1>2 DEF Dropped
<1>4. Dropped \subseteq Nat /\ Dropped # {}
  <2>1. \A i \in from + 1 .. n : bindings[i].var_id \in Nat
    <3>1. \A i \in from + 1 .. n : i \in 1 .. n
      BY <1>1, <1>2
    <3> QED BY <1>2, <3>1 DEF TrailInv, SlotOK, Known
  <2>2. n \in from + 1 .. n
    BY <1>1, <1>2
  <2> QED BY <1>3, <2>1, <2>2
<1>5. window_min_var_id(from) \in Nat /\ \A v \in Dropped : window_min_var_id(from) <= v
  <2>1. window_min_var_id(from) = Min(Dropped)
    BY <1>2, <1>3 DEF window_min_var_id
  <2> QED BY <1>4, <2>1, MinOfNats
<1>6. SUFFICES ASSUME NEW i \in 1 .. from, NEW v \in VarsOf(bindings'[i].value)
               PROVE  v \notin Dropped
  BY <1>2
<1>7. CASE Affected(bindings[i], from)
  <2>1. VarsOf(bindings'[i].value) \subseteq Known \ Ids(bindings)
    BY <1>7 DEF IndexReclaim, IndexPatch
  <2>2. Dropped \subseteq Ids(bindings)
    BY <1>1, <1>2, <1>3 DEF Ids
  <2> QED BY <1>6, <2>1, <2>2
<1>8. CASE ~Affected(bindings[i], from)
  <2>1. bindings'[i] = bindings[i] /\ v \in VarsOf(bindings[i].value)
    BY <1>6, <1>8 DEF IndexReclaim
  <2>2. SlotOK(i)
    BY <1>1, <1>2 DEF TrailInv
  <2>3. CASE bindings[i].var_ceiling > window_min_var_id(from)
    BY <1>2, <1>3, <1>8, <2>1, <2>3 DEF Affected
  <2>4. CASE ~(bindings[i].var_ceiling > window_min_var_id(from))
    <3>1. /\ bindings[i].var_ceiling \in Nat /\ v \in Nat
          /\ v < bindings[i].var_ceiling
      BY <2>1, <2>2 DEF SlotOK
    <3>2. v < window_min_var_id(from)
      BY <1>5, <2>4, <3>1
    <3> QED BY <1>4, <1>5, <3>1, <3>2
  <2> QED BY <2>3, <2>4
<1> QED BY <1>7, <1>8

LEMMA OnlyReclaimReclaims ==
  ASSUME TrailInv, IndexNext, Reclaiming
  PROVE  \E from \in 0 .. MaxBindings : IndexReclaim(from)
<1>1. Len(bindings) \in Nat /\ Len(choices) \in Nat /\ DOMAIN bindings = 1 .. Len(bindings)
  BY Lengths DEF TrailInv, ChoicesInside
<1>2. bindings' # bindings /\ choices' = choices /\ Len(bindings') < Len(bindings)
  BY <1>1 DEF Reclaiming
<1>3. ~NewVar /\ ~IndexUnifyFails /\ ~Push
  BY <1>2 DEF NewVar, IndexUnifyFails, Push
<1>4. ~IndexUnify
  <2> SUFFICES ASSUME IndexUnify PROVE FALSE
    OBVIOUS
  <2>1. Len(bindings') \in Nat /\ DOMAIN bindings' = 1 .. Len(bindings')
    BY Lengths DEF IndexUnify
  <2>2. DOMAIN bindings \subseteq DOMAIN bindings'
    BY DEF IndexUnify, IsPrefix
  <2>3. Len(bindings) \in DOMAIN bindings /\ Len(bindings) \notin DOMAIN bindings'
    BY <1>1, <1>2, <2>1
  <2> QED BY <2>2, <2>3
<1>5. ~Backtrack
  <2> SUFFICES ASSUME Backtrack PROVE FALSE
    OBVIOUS
  <2>1. PICK c \in Nat : c = Len(choices) /\ choices' = SubSeq(choices, 1, c - 1)
    BY <1>1 DEF Backtrack, Front
  <2>2. choices \in Seq(Nat) /\ c # 0
    BY <2>1 DEF TrailInv, ChoicesInside, Backtrack
  <2>3. Len(choices') = c - 1
    BY <2>1, <2>2
  <2> QED BY <1>2, <2>1, <2>3
<1> QED BY <1>3, <1>4, <1>5 DEF IndexNext

\* A window that is dropped leaves no reference to its variables behind: for
\* any window, any patched values and any ceilings.
THEOREM NoneLeftBehind == IndexSpec => WindowGone
<1>1. TrailInv /\ [IndexNext]_vars =>
        (Reclaiming => \A i \in DOMAIN bindings' :
                         VarsOf(bindings'[i].value) \cap Dropped = {})
  <2> SUFFICES ASSUME TrailInv, [IndexNext]_vars, Reclaiming
               PROVE  \A i \in DOMAIN bindings' :
                        VarsOf(bindings'[i].value) \cap Dropped = {}
    OBVIOUS
  <2>1. CASE IndexNext
    BY <2>1, OnlyReclaimReclaims, WindowDropped
  <2>2. CASE UNCHANGED vars
    <3>1. Len(bindings) \in Nat /\ bindings' = bindings
      BY <2>2, Lengths DEF vars, TrailInv
    <3> QED BY <3>1 DEF Reclaiming
  <2> QED BY <2>1, <2>2
<1> QED BY <1>1, TrailInvariance, PTL DEF IndexSpec, WindowGone
=============================================================================
