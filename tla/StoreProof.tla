----------------------------- MODULE StoreProof -----------------------------
(***************************************************************************)
(* Store, for all files: pointers, marks and limits; what a query asks for *)
(* keeps its names, and what a file brought keeps its owner, when make/0   *)
(* and unconsult/1 are asked for at the toplevel.                          *)
(***************************************************************************)
EXTENDS Store, InductionLemmas, FiniteSetTheorems, SequenceTheorems

-----------------------------------------------------------------------------
(* Interning: the pool only grows, and what lies below its offset stays.   *)

Pools == {p \in [cells : Seq(Names), offset : Nat] : p.offset <= Len(p.cells)}

Grown(p, q) ==
  /\ p.offset <= q.offset /\ Len(p.cells) <= Len(q.cells)
  /\ \A i \in 1 .. p.offset : q.cells[i] = p.cells[i]

LEMMA GrownTwice ==
  ASSUME NEW p \in Pools, NEW q \in Pools, NEW r \in Pools,
         Grown(p, q), Grown(q, r)
  PROVE  Grown(p, r)
BY DEF Grown, Pools

\* A name that was read below the offset still reads the same.
Interned(p, r, text) ==
  /\ r.pool \in Pools /\ Grown(p, r.pool)
  /\ r.at \in 1 .. r.pool.offset /\ r.pool.cells[r.at] = text

LEMMA InternName ==
  ASSUME NEW p \in Pools, NEW text \in Names, NEW r, r = intern_name(p, text)
  PROVE  Interned(p, r, text)
<1> DEFINE known == {i \in 1 .. p.offset : p.cells[i] = text}
<1>1. p.cells \in Seq(Names) /\ p.offset \in 0 .. Len(p.cells) /\ Len(p.cells) \in Nat
  BY DEF Pools
<1>2. CASE known # {}
  <2>1. r = [pool |-> p, at |-> Min(known)]
    BY <1>2 DEF intern_name
  <2>2. Min(known) \in known
    <3>1. known \subseteq Nat
      BY <1>1
    <3> HIDE DEF known
    <3> QED BY <1>2, <3>1, MinOfNats
  <2>3. r.pool = p /\ r.at = Min(known)
    BY <2>1
  <2>4. Min(known) \in 1 .. p.offset /\ p.cells[Min(known)] = text
    BY <2>2
  <2> HIDE DEF known
  <2>5. Grown(p, p)
    BY <1>1 DEF Grown
  <2> QED BY <2>3, <2>4, <2>5 DEF Interned
<1>3. CASE known = {}
  <2> DEFINE new == p.offset + 1
             cells == IF new \in DOMAIN p.cells THEN [p.cells EXCEPT ![new] = text]
                      ELSE Append(p.cells, text)
  <2>1. r = [pool |-> [cells |-> cells, offset |-> new], at |-> new]
    BY <1>3 DEF intern_name
  <2>2. /\ cells \in Seq(Names) /\ Len(cells) \in Nat /\ new <= Len(cells)
        /\ Len(p.cells) <= Len(cells)
        /\ cells[new] = text /\ \A i \in 1 .. p.offset : cells[i] = p.cells[i]
    <3>1. CASE new \in DOMAIN p.cells
      BY <1>1, <3>1
    <3>2. CASE new \notin DOMAIN p.cells
      <4>1. new = Len(p.cells) + 1
        BY <1>1, <3>2
      <4> QED BY <1>1, <3>2, <4>1
    <3> QED BY <3>1, <3>2
  <2> HIDE DEF cells
  <2>3. r.pool.cells = cells /\ r.pool.offset = new /\ r.at = new
    BY <2>1
  <2>4. r.pool \in Pools
    BY <1>1, <2>1, <2>2 DEF Pools
  <2>5. r.at \in 1 .. r.pool.offset
    BY <1>1, <2>3
  <2>6. Grown(p, r.pool)
    BY <1>1, <2>2, <2>3 DEF Grown
  <2> QED BY <2>2, <2>3, <2>4, <2>5, <2>6 DEF Interned
<1> QED BY <1>2, <1>3

LEMMA InternAgain ==
  ASSUME NEW p \in Pools, NEW at \in 1 .. Len(p.cells)
  PROVE  Interned(p, intern_again(p, at), p.cells[at])
<1>1. p.cells \in Seq(Names) /\ p.offset \in Nat /\ p.cells[at] \in Names
  BY DEF Pools
<1>2. CASE at <= p.offset
  BY <1>1, <1>2 DEF Interned, Grown, intern_again
<1>3. CASE ~(at <= p.offset)
  BY <1>1, <1>3, InternName DEF intern_again
<1> QED BY <1>2, <1>3

\* One more of several names.
OneMore(before, one) ==
  [pool |-> one.pool, at |-> Append(before.at, one.at)]

\* Pointers at into the pool p read the texts.
Says(p, at, texts_) ==
  /\ at \in Seq(1 .. p.offset) /\ Len(at) = Len(texts_)
  /\ \A i \in 1 .. Len(texts_) : p.cells[at[i]] = texts_[i]

LEMMA InSeq ==
  ASSUME NEW A, NEW s \in Seq(A), NEW i \in 1 .. Len(s)
  PROVE  s[i] \in A
OBVIOUS

LEMMA FrontAndLast ==
  ASSUME NEW A, NEW s \in Seq(A), s # << >>
  PROVE  Front(s) \in Seq(A) /\ Last(s) \in A
<1>1. Len(s) \in Nat /\ Len(s) # 0
  OBVIOUS
<1>2. s[Len(s)] \in A
  BY <1>1
<1>3. SubSeq(s, 1, Len(s) - 1) \in Seq(A)
  BY <1>1
<1> QED BY <1>2, <1>3 DEF Front, Last

LEMMA WiderSeq ==
  ASSUME NEW A, NEW B, A \subseteq B, NEW s \in Seq(A)
  PROVE  s \in Seq(B)
<1>1. s \in [1 .. Len(s) -> B] /\ Len(s) \in Nat
  OBVIOUS
<1> QED BY <1>1

LEMMA WiderPointers ==
  ASSUME NEW m \in Nat, NEW n \in Nat, m <= n, NEW s \in Seq(1 .. m)
  PROVE  s \in Seq(1 .. n)
<1>1. 1 .. m \subseteq 1 .. n
  OBVIOUS
<1> QED BY <1>1, WiderSeq

\* They still do when the pool has grown.
LEMMA StillSays ==
  ASSUME NEW p \in Pools, NEW q \in Pools, Grown(p, q),
         NEW at, NEW texts_ \in Seq(Names), Says(p, at, texts_)
  PROVE  Says(q, at, texts_)
<1>1. p.offset \in Nat /\ q.offset \in Nat /\ p.offset <= q.offset
  BY DEF Grown, Pools
<1>2. at \in Seq(1 .. p.offset) /\ Len(at) = Len(texts_)
  BY DEF Says
<1>3. at \in Seq(1 .. q.offset)
  BY <1>1, <1>2, WiderPointers
<1>4. ASSUME NEW i \in 1 .. Len(texts_) PROVE q.cells[at[i]] = texts_[i]
  <2>1. at[i] \in 1 .. p.offset
    <3>1. i \in 1 .. Len(at)
      BY <1>2
    <3> QED BY <1>2, <3>1, InSeq
  <2> QED BY <2>1 DEF Says, Grown
<1> QED BY <1>2, <1>3, <1>4 DEF Says

LEMMA InternNamesWorks ==
  ASSUME NEW p \in Pools, NEW names \in Seq(Names), NEW r, r = InternNames(p, names)
  PROVE  r.pool \in Pools /\ Grown(p, r.pool) /\ Says(r.pool, r.at, names)
<1> DEFINE n == Len(names)
           Good(d, k) == /\ d.pool \in Pools /\ Grown(p, d.pool)
                         /\ Says(d.pool, d.at, SubSeq(names, 1, k))
           States == [pool : Pools, at : Seq(Nat)]
           T == [k \in 0 .. n |-> {d \in States : Good(d, k)}]
           base == [pool |-> p, at |-> << >>]
           Step1(d, k) == OneMore(d, intern_name(d.pool, names[k]))
           step == [k \in 1 .. n |-> [d \in T[k - 1] |-> Step1(d, k)]]
<1>1. n \in Nat /\ n = Len(names) /\ \A k \in 1 .. n : names[k] \in Names
  OBVIOUS
<1>2. base \in T[0]
  <2>1. SubSeq(names, 1, 0) = << >>
    OBVIOUS
  <2>2. Says(p, << >>, << >>)
    BY DEF Says
  <2>3. Grown(p, p)
    BY DEF Grown, Pools
  <2>4. Good(base, 0)
    BY <2>1, <2>2, <2>3
  <2>5. base \in States
    OBVIOUS
  <2> HIDE DEF Good, States, base
  <2> QED BY <1>1, <2>4, <2>5
<1>3. \A k \in 1 .. n : \A d \in T[k - 1] : Step1(d, k) \in T[k]
  <2> SUFFICES ASSUME NEW k \in 1 .. n, NEW d \in T[k - 1] PROVE Step1(d, k) \in T[k]
    OBVIOUS
  <2> DEFINE one == intern_name(d.pool, names[k])
             q == one.pool
             before == SubSeq(names, 1, k - 1)
  <2>1. k - 1 \in 0 .. n /\ k \in 0 .. n /\ names[k] \in Names
    BY <1>1
  <2>2. d \in States /\ Good(d, k - 1)
    BY <2>1
  <2>3. Interned(d.pool, one, names[k])
    BY <2>1, <2>2, InternName
  <2> HIDE DEF one
  <2>4. /\ q \in Pools /\ Grown(d.pool, q) /\ one.at \in 1 .. q.offset
        /\ q.cells[one.at] = names[k]
    BY <2>3 DEF Interned
  <2>5. Grown(p, q)
    BY <2>2, <2>4, GrownTwice
  <2>6. before \in Seq(Names) /\ Len(before) = k - 1
    BY <2>1
  <2>7. Says(q, d.at, before)
    BY <2>2, <2>4, <2>6, StillSays
  <2>8. SubSeq(names, 1, k) = Append(before, names[k])
    BY <1>1
  <2> HIDE DEF before, q
  <2>9. Says(q, Append(d.at, one.at), Append(before, names[k]))
    <3>1. d.at \in Seq(1 .. q.offset) /\ Len(d.at) = k - 1
      BY <2>6, <2>7 DEF Says
    <3>2. /\ Append(d.at, one.at) \in Seq(1 .. q.offset)
          /\ Len(Append(d.at, one.at)) = k
          /\ Len(Append(before, names[k])) = k
      BY <2>1, <2>4, <2>6, <3>1 DEF q
    <3>3. ASSUME NEW i \in 1 .. k
          PROVE  q.cells[Append(d.at, one.at)[i]] = Append(before, names[k])[i]
      <4>1. CASE i = k
        BY <2>1, <2>4, <2>6, <3>1, <4>1 DEF q
      <4>2. CASE i \in 1 .. k - 1
        <5>1. Append(d.at, one.at)[i] = d.at[i] /\ Append(before, names[k])[i] = before[i]
          BY <2>1, <2>6, <3>1, <4>2
        <5> QED BY <2>6, <2>7, <4>2, <5>1 DEF Says
      <4> QED
        <5>1. k \in Nat /\ (i = k \/ i \in 1 .. k - 1)
          BY <2>1
        <5> QED BY <4>1, <4>2, <5>1
    <3> QED BY <3>2, <3>3 DEF Says
  <2>10. Step1(d, k) = [pool |-> q, at |-> Append(d.at, one.at)]
    BY DEF OneMore, q, one
  <2>11. Append(d.at, one.at) \in Seq(Nat)
    <3>1. d.at \in Seq(Nat) /\ one.at \in Nat
      BY <2>2, <2>4 DEF q, Pools
    <3> QED BY <3>1
  <2>12. q \in Pools
    BY <2>4 DEF q
  <2>13. Says(q, Append(d.at, one.at), SubSeq(names, 1, k))
    BY <2>8, <2>9
  <2>14. Good(Step1(d, k), k)
    BY <2>5, <2>10, <2>12, <2>13
  <2>15. Step1(d, k) \in States
    BY <2>10, <2>11, <2>12
  <2> HIDE DEF Good, States, Step1
  <2> QED BY <2>1, <2>14, <2>15
<1> HIDE DEF Good, States, n
<1>4. \A k \in 1 .. n : \A d \in T[k - 1] : step[k][d] = Step1(d, k)
  OBVIOUS
<1>5. \A k \in 1 .. n : \A d \in T[k - 1] : step[k][d] \in T[k]
  BY <1>3, <1>4
<1> HIDE DEF Step1, T, step, base
<1>a. Leads(n, T, base, step)
  BY <1>2, <1>5 DEF Leads
<1>6. PICK f : /\ f = [k \in 0 .. n |-> IF k = 0 THEN base ELSE step[k][f[k - 1]]]
               /\ \A k \in 0 .. n : f[k] \in T[k]
  BY SMTT(30), <1>1, <1>a, RecursionExists
<1>7. f = [k \in 0 .. n |-> IF k = 0 THEN base ELSE Step1(f[k - 1], k)]
  <2>1. ASSUME NEW k \in 1 .. n PROVE step[k][f[k - 1]] = Step1(f[k - 1], k)
    <3>1. k - 1 \in 0 .. n
      BY <1>1
    <3>2. f[k - 1] \in T[k - 1]
      BY <1>6, <3>1
    <3> QED BY <1>4, <3>2
  <2>2. \A k \in 0 .. n : (IF k = 0 THEN base ELSE step[k][f[k - 1]])
                          = (IF k = 0 THEN base ELSE Step1(f[k - 1], k))
    BY <1>1, <2>1
  <2> QED BY <1>6, <2>2
<1>8. PICK done : /\ done = [k \in 0 .. n |-> IF k = 0 THEN base ELSE Step1(done[k - 1], k)]
                  /\ r = done[n]
  BY <1>1, <1>7 DEF InternNames, Step1, OneMore, base
<1>9. done[0] = base /\ \A k \in 1 .. n : done[k] = Step1(done[k - 1], k)
  <2>1. 0 \in 0 .. n /\ \A k \in 1 .. n : k \in 0 .. n /\ k # 0
    BY <1>1
  <2> QED BY <1>8, <2>1
<1>10. \A k \in 1 .. n : done[k - 1] \in T[k - 1] => done[k] \in T[k]
  BY <1>3, <1>9
<1>11. Stays(n, T, done)
  BY <1>2, <1>9, <1>10 DEF Stays
<1>12. r \in T[n]
  <2>1. n \in 0 .. n
    BY <1>1
  <2> QED BY <1>1, <1>8, <1>11, <2>1, RecursionStays
<1>13. SubSeq(names, 1, n) = names
  BY <1>1
<1>14. Good(r, n)
  <2>1. n \in 0 .. n
    BY <1>1
  <2> QED BY <1>12, <2>1 DEF T
<1> QED BY <1>13, <1>14 DEF Good

\* Pointers are interned again; where they point above the offset, what they
\* are afterwards need not read the same (see intern_again()).
LEMMA InternPointersWorks ==
  ASSUME NEW p \in Pools, NEW at \in Seq(1 .. Len(p.cells)),
         NEW r, r = InternPointers(p, at)
  PROVE  /\ r.pool \in Pools /\ Grown(p, r.pool)
         /\ r.at \in Seq(1 .. r.pool.offset) /\ Len(r.at) = Len(at)
         /\ at \in Seq(1 .. p.offset) => r.at = at
<1> DEFINE n == Len(at)
           Good(d, k) == /\ d.pool \in Pools /\ Grown(p, d.pool)
                         /\ d.at \in Seq(1 .. d.pool.offset) /\ Len(d.at) = k
                         /\ \A i \in 1 .. k : at[i] <= p.offset => d.at[i] = at[i]
           States == [pool : Pools, at : Seq(Nat)]
           T == [k \in 0 .. n |-> {d \in States : Good(d, k)}]
           base == [pool |-> p, at |-> << >>]
           Step1(d, k) == OneMore(d, intern_again(d.pool, at[k]))
           step == [k \in 1 .. n |-> [d \in T[k - 1] |-> Step1(d, k)]]
<1>a. n \in Nat /\ n = Len(at)
  OBVIOUS
<1>b. \A k \in 1 .. n : at[k] \in 1 .. Len(p.cells)
  BY InSeq
<1>2. base \in T[0]
  <2>1. Good(base, 0)
    BY DEF Grown, Pools
  <2>2. base \in States
    OBVIOUS
  <2> HIDE DEF Good, States, base
  <2> QED BY <1>a, <2>1, <2>2
<1>3. \A k \in 1 .. n : \A d \in T[k - 1] : Step1(d, k) \in T[k]
  <2> SUFFICES ASSUME NEW k \in 1 .. n, NEW d \in T[k - 1] PROVE Step1(d, k) \in T[k]
    OBVIOUS
  <2> DEFINE one == intern_again(d.pool, at[k])
             q == one.pool
  <2>1. k - 1 \in 0 .. n /\ k \in 0 .. n /\ (k - 1) + 1 = k /\ k - 1 \in Nat
    BY <1>a
  <2>2. d \in States /\ Good(d, k - 1)
    BY <2>1
  <2>3. at[k] \in 1 .. Len(d.pool.cells)
    <3>1. Len(p.cells) <= Len(d.pool.cells) /\ Len(p.cells) \in Nat
          /\ Len(d.pool.cells) \in Nat
      BY <2>2 DEF Grown, Pools
    <3>2. at[k] \in 1 .. Len(p.cells)
      BY <1>b
    <3> QED BY <3>1, <3>2
  <2>4. Interned(d.pool, one, d.pool.cells[at[k]])
    BY <2>2, <2>3, InternAgain
  <2> HIDE DEF one
  <2>5. q \in Pools /\ Grown(d.pool, q) /\ one.at \in 1 .. q.offset
    BY <2>4 DEF Interned
  <2>6. Grown(p, q)
    BY <2>2, <2>5, GrownTwice
  <2> HIDE DEF q
  <2>7. 1 .. d.pool.offset \subseteq 1 .. q.offset /\ q.offset \in Nat
    BY <2>2, <2>5 DEF Grown, Pools
  <2>8. d.at \in Seq(1 .. q.offset) /\ Len(d.at) = k - 1
    <3>1. d.at \in Seq(1 .. d.pool.offset) /\ Len(d.at) = k - 1
      BY <2>2
    <3>2. d.pool.offset \in Nat /\ d.pool.offset <= q.offset
      BY <2>2, <2>5 DEF Grown, Pools, q
    <3> QED BY <2>7, <3>1, <3>2, WiderPointers
  <2>9. /\ Append(d.at, one.at) \in Seq(1 .. q.offset)
        /\ Len(Append(d.at, one.at)) = k
    BY <2>1, <2>5, <2>8
  <2>10. 1 .. q.offset \subseteq Nat
    BY <2>7
  <2>11. Append(d.at, one.at) \in Seq(Nat)
    BY <2>9, <2>10, WiderSeq
  <2>a. at[k] <= p.offset => one.at = at[k]
    <3>1. /\ p.offset \in Nat /\ d.pool.offset \in Nat /\ p.offset <= d.pool.offset
          /\ at[k] \in Nat
      BY <2>2, <2>3 DEF Grown, Pools
    <3>2. PICK a \in Nat : a = at[k]
      BY <3>1
    <3>3. PICK b \in Nat : b = p.offset
      BY <3>1
    <3>4. PICK c \in Nat : c = d.pool.offset
      BY <3>1
    <3>5. a <= b => a <= c
      BY <3>1, <3>3, <3>4
    <3> QED BY <3>2, <3>3, <3>4, <3>5 DEF one, intern_again
  <2>b. ASSUME NEW i \in 1 .. k, at[i] <= p.offset
        PROVE  Append(d.at, one.at)[i] = at[i]
    <3>1. CASE i = k
      BY <2>1, <2>8, <2>a, <2>b, <3>1
    <3>2. CASE i # k
      <4>1. i \in 1 .. k - 1
        BY <2>1, <3>2
      <4>2. Append(d.at, one.at)[i] = d.at[i] /\ d.at[i] = at[i]
        BY <2>1, <2>2, <2>8, <2>b, <4>1
      <4> QED BY <4>2
    <3> QED BY <3>1, <3>2
  <2>12. Step1(d, k) = [pool |-> q, at |-> Append(d.at, one.at)]
    BY DEF OneMore, q, one
  <2>13. Good(Step1(d, k), k)
    BY <2>5, <2>6, <2>9, <2>12, <2>b
  <2>14. Step1(d, k) \in States
    BY <2>5, <2>11, <2>12
  <2> HIDE DEF Good, States, Step1
  <2> QED BY <2>1, <2>13, <2>14
<1> HIDE DEF Good, States, n
<1>4. \A k \in 1 .. n : \A d \in T[k - 1] : step[k][d] = Step1(d, k)
  OBVIOUS
<1>5. \A k \in 1 .. n : \A d \in T[k - 1] : step[k][d] \in T[k]
  BY <1>3, <1>4
<1> HIDE DEF Step1, T, step, base
<1>6. Leads(n, T, base, step)
  BY <1>2, <1>5 DEF Leads
<1>7. PICK f : /\ f = [k \in 0 .. n |-> IF k = 0 THEN base ELSE step[k][f[k - 1]]]
               /\ \A k \in 0 .. n : f[k] \in T[k]
  BY SMTT(30), <1>a, <1>6, RecursionExists
<1>8. f = [k \in 0 .. n |-> IF k = 0 THEN base ELSE Step1(f[k - 1], k)]
  <2>1. ASSUME NEW k \in 1 .. n PROVE step[k][f[k - 1]] = Step1(f[k - 1], k)
    <3>1. k - 1 \in 0 .. n
      BY <1>a
    <3>2. f[k - 1] \in T[k - 1]
      BY <1>7, <3>1
    <3> QED BY <1>4, <3>2
  <2>2. \A k \in 0 .. n : (IF k = 0 THEN base ELSE step[k][f[k - 1]])
                          = (IF k = 0 THEN base ELSE Step1(f[k - 1], k))
    BY <1>a, <2>1
  <2> QED BY <1>7, <2>2
<1>9. PICK done : /\ done = [k \in 0 .. n |-> IF k = 0 THEN base ELSE Step1(done[k - 1], k)]
                  /\ r = done[n]
  BY <1>a, <1>8 DEF InternPointers, Step1, OneMore, base
<1>10. done[0] = base /\ \A k \in 1 .. n : done[k] = Step1(done[k - 1], k)
  <2>1. 0 \in 0 .. n /\ \A k \in 1 .. n : k \in 0 .. n /\ k # 0
    BY <1>a
  <2> QED BY <1>9, <2>1
<1>11. Stays(n, T, done)
  BY <1>2, <1>3, <1>10 DEF Stays
<1>12. Good(r, n)
  <2>1. n \in 0 .. n
    BY <1>a
  <2>2. r \in T[n]
    BY <1>a, <1>9, <1>11, <2>1, RecursionStays
  <2> QED BY <2>1, <2>2 DEF T
<1>13. ASSUME at \in Seq(1 .. p.offset) PROVE r.at = at
  <2>1. \A i \in 1 .. n : at[i] \in 1 .. p.offset
    BY <1>13, <1>a, InSeq
  <2>2. p.offset \in Nat
    BY DEF Pools
  <2>3. \A i \in 1 .. n : r.at[i] = at[i]
    BY <1>12, <2>1, <2>2 DEF Good
  <2>4. r.at \in Seq(1 .. r.pool.offset) /\ Len(r.at) = n
    BY <1>12 DEF Good
  <2> QED BY <1>a, <2>3, <2>4
<1> QED BY <1>a, <1>12, <1>13 DEF Good

-----------------------------------------------------------------------------
(* What is kept as pointers stays typed when the pool grows.               *)

LEMMA WiderClause ==
  ASSUME NEW m \in Nat, NEW n \in Nat, m <= n
  PROVE  Clause(m) \subseteq Clause(n)
<1>1. 1 .. m \subseteq 1 .. n
  OBVIOUS
<1>2. Seq(1 .. m) \subseteq Seq(1 .. n)
  BY <1>1, WiderSeq
<1> QED BY <1>2 DEF Clause

LEMMA WiderAsked ==
  ASSUME NEW m \in Nat, NEW n \in Nat, m <= n
  PROVE  Asked(m) \subseteq Asked(n)
<1>1. 1 .. m \subseteq 1 .. n
  OBVIOUS
<1>2. Seq(1 .. m) \subseteq Seq(1 .. n)
  BY <1>1, WiderSeq
<1> QED BY <1>2 DEF Asked

LEMMA WiderActs ==
  ASSUME NEW m \in Nat, NEW n \in Nat, m <= n
  PROVE  QueryActs(m) \subseteq QueryActs(n)
<1>1. 0 .. m \subseteq 0 .. n
  OBVIOUS
<1>2. Seq(Asked(m)) \subseteq Seq(Asked(n))
  BY WiderAsked, WiderSeq
<1> QED BY <1>1, <1>2 DEF QueryActs

\* What the parser makes of a goal: its names can be read back.
AskedAs(p, asked, g) ==
  /\ asked \in Asked(p.offset) /\ Says(p, asked.at, asked.names)
  /\ asked.op = g.op /\ asked.names = g.names /\ asked.files = g.files

LEMMA StillAsked ==
  ASSUME NEW p \in Pools, NEW q \in Pools, Grown(p, q),
         NEW asked, NEW g \in Goals, AskedAs(p, asked, g)
  PROVE  AskedAs(q, asked, g)
<1>1. p.offset \in Nat /\ q.offset \in Nat /\ p.offset <= q.offset
  BY DEF Grown, Pools
<1>2. asked.names \in Seq(Names)
  BY DEF AskedAs, Goals
<1>3. Says(q, asked.at, asked.names)
  BY <1>2, StillSays DEF AskedAs
<1>4. asked \in Asked(q.offset)
  BY <1>1, WiderAsked DEF AskedAs
<1> QED BY <1>3, <1>4 DEF AskedAs

OneGoalMore(before, g, names) ==
  [pool |-> names.pool,
   goals |-> Append(before.goals, [op |-> g.op, names |-> g.names,
                                   files |-> g.files, at |-> names.at])]

LEMMA ParseGoalsWorks ==
  ASSUME pool \in Pools, NEW goals \in Seq(Goals), NEW r, r = parse_goals(goals)
  PROVE  /\ r.pool \in Pools /\ Grown(pool, r.pool)
         /\ r.goals \in Seq(Asked(r.pool.offset)) /\ Len(r.goals) = Len(goals)
         /\ \A i \in 1 .. Len(goals) : AskedAs(r.pool, r.goals[i], goals[i])
<1> DEFINE n == Len(goals)
           Good(d, k) == /\ d.pool \in Pools /\ Grown(pool, d.pool)
                         /\ d.goals \in Seq(Asked(d.pool.offset)) /\ Len(d.goals) = k
                         /\ \A i \in 1 .. k : AskedAs(d.pool, d.goals[i], goals[i])
           States == [pool : Pools, goals : Seq(UNION {Asked(m) : m \in Nat})]
           T == [k \in 0 .. n |-> {d \in States : Good(d, k)}]
           base == [pool |-> pool, goals |-> << >>]
           Step1(d, k) == OneGoalMore(d, goals[k], InternNames(d.pool, goals[k].names))
           step == [k \in 1 .. n |-> [d \in T[k - 1] |-> Step1(d, k)]]
<1>1. n \in Nat /\ n = Len(goals)
  OBVIOUS
<1>a. \A k \in 1 .. n : goals[k] \in Goals
  BY InSeq
<1>2. base \in T[0]
  <2>1. Good(base, 0)
    BY DEF Grown, Pools
  <2>2. base \in States
    OBVIOUS
  <2> HIDE DEF Good, States, base
  <2> QED BY <1>1, <2>1, <2>2
<1>3. \A k \in 1 .. n : \A d \in T[k - 1] : Step1(d, k) \in T[k]
  <2> SUFFICES ASSUME NEW k \in 1 .. n, NEW d \in T[k - 1] PROVE Step1(d, k) \in T[k]
    OBVIOUS
  <2>1. k - 1 \in 0 .. n /\ k \in 0 .. n /\ (k - 1) + 1 = k /\ k - 1 \in Nat
    BY <1>1
  <2>2. d \in States /\ Good(d, k - 1)
    BY <2>1
  <2>3. PICK g \in Goals : g = goals[k]
    BY <1>a
  <2>4. g.names \in Seq(Names) /\ d.pool \in Pools
    BY <2>2 DEF Goals
  <2>5. PICK names : names = InternNames(d.pool, g.names)
    OBVIOUS
  <2>6. PICK q \in Pools : q = names.pool
    BY <2>4, <2>5, InternNamesWorks
  <2>7. Grown(d.pool, q) /\ Says(q, names.at, g.names)
    BY <2>4, <2>5, <2>6, InternNamesWorks
  <2>8. PICK asked : asked = [op |-> g.op, names |-> g.names, files |-> g.files,
                             at |-> names.at]
    OBVIOUS
  <2>9. /\ names.at \in Seq(1 .. q.offset) /\ Len(names.at) = Len(g.names)
    BY <2>7 DEF Says
  <2>10. asked \in Asked(q.offset)
    <3>1. g.op \in Named => g.names # << >>
      BY DEF Goals
    <3>2. g.op \in Named => names.at # << >>
      <4>1. CASE names.at = << >>
        <5>1. Len(g.names) = 0
          BY <2>9, <4>1
        <5>2. g.names = << >>
          BY <2>4, <5>1
        <5> QED BY <3>1, <5>2
      <4> QED BY <4>1
    <3>3. asked \in [op : Ops, names : Seq(Names), files : Seq(Files), at : Seq(1 .. q.offset)]
      BY <2>8, <2>9 DEF Goals
    <3> QED BY <2>8, <2>9, <3>2, <3>3 DEF Asked
  <2>11. AskedAs(q, asked, g)
    BY <2>7, <2>8, <2>10 DEF AskedAs
  <2>12. Step1(d, k) = [pool |-> q, goals |-> Append(d.goals, asked)]
    BY <2>3, <2>5, <2>6, <2>8 DEF OneGoalMore
  <2>13. Grown(pool, q)
    BY <2>2, <2>7, GrownTwice
  <2>14. q.offset \in Nat /\ d.pool.offset \in Nat /\ d.pool.offset <= q.offset
    BY <2>4, <2>7 DEF Grown, Pools
  <2>15. d.goals \in Seq(Asked(q.offset)) /\ Len(d.goals) = k - 1
    <3>1. d.goals \in Seq(Asked(d.pool.offset)) /\ Len(d.goals) = k - 1
      BY <2>2
    <3>2. Asked(d.pool.offset) \subseteq Asked(q.offset)
      BY <2>14, WiderAsked
    <3> QED BY <3>1, <3>2, WiderSeq
  <2>16. Append(d.goals, asked) \in Seq(Asked(q.offset)) /\ Len(Append(d.goals, asked)) = k
    BY <2>1, <2>10, <2>15
  <2>17. ASSUME NEW i \in 1 .. k PROVE AskedAs(q, Append(d.goals, asked)[i], goals[i])
    <3>1. CASE i = k
      <4>1. Append(d.goals, asked)[i] = asked
        BY <2>1, <2>15, <3>1
      <4> QED BY <2>3, <2>11, <3>1, <4>1
    <3>2. CASE i \in 1 .. k - 1
      <4>1. Append(d.goals, asked)[i] = d.goals[i]
        BY <2>1, <2>15, <3>2
      <4>2. AskedAs(d.pool, d.goals[i], goals[i])
        BY <2>2, <3>2
      <4>3. goals[i] \in Goals
        BY <1>1, <1>a, <2>1, <3>2
      <4>4. AskedAs(q, d.goals[i], goals[i])
        BY <2>4, <2>7, <4>2, <4>3, StillAsked
      <4> QED BY <4>1, <4>4
    <3>3. i = k \/ i \in 1 .. k - 1
      BY <2>1
    <3> QED BY <3>1, <3>2, <3>3
  <2>18. Good(Step1(d, k), k)
    BY <2>12, <2>13, <2>16, <2>17
  <2>19. Step1(d, k) \in States
    <3>1. Asked(q.offset) \subseteq UNION {Asked(m) : m \in Nat}
      BY <2>14
    <3>2. Append(d.goals, asked) \in Seq(UNION {Asked(m) : m \in Nat})
      BY <2>16, <3>1, WiderSeq
    <3> QED BY <2>12, <3>2
  <2> HIDE DEF Good, States, Step1
  <2> QED BY <2>1, <2>18, <2>19
<1> HIDE DEF Good, States, n
<1>4. \A k \in 1 .. n : \A d \in T[k - 1] : step[k][d] = Step1(d, k)
  OBVIOUS
<1>5. \A k \in 1 .. n : \A d \in T[k - 1] : step[k][d] \in T[k]
  BY <1>3, <1>4
<1> HIDE DEF Step1, T, step, base
<1>6. Leads(n, T, base, step)
  BY <1>2, <1>5 DEF Leads
<1>7. PICK f : /\ f = [k \in 0 .. n |-> IF k = 0 THEN base ELSE step[k][f[k - 1]]]
               /\ \A k \in 0 .. n : f[k] \in T[k]
  BY <1>1, <1>6, RecursionExists
<1>8. f = [k \in 0 .. n |-> IF k = 0 THEN base ELSE Step1(f[k - 1], k)]
  <2>1. ASSUME NEW k \in 1 .. n PROVE step[k][f[k - 1]] = Step1(f[k - 1], k)
    <3>1. k - 1 \in 0 .. n
      BY <1>1
    <3>2. f[k - 1] \in T[k - 1]
      BY <1>7, <3>1
    <3> QED BY <1>4, <3>2
  <2>2. \A k \in 0 .. n : (IF k = 0 THEN base ELSE step[k][f[k - 1]])
                          = (IF k = 0 THEN base ELSE Step1(f[k - 1], k))
    BY SMTT(30), <1>1, <2>1
  <2> QED BY <1>7, <2>2
<1>9. PICK done : /\ done = [k \in 0 .. n |-> IF k = 0 THEN base ELSE Step1(done[k - 1], k)]
                  /\ r = done[n]
  BY <1>1, <1>8 DEF parse_goals, Step1, OneGoalMore, base
<1>10. done[0] = base /\ \A k \in 1 .. n : done[k] = Step1(done[k - 1], k)
  <2>1. 0 \in 0 .. n /\ \A k \in 1 .. n : k \in 0 .. n /\ k # 0
    BY <1>1
  <2> QED BY <1>9, <2>1
<1>11. Stays(n, T, done)
  BY <1>2, <1>3, <1>10 DEF Stays
<1>12. Good(r, n)
  <2>1. n \in 0 .. n
    BY <1>1
  <2>2. r \in T[n]
    BY <1>1, <1>9, <1>11, <2>1, RecursionStays
  <2> QED BY <2>1, <2>2 DEF T
<1> QED BY <1>1, <1>12 DEF Good

OneClauseMore(before, c, names) ==
  [pool |-> names.pool,
   database |-> Append(before.database, [c EXCEPT !.at = names.at])]

Recopied(p, c, copy) == /\ copy.source_file = c.source_file
                        /\ c.at \in Seq(1 .. p.offset) => copy = c

LEMMA CompactedWorks ==
  ASSUME NEW p \in Pools, database \in Seq(Clause(Len(p.cells))),
         NEW r, r = Compacted(p)
  PROVE  /\ r.pool \in Pools /\ Grown(p, r.pool)
         /\ r.database \in Seq(Clause(Len(r.pool.cells)))
         /\ Len(r.database) = Len(database)
         /\ \A i \in 1 .. Len(database) :
              /\ r.database[i].source_file = database[i].source_file
              /\ database[i].at \in Seq(1 .. p.offset) => r.database[i] = database[i]
<1> DEFINE n == Len(database)
           Good(d, k) == /\ d.pool \in Pools /\ Grown(p, d.pool)
                         /\ d.database \in Seq(Clause(Len(d.pool.cells)))
                         /\ Len(d.database) = k
                         /\ \A i \in 1 .. k :
                              Recopied(p, database[i], d.database[i])
           States == [pool : Pools, database : Seq(UNION {Clause(m) : m \in Nat})]
           T == [k \in 0 .. n |-> {d \in States : Good(d, k)}]
           base == [pool |-> p, database |-> << >>]
           Step1(d, k) == OneClauseMore(d, database[k], InternPointers(d.pool, database[k].at))
           step == [k \in 1 .. n |-> [d \in T[k - 1] |-> Step1(d, k)]]
<1>1. n \in Nat /\ n = Len(database)
  OBVIOUS
<1>a. \A k \in 1 .. n : database[k] \in Clause(Len(p.cells))
  BY InSeq
<1>2. base \in T[0]
  <2>1. Good(base, 0)
    BY DEF Grown, Pools
  <2>2. base \in States
    OBVIOUS
  <2> HIDE DEF Good, States, base
  <2> QED BY <1>1, <2>1, <2>2
<1>3. \A k \in 1 .. n : \A d \in T[k - 1] : Step1(d, k) \in T[k]
  <2> SUFFICES ASSUME NEW k \in 1 .. n, NEW d \in T[k - 1] PROVE Step1(d, k) \in T[k]
    OBVIOUS
  <2>1. k - 1 \in 0 .. n /\ k \in 0 .. n /\ (k - 1) + 1 = k /\ k - 1 \in Nat
    BY <1>1
  <2>2. d \in States /\ Good(d, k - 1)
    BY <2>1
  <2>3. /\ d.pool \in Pools /\ Len(p.cells) \in Nat /\ Len(d.pool.cells) \in Nat
        /\ Len(p.cells) <= Len(d.pool.cells)
    BY <2>2 DEF Grown, Pools
  <2>4. PICK c \in Clause(Len(d.pool.cells)) : c = database[k]
    BY <1>a, <2>3, WiderClause
  <2>5. c.at \in Seq(1 .. Len(d.pool.cells))
    BY DEF Clause
  <2>6. PICK names : names = InternPointers(d.pool, c.at)
    OBVIOUS
  <2>7. PICK q \in Pools : q = names.pool
    BY <2>3, <2>5, <2>6, InternPointersWorks
  <2>8. Grown(d.pool, q) /\ names.at \in Seq(1 .. q.offset)
    BY <2>3, <2>5, <2>6, <2>7, InternPointersWorks
  <2>9. /\ q.offset \in Nat /\ Len(q.cells) \in Nat /\ q.offset <= Len(q.cells)
        /\ Len(d.pool.cells) <= Len(q.cells)
    BY <2>8 DEF Grown, Pools
  <2>10. PICK copy : copy = [c EXCEPT !.at = names.at]
    OBVIOUS
  <2>11. copy \in Clause(Len(q.cells))
    <3>1. names.at \in Seq(1 .. Len(q.cells))
      BY <2>8, <2>9, WiderPointers
    <3> QED BY <2>10, <3>1 DEF Clause
  <2>12. Step1(d, k) = [pool |-> q, database |-> Append(d.database, copy)]
    BY <2>4, <2>6, <2>7, <2>10 DEF OneClauseMore
  <2>13. Grown(p, q)
    BY <2>2, <2>8, GrownTwice
  <2>14. d.database \in Seq(Clause(Len(q.cells))) /\ Len(d.database) = k - 1
    <3>1. d.database \in Seq(Clause(Len(d.pool.cells))) /\ Len(d.database) = k - 1
      BY <2>2
    <3>2. Clause(Len(d.pool.cells)) \subseteq Clause(Len(q.cells))
      BY <2>3, <2>9, WiderClause
    <3> QED BY <3>1, <3>2, WiderSeq
  <2>15. /\ Append(d.database, copy) \in Seq(Clause(Len(q.cells)))
         /\ Len(Append(d.database, copy)) = k
    BY <2>1, <2>11, <2>14
  <2>a. ASSUME NEW i \in 1 .. k
        PROVE  Recopied(p, database[i], Append(d.database, copy)[i])
    <3>1. CASE i = k
      <4>1. Append(d.database, copy)[i] = copy
        BY <2>1, <2>14, <3>1
      <4>2. copy.source_file = c.source_file
        BY <2>10 DEF Clause
      <4>3. ASSUME c.at \in Seq(1 .. p.offset) PROVE copy = c
        <5>1. c.at \in Seq(1 .. d.pool.offset)
          <6>1. p.offset \in Nat /\ d.pool.offset \in Nat /\ p.offset <= d.pool.offset
            BY <2>2 DEF Grown, Pools
          <6> QED BY <4>3, <6>1, WiderPointers
        <5>2. names.at = c.at
          BY <2>3, <2>5, <2>6, <5>1, InternPointersWorks
        <5> QED BY <2>10, <5>2 DEF Clause
      <4> QED BY <2>4, <3>1, <4>1, <4>2, <4>3 DEF Recopied
    <3>2. CASE i # k
      <4>1. i \in 1 .. k - 1
        BY <2>1, <3>2
      <4>2. Append(d.database, copy)[i] = d.database[i]
        BY <2>1, <2>14, <4>1
      <4>3. Recopied(p, database[i], d.database[i])
        BY <2>2, <4>1
      <4> QED BY <4>2, <4>3
    <3> QED BY <3>1, <3>2
  <2>16. Good(Step1(d, k), k)
    BY <2>12, <2>13, <2>15, <2>a
  <2>17. Step1(d, k) \in States
    <3>1. Clause(Len(q.cells)) \subseteq UNION {Clause(m) : m \in Nat}
      BY <2>9
    <3>2. Append(d.database, copy) \in Seq(UNION {Clause(m) : m \in Nat})
      BY <2>15, <3>1, WiderSeq
    <3> QED BY <2>12, <3>2
  <2> HIDE DEF Good, States, Step1
  <2> QED BY <2>1, <2>16, <2>17
<1> HIDE DEF Good, States, n
<1>4. \A k \in 1 .. n : \A d \in T[k - 1] : step[k][d] = Step1(d, k)
  OBVIOUS
<1>5. \A k \in 1 .. n : \A d \in T[k - 1] : step[k][d] \in T[k]
  BY <1>3, <1>4
<1> HIDE DEF Step1, T, step, base
<1>6. Leads(n, T, base, step)
  BY <1>2, <1>5 DEF Leads
<1>7. PICK f : /\ f = [k \in 0 .. n |-> IF k = 0 THEN base ELSE step[k][f[k - 1]]]
               /\ \A k \in 0 .. n : f[k] \in T[k]
  BY <1>1, <1>6, RecursionExists
<1>8. f = [k \in 0 .. n |-> IF k = 0 THEN base ELSE Step1(f[k - 1], k)]
  <2>1. ASSUME NEW k \in 1 .. n PROVE step[k][f[k - 1]] = Step1(f[k - 1], k)
    <3>1. k - 1 \in 0 .. n
      BY <1>1
    <3>2. f[k - 1] \in T[k - 1]
      BY <1>7, <3>1
    <3> QED BY <1>4, <3>2
  <2>2. \A k \in 0 .. n : (IF k = 0 THEN base ELSE step[k][f[k - 1]])
                          = (IF k = 0 THEN base ELSE Step1(f[k - 1], k))
    BY SMTT(30), <1>1, <2>1
  <2> QED BY <1>7, <2>2
<1>9. PICK done : /\ done = [k \in 0 .. n |-> IF k = 0 THEN base ELSE Step1(done[k - 1], k)]
                  /\ r = done[n]
  BY <1>1, <1>8 DEF Compacted, Step1, OneClauseMore, base
<1>10. done[0] = base /\ \A k \in 1 .. n : done[k] = Step1(done[k - 1], k)
  <2>1. 0 \in 0 .. n /\ \A k \in 1 .. n : k \in 0 .. n /\ k # 0
    BY <1>1
  <2> QED BY <1>9, <2>1
<1>11. Stays(n, T, done)
  BY <1>2, <1>3, <1>10 DEF Stays
<1>12. Good(r, n)
  <2>1. n \in 0 .. n
    BY <1>1
  <2>2. r \in T[n]
    BY <1>1, <1>9, <1>11, <2>1, RecursionStays
  <2> QED BY <2>1, <2>2 DEF T
<1> QED BY <1>1, <1>12 DEF Good, Recopied

-----------------------------------------------------------------------------
(* A sequence without some of its elements.                                *)

\* How Without() goes through a sequence.
Sieves(f, s, gone) ==
  /\ f[0] = << >>
  /\ \A k \in 1 .. Len(s) :
       f[k] = IF s[k] \in gone THEN f[k - 1] ELSE Append(f[k - 1], s[k])

LEMMA WithoutTrace ==
  ASSUME NEW S, NEW s \in Seq(S), NEW gone
  PROVE  \E f : /\ Sieves(f, s, gone) /\ Without(s, gone) = f[Len(s)]
                /\ \A k \in 0 .. Len(s) : f[k] \in Seq(S \ gone) /\ Len(f[k]) <= k
<1> DEFINE n == Len(s)
           Good(d, k) == d \in Seq(S \ gone) /\ Len(d) <= k
           States == Seq(S \ gone)
           T == [k \in 0 .. n |-> {d \in States : Good(d, k)}]
           base == << >>
           Step1(d, k) == IF s[k] \in gone THEN d ELSE Append(d, s[k])
           step == [k \in 1 .. n |-> [d \in T[k - 1] |-> Step1(d, k)]]
<1>1. n \in Nat /\ n = Len(s)
  OBVIOUS
<1>a. \A k \in 1 .. n : s[k] \in S
  BY InSeq
<1>2. base \in T[0]
  <2>1. Good(base, 0)
    OBVIOUS
  <2>2. base \in States
    OBVIOUS
  <2> HIDE DEF Good, States, base
  <2> QED BY <1>1, <2>1, <2>2
<1>3. \A k \in 1 .. n : \A d \in T[k - 1] : Step1(d, k) \in T[k]
  <2> SUFFICES ASSUME NEW k \in 1 .. n, NEW d \in T[k - 1] PROVE Step1(d, k) \in T[k]
    OBVIOUS
  <2>1. k - 1 \in 0 .. n /\ k \in 0 .. n /\ k - 1 \in Nat
    BY <1>1
  <2>2. d \in Seq(S \ gone) /\ Len(d) \in Nat /\ Len(d) <= k - 1
    BY <2>1
  <2>3. PICK c \in S : c = s[k]
    BY <1>a
  <2>4. /\ c \notin gone => Append(d, c) \in Seq(S \ gone)
        /\ Len(Append(d, c)) = Len(d) + 1
    BY <2>2
  <2>5. Good(Step1(d, k), k)
    BY <2>1, <2>2, <2>3, <2>4
  <2> HIDE DEF Step1
  <2> QED BY <2>1, <2>5
<1> HIDE DEF Good, States, n
<1>4. \A k \in 1 .. n : \A d \in T[k - 1] : step[k][d] = Step1(d, k)
  OBVIOUS
<1>5. \A k \in 1 .. n : \A d \in T[k - 1] : step[k][d] \in T[k]
  BY <1>3, <1>4
<1> HIDE DEF Step1, T, step, base
<1>6. Leads(n, T, base, step)
  BY <1>2, <1>5 DEF Leads
<1>7. PICK f : /\ f = [k \in 0 .. n |-> IF k = 0 THEN base ELSE step[k][f[k - 1]]]
               /\ \A k \in 0 .. n : f[k] \in T[k]
  BY <1>1, <1>6, RecursionExists
<1>8. f = [k \in 0 .. n |-> IF k = 0 THEN base ELSE Step1(f[k - 1], k)]
  <2>1. ASSUME NEW k \in 1 .. n PROVE step[k][f[k - 1]] = Step1(f[k - 1], k)
    <3>1. k - 1 \in 0 .. n
      BY <1>1
    <3>2. f[k - 1] \in T[k - 1]
      BY <1>7, <3>1
    <3> QED BY <1>4, <3>2
  <2>2. \A k \in 0 .. n : (IF k = 0 THEN base ELSE step[k][f[k - 1]])
                          = (IF k = 0 THEN base ELSE Step1(f[k - 1], k))
    BY <1>1, <2>1
  <2> QED BY <1>7, <2>2
<1>9. PICK done : /\ done = [k \in 0 .. n |-> IF k = 0 THEN base ELSE Step1(done[k - 1], k)]
                  /\ Without(s, gone) = done[n]
  BY <1>1, <1>8 DEF Without, Step1, base
<1>10. done[0] = base /\ \A k \in 1 .. n : done[k] = Step1(done[k - 1], k)
  <2>1. 0 \in 0 .. n /\ \A k \in 1 .. n : k \in 0 .. n /\ k # 0
    BY <1>1
  <2> QED BY <1>9, <2>1
<1>11. Stays(n, T, done)
  BY <1>2, <1>3, <1>10 DEF Stays
<1>12. \A k \in 0 .. n : done[k] \in T[k]
  BY <1>1, <1>11, RecursionStays
<1>13. \A k \in 0 .. n : done[k] \in Seq(S \ gone) /\ Len(done[k]) <= k
  BY <1>12 DEF T, Good
<1>14. Sieves(done, s, gone)
  BY <1>1, <1>10 DEF Sieves, Step1, base
<1> QED BY <1>1, <1>9, <1>13, <1>14

LEMMA WithoutWorks ==
  ASSUME NEW S, NEW s \in Seq(S), NEW gone, NEW r, r = Without(s, gone)
  PROVE  r \in Seq(S \ gone) /\ r \in Seq(S) /\ Len(r) <= Len(s)
<1>1. Len(s) \in Nat /\ Len(s) \in 0 .. Len(s)
  OBVIOUS
<1>2. r \in Seq(S \ gone) /\ Len(r) <= Len(s)
  BY <1>1, WithoutTrace
<1> QED BY <1>2, WiderSeq

-----------------------------------------------------------------------------
(* The running query and loads: a query runs in a load, as a directive, or *)
(* in nothing, a load in a query or, the first one, in nothing; and a      *)
(* query that waits for a load has a goal to come back to.                 *)

Waits(act) == act.kind = "query" => act.next \in DOMAIN act.goals

Nested(calls) ==
  \A k \in 1 .. Len(calls) - 1 : calls[k].kind # calls[k + 1].kind /\ Waits(calls[k])

Stack(calls, n) == calls \in Seq(QueryActs(n) \cup LoadActs) /\ Nested(calls)

Depth(calls) == Cardinality(Loads(calls))
AsLoad(act) == IF act.kind = "load" THEN 1 ELSE 0

LEMMA LoadsFinite ==
  ASSUME NEW n, NEW calls, Stack(calls, n)
  PROVE  IsFiniteSet(Loads(calls)) /\ Depth(calls) \in Nat
<1>1. Len(calls) \in Nat /\ DOMAIN calls = 1 .. Len(calls)
  BY DEF Stack
<1>2. IsFiniteSet(1 .. Len(calls))
  BY <1>1, FS_Interval
<1>3. Loads(calls) \subseteq 1 .. Len(calls)
  BY <1>1 DEF Loads
<1>4. IsFiniteSet(Loads(calls))
  BY <1>2, <1>3, FS_Subset
<1> QED BY <1>4, FS_CardinalityType DEF Depth

\* A call is entered, or the innermost one goes on as another.
Enters(r, calls, act) ==
  /\ r = Append(calls, act)
  /\ calls # << >> => Last(calls).kind # act.kind /\ Waits(Last(calls))
GoesOn(r, calls, act) ==
  calls # << >> /\ act.kind = Last(calls).kind /\ r = Append(Front(calls), act)

LEMMA StackPush ==
  ASSUME NEW n, NEW calls, Stack(calls, n), NEW act \in QueryActs(n) \cup LoadActs,
         NEW r, Enters(r, calls, act)
  PROVE  Stack(r, n) /\ Depth(r) = Depth(calls) + AsLoad(act)
<1> USE DEF Enters
<1> DEFINE m == Len(calls)
<1>1. m \in Nat /\ DOMAIN calls = 1 .. m /\ calls \in Seq(QueryActs(n) \cup LoadActs)
  BY DEF Stack
<1>2. /\ r \in Seq(QueryActs(n) \cup LoadActs) /\ Len(r) = m + 1 /\ r[m + 1] = act
      /\ \A k \in 1 .. m : r[k] = calls[k]
  BY <1>1
<1>3. m # 0 => Last(calls) = calls[m] /\ calls # << >>
  BY <1>1 DEF Last
<1> HIDE DEF m
<1>4. Nested(r)
  <2> SUFFICES ASSUME NEW k \in 1 .. m PROVE r[k].kind # r[k + 1].kind /\ Waits(r[k])
    BY <1>1, <1>2 DEF Nested
  <2>1. CASE k = m
    <3>1. m # 0 /\ r[k] = Last(calls) /\ r[k + 1] = act
      BY <1>1, <1>2, <1>3, <2>1
    <3> QED BY <1>3, <3>1
  <2>2. CASE k # m
    <3>1. k \in 1 .. m - 1 /\ k + 1 \in 1 .. m
      BY <1>1, <2>2
    <3>2. calls[k].kind # calls[k + 1].kind /\ Waits(calls[k])
      BY <3>1 DEF Stack, Nested, m
    <3>3. r[k] = calls[k] /\ r[k + 1] = calls[k + 1]
      BY <1>2, <3>1
    <3> QED BY <3>2, <3>3
  <2> QED BY <2>1, <2>2
<1>5. Depth(r) = Depth(calls) + AsLoad(act)
  <2>1. DOMAIN r = 1 .. m + 1
    BY <1>2
  <2>2. CASE act.kind = "load"
    <3>1. Loads(r) = Loads(calls) \cup {m + 1}
      BY <1>1, <1>2, <2>1, <2>2 DEF Loads
    <3>2. m + 1 \notin Loads(calls)
      BY <1>1 DEF Loads
    <3> QED BY <2>2, <3>1, <3>2, LoadsFinite, FS_AddElement DEF Depth, AsLoad
  <2>3. CASE act.kind # "load"
    <3>1. Loads(r) = Loads(calls)
      BY <1>1, <1>2, <2>1, <2>3 DEF Loads
    <3> QED BY <2>3, <3>1, LoadsFinite DEF Depth, AsLoad
  <2> QED BY <2>2, <2>3
<1> QED BY <1>2, <1>4, <1>5 DEF Stack

\* What remains without the innermost.
LEMMA StackPop ==
  ASSUME NEW n, NEW calls, Stack(calls, n), calls # << >>,
         NEW top, top = Last(calls), NEW r, r = Front(calls)
  PROVE  /\ Stack(r, n) /\ Depth(calls) = Depth(r) + AsLoad(top)
         /\ top \in QueryActs(n) \cup LoadActs
         /\ r # << >> => Last(r).kind # top.kind /\ Waits(Last(r))
<1> DEFINE m == Len(calls)
<1>1. m \in Nat \ {0} /\ DOMAIN calls = 1 .. m /\ calls \in Seq(QueryActs(n) \cup LoadActs)
  BY DEF Stack
<1>2. /\ r \in Seq(QueryActs(n) \cup LoadActs) /\ Len(r) = m - 1
      /\ \A k \in 1 .. m - 1 : r[k] = calls[k]
  BY <1>1 DEF Front
<1>3. top = calls[m] /\ top \in QueryActs(n) \cup LoadActs
  BY <1>1 DEF Last
<1>4. r # << >> => m - 1 \in 1 .. m - 1 /\ Last(r) = calls[m - 1]
  BY <1>1, <1>2 DEF Last
<1>5. \A k \in 1 .. m - 1 : calls[k].kind # calls[k + 1].kind /\ Waits(calls[k])
  BY DEF Stack, Nested
<1> HIDE DEF m
<1>6. r # << >> => Last(r).kind # top.kind /\ Waits(Last(r))
  <2> SUFFICES ASSUME r # << >> PROVE Last(r).kind # top.kind /\ Waits(Last(r))
    OBVIOUS
  <2>1. (m - 1) + 1 = m
    BY <1>1
  <2> QED BY <1>3, <1>4, <1>5, <2>1
<1>7. Nested(r)
  <2> SUFFICES ASSUME NEW k \in 1 .. (m - 1) - 1 PROVE r[k].kind # r[k + 1].kind /\ Waits(r[k])
    BY <1>2 DEF Nested
  <2>1. k \in 1 .. m - 1 /\ k + 1 \in 1 .. m - 1
    BY <1>1
  <2> QED BY <1>2, <1>5, <2>1
<1>8. Stack(r, n)
  BY <1>2, <1>7 DEF Stack
<1>9. Depth(calls) = Depth(r) + AsLoad(top)
  <2>1. DOMAIN r = 1 .. m - 1
    BY <1>1, <1>2
  <2>2. CASE top.kind = "load"
    <3>1. Loads(calls) = Loads(r) \cup {m}
      BY <1>1, <1>2, <1>3, <2>1, <2>2 DEF Loads
    <3>2. m \notin Loads(r)
      BY <1>1, <2>1 DEF Loads
    <3> QED BY <1>8, <2>2, <3>1, <3>2, LoadsFinite, FS_AddElement DEF Depth, AsLoad
  <2>3. CASE top.kind # "load"
    <3>1. Loads(r) = Loads(calls)
      BY <1>1, <1>2, <1>3, <2>1, <2>3 DEF Loads
    <3> QED BY <1>8, <2>3, <3>1, LoadsFinite DEF Depth, AsLoad
  <2> QED BY <2>2, <2>3
<1> QED BY <1>3, <1>6, <1>8, <1>9

LEMMA StackReplace ==
  ASSUME NEW n, NEW calls, Stack(calls, n), NEW act \in QueryActs(n) \cup LoadActs,
         NEW r, GoesOn(r, calls, act)
  PROVE  Stack(r, n) /\ Depth(r) = Depth(calls) /\ r # << >> /\ Last(r) = act
<1> USE DEF GoesOn
<1>1. PICK top : top = Last(calls)
  OBVIOUS
<1>2. PICK below : below = Front(calls)
  OBVIOUS
<1>3. /\ Stack(below, n) /\ Depth(calls) = Depth(below) + AsLoad(top)
      /\ below # << >> => Last(below).kind # top.kind /\ Waits(Last(below))
  BY <1>1, <1>2, StackPop
<1>4. below # << >> => Last(below).kind # act.kind /\ Waits(Last(below))
  BY <1>1, <1>3
<1>5. r = Append(below, act)
  BY <1>2
<1>6. Stack(r, n) /\ Depth(r) = Depth(below) + AsLoad(act)
  <2>1. Enters(r, below, act)
    BY <1>3, <1>4, <1>5 DEF Enters
  <2> QED BY <1>3, <1>4, <1>5, <2>1, StackPush
<1>7. AsLoad(act) = AsLoad(top)
  BY <1>1 DEF AsLoad
<1>8. r # << >> /\ Last(r) = act
  BY <1>3, <1>5 DEF Stack, Last
<1> QED BY <1>3, <1>6, <1>7, <1>8

LEMMA StackWider ==
  ASSUME NEW m \in Nat, NEW n \in Nat, m <= n, NEW calls, Stack(calls, m)
  PROVE  Stack(calls, n)
<1>1. QueryActs(m) \cup LoadActs \subseteq QueryActs(n) \cup LoadActs
  BY WiderActs
<1>2. calls \in Seq(QueryActs(n) \cup LoadActs)
  BY <1>1, WiderSeq DEF Stack
<1> QED BY <1>2 DEF Stack

-----------------------------------------------------------------------------
(* The inductive invariant: TypeOK, and how calls are nested.              *)

Cells == Len(pool.cells)

PoolOK == pool \in Pools
DatabaseOK == database \in Seq(Clause(Cells)) /\ Len(database) <= MaxClauses
OpsOK == ops \in Seq(1 .. Cells)
DynamicOK == /\ dynamic_preds \subseteq Names /\ IsFiniteSet(dynamic_preds)
             /\ Cardinality(dynamic_preds) <= MaxDynamic
FilesOK == /\ make_files \in Seq([path : Files, mtime : Nat])
           /\ Len(make_files) <= MaxFiles /\ current_source_file \in Nat
MarkOK == mark \in [db : Nat, string : 0 .. Cells]
DiskOK == disk \in [Files -> Nat] /\ \A f \in Files : disk[f] \in DOMAIN Versions[f]
ActsOK == /\ Stack(acts, Cells)
          /\ include_depth = Depth(acts) /\ include_depth <= MaxOpen
FlagsOK == {db_dirty, ops_dirty, parse_error} \subseteq BOOLEAN

StoreInv ==
  /\ PoolOK /\ DatabaseOK /\ OpsOK /\ DynamicOK /\ FilesOK /\ MarkOK
  /\ DiskOK /\ ActsOK /\ FlagsOK

LEMMA InvImpliesTypeOK == StoreInv => TypeOK
<1> SUFFICES ASSUME StoreInv PROVE TypeOK
  OBVIOUS
<1>1. /\ pool \in [cells : Seq(Names), offset : 0 .. Cells]
      /\ acts \in Seq(QueryActs(Cells) \cup LoadActs)
      /\ include_depth = Cardinality(Loads(acts)) /\ include_depth <= MaxOpen
  BY DEF StoreInv, PoolOK, ActsOK, Pools, Stack, Depth, Cells
<1>2. /\ database \in Seq(Clause(Cells)) /\ Len(database) <= MaxClauses
      /\ ops \in Seq(1 .. Cells) /\ mark \in [db : Nat, string : 0 .. Cells]
  BY DEF StoreInv, DatabaseOK, OpsOK, MarkOK
<1>3. DynamicOK /\ FilesOK /\ DiskOK /\ FlagsOK
  BY DEF StoreInv
<1> QED BY <1>1, <1>2, <1>3 DEF TypeOK, DynamicOK, FilesOK, DiskOK, FlagsOK, Cells

\* As long as the pool has no fewer cells, what is not touched stays typed.
PoolGrows == PoolOK' /\ Len(pool.cells) <= Len(pool'.cells)

LEMMA CellsNat ==
  ASSUME PoolOK PROVE Cells \in Nat /\ pool.cells \in Seq(Names) /\ pool.offset \in 0 .. Cells
BY DEF PoolOK, Pools, Cells

LEMMA SamePool ==
  ASSUME PoolOK, UNCHANGED pool PROVE PoolGrows
BY CellsNat DEF PoolGrows, PoolOK, Cells

LEMMA GrownPool ==
  ASSUME PoolOK, pool' \in Pools, Grown(pool, pool') PROVE PoolGrows
BY DEF PoolGrows, PoolOK, Grown

LEMMA Kept ==
  ASSUME StoreInv, PoolGrows
  PROVE  /\ UNCHANGED database => DatabaseOK'
         /\ UNCHANGED ops => OpsOK'
         /\ UNCHANGED dynamic_preds => DynamicOK'
         /\ UNCHANGED make_files /\ UNCHANGED current_source_file => FilesOK'
         /\ UNCHANGED mark => MarkOK'
         /\ UNCHANGED disk => DiskOK'
         /\ UNCHANGED acts /\ UNCHANGED include_depth => ActsOK'
         /\ UNCHANGED db_dirty /\ UNCHANGED ops_dirty /\ UNCHANGED parse_error => FlagsOK'
<1>1. Cells \in Nat /\ Cells' \in Nat /\ Cells <= Cells'
  BY DEF StoreInv, PoolOK, PoolGrows, Pools, Cells
<1>2. Clause(Cells) \subseteq Clause(Cells')
  BY <1>1, WiderClause
<1>3. UNCHANGED database => DatabaseOK'
  BY <1>2, WiderSeq DEF StoreInv, DatabaseOK
<1>4. UNCHANGED ops => OpsOK'
  BY <1>1, WiderPointers DEF StoreInv, OpsOK
<1>5. UNCHANGED mark => MarkOK'
  BY <1>1 DEF StoreInv, MarkOK
<1>6. UNCHANGED acts /\ UNCHANGED include_depth => ActsOK'
  BY <1>1, StackWider DEF StoreInv, ActsOK
<1>7. UNCHANGED dynamic_preds => DynamicOK'
  BY DEF StoreInv, DynamicOK
<1>8. UNCHANGED make_files /\ UNCHANGED current_source_file => FilesOK'
  BY DEF StoreInv, FilesOK
<1>9. UNCHANGED disk => DiskOK'
  BY DEF StoreInv, DiskOK
<1>10. UNCHANGED db_dirty /\ UNCHANGED ops_dirty /\ UNCHANGED parse_error => FlagsOK'
  BY DEF StoreInv, FlagsOK
<1> QED BY <1>3, <1>4, <1>5, <1>6, <1>7, <1>8, <1>9, <1>10

-----------------------------------------------------------------------------
(* How actions change the innermost call.                                  *)

LEMMA ActTyped ==
  ASSUME StoreInv, acts # << >>
  PROVE  /\ Act \in QueryActs(Cells) \cup LoadActs
         /\ Act.kind = "query" => Act \in QueryActs(Cells)
         /\ Act.kind = "load" => Act \in LoadActs
<1>1. Act \in QueryActs(Cells) \cup LoadActs
  BY StackPop DEF StoreInv, ActsOK, Act
<1> QED BY <1>1 DEF QueryActs, LoadActs

LEMMA ActReplaced ==
  ASSUME StoreInv, PoolGrows, acts # << >>,
         NEW act \in QueryActs(Cells') \cup LoadActs, act.kind = Act.kind,
         Continue(act), UNCHANGED include_depth
  PROVE  ActsOK'
<1>1. Cells \in Nat /\ Cells' \in Nat /\ Cells <= Cells'
  BY DEF StoreInv, PoolOK, PoolGrows, Pools, Cells
<1>2. Stack(acts, Cells')
  BY <1>1, StackWider DEF StoreInv, ActsOK
<1>3. acts' = Append(Front(acts), act) /\ act.kind = Last(acts).kind
  BY DEF Continue, Callers, Act
<1>4. Stack(acts', Cells') /\ Depth(acts') = Depth(acts)
  <2>1. GoesOn(acts', acts, act)
    BY <1>2, <1>3 DEF GoesOn
  <2> QED BY <1>2, <1>3, <2>1, StackReplace
<1> QED BY <1>4 DEF StoreInv, ActsOK

\* What may change in a query.
LEMMA AfterGoal ==
  ASSUME NEW n, NEW query \in QueryActs(n)
  PROVE  /\ [query EXCEPT !.next = @ + 1, !.from = 1] \in QueryActs(n)
         /\ [query EXCEPT !.next = @ + 1, !.from = 1].kind = "query"
         /\ \A run \in {"back", "end"} :
              /\ [query EXCEPT !.run = run] \in QueryActs(n)
              /\ [query EXCEPT !.run = run].kind = "query"
<1>1. query.next + 1 \in Nat \ {0} /\ 1 \in Nat \ {0}
  BY DEF QueryActs
<1>2. ASSUME NEW q, q = [query EXCEPT !.next = @ + 1, !.from = 1]
      PROVE  q \in QueryActs(n) /\ q.kind = "query"
  BY <1>1, <1>2 DEF QueryActs
<1>3. ASSUME NEW run \in {"back", "end"}, NEW q, q = [query EXCEPT !.run = run]
      PROVE  q \in QueryActs(n) /\ q.kind = "query"
  BY <1>3 DEF QueryActs
<1> QED BY <1>2, <1>3

\* A goal succeeds, fails, or is an error.
LEMMA GoalDone ==
  ASSUME StoreInv, PoolGrows, acts # << >>, Act.kind = "query",
         Succeed \/ Fail \/ Error, UNCHANGED include_depth
  PROVE  ActsOK'
<1>1. Cells \in Nat /\ Cells' \in Nat /\ Cells <= Cells'
  BY DEF StoreInv, PoolOK, PoolGrows, Pools, Cells
<1>2. Act \in QueryActs(Cells')
  BY <1>1, ActTyped, WiderActs
<1>3. PICK query \in QueryActs(Cells') : query = Act
  BY <1>2
<1>4. /\ [query EXCEPT !.next = @ + 1, !.from = 1] \in QueryActs(Cells')
      /\ [query EXCEPT !.next = @ + 1, !.from = 1].kind = "query"
  BY AfterGoal
<1>a. /\ [query EXCEPT !.run = "back"] \in QueryActs(Cells')
      /\ [query EXCEPT !.run = "back"].kind = "query"
      /\ [query EXCEPT !.run = "end"] \in QueryActs(Cells')
      /\ [query EXCEPT !.run = "end"].kind = "query"
  BY AfterGoal
<1>5. CASE Succeed
  BY <1>3, <1>4, <1>5, ActReplaced DEF Succeed
<1>6. CASE Fail
  BY <1>3, <1>a, <1>6, ActReplaced DEF Fail
<1>7. CASE Error
  BY <1>3, <1>a, <1>7, ActReplaced DEF Error
<1> QED BY <1>5, <1>6, <1>7

LEMMA GoalTyped ==
  ASSUME StoreInv, NEW op, Running(op)
  PROVE  /\ acts # << >> /\ Act.kind = "query" /\ Act \in QueryActs(Cells)
         /\ Act.next \in DOMAIN Act.goals /\ Goal \in Asked(Cells) /\ Goal.op = op
<1>1. acts # << >> /\ Act.kind = "query" /\ Act.next <= Len(Act.goals) /\ Goal.op = op
  BY DEF Running, InQuery
<1>2. Act \in QueryActs(Cells)
  BY <1>1, ActTyped
<1>3. Act.goals \in Seq(Asked(Cells)) /\ Act.next \in Nat \ {0}
  BY <1>2 DEF QueryActs
<1>4. Act.next \in 1 .. Len(Act.goals)
  BY <1>1, <1>3
<1>5. Act.goals[Act.next] \in Asked(Cells)
  BY <1>3, <1>4, InSeq
<1> QED BY <1>1, <1>2, <1>3, <1>4, <1>5 DEF Goal

LEMMA NameTyped ==
  ASSUME StoreInv, NEW op \in Named, Running(op)
  PROVE  Goal.at[1] \in 1 .. Cells /\ texts[1] \in Names
<1>1. Goal \in Asked(Cells) /\ Goal.op = op
  BY GoalTyped
<1>2. Goal.at \in Seq(1 .. Cells) /\ Goal.at # << >>
  BY <1>1 DEF Asked
<1>3. 1 \in 1 .. Len(Goal.at) /\ DOMAIN Goal.at = 1 .. Len(Goal.at)
  BY <1>2
<1>4. Goal.at[1] \in 1 .. Cells
  BY <1>2, <1>3, InSeq
<1>5. pool.cells[Goal.at[1]] \in Names
  BY <1>4, CellsNat, InSeq DEF StoreInv, Cells
<1>6. texts[1] = pool.cells[Goal.at[1]]
  BY <1>3 DEF texts, Read
<1> QED BY <1>4, <1>5, <1>6

-----------------------------------------------------------------------------
(* Every action keeps the invariant.                                       *)

LEMMA InitTyped == Init => StoreInv
<1> SUFFICES ASSUME Init PROVE StoreInv
  OBVIOUS
<1>1. PoolOK /\ Cells = 0
  BY DEF Init, PoolOK, Pools, Cells
<1>2. {MaxFiles, MaxClauses, MaxDynamic, MaxOpen} \subseteq Nat \ {0} /\ Core \in Files
  BY StoreAssumption
<1>3. \A f \in Files : 1 \in DOMAIN Versions[f]
  <2> SUFFICES ASSUME NEW f \in Files PROVE 1 \in DOMAIN Versions[f]
    OBVIOUS
  <2>1. /\ Versions[f] \in Seq([there : BOOLEAN, items : Seq(Items)])
        /\ Versions[f] # << >>
    BY StoreAssumption
  <2> QED BY <2>1
<1>a. MaxClauses \in Nat /\ 0 <= MaxClauses
  BY <1>2
<1>4. DatabaseOK /\ OpsOK /\ MarkOK /\ FlagsOK
  <2>1. DatabaseOK
    BY <1>a DEF Init, DatabaseOK
  <2>2. OpsOK
    BY DEF Init, OpsOK
  <2>3. MarkOK
    BY <1>1 DEF Init, MarkOK
  <2>4. FlagsOK
    BY DEF Init, FlagsOK
  <2> QED BY <2>1, <2>2, <2>3, <2>4
<1>5. DynamicOK
  <2>1. IsFiniteSet({}) /\ Cardinality({}) = 0
    BY FS_EmptySet
  <2> QED BY <1>2, <2>1 DEF Init, DynamicOK
<1>6. FilesOK
  BY <1>2 DEF Init, FilesOK
<1>7. DiskOK
  BY <1>3 DEF Init, DiskOK
<1>8. ActsOK
  <2>1. PICK load : load = [kind |-> "load", file |-> Core, items |-> Text(Core).items,
                            stop |-> FALSE]
    OBVIOUS
  <2>2. load \in LoadActs
    <3>1. Versions[Core] \in Seq([there : BOOLEAN, items : Seq(Items)])
      BY <1>2, StoreAssumption
    <3>2. Versions[Core][1] \in [there : BOOLEAN, items : Seq(Items)]
      <4>1. 1 \in 1 .. Len(Versions[Core])
        BY <1>2, <1>3, <3>1
      <4> QED BY <3>1, <4>1, InSeq
    <3>3. Text(Core) = Versions[Core][1]
      BY <1>2 DEF Text, Init
    <3> QED BY <1>2, <2>1, <3>2, <3>3 DEF LoadActs
  <2>3. acts = Append(<< >>, load)
    BY <2>1 DEF Init
  <2>4. Stack(<< >>, Cells)
    BY DEF Stack, Nested
  <2>5. Depth(<< >>) = 0
    <3>1. Loads(<< >>) = {}
      BY DEF Loads
    <3> QED BY <3>1, FS_EmptySet DEF Depth
  <2>6. Stack(acts, Cells) /\ Depth(acts) = Depth(<< >>) + AsLoad(load)
    <3>1. Enters(acts, << >>, load)
      BY <2>2, <2>3, <2>4 DEF Enters
    <3> QED BY <2>2, <2>3, <2>4, <3>1, StackPush
  <2> QED BY <1>2, <2>1, <2>5, <2>6 DEF Init, ActsOK, AsLoad
<1> QED BY <1>1, <1>4, <1>5, <1>6, <1>7, <1>8 DEF StoreInv

\* A query is parsed and begins, on its own or in a load.
LEMMA EnterQueryTyped ==
  ASSUME StoreInv, NEW goals \in Seq(Goals), NEW callers, Stack(callers, Cells),
         Depth(callers) = include_depth,
         callers # << >> => Last(callers).kind = "load",
         EnterQuery(goals, callers)
  PROVE  StoreInv'
<1>1. PICK parsed : parsed = parse_goals(goals)
  OBVIOUS
<1>2. /\ parsed.pool \in Pools /\ Grown(pool, parsed.pool)
      /\ parsed.goals \in Seq(Asked(parsed.pool.offset))
  BY <1>1, ParseGoalsWorks DEF StoreInv, PoolOK
<1>3. pool' = parsed.pool /\ UNCHANGED <<database, ops, dynamic_preds, make_files, mark,
        current_source_file, include_depth, disk, ops_dirty>>
      /\ db_dirty' = FALSE /\ parse_error' = FALSE
  BY <1>1 DEF EnterQuery, loading
<1>4. PoolGrows
  BY <1>2, <1>3, GrownPool DEF StoreInv
<1>5. /\ Cells \in Nat /\ Cells' \in Nat /\ Cells <= Cells'
      /\ pool.offset \in 0 .. Cells' /\ pool'.offset \in 0 .. Cells'
  BY <1>4, CellsNat DEF StoreInv, PoolOK, PoolGrows, Pools, Cells
<1>6. PICK query : query =
        [kind |-> "query", goals |-> parsed.goals, next |-> 1, from |-> 1,
         alternatives |-> << >>, run |-> "go", string_mark |-> pool.offset,
         db_mark |-> Len(database)]
  OBVIOUS
<1>7. acts' = Append(callers, query)
  BY <1>1, <1>6 DEF EnterQuery
<1>8. query \in QueryActs(Cells')
  <2>1. parsed.goals \in Seq(Asked(Cells'))
    <3>1. Asked(parsed.pool.offset) \subseteq Asked(Cells')
      BY <1>3, <1>5, WiderAsked
    <3> QED BY <1>2, <3>1, WiderSeq
  <2>2. Len(database) \in Nat
    BY DEF StoreInv, DatabaseOK
  <2> QED BY <1>5, <1>6, <2>1, <2>2 DEF QueryActs
<1>9. Stack(callers, Cells')
  BY <1>5, StackWider
<1>10. callers # << >> => Last(callers).kind # query.kind /\ Waits(Last(callers))
  BY <1>6 DEF Waits
<1>11. Stack(acts', Cells') /\ Depth(acts') = Depth(callers) + AsLoad(query)
  <2>1. query \in QueryActs(Cells') \cup LoadActs
    BY <1>8
  <2> QED
    <3>1. Enters(acts', callers, query)
      BY <1>7, <1>9, <1>10, <2>1 DEF Enters
    <3> QED BY <1>7, <1>9, <1>10, <2>1, <3>1, StackPush
<1>12. ActsOK'
  <2>1. AsLoad(query) = 0
    BY <1>6 DEF AsLoad
  <2>2. Depth(callers) \in Nat
    BY LoadsFinite
  <2> QED BY <1>3, <1>11, <2>1, <2>2 DEF ActsOK, StoreInv
<1>13. FlagsOK'
  BY <1>3 DEF FlagsOK, StoreInv
<1> QED BY <1>3, <1>4, <1>12, <1>13, Kept DEF StoreInv, PoolGrows

LEMMA QueryTyped ==
  ASSUME StoreInv, NEW goals \in Queries, Query(goals) PROVE StoreInv'
<1>1. goals \in Seq(Goals)
  BY StoreAssumption
<1>2. acts = << >> /\ EnterQuery(goals, << >>)
  BY DEF Query
<1>3. Stack(<< >>, Cells) /\ Depth(<< >>) = include_depth
  BY <1>2 DEF StoreInv, ActsOK
<1> QED BY <1>1, <1>2, <1>3, EnterQueryTyped

LEMMA SolutionTyped == ASSUME StoreInv, Solution PROVE StoreInv'
<1>1. acts # << >> /\ Act.kind = "query" /\ (Error \/ Fail)
  BY DEF Solution, InQuery
<1>2. UNCHANGED <<database, pool, ops, dynamic_preds, make_files, mark,
        current_source_file, include_depth, disk, db_dirty, ops_dirty, parse_error>>
  BY DEF Solution, loading, flags
<1>3. PoolGrows
  BY <1>2, SamePool DEF StoreInv
<1>4. ActsOK'
  BY <1>1, <1>2, <1>3, GoalDone
<1> QED BY <1>2, <1>3, <1>4, Kept DEF StoreInv, PoolGrows

LEMMA BacktrackTyped == ASSUME StoreInv, Backtrack PROVE StoreInv'
<1>1. acts # << >> /\ Act.kind = "query"
  BY DEF Backtrack, InQuery
<1>2. UNCHANGED <<database, pool, ops, dynamic_preds, make_files, mark,
        current_source_file, include_depth, disk, db_dirty, ops_dirty, parse_error>>
  BY DEF Backtrack, loading, flags
<1>3. PoolGrows
  BY <1>2, SamePool DEF StoreInv
<1>4. ActsOK'
  <2>1. CASE Act.alternatives = << >>
    BY <1>1, <1>2, <1>3, <2>1, GoalDone DEF Backtrack
  <2>2. CASE Act.alternatives # << >>
    <3>1. PICK query \in QueryActs(Cells) : query = Act
      BY <1>1, ActTyped
    <3>2. query.alternatives \in Seq(Alternatives) /\ query.alternatives # << >>
      BY <2>2, <3>1 DEF QueryActs
    <3>3. PICK frame \in Alternatives : frame = Last(query.alternatives)
      BY <3>2, FrontAndLast
    <3>4. PICK rest \in Seq(Alternatives) : rest = Front(query.alternatives)
      BY <3>2, FrontAndLast
    <3>5. PICK back : back = [query EXCEPT !.next = frame.next, !.from = frame.from,
                                           !.alternatives = rest, !.run = "go"]
      OBVIOUS
    <3>6. back \in QueryActs(Cells) /\ back.kind = "query"
      BY <3>5 DEF QueryActs, Alternatives
    <3>7. Continue(back)
      BY <2>2, <3>1, <3>3, <3>4, <3>5 DEF Backtrack
    <3>8. Cells' = Cells
      BY <1>2 DEF Cells
    <3> QED BY <1>1, <1>2, <1>3, <3>6, <3>7, <3>8, ActReplaced
  <2> QED BY <2>1, <2>2
<1> QED BY <1>2, <1>3, <1>4, Kept DEF StoreInv, PoolGrows

LEMMA EndQueryTyped == ASSUME StoreInv, EndQuery PROVE StoreInv'
<1>1. acts # << >> /\ Act.kind = "query"
  BY DEF EndQuery, InQuery
<1>2. UNCHANGED <<ops, dynamic_preds, make_files, mark, current_source_file,
        include_depth, disk, parse_error>>
      /\ db_dirty' = FALSE /\ ops_dirty' = FALSE
  BY DEF EndQuery, loading
<1>3. PICK query \in QueryActs(Cells) : query = Act
  BY <1>1, ActTyped
<1>4. PICK rolled_back :
        /\ rolled_back = IF seems_unchanged
                         THEN [pool EXCEPT !.offset = Act.string_mark] ELSE pool
        /\ \/ pool' = rolled_back /\ UNCHANGED database
           \/ /\ pool' = Compacted(rolled_back).pool
              /\ database' = Compacted(rolled_back).database
  BY DEF EndQuery
<1>5. rolled_back \in Pools /\ rolled_back.cells = pool.cells
  <2>1. query.string_mark \in 0 .. Cells
    BY DEF QueryActs
  <2>2. PICK mark_ \in 0 .. Cells : mark_ = Act.string_mark
    BY <1>3, <2>1
  <2>3. pool \in Pools
    BY DEF StoreInv, PoolOK
  <2>4. ASSUME NEW p, p = [pool EXCEPT !.offset = mark_]
        PROVE  p \in Pools /\ p.cells = pool.cells
    BY <2>3, <2>4 DEF Pools, Cells
  <2> QED BY <1>4, <2>2, <2>3, <2>4
<1>6. PoolGrows /\ DatabaseOK'
  <2>1. CASE pool' = rolled_back /\ UNCHANGED database
    <3>1. PoolGrows
      BY <1>5, <2>1, CellsNat DEF PoolGrows, PoolOK, StoreInv, Cells
    <3> QED BY <2>1, <3>1, Kept
  <2>2. CASE /\ pool' = Compacted(rolled_back).pool
             /\ database' = Compacted(rolled_back).database
    <3>1. PICK compacted : compacted = Compacted(rolled_back)
      OBVIOUS
    <3>2. database \in Seq(Clause(Len(rolled_back.cells)))
      BY <1>5 DEF StoreInv, DatabaseOK, Cells
    <3>3. /\ compacted.pool \in Pools /\ Grown(rolled_back, compacted.pool)
          /\ compacted.database \in Seq(Clause(Len(compacted.pool.cells)))
          /\ Len(compacted.database) = Len(database)
      BY <1>5, <3>1, <3>2, CompactedWorks
    <3>4. PoolGrows
      BY <1>5, <2>2, <3>1, <3>3 DEF PoolGrows, PoolOK, Grown
    <3>5. DatabaseOK'
      BY <2>2, <3>1, <3>3 DEF StoreInv, DatabaseOK, Cells
    <3> QED BY <3>4, <3>5
  <2> QED BY <1>4, <2>1, <2>2
<1>7. ActsOK'
  <2>1. Cells \in Nat /\ Cells' \in Nat /\ Cells <= Cells'
    BY <1>6, CellsNat DEF StoreInv, PoolOK, PoolGrows, Pools, Cells
  <2>2. Stack(acts, Cells')
    BY <2>1, StackWider DEF StoreInv, ActsOK
  <2>3. PICK below : below = Front(acts)
    OBVIOUS
  <2>4. PICK top : top = Last(acts)
    OBVIOUS
  <2>5. /\ Stack(below, Cells') /\ Depth(acts) = Depth(below) + AsLoad(top)
        /\ below # << >> => Last(below).kind # top.kind /\ Waits(Last(below))
    BY <1>1, <2>2, <2>3, <2>4, StackPop
  <2>6. top.kind = "query" /\ AsLoad(top) = 0
    BY <1>1, <2>4 DEF Act, AsLoad
  <2>7. Depth(below) \in Nat
    BY <2>5, LoadsFinite
  <2>8. Depth(below) = include_depth
    BY <2>5, <2>6, <2>7 DEF StoreInv, ActsOK
  <2>9. CASE below = << >>
    <3>1. acts' = below
      BY <2>3, <2>9 DEF EndQuery, Callers
    <3> QED BY <1>2, <2>5, <2>8, <3>1 DEF StoreInv, ActsOK
  <2>10. CASE below # << >>
    <3>1. Last(below) \in QueryActs(Cells') \cup LoadActs /\ Last(below).kind # "query"
      BY <2>5, <2>6, <2>10, FrontAndLast DEF Stack
    <3>2. PICK load \in LoadActs : load = Last(below)
      BY <3>1 DEF QueryActs
    <3>3. PICK stopped : stopped = [load EXCEPT !.stop = parse_error]
      OBVIOUS
    <3>4. stopped \in LoadActs /\ stopped.kind = "load" /\ load.kind = "load"
      BY <3>3 DEF LoadActs, StoreInv, FlagsOK
    <3>5. acts' = Append(Front(below), stopped)
      BY <2>3, <2>10, <3>2, <3>3 DEF EndQuery, Callers
    <3>6. stopped \in QueryActs(Cells') \cup LoadActs
      BY <3>4
    <3>7. Stack(acts', Cells') /\ Depth(acts') = Depth(below)
      <4>1. GoesOn(acts', below, stopped)
        BY <2>5, <2>10, <3>2, <3>4, <3>5, <3>6 DEF GoesOn
      <4> QED BY <2>5, <2>10, <3>2, <3>4, <3>5, <3>6, <4>1, StackReplace
    <3> QED BY <1>2, <2>8, <3>7 DEF StoreInv, ActsOK
  <2> QED BY <2>9, <2>10
<1>8. FlagsOK'
  BY <1>2 DEF FlagsOK, StoreInv
<1> QED BY <1>2, <1>6, <1>7, <1>8, Kept DEF StoreInv, PoolGrows

LEMMA CallTyped == ASSUME StoreInv, Call PROVE StoreInv'
<1>1. Running("call")
  BY DEF Call
<1>2. UNCHANGED <<database, pool, ops, dynamic_preds, make_files, mark,
        current_source_file, include_depth, disk, db_dirty, ops_dirty, parse_error>>
  BY DEF Call, loading, flags
<1>3. PoolGrows
  BY <1>2, SamePool DEF StoreInv
<1>4. acts # << >> /\ Act.kind = "query"
  BY <1>1, GoalTyped
<1>5. PICK query \in QueryActs(Cells) : query = Act
  BY <1>4, ActTyped
<1>6. ActsOK'
  <2>1. PICK found : found = {i \in Act.from .. Len(database) :
                                database[i].at[1] = Goal.at[1]}
    OBVIOUS
  <2>2. CASE found = {}
    BY <1>2, <1>3, <1>4, <2>1, <2>2, GoalDone DEF Call
  <2>3. CASE found # {}
    <3>1. found \subseteq Nat
      <4>1. query.from \in Nat /\ Len(database) \in Nat
        BY DEF QueryActs, StoreInv, DatabaseOK
      <4> QED BY <1>5, <2>1, <4>1
    <3>2. Min(found) + 1 \in Nat \ {0}
      <4>1. Min(found) \in Nat
        BY <2>3, <3>1, MinOfNats
      <4> QED BY <4>1
    <3>3. query.next \in Nat \ {0} /\ query.alternatives \in Seq(Alternatives)
      BY DEF QueryActs
    <3>4. PICK rest : rest = Append(query.alternatives,
                                    [next |-> query.next, from |-> Min(found) + 1])
      OBVIOUS
    <3>5. rest \in Seq(Alternatives)
      BY <3>2, <3>3, <3>4 DEF Alternatives
    <3>6. PICK tried : tried = [query EXCEPT !.next = @ + 1, !.from = 1,
                                             !.alternatives = rest]
      OBVIOUS
    <3>7. tried \in QueryActs(Cells) /\ tried.kind = "query"
      <4>1. query.next + 1 \in Nat \ {0} /\ 1 \in Nat \ {0}
        BY <3>3
      <4> QED BY <3>5, <3>6, <4>1 DEF QueryActs
    <3>8. Continue(tried)
      BY <1>5, <2>1, <2>3, <3>4, <3>6 DEF Call
    <3>9. tried \in QueryActs(Cells') \cup LoadActs
      BY <1>2, <3>7 DEF Cells
    <3> QED BY <1>2, <1>3, <1>4, <3>7, <3>8, <3>9, ActReplaced
  <2> QED BY <2>2, <2>3
<1> QED BY <1>2, <1>3, <1>6, Kept DEF StoreInv, PoolGrows

LEMMA DeclaredTyped ==
  ASSUME StoreInv, NEW name \in Names, ensure_dynamic(name) PROVE DynamicOK'
<1>1. /\ IsFiniteSet(dynamic_preds) /\ dynamic_preds \subseteq Names
      /\ Cardinality(dynamic_preds) <= MaxDynamic /\ Cardinality(dynamic_preds) \in Nat
      /\ MaxDynamic \in Nat
  BY StoreAssumption, FS_CardinalityType DEF StoreInv, DynamicOK
<1>2. CASE dynamic_preds' = dynamic_preds
  BY <1>1, <1>2 DEF DynamicOK
<1>3. CASE /\ Cardinality(dynamic_preds) < MaxDynamic
           /\ dynamic_preds' = dynamic_preds \cup {name}
  <2>1. /\ IsFiniteSet(dynamic_preds')
        /\ \/ Cardinality(dynamic_preds') = Cardinality(dynamic_preds)
           \/ Cardinality(dynamic_preds') = Cardinality(dynamic_preds) + 1
    BY <1>1, <1>3, FS_AddElement
  <2>2. dynamic_preds' \subseteq Names
    BY <1>1, <1>3
  <2>3. Cardinality(dynamic_preds') <= MaxDynamic
    BY <1>1, <1>3, <2>1
  <2> QED BY <2>1, <2>2, <2>3 DEF DynamicOK
<1> QED BY <1>2, <1>3 DEF ensure_dynamic

LEMMA AssertTyped ==
  ASSUME StoreInv, NEW op \in {"assertz", "asserta"}, AssertClause(op) PROVE StoreInv'
<1>1. Running(op) /\ op \in Named
  BY DEF AssertClause, Named
<1>2. UNCHANGED <<ops, make_files, mark, current_source_file, include_depth, disk,
        ops_dirty, parse_error>>
  BY DEF AssertClause, loading
<1>3. acts # << >> /\ Act.kind = "query"
  BY <1>1, GoalTyped
<1>4. CASE Len(database) >= MaxClauses \/ is_static_procedure(texts[1])
  <2>1. /\ Fail \/ Error
        /\ UNCHANGED <<database, pool, dynamic_preds, db_dirty>>
    BY <1>4 DEF AssertClause
  <2>2. PoolGrows
    BY <2>1, SamePool DEF StoreInv
  <2>3. ActsOK'
    BY <1>2, <1>3, <2>1, <2>2, GoalDone
  <2> QED BY <1>2, <2>1, <2>2, <2>3, Kept DEF StoreInv, PoolGrows
<1>5. CASE ~(Len(database) >= MaxClauses \/ is_static_procedure(texts[1]))
  <2>1. PICK copy : copy = InternPointers(pool, Goal.at)
    OBVIOUS
  <2>2. PICK clause : clause = [at |-> copy.at, source_file |-> 0]
    OBVIOUS
  <2>3. /\ ensure_dynamic(texts[1]) /\ pool' = copy.pool /\ db_dirty' = TRUE /\ Succeed
        /\ database' = Append(database, clause) \/ database' = <<clause>> \o database
    BY <1>5, <2>1, <2>2 DEF AssertClause
  <2>4. Goal.at \in Seq(1 .. Len(pool.cells))
    BY <1>1, GoalTyped DEF Asked, Cells
  <2>5. /\ copy.pool \in Pools /\ Grown(pool, copy.pool)
        /\ copy.at \in Seq(1 .. copy.pool.offset)
    BY <2>1, <2>4, InternPointersWorks DEF StoreInv, PoolOK
  <2>6. PoolGrows
    BY <2>3, <2>5, GrownPool DEF StoreInv
  <2>7. /\ Cells \in Nat /\ Cells' \in Nat /\ Cells <= Cells'
        /\ pool'.offset \in Nat /\ pool'.offset <= Cells'
    BY <2>6, CellsNat DEF StoreInv, PoolOK, PoolGrows, Pools, Cells
  <2>8. clause \in Clause(Cells')
    <3>1. copy.at \in Seq(1 .. Cells')
      BY <2>3, <2>5, <2>7, WiderPointers
    <3> QED BY <2>2, <3>1 DEF Clause
  <2>9. database \in Seq(Clause(Cells')) /\ Len(database) < MaxClauses
        /\ Len(database) \in Nat /\ MaxClauses \in Nat
    <3>1. Clause(Cells) \subseteq Clause(Cells')
      BY <2>7, WiderClause
    <3>2. database \in Seq(Clause(Cells)) /\ Len(database) <= MaxClauses
      BY DEF StoreInv, DatabaseOK
    <3>3. MaxClauses \in Nat
      BY StoreAssumption
    <3> QED BY <1>5, <3>1, <3>2, <3>3, WiderSeq
  <2>10. database' \in Seq(Clause(Cells')) /\ Len(database') = Len(database) + 1
    <3>1. CASE database' = Append(database, clause)
      BY <2>8, <2>9, <3>1
    <3>2. CASE database' = <<clause>> \o database
      <4>1. <<clause>> \in Seq(Clause(Cells')) /\ Len(<<clause>>) = 1
        BY <2>8
      <4> QED BY <2>9, <3>2, <4>1
    <3> QED BY <2>3, <3>1, <3>2
  <2>11. DatabaseOK'
    BY <2>9, <2>10 DEF DatabaseOK
  <2>12. ActsOK'
    BY <1>2, <1>3, <2>3, <2>6, GoalDone
  <2>13. DynamicOK'
    BY <1>1, <2>3, NameTyped, DeclaredTyped
  <2>14. FlagsOK'
    BY <1>2, <2>3 DEF FlagsOK, StoreInv
  <2> QED BY <1>2, <2>6, <2>11, <2>12, <2>13, <2>14, Kept DEF StoreInv, PoolGrows
<1> QED BY <1>4, <1>5

LEMMA RemoveTyped ==
  ASSUME NEW S, NEW s \in Seq(S), NEW i \in 1 .. Len(s), NEW r, r = RemoveAt(s, i)
  PROVE  r \in Seq(S) /\ Len(r) = Len(s) - 1
<1> DEFINE n == Len(s)
           a == SubSeq(s, 1, i - 1)
           b == SubSeq(s, i + 1, n)
<1>1. n \in Nat /\ n = Len(s) /\ i \in 1 .. n
  OBVIOUS
<1>2. a \in Seq(S) /\ Len(a) = i - 1
  BY <1>1
<1>3. b \in Seq(S) /\ Len(b) = n - i
  <2>1. CASE i = n
    BY <1>1, <2>1
  <2>2. CASE i < n
    BY <1>1, <2>2
  <2> QED BY <1>1, <2>1, <2>2
<1>4. r = a \o b
  BY DEF RemoveAt
<1> HIDE DEF a, b, n
<1>5. a \o b \in Seq(S) /\ Len(a \o b) = Len(a) + Len(b)
  BY SMTT(30), <1>2, <1>3
<1> QED BY <1>1, <1>2, <1>3, <1>4, <1>5

LEMMA RetractTyped == ASSUME StoreInv, Retract PROVE StoreInv'
<1>1. Running("retract")
  BY DEF Retract
<1>2. UNCHANGED <<pool, ops, dynamic_preds, make_files, mark, current_source_file,
        include_depth, disk, ops_dirty, parse_error>>
  BY DEF Retract, loading
<1>3. acts # << >> /\ Act.kind = "query"
  BY <1>1, GoalTyped
<1>4. PoolGrows /\ Cells' = Cells
  BY <1>2, SamePool DEF StoreInv, Cells
<1>5. PICK found : found = {i \in DOMAIN database : Matches(database[i])}
  OBVIOUS
<1>6. \/ (Fail \/ Error) /\ UNCHANGED <<database, db_dirty>>
      \/ /\ Succeed /\ found # {} /\ database' = RemoveAt(database, Min(found))
         /\ db_dirty' = TRUE
  BY <1>5 DEF Retract
<1>7. ActsOK'
  BY <1>2, <1>3, <1>4, <1>6, GoalDone
<1>8. FlagsOK'
  BY <1>2, <1>6 DEF FlagsOK, StoreInv
<1>9. DatabaseOK'
  <2>1. CASE UNCHANGED database
    BY <1>4, <2>1, Kept
  <2>2. CASE found # {} /\ database' = RemoveAt(database, Min(found))
    <3>1. /\ database \in Seq(Clause(Cells)) /\ Len(database) <= MaxClauses
          /\ Len(database) \in Nat /\ DOMAIN database = 1 .. Len(database)
          /\ MaxClauses \in Nat
      BY StoreAssumption DEF StoreInv, DatabaseOK
    <3>2. found \subseteq Nat /\ found \subseteq 1 .. Len(database)
      BY <1>5, <3>1
    <3>3. Min(found) \in 1 .. Len(database)
      <4>1. found # {}
        BY <2>2
      <4>2. Min(found) \in found
        BY <3>2, <4>1, MinOfNats
      <4> QED BY <3>2, <4>2
    <3>4. database' \in Seq(Clause(Cells)) /\ Len(database') = Len(database) - 1
      BY <2>2, <3>1, <3>3, RemoveTyped, Zenon
    <3> QED BY <1>4, <3>1, <3>4 DEF DatabaseOK
  <2> QED BY <1>6, <2>1, <2>2
<1> QED BY <1>2, <1>4, <1>7, <1>8, <1>9, Kept DEF StoreInv, PoolGrows

\* The clauses that are left.
LEMMA WithoutTyped ==
  ASSUME StoreInv, UNCHANGED pool, NEW gone, database' = Without(database, gone)
  PROVE  DatabaseOK'
<1>1. /\ database \in Seq(Clause(Cells)) /\ Len(database) <= MaxClauses
      /\ Len(database) \in Nat /\ MaxClauses \in Nat
  BY StoreAssumption DEF StoreInv, DatabaseOK
<1>2. database' \in Seq(Clause(Cells)) /\ Len(database') <= Len(database)
  BY <1>1, WithoutWorks
<1>3. Len(database') \in Nat /\ Cells' = Cells
  BY <1>2 DEF Cells
<1> QED BY <1>1, <1>2, <1>3 DEF DatabaseOK

LEMMA RetractallTyped == ASSUME StoreInv, Retractall PROVE StoreInv'
<1>1. Running("retractall")
  BY DEF Retractall
<1>2. UNCHANGED <<pool, ops, dynamic_preds, make_files, mark, current_source_file,
        include_depth, disk, ops_dirty, parse_error>>
  BY DEF Retractall, loading
<1>3. acts # << >> /\ Act.kind = "query"
  BY <1>1, GoalTyped
<1>4. PoolGrows
  BY <1>2, SamePool DEF StoreInv
<1>5. \/ Error /\ UNCHANGED <<database, db_dirty>>
      \/ /\ Succeed /\ database' = Without(database, {c \in Clauses : Matches(c)})
         /\ db_dirty' = (db_dirty \/ database' # database)
  BY DEF Retractall
<1>6. ActsOK'
  BY <1>2, <1>3, <1>4, <1>5, GoalDone
<1>7. FlagsOK'
  <2>1. db_dirty' \in BOOLEAN
    BY <1>5 DEF FlagsOK, StoreInv
  <2> QED BY <1>2, <2>1 DEF FlagsOK, StoreInv
<1>8. DatabaseOK'
  <2>1. CASE UNCHANGED database
    BY <1>4, <2>1, Kept
  <2>2. CASE database' = Without(database, {c \in Clauses : Matches(c)})
    BY <1>2, <2>2, WithoutTyped
  <2> QED BY <1>5, <2>1, <2>2
<1> QED BY <1>2, <1>4, <1>6, <1>7, <1>8, Kept DEF StoreInv, PoolGrows

LEMMA AbolishTyped == ASSUME StoreInv, Abolish PROVE StoreInv'
<1>1. Running("abolish") /\ Succeed
  BY DEF Abolish
<1>2. UNCHANGED <<pool, ops, dynamic_preds, make_files, mark, current_source_file,
        include_depth, disk, db_dirty, ops_dirty, parse_error>>
  BY DEF Abolish, loading, flags
<1>3. PoolGrows
  BY <1>2, SamePool DEF StoreInv
<1>4. ActsOK'
  BY <1>1, <1>2, <1>3, GoalTyped, GoalDone
<1>5. DatabaseOK'
  BY <1>2, WithoutTyped DEF Abolish
<1> QED BY <1>2, <1>3, <1>4, <1>5, Kept DEF StoreInv, PoolGrows

LEMMA DynamicTyped == ASSUME StoreInv, Dynamic PROVE StoreInv'
<1>1. Running("dynamic") /\ Succeed /\ "dynamic" \in Named
  BY DEF Dynamic, Named
<1>2. UNCHANGED <<database, pool, ops, make_files, mark, current_source_file,
        include_depth, disk, db_dirty, ops_dirty, parse_error>>
  BY DEF Dynamic, loading, flags
<1>3. PoolGrows
  BY <1>2, SamePool DEF StoreInv
<1>4. ActsOK'
  BY <1>1, <1>2, <1>3, GoalTyped, GoalDone
<1>5. DynamicOK'
  BY <1>1, NameTyped, DeclaredTyped DEF Dynamic
<1> QED BY <1>2, <1>3, <1>4, <1>5, Kept DEF StoreInv, PoolGrows

LEMMA OpTyped == ASSUME StoreInv, Op PROVE StoreInv'
<1>1. Running("op") /\ Succeed /\ "op" \in Named
  BY DEF Op, Named
<1>2. UNCHANGED <<database, dynamic_preds, make_files, mark, current_source_file,
        include_depth, disk, db_dirty, parse_error>> /\ ops_dirty' = TRUE
  BY DEF Op, loading
<1>3. PICK copy : copy = intern_again(pool, Goal.at[1])
  OBVIOUS
<1>4. \/ UNCHANGED <<ops, pool>>
      \/ ops' = Append(ops, copy.at) /\ pool' = copy.pool
  BY <1>3 DEF Op
<1>5. /\ copy.pool \in Pools /\ Grown(pool, copy.pool)
      /\ copy.at \in 1 .. copy.pool.offset
  <2>1. Goal.at[1] \in 1 .. Len(pool.cells)
    BY <1>1, NameTyped DEF Cells
  <2>2. Interned(pool, copy, pool.cells[Goal.at[1]])
    BY <1>3, <2>1, InternAgain DEF StoreInv, PoolOK
  <2> QED BY <2>2 DEF Interned
<1>6. PoolGrows
  BY <1>4, <1>5, SamePool, GrownPool DEF StoreInv
<1>7. ActsOK'
  BY <1>1, <1>2, <1>6, GoalTyped, GoalDone
<1>8. FlagsOK'
  BY <1>2 DEF FlagsOK, StoreInv
<1>9. OpsOK'
  <2>1. CASE UNCHANGED ops
    BY <1>6, <2>1, Kept
  <2>2. CASE ops' = Append(ops, copy.at) /\ pool' = copy.pool
    <3>1. /\ Cells \in Nat /\ Cells' \in Nat /\ Cells <= Cells'
          /\ pool'.offset \in Nat /\ pool'.offset <= Cells'
      BY <1>6, CellsNat DEF StoreInv, PoolOK, PoolGrows, Pools, Cells
    <3>2. ops \in Seq(1 .. Cells')
      BY <3>1, WiderPointers DEF StoreInv, OpsOK
    <3>3. copy.at \in 1 .. Cells'
      BY <1>5, <2>2, <3>1
    <3> QED BY <2>2, <3>2, <3>3 DEF OpsOK
  <2> QED BY <1>4, <2>1, <2>2
<1> QED BY <1>2, <1>6, <1>7, <1>8, <1>9, Kept DEF StoreInv, PoolGrows

LEMMA EditTyped == ASSUME StoreInv, NEW file \in Files, Edit(file) PROVE StoreInv'
<1>1. UNCHANGED <<database, pool, ops, dynamic_preds, make_files, mark, acts,
        current_source_file, include_depth, db_dirty, ops_dirty, parse_error>>
  BY DEF Edit, loading, flags
<1>2. PoolGrows
  BY <1>1, SamePool DEF StoreInv
<1>3. DiskOK'
  <2>1. disk \in [Files -> Nat] /\ \A f \in Files : disk[f] \in DOMAIN Versions[f]
    BY DEF StoreInv, DiskOK
  <2>2. disk' = [disk EXCEPT ![file] = @ + 1] /\ disk[file] < Len(Versions[file])
    BY DEF Edit
  <2>3. Versions[file] \in Seq([there : BOOLEAN, items : Seq(Items)])
    BY StoreAssumption
  <2>4. disk[file] + 1 \in DOMAIN Versions[file]
    BY <2>1, <2>2, <2>3
  <2> QED BY <2>1, <2>2, <2>4 DEF DiskOK
<1> QED BY <1>1, <1>2, <1>3, Kept DEF StoreInv, PoolGrows

-----------------------------------------------------------------------------
\* A load that is over comes back to its query, if there is one.
LEMMA ReturnTyped ==
  ASSUME NEW n, NEW callers, Stack(callers, n),
         callers # << >> => Last(callers).kind = "query",
         NEW ok, NEW r, r = Return(callers, ok)
  PROVE  Stack(r, n) /\ Depth(r) = Depth(callers)
<1>1. CASE callers = << >>
  BY <1>1 DEF Return
<1>2. CASE callers # << >>
  <2>1. Last(callers) \in QueryActs(n) \cup LoadActs
    BY <1>2, FrontAndLast DEF Stack
  <2>2. PICK query \in QueryActs(n) : query = Last(callers)
    BY <1>2, <2>1 DEF LoadActs
  <2>3. PICK back : back = [query EXCEPT !.run = "back"]
    OBVIOUS
  <2>4. back \in QueryActs(n) /\ back.kind = "query" /\ back \in QueryActs(n) \cup LoadActs
    BY <2>3, AfterGoal
  <2>5. r = callers \/ r = Append(Front(callers), back)
    BY <1>2, <2>2, <2>3 DEF Return
  <2>6. ASSUME r = Append(Front(callers), back)
        PROVE  Stack(r, n) /\ Depth(r) = Depth(callers)
    <3>1. GoesOn(r, callers, back)
      BY <1>2, <2>4, <2>6 DEF GoesOn
    <3> QED BY <1>2, <2>4, <2>6, <3>1, StackReplace
  <2> QED BY <2>5, <2>6
<1> QED BY <1>1, <1>2

LEMMA DiskTyped ==
  ASSUME StoreInv, NEW file \in Files
  PROVE  Text(file) \in [there : BOOLEAN, items : Seq(Items)] /\ disk[file] \in Nat
<1>1. Versions[file] \in Seq([there : BOOLEAN, items : Seq(Items)])
  BY StoreAssumption
<1>2. disk[file] \in DOMAIN Versions[file] /\ disk[file] \in Nat
  BY DEF StoreInv, DiskOK
<1>3. disk[file] \in 1 .. Len(Versions[file])
  BY <1>1, <1>2
<1> QED BY <1>1, <1>2, <1>3, InSeq DEF Text

LEMMA LoadFileTyped ==
  ASSUME StoreInv,
         UNCHANGED <<pool, ops, dynamic_preds, disk, db_dirty, ops_dirty, parse_error>>,
         NEW file \in Files, NEW callers, Stack(callers, Cells),
         Depth(callers) = include_depth, callers # << >>,
         Last(callers).kind = "query", Waits(Last(callers)),
         load_file(file, callers)
  PROVE  StoreInv'
<1>1. PoolGrows /\ Cells' = Cells
  BY SamePool DEF StoreInv, Cells
<1>2. PICK entry : entry = [path |-> file, mtime |-> disk[file]]
  OBVIOUS
<1>3. entry \in [path : Files, mtime : Nat]
  BY <1>2, DiskTyped
<1>4. CASE /\ acts' = Return(callers, CanOpen(file))
           /\ UNCHANGED <<database, loading>>
  <2>1. UNCHANGED <<make_files, mark, current_source_file, include_depth>>
    BY <1>4 DEF loading
  <2>2. Stack(acts', Cells') /\ Depth(acts') = Depth(callers)
    BY <1>1, <1>4, ReturnTyped
  <2>3. ActsOK'
    BY <2>1, <2>2 DEF ActsOK, StoreInv
  <2> QED BY <1>1, <1>4, <2>1, <2>3, Kept DEF StoreInv, PoolGrows
<1>5. CASE ~(/\ acts' = Return(callers, CanOpen(file))
             /\ UNCHANGED <<database, loading>>)
  <2>1. PICK known : known = IndexOf(file)
    OBVIOUS
  <2>2. PICK load : load = [kind |-> "load", file |-> file, items |-> Text(file).items,
                            stop |-> FALSE]
    OBVIOUS
  <2>3. /\ CanOpen(file)
        /\ acts' = Append(callers, load) /\ include_depth' = include_depth + 1
        /\ \/ UNCHANGED <<database, make_files, mark, current_source_file>>
           \/ /\ known # {}
              /\ database' = Without(database, {c \in Clauses : c.source_file = Min(known)})
              /\ make_files' = [make_files EXCEPT ![Min(known)] = entry]
              /\ current_source_file' = Min(known) /\ UNCHANGED mark
           \/ /\ \/ UNCHANGED mark
                 \/ mark' = [db |-> Len(database), string |-> pool.offset]
              /\ \/ /\ Len(make_files) < MaxFiles
                    /\ make_files' = Append(make_files, entry)
                    /\ current_source_file' = Len(make_files')
                 \/ UNCHANGED <<make_files, current_source_file>>
              /\ UNCHANGED database
    BY <1>2, <1>5, <2>1, <2>2 DEF load_file
  <2>4. load \in LoadActs /\ load.kind = "load" /\ load \in QueryActs(Cells) \cup LoadActs
    BY <2>2, DiskTyped DEF LoadActs
  <2>5. ActsOK'
    <3>1. Last(callers).kind # load.kind
      BY <2>4
    <3>2. Stack(acts', Cells) /\ Depth(acts') = Depth(callers) + AsLoad(load)
      <4>1. Enters(acts', callers, load)
        BY <2>3, <2>4, <3>1 DEF Enters
      <4> QED BY <2>3, <2>4, <3>1, <4>1, StackPush
    <3>3. AsLoad(load) = 1
      BY <2>4 DEF AsLoad
    <3>4. include_depth < MaxOpen /\ MaxOpen \in Nat /\ include_depth \in Nat
      BY <2>3, StoreAssumption, LoadsFinite DEF CanOpen
    <3> QED BY <1>1, <2>3, <3>2, <3>3, <3>4 DEF ActsOK
  <2>6. known \subseteq 1 .. Len(make_files) /\ known \subseteq Nat
        /\ make_files \in Seq([path : Files, mtime : Nat])
        /\ Len(make_files) <= MaxFiles /\ Len(make_files) \in Nat /\ MaxFiles \in Nat
    <3>1. /\ make_files \in Seq([path : Files, mtime : Nat])
          /\ Len(make_files) <= MaxFiles /\ MaxFiles \in Nat
      BY StoreAssumption DEF StoreInv, FilesOK
    <3>2. DOMAIN make_files = 1 .. Len(make_files) /\ Len(make_files) \in Nat
      BY <3>1
    <3> QED BY <2>1, <3>1, <3>2 DEF IndexOf
  <2>7. known # {} => Min(known) \in 1 .. Len(make_files) /\ Min(known) \in Nat
    BY <2>6, MinOfNats
  <2>8. DatabaseOK'
    <3>1. CASE UNCHANGED database
      BY <1>1, <3>1, Kept
    <3>2. CASE database' = Without(database, {c \in Clauses : c.source_file = Min(known)})
      BY <3>2, WithoutTyped
    <3> QED BY <2>3, <3>1, <3>2
  <2>9. FilesOK'
    <3>1. CASE UNCHANGED <<make_files, current_source_file>>
      BY <1>1, <3>1, Kept
    <3>2. CASE /\ known # {} /\ make_files' = [make_files EXCEPT ![Min(known)] = entry]
               /\ current_source_file' = Min(known)
      <4>1. /\ make_files' \in Seq([path : Files, mtime : Nat])
            /\ Len(make_files') = Len(make_files)
        BY <1>3, <2>6, <2>7, <3>2
      <4> QED BY <2>6, <2>7, <3>2, <4>1 DEF FilesOK
    <3>3. CASE /\ Len(make_files) < MaxFiles /\ make_files' = Append(make_files, entry)
               /\ current_source_file' = Len(make_files')
      <4>1. /\ make_files' \in Seq([path : Files, mtime : Nat])
            /\ Len(make_files') = Len(make_files) + 1
        BY <1>3, <2>6, <3>3
      <4> QED BY <2>6, <3>3, <4>1 DEF FilesOK
    <3> QED BY <2>3, <3>1, <3>2, <3>3
  <2>10. MarkOK'
    <3>1. CASE UNCHANGED mark
      BY <1>1, <3>1, Kept
    <3>2. CASE mark' = [db |-> Len(database), string |-> pool.offset]
      <4>1. Len(database) \in Nat /\ pool.offset \in 0 .. Cells
        BY CellsNat DEF StoreInv, DatabaseOK
      <4> QED BY <1>1, <3>2, <4>1 DEF MarkOK
    <3> QED BY <2>3, <3>1, <3>2
  <2> QED BY <1>1, <2>5, <2>8, <2>9, <2>10, Kept DEF StoreInv, PoolGrows
<1> QED BY <1>4, <1>5

LEMMA LoadNextTyped == ASSUME StoreInv, LoadNext PROVE StoreInv'
<1>1. PICK op \in {"consult", "include", "reload"} : Running(op)
  BY DEF LoadNext
<1>2. UNCHANGED <<pool, ops, dynamic_preds, disk, db_dirty, ops_dirty, parse_error>>
  BY DEF LoadNext, flags
<1>3. /\ acts # << >> /\ Act.kind = "query" /\ Act \in QueryActs(Cells)
      /\ Act.next \in DOMAIN Act.goals /\ Goal \in Asked(Cells)
  BY <1>1, GoalTyped
<1>4. PoolGrows
  BY <1>2, SamePool DEF StoreInv
<1>5. CASE (Fail \/ Succeed) /\ UNCHANGED <<database, loading>>
  <2>1. UNCHANGED <<make_files, mark, current_source_file, include_depth>>
    BY <1>5 DEF loading
  <2>2. ActsOK'
    BY <1>3, <1>4, <1>5, <2>1, GoalDone
  <2> QED BY <1>2, <1>4, <1>5, <2>1, <2>2, Kept DEF StoreInv, PoolGrows
<1>6. CASE ~((Fail \/ Succeed) /\ UNCHANGED <<database, loading>>)
  <2>1. PICK query \in QueryActs(Cells) : query = Act
    BY <1>3
  <2>2. PICK waiting : waiting = [query EXCEPT !.from = @ + 1]
    OBVIOUS
  <2>3. PICK file : file = Goal.files[query.from]
    OBVIOUS
  <2>4. /\ ~(query.from > Len(Goal.files))
        /\ load_file(file, Append(Callers, waiting))
    BY <1>6, <2>1, <2>2, <2>3 DEF LoadNext
  <2>5. Goal.files \in Seq(Files) /\ query.from \in Nat \ {0}
    BY <1>3 DEF Asked, QueryActs
  <2>6. file \in Files
    <3>1. query.from \in 1 .. Len(Goal.files)
      BY <2>4, <2>5
    <3> QED BY <2>3, <2>5, <3>1, InSeq
  <2>12. /\ waiting \in QueryActs(Cells) /\ waiting.kind = "query"
         /\ waiting.next = query.next /\ waiting.goals = query.goals
    <3>1. PICK from \in Nat \ {0} : from = query.from + 1
      BY <2>5
    <3>2. waiting = [query EXCEPT !.from = from]
      BY <2>2, <3>1
    <3> QED BY <2>1, <3>1, <3>2 DEF QueryActs
  <2>13. Waits(waiting)
    BY <1>3, <2>1, <2>12 DEF Waits
  <2>14. PICK callers : callers = Append(Front(acts), waiting)
    OBVIOUS
  <2>15. waiting \in QueryActs(Cells) \cup LoadActs /\ waiting.kind = Last(acts).kind
    BY <1>3, <2>12 DEF Act
  <2>16. /\ Stack(callers, Cells) /\ Depth(callers) = Depth(acts)
         /\ callers # << >> /\ Last(callers) = waiting
    <3>1. GoesOn(callers, acts, waiting)
      BY <1>3, <2>14, <2>15 DEF GoesOn, StoreInv, ActsOK
    <3> QED BY <1>3, <2>14, <2>15, <3>1, StackReplace DEF StoreInv, ActsOK
  <2>17. load_file(file, callers)
    BY <2>4, <2>14 DEF Callers
  <2>18. Depth(callers) = include_depth
    BY <2>16 DEF StoreInv, ActsOK
  <2> QED BY <1>2, <2>6, <2>12, <2>13, <2>16, <2>17, <2>18, LoadFileTyped
<1> QED BY <1>5, <1>6

\* The load goes on with the next line, or stops.
LEMMA LoadGoesOn ==
  ASSUME NEW load \in LoadActs, load.items # << >>, NEW stop \in BOOLEAN,
         NEW r, r = [load EXCEPT !.items = Tail(@), !.stop = stop]
  PROVE  r \in LoadActs /\ r.kind = "load"
<1>1. load.items \in Seq(Items)
  BY DEF LoadActs
<1>2. Tail(load.items) \in Seq(Items)
  BY <1>1
<1> QED BY <1>2 DEF LoadActs

LEMMA LoadClauseTyped == ASSUME StoreInv, LoadClause PROVE StoreInv'
<1>1. acts # << >> /\ Act.kind = "load" /\ Act.items # << >>
  BY DEF LoadClause, InLoad
<1>2. UNCHANGED <<ops, dynamic_preds, make_files, mark, current_source_file,
        include_depth, disk, db_dirty, ops_dirty>> /\ parse_error' \in BOOLEAN
  BY DEF LoadClause, loading
<1>3. FlagsOK'
  BY <1>2 DEF FlagsOK, StoreInv
<1>4. PICK load \in LoadActs : load = Act
  BY <1>1, ActTyped
<1>5. \E stop \in BOOLEAN : Continue([load EXCEPT !.items = Tail(@), !.stop = stop])
  BY <1>4 DEF LoadClause, NextItem
<1>6. PICK stop \in BOOLEAN : Continue([load EXCEPT !.items = Tail(@), !.stop = stop])
  BY <1>5
<1>7. PICK next : next = [load EXCEPT !.items = Tail(@), !.stop = stop]
  OBVIOUS
<1>8. next \in LoadActs /\ next.kind = "load" /\ Continue(next)
  BY <1>1, <1>4, <1>6, <1>7, LoadGoesOn
<1>9. ASSUME PoolGrows PROVE ActsOK'
  <2>1. next \in QueryActs(Cells') \cup LoadActs
    BY <1>8
  <2> QED BY <1>1, <1>2, <1>8, <1>9, <2>1, ActReplaced
<1>10. CASE UNCHANGED <<pool, database>>
  <2>1. PoolGrows
    BY <1>10, SamePool DEF StoreInv
  <2> QED BY <1>2, <1>3, <1>9, <1>10, <2>1, Kept DEF StoreInv, PoolGrows
<1>11. CASE ~UNCHANGED <<pool, database>>
  <2>1. PICK names : names = InternNames(pool, Item.names)
    OBVIOUS
  <2>2. PICK clause : clause = [at |-> names.at, source_file |-> current_source_file]
    OBVIOUS
  <2>3. /\ Item.is = "clause" /\ Len(database) < MaxClauses /\ pool' = names.pool
        /\ database' = Append(database, clause)
    BY <1>11, <2>1, <2>2 DEF LoadClause
  <2>4. Item.names \in Seq(Names)
    <3>1. load.items \in Seq(Items)
      BY DEF LoadActs
    <3>2. Head(load.items) \in Items
      BY <1>1, <1>4, <3>1
    <3> QED BY <1>4, <2>3, <3>2 DEF Item, Items
  <2>5. /\ names.pool \in Pools /\ Grown(pool, names.pool)
        /\ names.at \in Seq(1 .. names.pool.offset)
    BY <2>1, <2>4, InternNamesWorks DEF StoreInv, PoolOK, Says
  <2>6. PoolGrows
    BY <2>3, <2>5, GrownPool DEF StoreInv
  <2>7. /\ Cells \in Nat /\ Cells' \in Nat /\ Cells <= Cells'
        /\ pool'.offset \in Nat /\ pool'.offset <= Cells'
    BY <2>6, CellsNat DEF StoreInv, PoolOK, PoolGrows, Pools, Cells
  <2>8. clause \in Clause(Cells')
    <3>1. names.at \in Seq(1 .. Cells')
      BY <2>3, <2>5, <2>7, WiderPointers
    <3> QED BY <2>2, <3>1 DEF Clause, StoreInv, FilesOK
  <2>9. database \in Seq(Clause(Cells')) /\ Len(database) \in Nat /\ MaxClauses \in Nat
    <3>1. Clause(Cells) \subseteq Clause(Cells')
      BY <2>7, WiderClause
    <3>2. database \in Seq(Clause(Cells))
      BY DEF StoreInv, DatabaseOK
    <3> QED BY <3>1, <3>2, WiderSeq, StoreAssumption
  <2>10. database' \in Seq(Clause(Cells')) /\ Len(database') = Len(database) + 1
    BY <2>3, <2>8, <2>9
  <2>11. DatabaseOK'
    BY <2>3, <2>9, <2>10 DEF DatabaseOK
  <2> QED BY <1>2, <1>3, <1>9, <2>6, <2>11, Kept DEF StoreInv, PoolGrows
<1> QED BY <1>10, <1>11

LEMMA LoadDirectiveTyped == ASSUME StoreInv, LoadDirective PROVE StoreInv'
<1>1. acts # << >> /\ Act.kind = "load" /\ Act.items # << >> /\ ~Act.stop
      /\ Item.is = "directive"
  BY DEF LoadDirective, InLoad
<1>2. PICK load \in LoadActs : load = Act
  BY <1>1, ActTyped
<1>3. PICK next : next = [load EXCEPT !.items = Tail(@)]
  OBVIOUS
<1>4. PICK callers : callers = Append(Front(acts), next)
  OBVIOUS
<1>5. EnterQuery(Item.goals, callers)
  BY <1>2, <1>3, <1>4 DEF LoadDirective, Callers
<1>6. load.items \in Seq(Items) /\ load.items # << >>
  BY <1>1, <1>2 DEF LoadActs
<1>7. Item.goals \in Seq(Goals)
  <2>1. Head(load.items) \in Items
    BY <1>6
  <2> QED BY <1>1, <1>2, <2>1 DEF Item, Items
<1>8. next \in LoadActs /\ next.kind = "load"
  <2>1. Tail(load.items) \in Seq(Items)
    BY <1>6
  <2> QED BY <1>3, <2>1 DEF LoadActs
<1>9. next \in QueryActs(Cells) \cup LoadActs /\ next.kind = Last(acts).kind
  BY <1>1, <1>8 DEF Act
<1>10. Stack(callers, Cells) /\ Depth(callers) = Depth(acts) /\ Last(callers) = next
  <2>1. GoesOn(callers, acts, next)
    BY <1>1, <1>4, <1>9 DEF GoesOn, StoreInv, ActsOK
  <2> QED BY <1>1, <1>4, <1>9, <2>1, StackReplace DEF StoreInv, ActsOK
<1>11. Depth(callers) = include_depth
  BY <1>10 DEF StoreInv, ActsOK
<1> QED BY <1>5, <1>7, <1>8, <1>10, <1>11, EnterQueryTyped

LEMMA EndLoadTyped == ASSUME StoreInv, EndLoad PROVE StoreInv'
<1>1. acts # << >> /\ Act.kind = "load"
  BY DEF EndLoad
<1>2. UNCHANGED <<database, pool, ops, dynamic_preds, make_files, mark, disk,
        db_dirty, ops_dirty, parse_error>>
      /\ include_depth' = include_depth - 1 /\ current_source_file' = 0
  BY DEF EndLoad, flags
<1>3. PoolGrows /\ Cells' = Cells
  BY <1>2, SamePool DEF StoreInv, Cells
<1>4. PICK below : below = Front(acts)
  OBVIOUS
<1>5. /\ Stack(below, Cells) /\ Depth(acts) = Depth(below) + 1
      /\ below # << >> => Last(below).kind # "load" /\ Last(below) \in QueryActs(Cells) \cup LoadActs
  <2>1. PICK top : top = Last(acts)
    OBVIOUS
  <2>2. /\ Stack(below, Cells) /\ Depth(acts) = Depth(below) + AsLoad(top)
        /\ below # << >> => Last(below).kind # top.kind
    BY <1>1, <1>4, <2>1, StackPop DEF StoreInv, ActsOK
  <2>3. below # << >> => Last(below) \in QueryActs(Cells) \cup LoadActs
    BY <2>2, FrontAndLast DEF Stack
  <2>4. top.kind = "load" /\ AsLoad(top) = 1
    BY <1>1, <2>1 DEF Act, AsLoad
  <2> QED BY <2>2, <2>3, <2>4
<1>6. below # << >> => Last(below).kind = "query"
  BY <1>5 DEF QueryActs, LoadActs
<1>7. acts' = Return(below, ~Act.stop)
  BY <1>4 DEF EndLoad, Callers
<1>8. Stack(acts', Cells) /\ Depth(acts') = Depth(below)
  BY <1>5, <1>6, <1>7, ReturnTyped
<1>9. ActsOK'
  <2>1. Depth(below) \in Nat /\ MaxOpen \in Nat
    BY <1>5, LoadsFinite, StoreAssumption
  <2>2. include_depth = Depth(below) + 1 /\ include_depth <= MaxOpen
    BY <1>5 DEF StoreInv, ActsOK
  <2>3. include_depth' = Depth(below) /\ include_depth' <= MaxOpen
    BY <1>2, <2>1, <2>2
  <2> QED BY <1>3, <1>8, <2>3 DEF ActsOK
<1>10. FilesOK'
  BY <1>2 DEF FilesOK, StoreInv
<1> QED BY <1>2, <1>3, <1>9, <1>10, Kept DEF StoreInv, PoolGrows

LEMMA MakeTyped == ASSUME StoreInv, Make PROVE StoreInv'
<1>1. Running("make")
  BY DEF Make
<1>2. UNCHANGED <<ops, dynamic_preds, mark, current_source_file, include_depth, disk,
        db_dirty, ops_dirty, parse_error>>
  BY DEF Make, flags
<1>3. acts # << >> /\ Act.kind = "query" /\ Act \in QueryActs(Cells)
      /\ Act.next \in DOMAIN Act.goals
  BY <1>1, GoalTyped
<1>4. CASE Succeed /\ UNCHANGED <<database, pool, make_files>>
  <2>1. PoolGrows
    BY <1>4, SamePool DEF StoreInv
  <2>2. ActsOK'
    BY <1>2, <1>3, <1>4, <2>1, GoalDone
  <2> QED BY <1>2, <1>4, <2>1, <2>2, Kept DEF StoreInv, PoolGrows
<1>5. CASE ~(Succeed /\ UNCHANGED <<database, pool, make_files>>)
  <2>1. PICK query \in QueryActs(Cells) : query = Act
    BY <1>3
  <2>2. PICK files : files = [i \in DOMAIN make_files |-> make_files[i].path]
    OBVIOUS
  <2>3. PICK goal : goal = [op |-> "reload", at |-> << >>, names |-> << >>, files |-> files]
    OBVIOUS
  <2>4. PICK goals : goals = [query.goals EXCEPT ![query.next] = goal]
    OBVIOUS
  <2>5. PICK reload : reload = [query EXCEPT !.goals = goals, !.from = 1]
    OBVIOUS
  <2>6. /\ mark.db <= Len(database) /\ database' = SubSeq(database, 1, mark.db)
        /\ pool' = [pool EXCEPT !.offset = mark.string] /\ make_files' = << >>
        /\ Continue(reload)
    BY <1>5, <2>1, <2>2, <2>3, <2>4, <2>5 DEF Make
  <2>7. files \in Seq(Files)
    <3>1. make_files \in Seq([path : Files, mtime : Nat])
      BY DEF StoreInv, FilesOK
    <3>2. /\ DOMAIN make_files = 1 .. Len(make_files) /\ Len(make_files) \in Nat
      BY <3>1
    <3>3. ASSUME NEW i \in 1 .. Len(make_files) PROVE make_files[i].path \in Files
      <4>1. make_files[i] \in [path : Files, mtime : Nat]
        BY <3>1, InSeq
      <4> QED BY <4>1
    <3> QED BY <2>2, <3>2, <3>3
  <2>8. goal \in Asked(Cells)
    BY <2>3, <2>7 DEF Asked, Ops, Named
  <2>9. goals \in Seq(Asked(Cells))
    <3>1. query.goals \in Seq(Asked(Cells)) /\ query.next \in 1 .. Len(query.goals)
      BY <1>3, <2>1 DEF QueryActs
    <3> QED BY <2>4, <2>8, <3>1
  <2>10. reload \in QueryActs(Cells) /\ reload.kind = "query"
    <3>1. 1 \in Nat \ {0}
      OBVIOUS
    <3> QED BY <2>5, <2>9, <3>1 DEF QueryActs
  <2>11. /\ mark.string \in 0 .. Cells /\ mark.db \in Nat
         /\ Cells \in Nat /\ pool \in Pools
    BY CellsNat DEF StoreInv, MarkOK, PoolOK
  <2>12. pool' \in Pools /\ Cells' = Cells /\ pool'.cells = pool.cells
    <3>1. PICK offset \in 0 .. Cells : offset = mark.string
      BY <2>11
    <3>2. ASSUME NEW p, p = [pool EXCEPT !.offset = offset]
          PROVE  p \in Pools /\ p.cells = pool.cells
      BY <2>11, <3>2 DEF Pools, Cells
    <3> QED BY <2>6, <3>1, <3>2 DEF Cells
  <2>13. PoolGrows
    BY <2>11, <2>12 DEF PoolGrows, PoolOK, Cells
  <2>14. ActsOK'
    <3>1. reload \in QueryActs(Cells') \cup LoadActs
      BY <2>10, <2>12
    <3> QED BY <1>2, <1>3, <2>6, <2>10, <2>13, <3>1, ActReplaced
  <2>15. DatabaseOK'
    <3>1. database \in Seq(Clause(Cells)) /\ Len(database) <= MaxClauses
          /\ Len(database) \in Nat /\ MaxClauses \in Nat
      BY StoreAssumption DEF StoreInv, DatabaseOK
    <3>2. database' \in Seq(Clause(Cells)) /\ Len(database') = mark.db
      BY <2>6, <2>11, <3>1
    <3> QED BY <2>6, <2>11, <2>12, <3>1, <3>2 DEF DatabaseOK
  <2>16. FilesOK'
    <3>1. MaxFiles \in Nat
      BY StoreAssumption
    <3> QED BY <1>2, <2>6, <3>1 DEF FilesOK, StoreInv
  <2> QED BY <1>2, <2>13, <2>14, <2>15, <2>16, Kept DEF StoreInv, PoolGrows
<1> QED BY <1>4, <1>5

LEMMA UnconsultTyped == ASSUME StoreInv, Unconsult PROVE StoreInv'
<1>1. Running("unconsult")
  BY DEF Unconsult
<1>2. UNCHANGED <<pool, ops, dynamic_preds, mark, current_source_file, include_depth,
        disk, ops_dirty, parse_error>>
  BY DEF Unconsult
<1>3. acts # << >> /\ Act.kind = "query"
  BY <1>1, GoalTyped
<1>4. PoolGrows /\ Cells' = Cells
  BY <1>2, SamePool DEF StoreInv, Cells
<1>5. CASE Fail /\ UNCHANGED <<database, make_files, db_dirty>>
  <2>1. ActsOK'
    BY <1>2, <1>3, <1>4, <1>5, GoalDone
  <2> QED BY <1>2, <1>4, <1>5, <2>1, Kept DEF StoreInv, PoolGrows
<1>6. CASE ~(Fail /\ UNCHANGED <<database, make_files, db_dirty>>)
  <2>1. PICK known : known = IndexOf(Goal.files[1])
    OBVIOUS
  <2>2. PICK i : i = Min(known)
    OBVIOUS
  <2>3. PICK kept : kept = Without(database, {c \in Clauses : c.source_file = i})
    OBVIOUS
  <2>4. /\ known # {} /\ Succeed /\ make_files' = RemoveAt(make_files, i)
        /\ database' = [k \in DOMAIN kept |->
             IF kept[k].source_file > i
             THEN [kept[k] EXCEPT !.source_file = @ - 1] ELSE kept[k]]
        /\ db_dirty' = TRUE
    BY <1>6, <2>1, <2>2, <2>3 DEF Unconsult
  <2>5. /\ make_files \in Seq([path : Files, mtime : Nat])
        /\ Len(make_files) <= MaxFiles /\ Len(make_files) \in Nat /\ MaxFiles \in Nat
        /\ DOMAIN make_files = 1 .. Len(make_files)
    BY StoreAssumption DEF StoreInv, FilesOK
  <2>6. i \in 1 .. Len(make_files) /\ i \in Nat
    <3>1. known \subseteq Nat /\ known \subseteq 1 .. Len(make_files)
      BY <2>1, <2>5 DEF IndexOf
    <3> QED BY <2>2, <2>4, <3>1, MinOfNats
  <2>7. FilesOK'
    <3>1. /\ make_files' \in Seq([path : Files, mtime : Nat])
          /\ Len(make_files') = Len(make_files) - 1
      BY <2>4, <2>5, <2>6, RemoveTyped, Zenon
    <3> QED BY <1>2, <2>5, <3>1 DEF FilesOK, StoreInv
  <2>8. DatabaseOK'
    <3>1. /\ database \in Seq(Clause(Cells)) /\ Len(database) <= MaxClauses
          /\ Len(database) \in Nat /\ MaxClauses \in Nat
      BY StoreAssumption DEF StoreInv, DatabaseOK
    <3>2. kept \in Seq(Clause(Cells)) /\ Len(kept) <= Len(database)
      BY <2>3, <3>1, WithoutWorks
    <3>3. Len(kept) \in Nat /\ DOMAIN kept = 1 .. Len(kept)
      BY <3>2
    <3>4. ASSUME NEW k \in 1 .. Len(kept) PROVE database'[k] \in Clause(Cells)
      <4>1. PICK c \in Clause(Cells) : c = kept[k]
        BY <3>2, InSeq
      <4>2. database'[k] = IF c.source_file > i THEN [c EXCEPT !.source_file = @ - 1] ELSE c
        BY <2>4, <3>3, <4>1
      <4>3. c.source_file > i => c.source_file - 1 \in Nat
        BY <2>6 DEF Clause
      <4> QED BY <4>2, <4>3 DEF Clause
    <3>5. DOMAIN database' = 1 .. Len(kept)
      BY <2>4, <3>3
    <3>6. database' = [k \in 1 .. Len(kept) |-> database'[k]]
      BY <2>4, <3>5
    <3>7. database' \in Seq(Clause(Cells)) /\ Len(database') = Len(kept)
      BY <3>3, <3>4, <3>6
    <3> QED BY <1>4, <3>1, <3>2, <3>3, <3>7 DEF DatabaseOK
  <2>9. ActsOK'
    BY <1>2, <1>3, <1>4, <2>4, GoalDone
  <2>10. FlagsOK'
    BY <1>2, <2>4 DEF FlagsOK, StoreInv
  <2> QED BY <1>2, <1>4, <2>7, <2>8, <2>9, <2>10, Kept DEF StoreInv, PoolGrows
<1> QED BY <1>5, <1>6

LEMMA NextTyped == ASSUME StoreInv, [Next]_vars PROVE StoreInv'
<1>1. CASE UNCHANGED vars
  <2>1. UNCHANGED <<database, pool, ops, dynamic_preds, make_files, mark, acts, disk,
          current_source_file, include_depth, db_dirty, ops_dirty, parse_error>>
    BY <1>1 DEF vars, loading, flags
  <2>2. PoolGrows
    BY <2>1, SamePool DEF StoreInv
  <2> QED BY <2>1, <2>2, Kept DEF StoreInv, PoolGrows
<1>2. CASE Step
  <2>1. CASE Solution \/ Backtrack \/ EndQuery \/ Call
    BY <2>1, SolutionTyped, BacktrackTyped, EndQueryTyped, CallTyped
  <2>2. CASE Assertz \/ Asserta \/ Retract \/ Retractall \/ Abolish
    BY <2>2, AssertTyped, RetractTyped, RetractallTyped, AbolishTyped
       DEF Assertz, Asserta
  <2>3. CASE Dynamic \/ Op \/ LoadNext \/ LoadClause
    BY <2>3, DynamicTyped, OpTyped, LoadNextTyped, LoadClauseTyped
  <2>4. CASE LoadDirective \/ EndLoad \/ Make \/ Unconsult
    BY <2>4, LoadDirectiveTyped, EndLoadTyped, MakeTyped, UnconsultTyped
  <2> QED BY <1>2, <2>1, <2>2, <2>3, <2>4 DEF Step
<1>3. CASE \E goals \in Queries : Query(goals)
  BY <1>3, QueryTyped
<1>4. CASE \E f \in Files : Edit(f)
  BY <1>4, EditTyped
<1> QED BY <1>1, <1>2, <1>3, <1>4 DEF Next

LEMMA Invariance == Spec => []StoreInv
<1> QED BY InitTyped, NextTyped, PTL DEF Spec

\* Whatever files there are and whatever is asked: every pointer that a clause,
\* an operator or a goal keeps is one to a cell of the pool, so are the marks
\* that queries and make/0 go back to; no table is ever over its limit
\* (MAX_CLAUSES, MAX_MAKE_FILES, the dynamic table, the open files); and the
\* depth counts exactly the loads that are running.
THEOREM PointersAndLimits == Spec => []TypeOK
<1> QED BY Invariance, InvImpliesTypeOK, PTL

-----------------------------------------------------------------------------
(* The names of a query.  Goals are kept as pointers, and a directive that *)
(* ends gives back the names above its mark: that mark must lie above      *)
(* every pointer of the queries around it.  make/0 goes back to where the  *)
(* first file was loaded, below the pointers of whatever else is running;  *)
(* so it is asked for on its own, at the toplevel.                         *)

Harmless(items) ==
  \A i \in DOMAIN items : items[i].is = "directive" => NoMake(items[i].goals)

MakeAlone ==
  /\ \A goals \in Queries : NoMake(goals) \/ Len(goals) = 1
  /\ \A f \in Files : \A v \in DOMAIN Versions[f] : Harmless(Versions[f][v].items)

Reads(p, goals) == \A i \in DOMAIN goals : Says(p, goals[i].at, goals[i].names)
Below(goals, offset) == \A i \in DOMAIN goals : goals[i].at \in Seq(1 .. offset)

\* One call, in its place.
Intact(p, act, k) ==
  /\ act.kind = "query" =>
       /\ Reads(p, act.goals)
       /\ NoMake(act.goals) \/ (k = 1 /\ Len(act.goals) = 1)
  /\ act.kind = "load" => Harmless(act.items)

Marked(calls) ==
  \A k \in DOMAIN calls : \A j \in 1 .. k - 1 :
    calls[j].kind = "query" /\ calls[k].kind = "query" =>
      Below(calls[j].goals, calls[k].string_mark)

NamesKept(calls, p) ==
  (\A k \in DOMAIN calls : Intact(p, calls[k], k)) /\ Marked(calls)

LEMMA NamesPush ==
  ASSUME NEW n, NEW p, NEW calls, Stack(calls, n), NamesKept(calls, p),
         NEW act, Intact(p, act, Len(calls) + 1),
         act.kind = "query" =>
           \A j \in DOMAIN calls :
             calls[j].kind = "query" => Below(calls[j].goals, act.string_mark),
         NEW r, r = Append(calls, act)
  PROVE  NamesKept(r, p)
<1> DEFINE m == Len(calls)
<1>1. m \in Nat /\ DOMAIN calls = 1 .. m /\ m = Len(calls)
  BY DEF Stack
<1>2. /\ DOMAIN r = 1 .. m + 1 /\ r[m + 1] = act
      /\ \A k \in 1 .. m : r[k] = calls[k]
  BY <1>1 DEF Stack
<1> HIDE DEF m
<1>3. ASSUME NEW k \in 1 .. m + 1 PROVE Intact(p, r[k], k)
  <2>1. CASE k = m + 1
    BY <1>1, <1>2, <2>1
  <2>2. CASE k \in 1 .. m
    BY <1>1, <1>2, <2>2 DEF NamesKept
  <2> QED BY <1>1, <2>1, <2>2
<1>4. ASSUME NEW k \in 1 .. m + 1, NEW j \in 1 .. k - 1,
             r[j].kind = "query", r[k].kind = "query"
      PROVE  Below(r[j].goals, r[k].string_mark)
  <2>1. j \in 1 .. m /\ r[j] = calls[j]
    BY <1>1, <1>2
  <2>2. CASE k = m + 1
    BY <1>1, <1>2, <1>4, <2>1, <2>2
  <2>3. CASE k \in 1 .. m
    BY <1>1, <1>2, <1>4, <2>1, <2>3 DEF NamesKept, Marked
  <2> QED BY <1>1, <2>2, <2>3
<1> QED BY <1>2, <1>3, <1>4 DEF NamesKept, Marked

LEMMA NamesPop ==
  ASSUME NEW n, NEW p, NEW calls, Stack(calls, n), calls # << >>,
         NamesKept(calls, p), NEW r, r = Front(calls)
  PROVE  /\ NamesKept(r, p) /\ Intact(p, Last(calls), Len(calls))
         /\ Len(calls) = Len(r) + 1
         /\ Last(calls).kind = "query" =>
              \A j \in DOMAIN r :
                r[j].kind = "query" => Below(r[j].goals, Last(calls).string_mark)
<1> DEFINE m == Len(calls)
<1>1. m \in Nat \ {0} /\ DOMAIN calls = 1 .. m /\ m = Len(calls) /\ Last(calls) = calls[m]
  BY DEF Stack, Last
<1>2. /\ DOMAIN r = 1 .. m - 1 /\ Len(r) = m - 1
      /\ \A k \in 1 .. m - 1 : r[k] = calls[k]
  BY <1>1 DEF Stack, Front
<1> HIDE DEF m
<1>3. ASSUME NEW k \in 1 .. m - 1 PROVE Intact(p, r[k], k)
  BY <1>1, <1>2, <1>3 DEF NamesKept
<1>4. ASSUME NEW k \in 1 .. m - 1, NEW j \in 1 .. k - 1,
             r[j].kind = "query", r[k].kind = "query"
      PROVE  Below(r[j].goals, r[k].string_mark)
  <2>1. k \in 1 .. m /\ j \in 1 .. m - 1
    BY <1>1
  <2> QED BY <1>1, <1>2, <1>4, <2>1 DEF NamesKept, Marked
<1>5. NamesKept(r, p)
  BY <1>2, <1>3, <1>4 DEF NamesKept, Marked
<1>6. Intact(p, calls[m], m) /\ m \in 1 .. m
  BY <1>1 DEF NamesKept
<1>7. ASSUME calls[m].kind = "query", NEW j \in 1 .. m - 1, r[j].kind = "query"
      PROVE  Below(r[j].goals, calls[m].string_mark)
  BY <1>1, <1>2, <1>6, <1>7 DEF NamesKept, Marked
<1> QED BY <1>1, <1>2, <1>5, <1>6, <1>7

LEMMA NamesReplace ==
  ASSUME NEW n, NEW p, NEW calls, Stack(calls, n), calls # << >>,
         NamesKept(calls, p), NEW act, act.kind = Last(calls).kind,
         Intact(p, act, Len(calls)),
         act.kind = "query" => act.string_mark = Last(calls).string_mark,
         NEW r, r = Append(Front(calls), act)
  PROVE  NamesKept(r, p)
<1>1. PICK below : below = Front(calls)
  OBVIOUS
<1>2. /\ NamesKept(below, p) /\ Len(calls) = Len(below) + 1
      /\ Last(calls).kind = "query" =>
           \A j \in DOMAIN below :
             below[j].kind = "query" => Below(below[j].goals, Last(calls).string_mark)
  BY <1>1, NamesPop
<1>3. Stack(below, n)
  BY <1>1, StackPop
<1>4. r = Append(below, act)
  BY <1>1
<1>5. act.kind = "query" =>
        \A j \in DOMAIN below :
          below[j].kind = "query" => Below(below[j].goals, act.string_mark)
  BY <1>2
<1> QED BY <1>2, <1>3, <1>4, <1>5, NamesPush

\* Nothing is lost when the pool grows, and nothing that the marks protect
\* when it goes back to one of them.
LEMMA NamesGrow ==
  ASSUME NEW n, NEW p \in Pools, NEW q \in Pools, Grown(p, q),
         NEW calls, Stack(calls, n), NamesKept(calls, p)
  PROVE  NamesKept(calls, q)
<1> SUFFICES ASSUME NEW k \in DOMAIN calls PROVE Intact(q, calls[k], k)
  BY DEF NamesKept
<1>1. Intact(p, calls[k], k) /\ calls[k] \in QueryActs(n) \cup LoadActs
  BY DEF NamesKept, Stack
<1>2. ASSUME calls[k].kind = "query" PROVE Reads(q, calls[k].goals)
  <2>1. PICK query \in QueryActs(n) : query = calls[k]
    BY <1>1, <1>2 DEF LoadActs
  <2>2. ASSUME NEW i \in DOMAIN query.goals
        PROVE  Says(q, query.goals[i].at, query.goals[i].names)
    <3>1. query.goals[i] \in Asked(n)
      BY DEF QueryActs
    <3>2. query.goals[i].names \in Seq(Names)
      BY <3>1 DEF Asked
    <3>3. Says(p, query.goals[i].at, query.goals[i].names)
      BY <1>1, <1>2, <2>1 DEF Intact, Reads
    <3> QED BY <3>2, <3>3, StillSays
  <2> QED BY <2>1, <2>2 DEF Reads
<1> QED BY <1>1, <1>2 DEF Intact

LEMMA NamesRollBack ==
  ASSUME NEW n, NEW p \in Pools, NEW offset \in Nat, NEW q, q.cells = p.cells,
         q.offset = offset, NEW calls, Stack(calls, n), NamesKept(calls, p),
         \A j \in DOMAIN calls :
           calls[j].kind = "query" => Below(calls[j].goals, offset)
  PROVE  NamesKept(calls, q)
<1> SUFFICES ASSUME NEW k \in DOMAIN calls PROVE Intact(q, calls[k], k)
  BY DEF NamesKept
<1>1. Intact(p, calls[k], k)
  BY DEF NamesKept
<1>2. ASSUME calls[k].kind = "query" PROVE Reads(q, calls[k].goals)
  <2>1. Reads(p, calls[k].goals) /\ Below(calls[k].goals, offset)
    BY <1>1, <1>2 DEF Intact
  <2> QED BY <2>1 DEF Reads, Below, Says
<1> QED BY <1>1, <1>2 DEF Intact

-----------------------------------------------------------------------------
NamesInv == StoreInv /\ NamesKept(acts, pool)

LEMMA NamesContinue ==
  ASSUME NamesInv, pool' \in Pools, Grown(pool, pool'), acts # << >>,
         NEW act, Continue(act), act.kind = Act.kind,
         act.kind = "query" => act.string_mark = Act.string_mark,
         Intact(pool', act, Len(acts))
  PROVE  NamesKept(acts', pool')
<1>1. Stack(acts, Cells) /\ NamesKept(acts, pool) /\ pool \in Pools
  BY DEF NamesInv, StoreInv, ActsOK, PoolOK
<1>2. NamesKept(acts, pool')
  BY <1>1, NamesGrow
<1>3. acts' = Append(Front(acts), act)
  BY DEF Continue, Callers
<1>4. act.kind = Last(acts).kind
      /\ (act.kind = "query" => act.string_mark = Last(acts).string_mark)
  BY DEF Act
<1> QED BY <1>1, <1>2, <1>3, <1>4, NamesReplace

\* The innermost call of a pool that has grown.
LEMMA ActIntact ==
  ASSUME NamesInv, pool' \in Pools, Grown(pool, pool'), acts # << >>
  PROVE  Intact(pool', Act, Len(acts)) /\ Intact(pool, Act, Len(acts))
<1>1. Stack(acts, Cells) /\ NamesKept(acts, pool) /\ pool \in Pools
  BY DEF NamesInv, StoreInv, ActsOK, PoolOK
<1>2. NamesKept(acts, pool')
  BY <1>1, NamesGrow
<1>3. Len(acts) \in DOMAIN acts /\ Act = acts[Len(acts)]
  BY <1>1 DEF Stack, Act, Last
<1> QED BY <1>1, <1>2, <1>3 DEF NamesKept

LEMMA NamesGoalDone ==
  ASSUME NamesInv, pool' \in Pools, Grown(pool, pool'), acts # << >>,
         Act.kind = "query", Succeed \/ Fail \/ Error
  PROVE  NamesKept(acts', pool')
<1>1. PICK query \in QueryActs(Cells) : query = Act
  BY ActTyped DEF NamesInv
<1>2. Intact(pool', query, Len(acts))
  BY <1>1, ActIntact
<1>3. \E act : /\ Continue(act) /\ act.kind = "query" /\ act.goals = query.goals
               /\ act.string_mark = query.string_mark
  <2>1. ASSUME NEW act, act = [query EXCEPT !.next = @ + 1, !.from = 1]
        PROVE  /\ act.kind = "query" /\ act.goals = query.goals
               /\ act.string_mark = query.string_mark
    BY <2>1 DEF QueryActs
  <2>2. ASSUME NEW run, NEW act, act = [query EXCEPT !.run = run]
        PROVE  /\ act.kind = "query" /\ act.goals = query.goals
               /\ act.string_mark = query.string_mark
    BY <2>2 DEF QueryActs
  <2>3. CASE Succeed
    BY <1>1, <2>1, <2>3 DEF Succeed
  <2>4. CASE Fail
    BY <1>1, <2>2, <2>4 DEF Fail
  <2>5. CASE Error
    BY <1>1, <2>2, <2>5 DEF Error
  <2> QED BY <2>3, <2>4, <2>5
<1>4. PICK act : /\ Continue(act) /\ act.kind = "query" /\ act.goals = query.goals
                 /\ act.string_mark = query.string_mark
  BY <1>3
<1>5. Intact(pool', act, Len(acts))
  BY <1>1, <1>2, <1>4 DEF Intact
<1> QED BY <1>1, <1>4, <1>5, NamesContinue

LEMMA GrownSame ==
  ASSUME NamesInv, UNCHANGED pool PROVE pool' \in Pools /\ Grown(pool, pool')
BY DEF NamesInv, StoreInv, PoolOK, Pools, Grown

LEMMA NamesEnterQuery ==
  ASSUME NamesInv, NEW goals \in Seq(Goals), NEW callers, Stack(callers, Cells),
         NamesKept(callers, pool),
         NoMake(goals) \/ (callers = << >> /\ Len(goals) = 1),
         EnterQuery(goals, callers)
  PROVE  NamesKept(acts', pool')
<1>1. PICK parsed : parsed = parse_goals(goals)
  OBVIOUS
<1>2. pool \in Pools
  BY DEF NamesInv, StoreInv, PoolOK
<1>3. /\ parsed.pool \in Pools /\ Grown(pool, parsed.pool)
      /\ parsed.goals \in Seq(Asked(parsed.pool.offset)) /\ Len(parsed.goals) = Len(goals)
      /\ \A i \in 1 .. Len(goals) : AskedAs(parsed.pool, parsed.goals[i], goals[i])
  BY <1>1, <1>2, ParseGoalsWorks
<1>4. PICK query : query =
        [kind |-> "query", goals |-> parsed.goals, next |-> 1, from |-> 1,
         alternatives |-> << >>, run |-> "go", string_mark |-> pool.offset,
         db_mark |-> Len(database)]
  OBVIOUS
<1>5. acts' = Append(callers, query) /\ pool' = parsed.pool
  BY <1>1, <1>4 DEF EnterQuery
<1>6. NamesKept(callers, pool')
  BY <1>2, <1>3, <1>5, NamesGrow
<1>7. DOMAIN parsed.goals = 1 .. Len(goals) /\ DOMAIN goals = 1 .. Len(goals)
  BY <1>3
<1>8. Intact(pool', query, Len(callers) + 1)
  <2>1. Reads(pool', parsed.goals)
    BY <1>3, <1>5, <1>7 DEF Reads, AskedAs
  <2>2. NoMake(goals) => NoMake(parsed.goals)
    BY <1>3, <1>7 DEF NoMake, AskedAs
  <2>3. callers = << >> => Len(callers) + 1 = 1
    OBVIOUS
  <2> QED BY <1>3, <1>4, <2>1, <2>2, <2>3 DEF Intact
<1>9. ASSUME NEW j \in DOMAIN callers, callers[j].kind = "query"
      PROVE  Below(callers[j].goals, query.string_mark)
  <2>1. Reads(pool, callers[j].goals)
    BY <1>9 DEF NamesKept, Intact
  <2>2. query.string_mark = pool.offset
    BY <1>4
  <2> QED BY <2>1, <2>2 DEF Reads, Below, Says
<1>10. Stack(callers, Cells')
  <2>1. Cells \in Nat /\ Cells' \in Nat /\ Cells <= Cells'
    BY <1>2, <1>3, <1>5 DEF Pools, Grown, Cells
  <2> QED BY <2>1, StackWider
<1> QED BY <1>4, <1>5, <1>6, <1>8, <1>9, <1>10, NamesPush

LEMMA NamesEndQuery == ASSUME NamesInv, EndQuery PROVE NamesKept(acts', pool')
<1>1. acts # << >> /\ Act.kind = "query"
  BY DEF EndQuery, InQuery
<1>2. PICK query \in QueryActs(Cells) : query = Act
  BY <1>1, ActTyped DEF NamesInv
<1>3. PICK mark_ \in 0 .. Cells : mark_ = Act.string_mark
  BY <1>2 DEF QueryActs
<1>4. PICK rolled_back :
        /\ \/ rolled_back = [pool EXCEPT !.offset = mark_]
           \/ rolled_back = pool
        /\ \/ pool' = rolled_back
           \/ pool' = Compacted(rolled_back).pool
  BY <1>3 DEF EndQuery
<1>5. pool \in Pools /\ Cells \in Nat /\ Stack(acts, Cells) /\ NamesKept(acts, pool)
  BY CellsNat DEF NamesInv, StoreInv, PoolOK, ActsOK
<1>6. PICK below : below = Front(acts)
  OBVIOUS
<1>7. /\ NamesKept(below, pool)
      /\ \A j \in DOMAIN below :
           below[j].kind = "query" => Below(below[j].goals, mark_)
  BY <1>1, <1>3, <1>5, <1>6, NamesPop DEF Act
<1>8. /\ Stack(below, Cells)
      /\ below # << >> => Last(below).kind # "query"
  BY <1>1, <1>5, <1>6, StackPop DEF Act
<1>9. rolled_back \in Pools /\ rolled_back.cells = pool.cells /\ NamesKept(below, rolled_back)
  <2>1. ASSUME NEW p, p = [pool EXCEPT !.offset = mark_]
        PROVE  p \in Pools /\ p.cells = pool.cells /\ NamesKept(below, p)
    <3>1. p \in Pools /\ p.cells = pool.cells /\ p.offset = mark_
      BY <1>5, <2>1 DEF Pools, Cells
    <3>2. mark_ \in Nat
      BY <1>5
    <3> QED BY <1>5, <1>7, <1>8, <3>1, <3>2, NamesRollBack
  <2> QED BY <1>4, <1>5, <1>7, <2>1
<1>10. pool' \in Pools /\ NamesKept(below, pool')
  <2>1. CASE pool' = rolled_back
    BY <1>9, <2>1
  <2>2. CASE pool' = Compacted(rolled_back).pool
    <3>1. PICK compacted : compacted = Compacted(rolled_back)
      OBVIOUS
    <3>2. database \in Seq(Clause(Len(rolled_back.cells)))
      BY <1>9 DEF NamesInv, StoreInv, DatabaseOK, Cells
    <3>3. compacted.pool \in Pools /\ Grown(rolled_back, compacted.pool)
      BY <1>9, <3>1, <3>2, CompactedWorks
    <3>4. NamesKept(below, compacted.pool)
      BY <1>8, <1>9, <3>3, NamesGrow
    <3> QED BY <2>2, <3>1, <3>3, <3>4
  <2> QED BY <1>4, <2>1, <2>2
<1>11. CASE below = << >>
  <2>1. acts' = below
    BY <1>6, <1>11 DEF EndQuery, Callers
  <2> QED BY <1>10, <2>1
<1>12. CASE below # << >>
  <2>1. Last(below) \in QueryActs(Cells) \cup LoadActs
    BY <1>8, <1>12, FrontAndLast DEF Stack
  <2>2. PICK load \in LoadActs : load = Last(below)
    BY <1>8, <1>12, <2>1 DEF QueryActs
  <2>3. PICK stopped : stopped = [load EXCEPT !.stop = parse_error]
    OBVIOUS
  <2>4. stopped.kind = "load" /\ load.kind = "load" /\ stopped.items = load.items
    BY <2>3 DEF LoadActs
  <2>5. acts' = Append(Front(below), stopped)
    BY <1>6, <1>12, <2>2, <2>3 DEF EndQuery, Callers
  <2>6. Intact(pool', load, Len(below))
    BY <1>8, <1>10, <1>12, <2>2, NamesPop
  <2>7. Intact(pool', stopped, Len(below))
    BY <2>4, <2>6 DEF Intact
  <2>8. stopped.kind = Last(below).kind
        /\ (stopped.kind = "query" => stopped.string_mark = Last(below).string_mark)
    BY <2>2, <2>4
  <2> QED BY <1>8, <1>10, <1>12, <2>5, <2>7, <2>8, NamesReplace
<1> QED BY <1>11, <1>12

LEMMA NamesBacktrack == ASSUME NamesInv, Backtrack PROVE NamesKept(acts', pool')
<1>1. acts # << >> /\ Act.kind = "query" /\ UNCHANGED pool
  BY DEF Backtrack, InQuery
<1>2. pool' \in Pools /\ Grown(pool, pool')
  BY <1>1, GrownSame
<1>3. CASE Act.alternatives = << >>
  BY <1>1, <1>2, <1>3, NamesGoalDone DEF Backtrack
<1>4. CASE Act.alternatives # << >>
  <2>1. PICK query \in QueryActs(Cells) : query = Act
    BY <1>1, ActTyped DEF NamesInv
  <2>2. PICK frame : frame = Last(query.alternatives)
    OBVIOUS
  <2>3. PICK rest : rest = Front(query.alternatives)
    OBVIOUS
  <2>4. PICK back : back = [query EXCEPT !.next = frame.next, !.from = frame.from,
                                         !.alternatives = rest, !.run = "go"]
    OBVIOUS
  <2>5. /\ back.kind = "query" /\ back.goals = query.goals
        /\ back.string_mark = query.string_mark
    BY <2>4 DEF QueryActs
  <2>6. Continue(back)
    BY <1>4, <2>1, <2>2, <2>3, <2>4 DEF Backtrack
  <2>7. Intact(pool', back, Len(acts))
    BY <1>1, <1>2, <2>1, <2>5, ActIntact DEF Intact
  <2> QED BY <1>1, <1>2, <2>1, <2>5, <2>6, <2>7, NamesContinue
<1> QED BY <1>3, <1>4

LEMMA NamesCall == ASSUME NamesInv, Call PROVE NamesKept(acts', pool')
<1>1. acts # << >> /\ Act.kind = "query" /\ UNCHANGED pool
  BY DEF Call, Running, InQuery
<1>2. pool' \in Pools /\ Grown(pool, pool')
  BY <1>1, GrownSame
<1>3. PICK found : found = {i \in Act.from .. Len(database) :
                              database[i].at[1] = Goal.at[1]}
  OBVIOUS
<1>4. CASE found = {}
  BY <1>1, <1>2, <1>3, <1>4, NamesGoalDone DEF Call
<1>5. CASE found # {}
  <2>1. PICK query \in QueryActs(Cells) : query = Act
    BY <1>1, ActTyped DEF NamesInv
  <2>2. PICK rest : rest = Append(query.alternatives,
                                  [next |-> query.next, from |-> Min(found) + 1])
    OBVIOUS
  <2>3. PICK tried : tried = [query EXCEPT !.next = @ + 1, !.from = 1,
                                           !.alternatives = rest]
    OBVIOUS
  <2>4. /\ tried.kind = "query" /\ tried.goals = query.goals
        /\ tried.string_mark = query.string_mark
    BY <2>3 DEF QueryActs
  <2>5. Continue(tried)
    BY <1>3, <1>5, <2>1, <2>2, <2>3 DEF Call
  <2>6. Intact(pool', tried, Len(acts))
    BY <1>1, <1>2, <2>1, <2>4, ActIntact DEF Intact
  <2> QED BY <1>1, <1>2, <2>1, <2>4, <2>5, <2>6, NamesContinue
<1> QED BY <1>4, <1>5

LEMMA NamesAssert ==
  ASSUME NamesInv, NEW op, AssertClause(op) PROVE NamesKept(acts', pool')
<1>1. acts # << >> /\ Act.kind = "query" /\ Running(op) /\ (Succeed \/ Fail \/ Error)
  BY DEF AssertClause, Running, InQuery
<1>2. pool' \in Pools /\ Grown(pool, pool')
  <2>1. CASE UNCHANGED pool
    BY <2>1, GrownSame
  <2>2. CASE ~UNCHANGED pool
    <3>1. PICK copy : copy = InternPointers(pool, Goal.at)
      OBVIOUS
    <3>2. pool' = copy.pool
      BY <2>2, <3>1 DEF AssertClause
    <3>3. Goal.at \in Seq(1 .. Len(pool.cells))
      BY <1>1, GoalTyped DEF Asked, Cells, NamesInv
    <3> QED BY <3>1, <3>2, <3>3, InternPointersWorks DEF NamesInv, StoreInv, PoolOK
  <2> QED BY <2>1, <2>2
<1> QED BY <1>1, <1>2, NamesGoalDone

LEMMA NamesOp == ASSUME NamesInv, Op PROVE NamesKept(acts', pool')
<1>1. /\ acts # << >> /\ Act.kind = "query" /\ Running("op") /\ Succeed
      /\ "op" \in Named
  BY DEF Op, Running, InQuery, Named
<1>2. pool' \in Pools /\ Grown(pool, pool')
  <2>1. CASE UNCHANGED pool
    BY <2>1, GrownSame
  <2>2. CASE ~UNCHANGED pool
    <3>1. PICK copy : copy = intern_again(pool, Goal.at[1])
      OBVIOUS
    <3>2. pool' = copy.pool
      BY <2>2, <3>1 DEF Op
    <3>3. Goal.at[1] \in 1 .. Len(pool.cells)
      BY <1>1, NameTyped DEF Cells, NamesInv
    <3>4. Interned(pool, copy, pool.cells[Goal.at[1]])
      BY <3>1, <3>3, InternAgain DEF NamesInv, StoreInv, PoolOK
    <3> QED BY <3>2, <3>4 DEF Interned
  <2> QED BY <2>1, <2>2
<1> QED BY <1>1, <1>2, NamesGoalDone

\* Goals that leave the pool alone and succeed, fail or are errors.
LEMMA NamesOthers ==
  ASSUME NamesInv,
         Solution \/ Retract \/ Retractall \/ Abolish \/ Dynamic \/ Unconsult
  PROVE  NamesKept(acts', pool')
<1>1. /\ acts # << >> /\ Act.kind = "query" /\ UNCHANGED pool
      /\ Succeed \/ Fail \/ Error
  <2>1. CASE Solution
    BY <2>1 DEF Solution, InQuery
  <2>2. CASE Retract
    BY <2>2 DEF Retract, Running, InQuery
  <2>3. CASE Retractall
    BY <2>3 DEF Retractall, Running, InQuery
  <2>4. CASE Abolish
    BY <2>4 DEF Abolish, Running, InQuery
  <2>5. CASE Dynamic
    BY <2>5 DEF Dynamic, Running, InQuery
  <2>6. CASE Unconsult
    BY <2>6 DEF Unconsult, Running, InQuery
  <2> QED BY <2>1, <2>2, <2>3, <2>4, <2>5, <2>6
<1> QED BY <1>1, GrownSame, NamesGoalDone

LEMMA NamesReturn ==
  ASSUME NEW n, NEW p, NEW callers, Stack(callers, n), NamesKept(callers, p),
         callers # << >> => Last(callers).kind = "query",
         NEW ok, NEW r, r = Return(callers, ok)
  PROVE  NamesKept(r, p)
<1>1. CASE callers = << >>
  BY <1>1 DEF Return
<1>2. CASE callers # << >>
  <2>1. Last(callers) \in QueryActs(n) \cup LoadActs
    BY <1>2, FrontAndLast DEF Stack
  <2>2. PICK query \in QueryActs(n) : query = Last(callers)
    BY <1>2, <2>1 DEF LoadActs
  <2>3. PICK back : back = [query EXCEPT !.run = "back"]
    OBVIOUS
  <2>4. /\ back.kind = "query" /\ back.goals = query.goals
        /\ back.string_mark = query.string_mark
    BY <2>3 DEF QueryActs
  <2>5. r = callers \/ r = Append(Front(callers), back)
    BY <1>2, <2>2, <2>3 DEF Return
  <2>6. Intact(p, query, Len(callers))
    BY <1>2, <2>2, NamesPop
  <2>7. Intact(p, back, Len(callers))
    BY <1>2, <2>2, <2>4, <2>6 DEF Intact
  <2>8. back.kind = Last(callers).kind
        /\ (back.kind = "query" => back.string_mark = Last(callers).string_mark)
    BY <1>2, <2>2, <2>4
  <2>9. ASSUME r = Append(Front(callers), back) PROVE NamesKept(r, p)
    BY <1>2, <2>7, <2>8, <2>9, NamesReplace
  <2> QED BY <2>5, <2>9
<1> QED BY <1>1, <1>2

LEMMA NamesEndLoad == ASSUME NamesInv, EndLoad PROVE NamesKept(acts', pool')
<1>1. acts # << >> /\ Act.kind = "load" /\ UNCHANGED pool
  BY DEF EndLoad
<1>2. PICK below : below = Front(acts)
  OBVIOUS
<1>3. /\ Stack(below, Cells)
      /\ below # << >> => Last(below).kind # "load"
  BY <1>1, <1>2, StackPop DEF NamesInv, StoreInv, ActsOK, Act
<1>4. below # << >> => Last(below).kind = "query"
  <2>1. below # << >> => Last(below) \in QueryActs(Cells) \cup LoadActs
    BY <1>3, FrontAndLast DEF Stack
  <2> QED BY <1>3, <2>1 DEF QueryActs, LoadActs
<1>5. NamesKept(below, pool)
  BY <1>1, <1>2, NamesPop DEF NamesInv, StoreInv, ActsOK
<1>6. acts' = Return(below, ~Act.stop)
  BY <1>2 DEF EndLoad, Callers
<1>7. NamesKept(acts', pool)
  BY <1>3, <1>4, <1>5, <1>6, NamesReturn
<1> QED BY <1>1, <1>7

LEMMA NamesLoadNext ==
  ASSUME MakeAlone, NamesInv, LoadNext PROVE NamesKept(acts', pool')
<1>1. PICK op \in {"consult", "include", "reload"} : Running(op)
  BY DEF LoadNext
<1>2. UNCHANGED pool
  BY DEF LoadNext
<1>3. /\ acts # << >> /\ Act.kind = "query" /\ Act \in QueryActs(Cells)
      /\ Act.next \in DOMAIN Act.goals /\ Goal \in Asked(Cells)
  BY <1>1, GoalTyped DEF NamesInv
<1>4. pool' \in Pools /\ Grown(pool, pool')
  BY <1>2, GrownSame
<1>5. CASE Fail \/ Succeed
  BY <1>3, <1>4, <1>5, NamesGoalDone
<1>6. CASE ~(Fail \/ Succeed)
  <2>1. PICK query \in QueryActs(Cells) : query = Act
    BY <1>3
  <2>2. PICK waiting : waiting = [query EXCEPT !.from = @ + 1]
    OBVIOUS
  <2>3. PICK file : file = Goal.files[query.from]
    OBVIOUS
  <2>6. PICK callers : callers = Append(Front(acts), waiting)
    OBVIOUS
  <2>7. ~(query.from > Len(Goal.files)) /\ load_file(file, callers)
    BY <1>6, <2>1, <2>2, <2>3, <2>6 DEF LoadNext, Callers
  <2>8. Goal.files \in Seq(Files) /\ query.from \in Nat \ {0}
    BY <1>3 DEF Asked, QueryActs
  <2>9. file \in Files
    <3>1. query.from \in 1 .. Len(Goal.files)
      BY <2>7, <2>8
    <3> QED BY <2>3, <2>8, <3>1, InSeq
  <2>13. /\ waiting.kind = "query" /\ waiting.goals = query.goals
         /\ waiting.string_mark = query.string_mark /\ waiting \in QueryActs(Cells)
    <3>1. PICK from \in Nat \ {0} : from = query.from + 1
      BY <2>8
    <3>2. waiting = [query EXCEPT !.from = from]
      BY <2>2, <3>1
    <3> QED BY <2>1, <3>1, <3>2 DEF QueryActs
  <2>14. Intact(pool, query, Len(acts)) /\ query.kind = "query"
    BY <1>3, <1>4, <2>1, ActIntact
  <2>15. Intact(pool, waiting, Len(acts))
    BY <2>13, <2>14 DEF Intact
  <2>16. Stack(acts, Cells) /\ NamesKept(acts, pool)
    BY DEF NamesInv, StoreInv, ActsOK
  <2>17. waiting.kind = Last(acts).kind
         /\ (waiting.kind = "query" => waiting.string_mark = Last(acts).string_mark)
    BY <1>3, <2>1, <2>13 DEF Act
  <2>18. NamesKept(callers, pool)
    BY <1>3, <2>6, <2>15, <2>16, <2>17, NamesReplace
  <2>19. Stack(callers, Cells) /\ callers # << >> /\ Last(callers) = waiting
    <3>1. waiting \in QueryActs(Cells) \cup LoadActs
      BY <2>13
    <3> QED
      <4>1. GoesOn(callers, acts, waiting)
        BY <1>3, <2>6, <2>16, <2>17, <3>1 DEF GoesOn
      <4> QED BY <1>3, <2>6, <2>16, <2>17, <3>1, <4>1, StackReplace
  <2>20. CASE acts' = Return(callers, CanOpen(file))
    <3>1. Last(callers).kind = "query"
      BY <2>13, <2>19
    <3>2. NamesKept(acts', pool)
      BY <2>18, <2>19, <2>20, <3>1, NamesReturn
    <3> QED BY <1>2, <3>2
  <2>21. CASE acts' # Return(callers, CanOpen(file))
    <3>1. PICK load : load = [kind |-> "load", file |-> file, items |-> Text(file).items,
                              stop |-> FALSE]
      OBVIOUS
    <3>2. acts' = Append(callers, load)
      BY <2>7, <2>9, <2>21, <3>1 DEF load_file
    <3>3. Harmless(Text(file).items)
      <4>1. disk[file] \in DOMAIN Versions[file]
        BY <2>9 DEF NamesInv, StoreInv, DiskOK
      <4> QED BY <2>9, <4>1 DEF MakeAlone, Text
    <3>4. Intact(pool, load, Len(callers) + 1) /\ load.kind # "query"
      BY <3>1, <3>3 DEF Intact
    <3>5. NamesKept(acts', pool)
      BY <2>18, <2>19, <3>2, <3>4, NamesPush
    <3> QED BY <1>2, <3>5
  <2> QED BY <2>20, <2>21
<1> QED BY <1>5, <1>6

LEMMA NamesLoadClause == ASSUME NamesInv, LoadClause PROVE NamesKept(acts', pool')
<1>1. acts # << >> /\ Act.kind = "load" /\ Act.items # << >>
  BY DEF LoadClause, InLoad
<1>2. PICK load \in LoadActs : load = Act
  BY <1>1, ActTyped DEF NamesInv
<1>3. load.items \in Seq(Items) /\ load.items # << >>
  BY <1>1, <1>2 DEF LoadActs
<1>4. pool' \in Pools /\ Grown(pool, pool')
  <2>1. CASE UNCHANGED pool
    BY <2>1, GrownSame
  <2>2. CASE ~UNCHANGED pool
    <3>1. PICK names : names = InternNames(pool, Item.names)
      OBVIOUS
    <3>2. Item.is = "clause" /\ pool' = names.pool
      BY <2>2, <3>1 DEF LoadClause
    <3>3. Head(load.items) \in Items
      BY <1>3
    <3>4. Item.names \in Seq(Names)
      BY <1>2, <3>2, <3>3 DEF Item, Items
    <3> QED BY <3>1, <3>2, <3>4, InternNamesWorks DEF NamesInv, StoreInv, PoolOK
  <2> QED BY <2>1, <2>2
<1>5. \E stop \in BOOLEAN : Continue([load EXCEPT !.items = Tail(@), !.stop = stop])
  BY <1>2 DEF LoadClause, NextItem
<1>6. PICK stop \in BOOLEAN : Continue([load EXCEPT !.items = Tail(@), !.stop = stop])
  BY <1>5
<1>7. PICK next : next = [load EXCEPT !.items = Tail(@), !.stop = stop]
  OBVIOUS
<1>8. next.kind = "load" /\ next.items = Tail(load.items) /\ Continue(next)
  BY <1>6, <1>7 DEF LoadActs
<1>9. Intact(pool', next, Len(acts))
  <2>1. Harmless(load.items)
    BY <1>1, <1>2, <1>4, ActIntact DEF Intact
  <2>2. Harmless(Tail(load.items))
    <3>1. /\ DOMAIN Tail(load.items) = 1 .. Len(load.items) - 1
          /\ \A i \in 1 .. Len(load.items) - 1 :
               Tail(load.items)[i] = load.items[i + 1] /\ i + 1 \in DOMAIN load.items
      BY <1>3
    <3> QED BY <2>1, <3>1 DEF Harmless
  <2> QED BY <1>8, <2>2 DEF Intact
<1>10. next.kind = Act.kind /\ next.kind # "query"
  BY <1>1, <1>8
<1> QED BY <1>1, <1>4, <1>8, <1>9, <1>10, NamesContinue

LEMMA NamesLoadDirective ==
  ASSUME NamesInv, LoadDirective PROVE NamesKept(acts', pool')
<1>1. acts # << >> /\ Act.kind = "load" /\ Act.items # << >> /\ Item.is = "directive"
  BY DEF LoadDirective, InLoad
<1>2. PICK load \in LoadActs : load = Act
  BY <1>1, ActTyped DEF NamesInv
<1>3. PICK next : next = [load EXCEPT !.items = Tail(@)]
  OBVIOUS
<1>4. PICK callers : callers = Append(Front(acts), next)
  OBVIOUS
<1>5. EnterQuery(Item.goals, callers)
  BY <1>2, <1>3, <1>4 DEF LoadDirective, Callers
<1>6. load.items \in Seq(Items) /\ load.items # << >> /\ Item = load.items[1]
      /\ 1 \in DOMAIN load.items
  BY <1>1, <1>2 DEF LoadActs, Item
<1>7. Item.goals \in Seq(Goals)
  <2>1. load.items[1] \in Items
    BY <1>6
  <2> QED BY <1>1, <1>6, <2>1 DEF Items
<1>8. Intact(pool, load, Len(acts)) /\ Stack(acts, Cells) /\ NamesKept(acts, pool)
      /\ pool \in Pools
  <2>1. Len(acts) \in DOMAIN acts /\ Act = acts[Len(acts)]
    BY <1>1 DEF NamesInv, StoreInv, ActsOK, Stack, Act, Last
  <2> QED BY <1>2, <2>1 DEF NamesInv, StoreInv, ActsOK, PoolOK, NamesKept
<1>9. Harmless(load.items)
  BY <1>1, <1>2, <1>8 DEF Intact
<1>10. NoMake(Item.goals)
  BY <1>1, <1>6, <1>9 DEF Harmless
<1>11. next \in LoadActs /\ next.kind = "load" /\ next.items = Tail(load.items)
  <2>1. Tail(load.items) \in Seq(Items)
    BY <1>6
  <2> QED BY <1>3, <2>1 DEF LoadActs
<1>12. Intact(pool, next, Len(acts))
  <2>1. Harmless(Tail(load.items))
    <3>1. /\ DOMAIN Tail(load.items) = 1 .. Len(load.items) - 1
          /\ \A i \in 1 .. Len(load.items) - 1 :
               Tail(load.items)[i] = load.items[i + 1] /\ i + 1 \in DOMAIN load.items
      BY <1>6
    <3> QED BY <1>9, <3>1 DEF Harmless
  <2> QED BY <1>11, <2>1 DEF Intact
<1>13. next \in QueryActs(Cells) \cup LoadActs /\ next.kind = Last(acts).kind
       /\ next.kind # "query"
  BY <1>1, <1>11 DEF Act
<1>14. Stack(callers, Cells)
  <2>1. GoesOn(callers, acts, next)
    BY <1>1, <1>4, <1>8, <1>13 DEF GoesOn
  <2> QED BY <1>1, <1>4, <1>8, <1>13, <2>1, StackReplace
<1>15. NamesKept(callers, pool)
  BY <1>1, <1>4, <1>8, <1>12, <1>13, NamesReplace
<1> QED BY <1>5, <1>7, <1>10, <1>14, <1>15, NamesEnterQuery

LEMMA NamesMake == ASSUME NamesInv, Make PROVE NamesKept(acts', pool')
<1>1. Running("make")
  BY DEF Make
<1>2. /\ acts # << >> /\ Act.kind = "query" /\ Act \in QueryActs(Cells)
      /\ Act.next \in DOMAIN Act.goals /\ Goal.op = "make"
  BY <1>1, GoalTyped DEF NamesInv
<1>3. CASE Succeed /\ UNCHANGED pool
  BY <1>2, <1>3, GrownSame, NamesGoalDone
<1>4. CASE ~(Succeed /\ UNCHANGED pool)
  <2>1. PICK query \in QueryActs(Cells) : query = Act
    BY <1>2
  <2>2. PICK goal : goal = [op |-> "reload", at |-> << >>, names |-> << >>,
                            files |-> [i \in DOMAIN make_files |-> make_files[i].path]]
    OBVIOUS
  <2>3. PICK goals : goals = [query.goals EXCEPT ![query.next] = goal]
    OBVIOUS
  <2>4. PICK reload : reload = [query EXCEPT !.goals = goals, !.from = 1]
    OBVIOUS
  <2>5. Continue(reload) /\ pool' = [pool EXCEPT !.offset = mark.string]
    BY <1>4, <2>1, <2>2, <2>3, <2>4 DEF Make
  <2>6. Stack(acts, Cells) /\ Len(acts) \in DOMAIN acts /\ Act = acts[Len(acts)]
    BY <1>2 DEF NamesInv, StoreInv, ActsOK, Stack, Act, Last
  <2>7. Intact(pool, query, Len(acts))
    BY <2>1, <2>6 DEF NamesInv, NamesKept
  <2>8. Len(acts) = 1 /\ Len(query.goals) = 1
    <3>1. ~NoMake(query.goals)
      BY <1>2, <2>1 DEF NoMake, Goal
    <3> QED BY <1>2, <2>1, <2>7, <3>1 DEF Intact
  <2>9. goals = <<goal>>
    <3>1. query.goals \in Seq(Asked(Cells)) /\ query.next \in DOMAIN query.goals
      BY <1>2, <2>1 DEF QueryActs
    <3>2. DOMAIN query.goals = 1 .. 1 /\ query.next = 1
      BY <2>8, <3>1
    <3> QED BY <2>3, <3>1, <3>2, <2>8
  <2>10. reload.kind = "query" /\ reload.goals = goals
    BY <2>4 DEF QueryActs
  <2>11. acts' = <<reload>>
    <3>1. Front(acts) = << >>
      BY <2>6, <2>8 DEF Stack, Front
    <3> QED BY <2>5, <3>1 DEF Continue, Callers
  <2>12. Intact(pool', reload, 1)
    <3>1. goal.op # "make" /\ goal.at = << >> /\ goal.names = << >>
      BY <2>2
    <3>2. Says(pool', << >>, << >>)
      BY DEF Says
    <3>3. DOMAIN goals = {1} /\ goals[1] = goal /\ Len(goals) = 1
      BY <2>9
    <3> QED BY <2>10, <3>1, <3>2, <3>3 DEF Intact, Reads, NoMake
  <2>13. DOMAIN acts' = {1} /\ acts'[1] = reload
    BY <2>11
  <2> QED BY <2>12, <2>13 DEF NamesKept, Marked
<1> QED BY <1>3, <1>4

LEMMA NamesInit == MakeAlone /\ Init => NamesInv
<1> SUFFICES ASSUME MakeAlone, Init PROVE NamesInv
  OBVIOUS
<1>1. StoreInv
  BY InitTyped
<1>2. DOMAIN acts = {1} /\ acts[1].kind = "load" /\ acts[1].items = Text(Core).items
  BY DEF Init
<1>3. Harmless(Text(Core).items)
  <2>1. Core \in Files /\ disk[Core] \in DOMAIN Versions[Core]
    BY <1>1, StoreAssumption DEF StoreInv, DiskOK
  <2> QED BY <2>1 DEF MakeAlone, Text
<1> QED BY <1>1, <1>2, <1>3 DEF NamesInv, NamesKept, Marked, Intact

LEMMA NamesNext == ASSUME MakeAlone, NamesInv, [Next]_vars PROVE NamesInv'
<1>1. StoreInv'
  BY NextTyped DEF NamesInv
<1>2. NamesKept(acts', pool')
  <2>1. CASE UNCHANGED <<acts, pool>>
    BY <2>1 DEF NamesInv
  <2>2. CASE Step
    <3>1. CASE Solution \/ Retract \/ Retractall \/ Abolish \/ Dynamic \/ Unconsult
      BY <3>1, NamesOthers
    <3>2. CASE Backtrack \/ EndQuery \/ Call \/ Assertz \/ Asserta
      BY <3>2, NamesBacktrack, NamesEndQuery, NamesCall, NamesAssert DEF Assertz, Asserta
    <3>3. CASE Op \/ LoadNext \/ LoadClause
      BY <3>3, NamesOp, NamesLoadNext, NamesLoadClause
    <3>4. CASE LoadDirective \/ EndLoad \/ Make
      BY <3>4, NamesLoadDirective, NamesEndLoad, NamesMake
    <3> QED BY <2>2, <3>1, <3>2, <3>3, <3>4 DEF Step
  <2>3. CASE \E goals \in Queries : Query(goals)
    <3>1. PICK goals \in Queries : Query(goals)
      BY <2>3
    <3>2. goals \in Seq(Goals)
      BY StoreAssumption
    <3>3. acts = << >> /\ EnterQuery(goals, << >>)
      BY <3>1 DEF Query
    <3>4. Stack(<< >>, Cells) /\ NamesKept(<< >>, pool)
      BY <3>3 DEF NamesInv, StoreInv, ActsOK
    <3>5. NoMake(goals) \/ Len(goals) = 1
      BY DEF MakeAlone
    <3> QED BY <3>2, <3>3, <3>4, <3>5, NamesEnterQuery
  <2>4. CASE \E f \in Files : Edit(f)
    BY <2>1, <2>4 DEF Edit
  <2>5. CASE UNCHANGED vars
    BY <2>1, <2>5 DEF vars
  <2> QED BY <2>2, <2>3, <2>4, <2>5 DEF Next
<1> QED BY <1>1, <1>2 DEF NamesInv

LEMMA KeptIsIntact == NamesInv => QueryIntact
<1> SUFFICES ASSUME NamesInv, NEW act \in Range(acts), act.kind = "query",
                    NEW i \in act.next .. Len(act.goals)
             PROVE  Read(act.goals[i].at) = act.goals[i].names
  BY DEF QueryIntact
<1>1. PICK k \in DOMAIN acts : act = acts[k]
  BY DEF Range
<1>2. acts[k] \in QueryActs(Cells) \cup LoadActs /\ Intact(pool, acts[k], k)
  BY DEF NamesInv, NamesKept, StoreInv, ActsOK, Stack
<1>3. act \in QueryActs(Cells) /\ Reads(pool, act.goals)
  BY <1>1, <1>2 DEF LoadActs, Intact
<1>4. act.goals \in Seq(Asked(Cells)) /\ act.next \in Nat \ {0}
  BY <1>3 DEF QueryActs
<1>5. i \in 1 .. Len(act.goals) /\ DOMAIN act.goals = 1 .. Len(act.goals)
  BY <1>4
<1>6. PICK goal \in Asked(Cells) : goal = act.goals[i]
  BY <1>4, <1>5, InSeq
<1>7. Says(pool, goal.at, goal.names)
  BY <1>3, <1>5, <1>6 DEF Reads
<1>8. goal.names \in Seq(Names) /\ goal.at \in Seq(1 .. Cells)
  BY DEF Asked
<1>9. /\ DOMAIN goal.at = 1 .. Len(goal.names) /\ DOMAIN goal.names = 1 .. Len(goal.names)
      /\ \A j \in 1 .. Len(goal.names) : pool.cells[goal.at[j]] = goal.names[j]
  BY <1>7, <1>8 DEF Says
<1>10. [j \in DOMAIN goal.at |-> pool.cells[goal.at[j]]] = goal.names
  <2>1. goal.names = [j \in 1 .. Len(goal.names) |-> goal.names[j]]
    BY <1>8
  <2>2. [j \in DOMAIN goal.at |-> pool.cells[goal.at[j]]]
        = [j \in 1 .. Len(goal.names) |-> goal.names[j]]
    BY <1>9
  <2> QED BY <2>1, <2>2
<1> QED BY <1>6, <1>10 DEF Read

\* If make/0 is only asked for on its own, at the toplevel, then every goal that
\* a query still has to run, and any that it may come back to, reads as it was
\* asked: whatever it loads, and whatever the directives in there give back.
THEOREM GoalsKeepTheirNames == MakeAlone => (Spec => []QueryIntact)
<1> SUFFICES ASSUME MakeAlone PROVE Spec => []QueryIntact
  OBVIOUS
<1>1. Init => NamesInv
  BY NamesInit
<1>2. NamesInv /\ [Next]_vars => NamesInv'
  BY NamesNext
<1> QED BY <1>1, <1>2, KeptIsIntact, PTL DEF Spec

-----------------------------------------------------------------------------
(* The owners of clauses.  A clause keeps the place of its file, and every *)
(* load keeps the place of the file it reads; unconsult/1 moves the files  *)
(* after it up, and make/0 forgets all of them, with the clauses behind    *)
(* its mark.  Nobody corrects a load that is running, so the two are only  *)
(* asked for at the toplevel, not by directives; and the mark of make/0 is *)
(* the empty database, as long as the first file is the core library.      *)

KeepsCore(goals) ==
  \A i \in DOMAIN goals : goals[i].op = "unconsult" =>
    goals[i].files # << >> /\ goals[i].files[1] # Core
NoUnload(goals) == \A i \in DOMAIN goals : goals[i].op \notin {"make", "unconsult"}
LoadsOnly(items) ==
  \A i \in DOMAIN items : items[i].is = "directive" => NoUnload(items[i].goals)

CoreStays ==
  /\ \A v \in DOMAIN Versions[Core] : Versions[Core][v].there
  /\ \A goals \in Queries : KeepsCore(goals)
  /\ \A f \in Files : \A v \in DOMAIN Versions[f] : LoadsOnly(Versions[f][v].items)

\* One call, in its place.
CalmAt(act, k) ==
  /\ act.kind = "query" => KeepsCore(act.goals) /\ (k = 1 \/ NoUnload(act.goals))
  /\ act.kind = "load" => LoadsOnly(act.items)
Calm(calls) == \A k \in DOMAIN calls : CalmAt(calls[k], k)

OwnersIn(db, n) == \A k \in DOMAIN db : db[k].source_file \in 0 .. n

\* The core library is the first file; or make/0 has just begun to load again.
CoreFirst == make_files # << >> /\ make_files[1].path = Core
Reloading ==
  /\ make_files = << >> /\ database = << >> /\ Len(acts) = 1
  /\ Running("reload") /\ Act.from = 1
  /\ Goal.files # << >> /\ Goal.files[1] = Core

Placed ==
  /\ current_source_file \in 0 .. Len(make_files)
  /\ include_depth = 0 => current_source_file = 0
  /\ mark.db = 0

OwnersInv ==
  /\ StoreInv /\ Calm(acts) /\ Placed
  /\ OwnersIn(database, Len(make_files))
  /\ CoreFirst \/ Reloading

-----------------------------------------------------------------------------
(* The calls                                                               *)

LEMMA CalmPush ==
  ASSUME NEW n, NEW calls, Stack(calls, n), Calm(calls),
         NEW act, CalmAt(act, Len(calls) + 1),
         NEW r, r = Append(calls, act)
  PROVE  Calm(r)
<1> DEFINE m == Len(calls)
<1>1. m \in Nat /\ DOMAIN calls = 1 .. m /\ m = Len(calls)
  BY DEF Stack
<1>2. /\ DOMAIN r = 1 .. m + 1 /\ r[m + 1] = act
      /\ \A k \in 1 .. m : r[k] = calls[k]
  BY <1>1 DEF Stack
<1> HIDE DEF m
<1>3. ASSUME NEW k \in 1 .. m + 1 PROVE CalmAt(r[k], k)
  <2>1. CASE k = m + 1
    BY <1>1, <1>2, <2>1
  <2>2. CASE k \in 1 .. m
    BY <1>1, <1>2, <2>2 DEF Calm
  <2> QED BY <1>1, <2>1, <2>2
<1> QED BY <1>2, <1>3 DEF Calm

LEMMA CalmPop ==
  ASSUME NEW n, NEW calls, Stack(calls, n), calls # << >>, Calm(calls),
         NEW r, r = Front(calls)
  PROVE  /\ Calm(r) /\ CalmAt(Last(calls), Len(calls))
         /\ Len(calls) = Len(r) + 1
<1> DEFINE m == Len(calls)
<1>1. m \in Nat \ {0} /\ DOMAIN calls = 1 .. m /\ m = Len(calls) /\ Last(calls) = calls[m]
  BY DEF Stack, Last
<1>2. /\ DOMAIN r = 1 .. m - 1 /\ Len(r) = m - 1
      /\ \A k \in 1 .. m - 1 : r[k] = calls[k]
  BY <1>1 DEF Stack, Front
<1> HIDE DEF m
<1>3. ASSUME NEW k \in 1 .. m - 1 PROVE CalmAt(r[k], k)
  BY <1>1, <1>2, <1>3 DEF Calm
<1>4. CalmAt(calls[m], m)
  BY <1>1 DEF Calm
<1> QED BY <1>1, <1>2, <1>3, <1>4 DEF Calm

LEMMA CalmReplace ==
  ASSUME NEW n, NEW calls, Stack(calls, n), calls # << >>, Calm(calls),
         NEW act, CalmAt(act, Len(calls)),
         NEW r, r = Append(Front(calls), act)
  PROVE  Calm(r)
<1>1. PICK below : below = Front(calls)
  OBVIOUS
<1>2. Calm(below) /\ Len(calls) = Len(below) + 1
  BY <1>1, CalmPop
<1>3. Stack(below, n)
  BY <1>1, StackPop
<1>4. r = Append(below, act)
  BY <1>1
<1> QED BY <1>2, <1>3, <1>4, CalmPush

LEMMA CalmReturn ==
  ASSUME NEW n, NEW callers, Stack(callers, n), Calm(callers),
         callers # << >> => Last(callers).kind = "query",
         NEW ok, NEW r, r = Return(callers, ok)
  PROVE  Calm(r)
<1>1. CASE callers = << >>
  BY <1>1 DEF Return
<1>2. CASE callers # << >>
  <2>1. Last(callers) \in QueryActs(n) \cup LoadActs
    BY <1>2, FrontAndLast DEF Stack
  <2>2. PICK query \in QueryActs(n) : query = Last(callers)
    BY <1>2, <2>1 DEF LoadActs
  <2>3. PICK back : back = [query EXCEPT !.run = "back"]
    OBVIOUS
  <2>4. back.kind = "query" /\ back.goals = query.goals
    BY <2>3 DEF QueryActs
  <2>5. r = callers \/ r = Append(Front(callers), back)
    BY <1>2, <2>2, <2>3 DEF Return
  <2>6. CalmAt(query, Len(callers)) /\ query.kind = "query"
    BY <1>2, <2>2, CalmPop
  <2>7. CalmAt(back, Len(callers))
    BY <2>4, <2>6 DEF CalmAt
  <2>8. ASSUME r = Append(Front(callers), back) PROVE Calm(r)
    BY <1>2, <2>7, <2>8, CalmReplace
  <2> QED BY <2>5, <2>8
<1> QED BY <1>1, <1>2

LEMMA ActCalm ==
  ASSUME OwnersInv, acts # << >>
  PROVE  CalmAt(Act, Len(acts)) /\ Stack(acts, Cells) /\ Calm(acts)
<1>1. Stack(acts, Cells) /\ Calm(acts)
  BY DEF OwnersInv, StoreInv, ActsOK
<1> QED BY <1>1, CalmPop DEF Act

LEMMA CalmContinue ==
  ASSUME OwnersInv, acts # << >>, NEW act, Continue(act), CalmAt(act, Len(acts))
  PROVE  Calm(acts')
<1>1. acts' = Append(Front(acts), act)
  BY DEF Continue, Callers
<1> QED BY <1>1, ActCalm, CalmReplace

\* The query goes on with the same goals.
SameGoals(act) == act.kind = "query" /\ act.goals = Act.goals

LEMMA CalmQuery ==
  ASSUME OwnersInv, acts # << >>, Act.kind = "query",
         NEW act, SameGoals(act), Continue(act)
  PROVE  Calm(acts')
<1>1. CalmAt(act, Len(acts))
  BY ActCalm DEF CalmAt, SameGoals
<1> QED BY <1>1, CalmContinue

LEMMA CalmGoalDone ==
  ASSUME OwnersInv, acts # << >>, Act.kind = "query", Succeed \/ Fail \/ Error
  PROVE  Calm(acts')
<1>1. PICK query \in QueryActs(Cells) : query = Act
  BY ActTyped DEF OwnersInv
<1>2. ASSUME NEW act, act = [query EXCEPT !.next = @ + 1, !.from = 1]
      PROVE  SameGoals(act)
  BY <1>1, <1>2 DEF QueryActs, SameGoals
<1>3. ASSUME NEW run, NEW act, act = [query EXCEPT !.run = run]
      PROVE  SameGoals(act)
  BY <1>1, <1>3 DEF QueryActs, SameGoals
<1>4. CASE Succeed
  BY <1>1, <1>2, <1>4, CalmQuery DEF Succeed
<1>5. CASE Fail
  BY <1>1, <1>3, <1>5, CalmQuery DEF Fail
<1>6. CASE Error
  BY <1>1, <1>3, <1>6, CalmQuery DEF Error
<1> QED BY <1>4, <1>5, <1>6

LEMMA CalmEnterQuery ==
  ASSUME OwnersInv, NEW goals \in Seq(Goals), NEW callers, Stack(callers, Cells),
         Calm(callers), KeepsCore(goals), callers = << >> \/ NoUnload(goals),
         EnterQuery(goals, callers)
  PROVE  Calm(acts')
<1>1. PICK parsed : parsed = parse_goals(goals)
  OBVIOUS
<1>2. pool \in Pools
  BY DEF OwnersInv, StoreInv, PoolOK
<1>3. /\ parsed.goals \in Seq(Asked(parsed.pool.offset)) /\ Len(parsed.goals) = Len(goals)
      /\ \A i \in 1 .. Len(goals) : AskedAs(parsed.pool, parsed.goals[i], goals[i])
  BY <1>1, <1>2, ParseGoalsWorks
<1>4. PICK query : query =
        [kind |-> "query", goals |-> parsed.goals, next |-> 1, from |-> 1,
         alternatives |-> << >>, run |-> "go", string_mark |-> pool.offset,
         db_mark |-> Len(database)]
  OBVIOUS
<1>5. acts' = Append(callers, query)
  BY <1>1, <1>4 DEF EnterQuery
<1>6. DOMAIN parsed.goals = 1 .. Len(goals) /\ DOMAIN goals = 1 .. Len(goals)
  BY <1>3
<1>7. \A i \in 1 .. Len(goals) : /\ parsed.goals[i].op = goals[i].op
                                 /\ parsed.goals[i].files = goals[i].files
                                 /\ parsed.goals[i].names = goals[i].names
  BY <1>3 DEF AskedAs
<1>8. KeepsCore(parsed.goals) /\ (NoUnload(goals) => NoUnload(parsed.goals))
  BY <1>6, <1>7 DEF KeepsCore, NoUnload
<1>10. callers = << >> => Len(callers) + 1 = 1
  OBVIOUS
<1>11. CalmAt(query, Len(callers) + 1)
  BY <1>4, <1>8, <1>10 DEF CalmAt
<1> QED BY <1>5, <1>11, CalmPush

LEMMA NoUnloadKeepsCore == ASSUME NEW goals, NoUnload(goals) PROVE KeepsCore(goals)
BY DEF NoUnload, KeepsCore

LEMMA CalmBacktrack == ASSUME OwnersInv, Backtrack PROVE Calm(acts')
<1>1. acts # << >> /\ Act.kind = "query"
  BY DEF Backtrack, InQuery
<1>2. CASE Act.alternatives = << >>
  BY <1>1, <1>2, CalmGoalDone DEF Backtrack
<1>3. CASE Act.alternatives # << >>
  <2>1. PICK query \in QueryActs(Cells) : query = Act
    BY <1>1, ActTyped DEF OwnersInv
  <2>2. PICK frame : frame = Last(query.alternatives)
    OBVIOUS
  <2>3. PICK rest : rest = Front(query.alternatives)
    OBVIOUS
  <2>4. PICK back : back = [query EXCEPT !.next = frame.next, !.from = frame.from,
                                         !.alternatives = rest, !.run = "go"]
    OBVIOUS
  <2>5. SameGoals(back)
    BY <2>1, <2>4 DEF QueryActs, SameGoals
  <2>6. Continue(back)
    BY <1>3, <2>1, <2>2, <2>3, <2>4 DEF Backtrack
  <2> QED BY <1>1, <2>5, <2>6, CalmQuery
<1> QED BY <1>2, <1>3

LEMMA CalmCall == ASSUME OwnersInv, Call PROVE Calm(acts')
<1>1. acts # << >> /\ Act.kind = "query"
  BY DEF Call, Running, InQuery
<1>2. PICK found : found = {i \in Act.from .. Len(database) :
                              database[i].at[1] = Goal.at[1]}
  OBVIOUS
<1>3. CASE found = {}
  BY <1>1, <1>2, <1>3, CalmGoalDone DEF Call
<1>4. CASE found # {}
  <2>1. PICK query \in QueryActs(Cells) : query = Act
    BY <1>1, ActTyped DEF OwnersInv
  <2>2. PICK rest : rest = Append(query.alternatives,
                                  [next |-> query.next, from |-> Min(found) + 1])
    OBVIOUS
  <2>3. PICK tried : tried = [query EXCEPT !.next = @ + 1, !.from = 1,
                                           !.alternatives = rest]
    OBVIOUS
  <2>4. SameGoals(tried)
    BY <2>1, <2>3 DEF QueryActs, SameGoals
  <2>5. Continue(tried)
    BY <1>2, <1>4, <2>1, <2>2, <2>3 DEF Call
  <2> QED BY <1>1, <2>4, <2>5, CalmQuery
<1> QED BY <1>3, <1>4

\* Goals that succeed, fail or are errors.
LEMMA CalmGoals ==
  ASSUME OwnersInv,
         \/ Solution \/ Assertz \/ Asserta \/ Retract \/ Retractall \/ Abolish
         \/ Dynamic \/ Op \/ Unconsult
  PROVE  Calm(acts')
<1>1. acts # << >> /\ Act.kind = "query" /\ (Succeed \/ Fail \/ Error)
  <2>1. CASE Solution
    BY <2>1 DEF Solution, InQuery
  <2>2. CASE Assertz \/ Asserta
    BY <2>2 DEF Assertz, Asserta, AssertClause, Running, InQuery
  <2>3. CASE Retract
    BY <2>3 DEF Retract, Running, InQuery
  <2>4. CASE Retractall
    BY <2>4 DEF Retractall, Running, InQuery
  <2>5. CASE Abolish
    BY <2>5 DEF Abolish, Running, InQuery
  <2>6. CASE Dynamic \/ Op
    BY <2>6 DEF Dynamic, Op, Running, InQuery
  <2>7. CASE Unconsult
    BY <2>7 DEF Unconsult, Running, InQuery
  <2> QED BY <2>1, <2>2, <2>3, <2>4, <2>5, <2>6, <2>7
<1> QED BY <1>1, CalmGoalDone

LEMMA CalmEndQuery == ASSUME OwnersInv, EndQuery PROVE Calm(acts')
<1>1. acts # << >> /\ Act.kind = "query"
  BY DEF EndQuery, InQuery
<1>2. Stack(acts, Cells) /\ Calm(acts)
  BY <1>1, ActCalm
<1>3. PICK below : below = Front(acts)
  OBVIOUS
<1>4. Calm(below)
  BY <1>1, <1>2, <1>3, CalmPop
<1>5. /\ Stack(below, Cells)
      /\ below # << >> => Last(below).kind # "query"
  BY <1>1, <1>2, <1>3, StackPop DEF Act
<1>6. CASE below = << >>
  BY <1>3, <1>4, <1>6 DEF EndQuery, Callers
<1>7. CASE below # << >>
  <2>1. Last(below) \in QueryActs(Cells) \cup LoadActs
    BY <1>5, <1>7, FrontAndLast DEF Stack
  <2>2. PICK load \in LoadActs : load = Last(below)
    BY <1>5, <1>7, <2>1 DEF QueryActs
  <2>3. PICK stopped : stopped = [load EXCEPT !.stop = parse_error]
    OBVIOUS
  <2>4. stopped.kind = "load" /\ load.kind = "load" /\ stopped.items = load.items
    BY <2>3 DEF LoadActs
  <2>5. acts' = Append(Front(below), stopped)
    BY <1>3, <1>7, <2>2, <2>3 DEF EndQuery, Callers
  <2>6. CalmAt(load, Len(below))
    BY <1>4, <1>5, <1>7, <2>2, CalmPop
  <2>7. CalmAt(stopped, Len(below))
    BY <2>4, <2>6 DEF CalmAt
  <2> QED BY <1>4, <1>5, <1>7, <2>5, <2>7, CalmReplace
<1> QED BY <1>6, <1>7

LEMMA CalmEndLoad == ASSUME OwnersInv, EndLoad PROVE Calm(acts')
<1>1. acts # << >> /\ Act.kind = "load"
  BY DEF EndLoad
<1>2. PICK below : below = Front(acts)
  OBVIOUS
<1>3. Stack(acts, Cells) /\ Calm(acts)
  BY <1>1, ActCalm
<1>4. /\ Stack(below, Cells)
      /\ below # << >> => Last(below).kind # "load"
  BY <1>1, <1>2, <1>3, StackPop DEF Act
<1>5. below # << >> => Last(below).kind = "query"
  <2>1. below # << >> => Last(below) \in QueryActs(Cells) \cup LoadActs
    BY <1>4, FrontAndLast DEF Stack
  <2> QED BY <1>4, <2>1 DEF QueryActs, LoadActs
<1>6. Calm(below)
  BY <1>1, <1>2, <1>3, CalmPop
<1>7. acts' = Return(below, ~Act.stop)
  BY <1>2 DEF EndLoad, Callers
<1> QED BY <1>4, <1>5, <1>6, <1>7, CalmReturn

\* The lines after the first.
LEMMA LoadsOnlyTail ==
  ASSUME NEW items \in Seq(Items), items # << >>, LoadsOnly(items)
  PROVE  LoadsOnly(Tail(items))
<1>1. /\ DOMAIN Tail(items) = 1 .. Len(items) - 1
      /\ \A i \in 1 .. Len(items) - 1 :
           Tail(items)[i] = items[i + 1] /\ i + 1 \in DOMAIN items
  OBVIOUS
<1> QED BY <1>1 DEF LoadsOnly

LEMMA CalmLoadClause == ASSUME OwnersInv, LoadClause PROVE Calm(acts')
<1>1. acts # << >> /\ Act.kind = "load" /\ Act.items # << >>
  BY DEF LoadClause, InLoad
<1>2. PICK load \in LoadActs : load = Act
  BY <1>1, ActTyped DEF OwnersInv
<1>3. load.items \in Seq(Items) /\ load.items # << >>
  BY <1>1, <1>2 DEF LoadActs
<1>4. \E stop \in BOOLEAN : Continue([load EXCEPT !.items = Tail(@), !.stop = stop])
  BY <1>2 DEF LoadClause, NextItem
<1>5. PICK stop \in BOOLEAN : Continue([load EXCEPT !.items = Tail(@), !.stop = stop])
  BY <1>4
<1>6. PICK next : next = [load EXCEPT !.items = Tail(@), !.stop = stop]
  OBVIOUS
<1>7. next.kind = "load" /\ next.items = Tail(load.items) /\ Continue(next)
  BY <1>5, <1>6 DEF LoadActs
<1>8. CalmAt(next, Len(acts))
  <2>1. LoadsOnly(load.items)
    BY <1>1, <1>2, ActCalm DEF CalmAt
  <2>2. LoadsOnly(Tail(load.items))
    BY <1>3, <2>1, LoadsOnlyTail
  <2> QED BY <1>7, <2>2 DEF CalmAt
<1> QED BY <1>1, <1>7, <1>8, CalmContinue

LEMMA CalmLoadDirective == ASSUME OwnersInv, LoadDirective PROVE Calm(acts')
<1>1. acts # << >> /\ Act.kind = "load" /\ Act.items # << >> /\ Item.is = "directive"
  BY DEF LoadDirective, InLoad
<1>2. PICK load \in LoadActs : load = Act
  BY <1>1, ActTyped DEF OwnersInv
<1>3. PICK next : next = [load EXCEPT !.items = Tail(@)]
  OBVIOUS
<1>4. PICK callers : callers = Append(Front(acts), next)
  OBVIOUS
<1>5. EnterQuery(Item.goals, callers)
  BY <1>2, <1>3, <1>4 DEF LoadDirective, Callers
<1>6. load.items \in Seq(Items) /\ load.items # << >> /\ Item = load.items[1]
      /\ 1 \in DOMAIN load.items
  BY <1>1, <1>2 DEF LoadActs, Item
<1>7. Item.goals \in Seq(Goals)
  <2>1. load.items[1] \in Items
    BY <1>6
  <2> QED BY <1>1, <1>6, <2>1 DEF Items
<1>8. Stack(acts, Cells) /\ Calm(acts) /\ LoadsOnly(load.items)
  BY <1>1, <1>2, ActCalm DEF CalmAt
<1>9. NoUnload(Item.goals)
  BY <1>1, <1>6, <1>8 DEF LoadsOnly
<1>10. next \in LoadActs /\ next.kind = "load" /\ next.items = Tail(load.items)
  <2>1. Tail(load.items) \in Seq(Items)
    BY <1>6
  <2> QED BY <1>3, <2>1 DEF LoadActs
<1>11. CalmAt(next, Len(acts))
  <2>1. LoadsOnly(Tail(load.items))
    BY <1>6, <1>8, LoadsOnlyTail
  <2> QED BY <1>10, <2>1 DEF CalmAt
<1>12. next \in QueryActs(Cells) \cup LoadActs /\ next.kind = Last(acts).kind
  BY <1>1, <1>10 DEF Act
<1>13. Stack(callers, Cells)
  <2>1. GoesOn(callers, acts, next)
    BY <1>1, <1>4, <1>8, <1>12 DEF GoesOn
  <2> QED BY <1>1, <1>4, <1>8, <1>12, <2>1, StackReplace
<1>14. Calm(callers)
  BY <1>1, <1>4, <1>8, <1>11, CalmReplace
<1>15. KeepsCore(Item.goals)
  BY <1>9, NoUnloadKeepsCore
<1> QED BY <1>5, <1>7, <1>9, <1>13, <1>14, <1>15, CalmEnterQuery

\* One goal is replaced by another, which loads again.
LEMMA CalmOther ==
  ASSUME NEW k, NEW query, NEW act, CalmAt(query, k), query.kind = "query",
         act.kind = "query", DOMAIN act.goals = DOMAIN query.goals,
         NEW i \in DOMAIN query.goals,
         act.goals[i].op = "reload",
         \A j \in DOMAIN query.goals : j # i => act.goals[j] = query.goals[j]
  PROVE  CalmAt(act, k)
<1>1. KeepsCore(query.goals) /\ (k = 1 \/ NoUnload(query.goals))
  BY DEF CalmAt
<1>2. KeepsCore(act.goals)
  BY <1>1 DEF KeepsCore
<1>3. NoUnload(query.goals) => NoUnload(act.goals)
  BY DEF NoUnload
<1> QED BY <1>1, <1>2, <1>3 DEF CalmAt

LEMMA CalmLoadNext == ASSUME CoreStays, OwnersInv, LoadNext PROVE Calm(acts')
<1>1. PICK op \in {"consult", "include", "reload"} : Running(op)
  BY DEF LoadNext
<1>2. /\ acts # << >> /\ Act.kind = "query" /\ Act \in QueryActs(Cells)
      /\ Act.next \in DOMAIN Act.goals /\ Goal \in Asked(Cells) /\ Goal.op = op
  BY <1>1, GoalTyped DEF OwnersInv
<1>3. CASE Fail \/ Succeed
  BY <1>2, <1>3, CalmGoalDone
<1>4. CASE ~(Fail \/ Succeed)
  <2>1. PICK query \in QueryActs(Cells) : query = Act
    BY <1>2
  <2>2. PICK waiting : waiting = [query EXCEPT !.from = @ + 1]
    OBVIOUS
  <2>3. PICK file : file = Goal.files[query.from]
    OBVIOUS
  <2>6. PICK callers : callers = Append(Front(acts), waiting)
    OBVIOUS
  <2>7. ~(query.from > Len(Goal.files)) /\ load_file(file, callers)
    BY <1>4, <2>1, <2>2, <2>3, <2>6 DEF LoadNext, Callers
  <2>8. Goal.files \in Seq(Files) /\ query.from \in Nat \ {0}
    BY <1>2 DEF Asked, QueryActs
  <2>9. file \in Files
    <3>1. query.from \in 1 .. Len(Goal.files)
      BY <2>7, <2>8
    <3> QED BY <2>3, <2>8, <3>1, InSeq
  <2>13. /\ waiting.kind = "query" /\ waiting.goals = query.goals
         /\ waiting \in QueryActs(Cells)
    <3>1. PICK from \in Nat \ {0} : from = query.from + 1
      BY <2>8
    <3>2. waiting = [query EXCEPT !.from = from]
      BY <2>2, <3>1
    <3> QED BY <2>1, <3>1, <3>2 DEF QueryActs
  <2>14. Stack(acts, Cells) /\ Calm(acts) /\ CalmAt(query, Len(acts)) /\ query.kind = "query"
    BY <1>2, <2>1, ActCalm
  <2>15. CalmAt(waiting, Len(acts))
    BY <2>13, <2>14 DEF CalmAt
  <2>16. Calm(callers)
    BY <1>2, <2>6, <2>14, <2>15, CalmReplace
  <2>17. Stack(callers, Cells) /\ callers # << >> /\ Last(callers) = waiting
    <3>1. waiting \in QueryActs(Cells) \cup LoadActs /\ waiting.kind = Last(acts).kind
      BY <1>2, <2>13 DEF Act
    <3>2. GoesOn(callers, acts, waiting)
      BY <1>2, <2>6, <3>1 DEF GoesOn
    <3> QED BY <2>14, <3>1, <3>2, StackReplace
  <2>18. CASE acts' = Return(callers, CanOpen(file))
    <3>1. Last(callers).kind = "query"
      BY <2>13, <2>17
    <3> QED BY <2>16, <2>17, <2>18, <3>1, CalmReturn
  <2>19. CASE acts' # Return(callers, CanOpen(file))
    <3>1. PICK load : load = [kind |-> "load", file |-> file, items |-> Text(file).items,
                              stop |-> FALSE]
      OBVIOUS
    <3>2. acts' = Append(callers, load)
      BY <2>7, <2>9, <2>19, <3>1 DEF load_file
    <3>3. LoadsOnly(Text(file).items)
      <4>1. disk[file] \in DOMAIN Versions[file]
        BY <2>9 DEF OwnersInv, StoreInv, DiskOK
      <4> QED BY <2>9, <4>1 DEF CoreStays, Text
    <3>4. CalmAt(load, Len(callers) + 1)
      BY <3>1, <3>3 DEF CalmAt
    <3> QED BY <2>16, <2>17, <3>2, <3>4, CalmPush
  <2> QED BY <2>18, <2>19
<1> QED BY <1>3, <1>4

-----------------------------------------------------------------------------
(* Where make/0 and unconsult/1 run, and what runs after make/0            *)

LEMMA OneQuery ==
  ASSUME StoreInv, acts # << >>, Act.kind = "query", Len(acts) = 1
  PROVE  include_depth = 0
<1>1. PICK below : below = Front(acts)
  OBVIOUS
<1>2. PICK top : top = Last(acts)
  OBVIOUS
<1>3. Stack(below, Cells) /\ include_depth = Depth(below) + AsLoad(top)
  BY <1>1, <1>2, StackPop DEF StoreInv, ActsOK
<1>4. below = << >>
  <2>1. acts \in Seq(QueryActs(Cells) \cup LoadActs)
    BY DEF StoreInv, ActsOK, Stack
  <2> QED BY <1>1, <2>1 DEF Front
<1>5. Depth(below) = 0
  <2>1. Loads(below) = {}
    BY <1>4 DEF Loads
  <2> QED BY <2>1, FS_EmptySet DEF Depth
<1> QED BY <1>2, <1>3, <1>5 DEF Act, AsLoad

LEMMA Alone ==
  ASSUME OwnersInv, NEW op \in {"make", "unconsult"}, Running(op)
  PROVE  Len(acts) = 1 /\ include_depth = 0 /\ current_source_file = 0
<1>1. /\ acts # << >> /\ Act.kind = "query" /\ Act.next \in DOMAIN Act.goals
      /\ Goal.op = op
  BY GoalTyped DEF OwnersInv
<1>2. Len(acts) = 1 \/ NoUnload(Act.goals)
  BY <1>1, ActCalm DEF CalmAt
<1>3. ~NoUnload(Act.goals)
  BY <1>1 DEF NoUnload, Goal
<1>4. include_depth = 0
  BY <1>1, <1>2, <1>3, OneQuery DEF OwnersInv
<1> QED BY <1>2, <1>3, <1>4 DEF OwnersInv, Placed

OtherStep ==
  \/ Solution \/ Backtrack \/ EndQuery
  \/ Call \/ Assertz \/ Asserta \/ Retract \/ Retractall \/ Abolish
  \/ Dynamic \/ Op
  \/ LoadClause \/ LoadDirective \/ EndLoad \/ Make \/ Unconsult

\* After make/0 the files are loaded again, before anything else.
LEMMA OtherFirst == ASSUME OwnersInv, OtherStep PROVE CoreFirst
<1> SUFFICES ASSUME Reloading PROVE FALSE
  BY DEF OwnersInv
<1>1. Running("reload")
  BY DEF Reloading
<1>2. /\ Act.kind = "query" /\ Act.run = "go" /\ Goal.op = "reload"
      /\ Act \in QueryActs(Cells) /\ Act.next <= Len(Act.goals)
  BY <1>1, GoalTyped DEF Running, InQuery, OwnersInv
<1>3. ~(Act.next > Len(Act.goals))
  <2>1. PICK n \in Nat : n = Act.next
    BY <1>2 DEF QueryActs
  <2>2. PICK m \in Nat : m = Len(Act.goals)
    BY <1>2 DEF QueryActs
  <2> QED BY <1>2, <2>1, <2>2
<1>4. ~Solution /\ ~Backtrack /\ ~EndQuery
  BY <1>2, <1>3 DEF Solution, Backtrack, EndQuery, InQuery
<1>5. ~LoadClause /\ ~LoadDirective /\ ~EndLoad
  BY <1>2 DEF LoadClause, LoadDirective, EndLoad, InLoad
<1>6. ~Call /\ ~Assertz /\ ~Asserta /\ ~Retract /\ ~Retractall /\ ~Abolish
  BY <1>2 DEF Call, Assertz, Asserta, AssertClause, Retract, Retractall, Abolish, Running
<1>7. ~Dynamic /\ ~Op /\ ~Make /\ ~Unconsult
  BY <1>2 DEF Dynamic, Op, Make, Unconsult, Running
<1> QED BY <1>4, <1>5, <1>6, <1>7 DEF OtherStep

-----------------------------------------------------------------------------
(* The clauses                                                             *)

LEMMA OwnersTyped ==
  ASSUME OwnersInv
  PROVE  /\ database \in Seq(Clauses) /\ Len(make_files) \in Nat
         /\ \A c \in Clauses : c \in Clause(Cells) /\ c.source_file \in 0 .. Len(make_files)
<1>1. database \in Seq(Clause(Cells)) /\ make_files \in Seq([path : Files, mtime : Nat])
  BY DEF OwnersInv, StoreInv, DatabaseOK, FilesOK
<1>2. DOMAIN database = 1 .. Len(database) /\ Len(database) \in Nat
  BY <1>1
<1>3. Clauses = {database[i] : i \in DOMAIN database}
  BY DEF Clauses, Range
<1>4. database \in Seq(Clauses)
  <2>1. database \in [1 .. Len(database) -> Clauses]
    BY <1>1, <1>2, <1>3
  <2> QED BY <1>2, <2>1
<1>5. \A c \in Clauses : c \in Clause(Cells) /\ c.source_file \in 0 .. Len(make_files)
  BY <1>1, <1>2, <1>3, InSeq DEF OwnersInv, OwnersIn
<1>6. Len(make_files) \in Nat
  BY <1>1
<1> QED BY <1>4, <1>5, <1>6

LEMMA OwnersOfSome ==
  ASSUME NEW n, NEW S, \A c \in S : c.source_file \in 0 .. n, NEW db \in Seq(S)
  PROVE  OwnersIn(db, n)
<1>1. DOMAIN db = 1 .. Len(db)
  OBVIOUS
<1>2. ASSUME NEW k \in 1 .. Len(db) PROVE db[k] \in S
  BY InSeq
<1> QED BY <1>1, <1>2 DEF OwnersIn

\* Some clauses go.
LEMMA FewerOwned ==
  ASSUME OwnersInv, NEW gone, NEW r, r = Without(database, gone)
  PROVE  OwnersIn(r, Len(make_files))
<1>1. r \in Seq(Clauses)
  BY OwnersTyped, WithoutWorks
<1> QED BY <1>1, OwnersTyped, OwnersOfSome

\* One comes, first or last.
LEMMA MoreOwned ==
  ASSUME OwnersInv, NEW clause, clause.source_file \in 0 .. Len(make_files),
         NEW r, r = Append(database, clause) \/ r = <<clause>> \o database
  PROVE  OwnersIn(r, Len(make_files))
<1>1. PICK S : S = Clauses \cup {clause}
  OBVIOUS
<1>2. database \in Seq(S)
  BY <1>1, OwnersTyped, WiderSeq
<1>3. \A c \in S : c.source_file \in 0 .. Len(make_files)
  BY <1>1, OwnersTyped
<1>4. clause \in S
  BY <1>1
<1>5. r \in Seq(S)
  <2>1. CASE r = Append(database, clause)
    BY <1>2, <1>4, <2>1
  <2>2. CASE r = <<clause>> \o database
    <3>1. <<clause>> \in Seq(S)
      BY <1>4
    <3> QED BY <1>2, <2>2, <3>1
  <2> QED BY <2>1, <2>2
<1> QED BY <1>3, <1>5, OwnersOfSome

-----------------------------------------------------------------------------
(* What the steps do to the store                                          *)

StoreOwned ==
  /\ Placed /\ OwnersIn(database, Len(make_files))
  /\ CoreFirst \/ Reloading

\* The files stay, the clauses have owners.
LEMMA SameFilesOwned ==
  ASSUME OwnersInv, CoreFirst, UNCHANGED loading, OwnersIn(database', Len(make_files))
  PROVE  StoreOwned'
<1>1. UNCHANGED <<make_files, mark, current_source_file, include_depth>>
  BY DEF loading
<1> QED BY <1>1 DEF StoreOwned, OwnersInv, Placed, CoreFirst

LEMMA QuietOwned ==
  ASSUME OwnersInv, CoreFirst, UNCHANGED <<database, loading>> PROVE StoreOwned'
<1>1. OwnersIn(database', Len(make_files))
  BY DEF OwnersInv
<1> QED BY <1>1, SameFilesOwned

LEMMA GoalsOwned ==
  ASSUME OwnersInv,
         \/ Solution \/ Backtrack \/ Call \/ Dynamic \/ Op \/ LoadDirective
  PROVE  StoreOwned'
<1>1. CoreFirst
  BY OtherFirst DEF OtherStep
<1>2. UNCHANGED <<database, loading>>
  BY DEF Solution, Backtrack, Call, Dynamic, Op, LoadDirective, EnterQuery
<1> QED BY <1>1, <1>2, QuietOwned

LEMMA AssertOwned == ASSUME OwnersInv, Assertz \/ Asserta PROVE StoreOwned'
<1>1. CoreFirst
  BY OtherFirst DEF OtherStep
<1>2. PICK op \in {"assertz", "asserta"} : AssertClause(op)
  BY DEF Assertz, Asserta
<1>3. UNCHANGED loading
  BY <1>2 DEF AssertClause
<1>4. CASE UNCHANGED database
  BY <1>1, <1>3, <1>4, QuietOwned
<1>5. CASE ~UNCHANGED database
  <2>1. PICK clause : clause = [at |-> InternPointers(pool, Goal.at).at, source_file |-> 0]
    OBVIOUS
  <2>2. database' = Append(database, clause) \/ database' = <<clause>> \o database
    BY <1>2, <1>5, <2>1 DEF AssertClause
  <2>3. clause.source_file \in 0 .. Len(make_files)
    BY <2>1, OwnersTyped
  <2>4. OwnersIn(database', Len(make_files))
    BY <2>2, <2>3, MoreOwned
  <2> QED BY <1>1, <1>3, <2>4, SameFilesOwned
<1> QED BY <1>4, <1>5

LEMMA RetractOwned == ASSUME OwnersInv, Retract PROVE StoreOwned'
<1>1. CoreFirst
  BY OtherFirst DEF OtherStep
<1>2. PICK found : found = {i \in DOMAIN database : Matches(database[i])}
  OBVIOUS
<1>3. /\ UNCHANGED loading
      /\ \/ UNCHANGED database
         \/ found # {} /\ database' = RemoveAt(database, Min(found))
  BY <1>2 DEF Retract
<1>4. CASE UNCHANGED database
  BY <1>1, <1>3, <1>4, QuietOwned
<1>5. CASE found # {} /\ database' = RemoveAt(database, Min(found))
  <2>1. DOMAIN database = 1 .. Len(database) /\ database \in Seq(Clauses)
    BY OwnersTyped
  <2>2. Min(found) \in 1 .. Len(database)
    <3>1. found \subseteq Nat /\ found \subseteq 1 .. Len(database)
      BY <1>2, <2>1
    <3> QED BY <1>5, <3>1, MinOfNats
  <2>3. PICK i \in 1 .. Len(database) : i = Min(found)
    BY <2>2
  <2>4. database' \in Seq(Clauses)
    BY <1>5, <2>1, <2>3, RemoveTyped
  <2>5. OwnersIn(database', Len(make_files))
    BY <2>4, OwnersTyped, OwnersOfSome
  <2> QED BY <1>1, <1>3, <2>5, SameFilesOwned
<1> QED BY <1>3, <1>4, <1>5

LEMMA RemoveAllOwned == ASSUME OwnersInv, Retractall \/ Abolish PROVE StoreOwned'
<1>1. CoreFirst
  BY OtherFirst DEF OtherStep
<1>2. UNCHANGED loading
  BY DEF Retractall, Abolish
<1>3. UNCHANGED database \/ \E gone : database' = Without(database, gone)
  BY DEF Retractall, Abolish
<1>4. OwnersIn(database', Len(make_files))
  <2>1. CASE UNCHANGED database
    BY <2>1 DEF OwnersInv
  <2>2. CASE \E gone : database' = Without(database, gone)
    BY <2>2, FewerOwned
  <2> QED BY <1>3, <2>1, <2>2
<1> QED BY <1>1, <1>2, <1>4, SameFilesOwned

LEMMA EndQueryOwned == ASSUME OwnersInv, EndQuery PROVE StoreOwned'
<1>1. CoreFirst
  BY OtherFirst DEF OtherStep
<1>2. UNCHANGED loading /\ acts # << >> /\ Act.kind = "query"
  BY DEF EndQuery, InQuery
<1>3. PICK query \in QueryActs(Cells) : query = Act
  BY <1>2, ActTyped DEF OwnersInv
<1>4. PICK rolled_back :
        /\ rolled_back = IF seems_unchanged
                         THEN [pool EXCEPT !.offset = Act.string_mark] ELSE pool
        /\ UNCHANGED database \/ database' = Compacted(rolled_back).database
  BY DEF EndQuery
<1>5. rolled_back \in Pools /\ rolled_back.cells = pool.cells
  <2>1. PICK mark_ \in 0 .. Cells : mark_ = Act.string_mark
    BY <1>3 DEF QueryActs
  <2>2. pool \in Pools
    BY DEF OwnersInv, StoreInv, PoolOK
  <2>3. ASSUME NEW p, p = [pool EXCEPT !.offset = mark_]
        PROVE  p \in Pools /\ p.cells = pool.cells
    BY <2>2, <2>3 DEF Pools, Cells
  <2> QED BY <1>4, <2>1, <2>2, <2>3
<1>6. OwnersIn(database', Len(make_files))
  <2>1. CASE UNCHANGED database
    BY <2>1 DEF OwnersInv
  <2>2. CASE database' = Compacted(rolled_back).database
    <3>1. PICK compacted : compacted = Compacted(rolled_back)
      OBVIOUS
    <3>2. database \in Seq(Clause(Len(rolled_back.cells)))
      BY <1>5 DEF OwnersInv, StoreInv, DatabaseOK, Cells
    <3>3. /\ compacted.database \in Seq(Clause(Len(compacted.pool.cells)))
          /\ Len(compacted.database) = Len(database)
          /\ \A i \in 1 .. Len(database) :
               compacted.database[i].source_file = database[i].source_file
      BY <1>5, <3>1, <3>2, CompactedWorks
    <3>4. /\ DOMAIN database' = 1 .. Len(database)
          /\ DOMAIN database = 1 .. Len(database)
      BY <2>2, <3>1, <3>2, <3>3
    <3> QED BY <2>2, <3>1, <3>3, <3>4 DEF OwnersInv, OwnersIn
  <2> QED BY <1>4, <2>1, <2>2
<1> QED BY <1>1, <1>2, <1>6, SameFilesOwned

LEMMA LoadClauseOwned == ASSUME OwnersInv, LoadClause PROVE StoreOwned'
<1>1. CoreFirst
  BY OtherFirst DEF OtherStep
<1>2. UNCHANGED loading
  BY DEF LoadClause
<1>3. PICK clause :
        clause = [at |-> InternNames(pool, Item.names).at,
                  source_file |-> current_source_file]
  OBVIOUS
<1>4. UNCHANGED database \/ database' = Append(database, clause)
  BY <1>3 DEF LoadClause
<1>5. clause.source_file \in 0 .. Len(make_files)
  BY <1>3 DEF OwnersInv, Placed
<1>6. OwnersIn(database', Len(make_files))
  <2>1. CASE UNCHANGED database
    BY <2>1 DEF OwnersInv
  <2>2. CASE database' = Append(database, clause)
    BY <1>5, <2>2, MoreOwned
  <2> QED BY <1>4, <2>1, <2>2
<1> QED BY <1>1, <1>2, <1>6, SameFilesOwned

LEMMA EndLoadOwned == ASSUME OwnersInv, EndLoad PROVE StoreOwned'
<1>1. CoreFirst
  BY OtherFirst DEF OtherStep
<1>2. UNCHANGED <<database, make_files, mark>> /\ current_source_file' = 0
  BY DEF EndLoad
<1>3. 0 \in 0 .. Len(make_files)
  BY OwnersTyped
<1> QED BY <1>1, <1>2, <1>3 DEF StoreOwned, OwnersInv, Placed, CoreFirst

\* make/0: nothing changed, or no clause and no file is left, and the core
\* library is the first to load.
LEMMA MakeOwned == ASSUME OwnersInv, Make PROVE StoreOwned' /\ Calm(acts')
<1>1. Running("make")
  BY DEF Make
<1>2. /\ acts # << >> /\ Act.kind = "query" /\ Act \in QueryActs(Cells)
      /\ Act.next \in DOMAIN Act.goals /\ Act.run = "go"
  BY <1>1, GoalTyped DEF OwnersInv, Running, InQuery
<1>3. CoreFirst
  BY OtherFirst DEF OtherStep
<1>4. UNCHANGED <<mark, current_source_file, include_depth, complete>>
  BY DEF Make
<1>5. CASE Succeed /\ UNCHANGED <<database, pool, make_files>>
  <2>1. UNCHANGED <<database, loading>>
    BY <1>4, <1>5 DEF loading
  <2>2. Calm(acts')
    BY <1>2, <1>5, CalmGoalDone
  <2> QED BY <1>3, <2>1, <2>2, QuietOwned
<1>6. CASE ~(Succeed /\ UNCHANGED <<database, pool, make_files>>)
  <2>1. PICK query \in QueryActs(Cells) : query = Act
    BY <1>2
  <2>2. PICK files : files = [i \in DOMAIN make_files |-> make_files[i].path]
    OBVIOUS
  <2>3. PICK goal : goal = [op |-> "reload", at |-> << >>, names |-> << >>, files |-> files]
    OBVIOUS
  <2>4. PICK goals : goals = [query.goals EXCEPT ![query.next] = goal]
    OBVIOUS
  <2>5. PICK reload : reload = [query EXCEPT !.goals = goals, !.from = 1]
    OBVIOUS
  <2>6. /\ database' = SubSeq(database, 1, mark.db) /\ make_files' = << >>
        /\ Continue(reload)
    BY <1>6, <2>1, <2>2, <2>3, <2>4, <2>5 DEF Make
  <2>7. database' = << >>
    <3>1. mark.db = 0 /\ database \in Seq(Clauses)
      BY OwnersTyped DEF OwnersInv, Placed
    <3> QED BY <2>6, <3>1
  <2>8. files # << >> /\ files[1] = Core
    <3>1. make_files \in Seq([path : Files, mtime : Nat])
      BY DEF OwnersInv, StoreInv, FilesOK
    <3>2. 1 \in DOMAIN make_files /\ make_files[1].path = Core
      BY <1>3, <3>1 DEF CoreFirst
    <3> QED BY <2>2, <3>2
  <2>9. /\ query.goals \in Seq(Asked(Cells)) /\ query.next \in DOMAIN query.goals
        /\ query.next \in Nat \ {0}
    BY <1>2, <2>1 DEF QueryActs
  <2>10. /\ DOMAIN goals = DOMAIN query.goals /\ goals[query.next] = goal
         /\ \A j \in DOMAIN query.goals : j # query.next => goals[j] = query.goals[j]
         /\ Len(goals) = Len(query.goals)
    BY <2>4, <2>9
  <2>11. /\ reload.kind = "query" /\ reload.goals = goals /\ reload.next = query.next
         /\ reload.run = query.run /\ reload.from = 1
    BY <2>5 DEF QueryActs
  <2>12. goal.op = "reload" /\ goal.files = files
    BY <2>3
  <2>13. CalmAt(reload, Len(acts))
    <3>1. CalmAt(query, Len(acts)) /\ query.kind = "query"
      BY <1>2, <2>1, ActCalm
    <3> QED BY <2>9, <2>10, <2>11, <2>12, <3>1, CalmOther
  <2>14. Calm(acts')
    BY <1>2, <2>6, <2>13, CalmContinue
  <2>15. Len(acts) = 1 /\ current_source_file = 0
    BY <1>1, Alone
  <2>16. acts' = <<reload>>
    <3>1. acts \in Seq(QueryActs(Cells) \cup LoadActs)
      BY DEF OwnersInv, StoreInv, ActsOK, Stack
    <3>2. Front(acts) = << >>
      BY <2>15, <3>1 DEF Front
    <3> QED BY <2>6, <3>2 DEF Continue, Callers
  <2>17. Act' = reload /\ Len(acts') = 1 /\ acts' # << >>
    BY <2>16 DEF Act, Last
  <2>18. Goal' = goal
    BY <2>10, <2>11, <2>17 DEF Goal
  <2>19. Running("reload")'
    <3>1. query.next <= Len(query.goals)
      BY <1>1, <2>1 DEF Running
    <3> QED BY <1>2, <2>1, <2>10, <2>11, <2>12, <2>17, <2>18, <3>1 DEF Running, InQuery
  <2>20. Reloading'
    BY <2>6, <2>7, <2>8, <2>11, <2>12, <2>17, <2>18, <2>19 DEF Reloading
  <2>21. Placed'
    BY <1>4, <2>6, <2>15 DEF OwnersInv, Placed
  <2>22. OwnersIn(database', Len(make_files'))
    BY <2>7 DEF OwnersIn
  <2> QED BY <2>14, <2>20, <2>21, <2>22 DEF StoreOwned
<1> QED BY <1>5, <1>6

LEMMA FirstStays ==
  ASSUME NEW S, NEW s \in Seq(S), NEW i \in 2 .. Len(s), NEW r, r = RemoveAt(s, i)
  PROVE  r # << >> /\ r[1] = s[1]
<1> DEFINE n == Len(s)
           before == SubSeq(s, 1, i - 1)
           after == SubSeq(s, i + 1, n)
<1>1. n \in Nat /\ n = Len(s) /\ i \in 2 .. n
  OBVIOUS
<1>2. before \in Seq(S) /\ Len(before) = i - 1 /\ before[1] = s[1]
  BY <1>1
<1>3. after \in Seq(S)
  <2>1. CASE i = n
    BY <1>1, <2>1
  <2>2. CASE i < n
    BY <1>1, <2>2
  <2> QED BY <1>1, <2>1, <2>2
<1>4. r = before \o after
  BY DEF RemoveAt
<1> HIDE DEF before, after, n
<1>5. /\ before \o after \in Seq(S)
      /\ Len(before \o after) = Len(before) + Len(after)
  BY SMTT(30), <1>2, <1>3
<1>6. Len(before) >= 1 /\ Len(after) \in Nat
  BY <1>1, <1>2, <1>3
<1>7. (before \o after)[1] = before[1]
  BY <1>2, <1>3, <1>6
<1>8. before \o after # << >>
  BY <1>1, <1>2, <1>5, <1>6
<1> QED BY <1>2, <1>4, <1>7, <1>8

\* unconsult/1: the clauses of one file, not the first, go; those of the files
\* after it move up with them.
LEMMA UnconsultOwned == ASSUME OwnersInv, Unconsult PROVE StoreOwned'
<1>1. Running("unconsult")
  BY DEF Unconsult
<1>2. /\ acts # << >> /\ Act.kind = "query" /\ Act.next \in DOMAIN Act.goals
      /\ Goal.op = "unconsult"
  BY <1>1, GoalTyped DEF OwnersInv
<1>3. CoreFirst
  BY OtherFirst DEF OtherStep
<1>4. UNCHANGED <<mark, current_source_file, include_depth, complete>>
  BY DEF Unconsult
<1>5. CASE UNCHANGED <<database, make_files>>
  <2>1. UNCHANGED <<database, loading>>
    BY <1>4, <1>5 DEF loading
  <2> QED BY <1>3, <2>1, QuietOwned
<1>6. CASE ~UNCHANGED <<database, make_files>>
  <2>1. PICK known : known = IndexOf(Goal.files[1])
    OBVIOUS
  <2>2. PICK i : i = Min(known)
    OBVIOUS
  <2>3. PICK kept : kept = Without(database, {c \in Clauses : c.source_file = i})
    OBVIOUS
  <2>4. /\ known # {} /\ make_files' = RemoveAt(make_files, i)
        /\ database' = [k \in DOMAIN kept |->
             IF kept[k].source_file > i
             THEN [kept[k] EXCEPT !.source_file = @ - 1] ELSE kept[k]]
    BY <1>6, <2>1, <2>2, <2>3 DEF Unconsult
  <2>5. /\ make_files \in Seq([path : Files, mtime : Nat]) /\ Len(make_files) \in Nat
        /\ DOMAIN make_files = 1 .. Len(make_files)
    BY DEF OwnersInv, StoreInv, FilesOK
  <2>6. i \in known /\ i \in 1 .. Len(make_files)
    <3>1. known \subseteq Nat /\ known \subseteq 1 .. Len(make_files)
      BY <2>1, <2>5 DEF IndexOf
    <3> QED BY <2>2, <2>4, <3>1, MinOfNats
  <2>7. Goal.files[1] # Core
    BY <1>2, ActCalm DEF CalmAt, KeepsCore, Goal
  <2>8. i # 1
    BY <1>3, <2>1, <2>6, <2>7 DEF CoreFirst, IndexOf
  <2>9. PICK n \in Nat : n = Len(make_files)
    BY <2>5
  <2>10. Len(make_files') = n - 1
    BY <2>4, <2>5, <2>6, <2>9, RemoveTyped
  <2>11. CoreFirst'
    <3>1. i \in 2 .. Len(make_files)
      BY <2>5, <2>6, <2>8
    <3>2. make_files' # << >> /\ make_files'[1] = make_files[1]
      BY <2>4, <2>5, <3>1, FirstStays
    <3> QED BY <1>3, <3>2 DEF CoreFirst
  <2>12. OwnersIn(database', n - 1)
    <3>1. kept \in Seq(Clauses \ {c \in Clauses : c.source_file = i})
      BY <2>3, OwnersTyped, WithoutWorks
    <3>2. DOMAIN kept = 1 .. Len(kept) /\ DOMAIN database' = DOMAIN kept
      BY <2>4, <3>1
    <3> SUFFICES ASSUME NEW k \in 1 .. Len(kept)
                 PROVE  database'[k].source_file \in 0 .. n - 1
      BY <3>2 DEF OwnersIn
    <3>3. kept[k] \in Clauses \ {c \in Clauses : c.source_file = i}
      BY <3>1, InSeq
    <3>4. PICK c \in Clause(Cells) :
            c = kept[k] /\ c.source_file \in 0 .. n /\ c.source_file # i
      BY <2>9, <3>3, OwnersTyped
    <3>5. database'[k] = IF c.source_file > i THEN [c EXCEPT !.source_file = @ - 1] ELSE c
      BY <2>4, <3>2, <3>4
    <3>6. CASE c.source_file > i
      <4>1. PICK moved : moved = [c EXCEPT !.source_file = @ - 1]
        OBVIOUS
      <4>2. moved.source_file = c.source_file - 1
        BY <4>1 DEF Clause
      <4>3. c.source_file - 1 \in 0 .. n - 1
        BY <2>6, <2>9, <3>4, <3>6
      <4> QED BY <3>5, <3>6, <4>1, <4>2, <4>3
    <3>7. CASE ~(c.source_file > i)
      <4>1. c.source_file \in 0 .. n - 1
        BY <2>6, <2>9, <3>4, <3>7
      <4> QED BY <3>5, <3>7, <4>1
    <3> QED BY <3>6, <3>7
  <2>13. current_source_file = 0 /\ include_depth = 0
    BY <1>1, Alone
  <2>14. 0 \in 0 .. n - 1
    BY <2>6, <2>9
  <2>15. Placed'
    BY <1>4, <2>10, <2>13, <2>14 DEF OwnersInv, Placed
  <2> QED BY <2>10, <2>11, <2>12, <2>15 DEF StoreOwned
<1> QED BY <1>5, <1>6

\* A file: known, new, or the core library after make/0.
LEMMA LoadFileOwned ==
  ASSUME CoreStays, OwnersInv, UNCHANGED disk, NEW file \in Files, NEW callers,
         load_file(file, callers), Reloading => file = Core
  PROVE  StoreOwned'
<1>1. PICK entry : entry = [path |-> file, mtime |-> disk[file]]
  OBVIOUS
<1>2. PICK known : known = IndexOf(file)
  OBVIOUS
<1>3. PICK n \in Nat : n = Len(make_files)
  BY OwnersTyped
<1>4. /\ make_files \in Seq([path : Files, mtime : Nat]) /\ DOMAIN make_files = 1 .. n
      /\ entry \in [path : Files, mtime : Nat] /\ entry.path = file
  <2>1. entry \in [path : Files, mtime : Nat] /\ entry.path = file
    BY <1>1, DiskTyped DEF OwnersInv
  <2>2. make_files \in Seq([path : Files, mtime : Nat])
    BY DEF OwnersInv, StoreInv, FilesOK
  <2> QED BY <1>3, <2>1, <2>2
<1>5. Reloading => CanOpen(file) /\ known = {} /\ include_depth = 0
  <2> SUFFICES ASSUME Reloading
               PROVE  CanOpen(file) /\ known = {} /\ include_depth = 0
    OBVIOUS
  <2>1. Text(Core).there
    <3>1. disk[Core] \in DOMAIN Versions[Core]
      BY StoreAssumption DEF OwnersInv, StoreInv, DiskOK
    <3> QED BY <3>1 DEF CoreStays, Text
  <2>2. include_depth = 0
    BY OneQuery DEF Reloading, OwnersInv, Running, InQuery
  <2>3. MaxOpen \in Nat \ {0}
    BY StoreAssumption
  <2>4. known = {}
    BY <1>2 DEF Reloading, IndexOf
  <2> QED BY <2>1, <2>2, <2>3, <2>4 DEF CanOpen
<1>6. CASE UNCHANGED <<database, loading>> /\ acts' = Return(callers, CanOpen(file))
           /\ (~CanOpen(file) \/ (include_depth = 0 /\ known # {}))
  <2>1. CoreFirst
    BY <1>5, <1>6 DEF OwnersInv
  <2> QED BY <1>6, <2>1, QuietOwned
<1>7. CASE ~(UNCHANGED <<database, loading>> /\ acts' = Return(callers, CanOpen(file))
             /\ (~CanOpen(file) \/ (include_depth = 0 /\ known # {})))
  <2>1. /\ include_depth' = include_depth + 1
        /\ \/ /\ include_depth > 0
              /\ UNCHANGED <<database, make_files, mark, current_source_file>>
           \/ /\ ~(include_depth > 0) /\ known # {}
              /\ database' = Without(database, {c \in Clauses : c.source_file = Min(known)})
              /\ make_files' = [make_files EXCEPT ![Min(known)] = entry]
              /\ current_source_file' = Min(known)
              /\ UNCHANGED mark
           \/ /\ ~(include_depth > 0) /\ known = {}
              /\ mark' = IF make_files # << >> THEN mark
                         ELSE [db |-> Len(database), string |-> pool.offset]
              /\ \/ /\ Len(make_files) < MaxFiles
                    /\ make_files' = Append(make_files, entry)
                    /\ current_source_file' = Len(make_files')
                 \/ /\ ~(Len(make_files) < MaxFiles)
                    /\ UNCHANGED <<make_files, current_source_file>>
              /\ UNCHANGED database
    <3>1. ~(~CanOpen(file) \/ (include_depth = 0 /\ \E i \in known : make_files[i].mtime = disk[file]))
      BY <1>2, <1>7 DEF load_file
    <3> QED BY <1>1, <1>2, <3>1 DEF load_file
  <2>2. include_depth' # 0
    <3>1. include_depth \in Nat
      BY LoadsFinite DEF OwnersInv, StoreInv, ActsOK
    <3> QED BY <2>1, <3>1
  <2>3. CASE /\ include_depth > 0
             /\ UNCHANGED <<database, make_files, mark, current_source_file>>
    <3>1. CoreFirst
      BY <1>5, <2>3 DEF OwnersInv
    <3> QED BY <2>2, <2>3, <3>1 DEF StoreOwned, OwnersInv, Placed, CoreFirst
  <2>4. CASE /\ known # {}
             /\ database' = Without(database, {c \in Clauses : c.source_file = Min(known)})
             /\ make_files' = [make_files EXCEPT ![Min(known)] = entry]
             /\ current_source_file' = Min(known) /\ UNCHANGED mark
    <3>1. CoreFirst
      BY <1>5, <2>4 DEF OwnersInv
    <3>2. known \subseteq 1 .. n /\ known \subseteq Nat
      BY <1>2, <1>4 DEF IndexOf
    <3>3. PICK i \in 1 .. n : i = Min(known) /\ i \in known
      BY <2>4, <3>2, MinOfNats
    <3>4. /\ Len(make_files') = n /\ DOMAIN make_files' = 1 .. n
          /\ make_files'[1] = IF i = 1 THEN entry ELSE make_files[1]
      BY <1>3, <1>4, <2>4, <3>3
    <3>5. i = 1 => file = Core
      BY <1>2, <3>1, <3>3 DEF IndexOf, CoreFirst
    <3>6. CoreFirst'
      <4>1. make_files' # << >>
        BY <1>3, <3>3, <3>4
      <4> QED BY <1>4, <3>1, <3>4, <3>5, <4>1 DEF CoreFirst
    <3>7. OwnersIn(database', Len(make_files'))
      BY <1>3, <2>4, <3>4, FewerOwned
    <3>8. Placed'
      BY <2>2, <2>4, <3>3, <3>4 DEF OwnersInv, Placed
    <3> QED BY <3>6, <3>7, <3>8 DEF StoreOwned
  <2>5. CASE /\ ~(include_depth > 0)
             /\ mark' = IF make_files # << >> THEN mark
                        ELSE [db |-> Len(database), string |-> pool.offset]
             /\ \/ /\ Len(make_files) < MaxFiles
                   /\ make_files' = Append(make_files, entry)
                   /\ current_source_file' = Len(make_files')
                \/ /\ ~(Len(make_files) < MaxFiles)
                   /\ UNCHANGED <<make_files, current_source_file>>
             /\ UNCHANGED database
    <3>1. mark'.db = 0
      <4>1. CASE make_files # << >>
        BY <2>5, <4>1 DEF OwnersInv, Placed
      <4>2. CASE make_files = << >>
        <5>1. database = << >>
          BY <4>2 DEF OwnersInv, CoreFirst, Reloading
        <5>2. Len(database) = 0
          BY <5>1
        <5> QED BY <2>5, <4>2, <5>2
      <4> QED BY <4>1, <4>2
    <3>2. CASE /\ Len(make_files) < MaxFiles
               /\ make_files' = Append(make_files, entry)
               /\ current_source_file' = Len(make_files')
      <4>1. Len(make_files') = n + 1 /\ make_files' # << >>
            /\ make_files'[1] = IF n = 0 THEN entry ELSE make_files[1]
        BY <1>3, <1>4, <3>2
      <4>2. CoreFirst'
        <5>1. CASE n = 0
          <6>1. ~CoreFirst
            BY <1>3, <1>4, <5>1 DEF CoreFirst
          <6>2. file = Core
            BY <6>1 DEF OwnersInv
          <6> QED BY <1>4, <4>1, <5>1, <6>2 DEF CoreFirst
        <5>2. CASE n # 0
          <6>1. make_files # << >>
            BY <1>3, <5>2
          <6>2. CoreFirst
            BY <6>1 DEF OwnersInv, Reloading
          <6> QED BY <4>1, <5>2, <6>2 DEF CoreFirst
        <5> QED BY <5>1, <5>2
      <4>3. OwnersIn(database', n + 1)
        <5>1. \A k \in DOMAIN database : database[k].source_file \in 0 .. n
          BY <1>3 DEF OwnersInv, OwnersIn
        <5>2. 0 .. n \subseteq 0 .. n + 1
          OBVIOUS
        <5> QED BY <2>5, <5>1, <5>2 DEF OwnersIn
      <4>4. current_source_file' \in 0 .. Len(make_files')
        BY <3>2, <4>1
      <4>5. Placed'
        BY <2>2, <3>1, <4>4 DEF Placed
      <4> QED BY <4>1, <4>2, <4>3, <4>5 DEF StoreOwned
    <3>3. CASE ~(Len(make_files) < MaxFiles) /\ UNCHANGED <<make_files, current_source_file>>
      <4>1. make_files # << >>
        <5>1. MaxFiles \in Nat \ {0}
          BY StoreAssumption
        <5>2. n # 0
          BY <1>3, <3>3, <5>1
        <5> QED BY <1>3, <5>2
      <4>2. CoreFirst
        BY <4>1 DEF OwnersInv, Reloading
      <4> QED BY <2>2, <2>5, <3>1, <3>3, <4>2 DEF StoreOwned, OwnersInv, Placed, CoreFirst
    <3> QED BY <2>5, <3>2, <3>3
  <2> QED BY <2>1, <2>3, <2>4, <2>5
<1> QED BY <1>6, <1>7

LEMMA LoadNextOwned == ASSUME CoreStays, OwnersInv, LoadNext PROVE StoreOwned'
<1>1. PICK op \in {"consult", "include", "reload"} : Running(op)
  BY DEF LoadNext
<1>2. /\ Goal \in Asked(Cells) /\ Goal.op = op /\ acts # << >> /\ UNCHANGED disk
      /\ Act \in QueryActs(Cells)
  BY <1>1, GoalTyped DEF OwnersInv, LoadNext
<1>3. Goal.files \in Seq(Files) /\ Act.from \in Nat \ {0}
  BY <1>2 DEF Asked, QueryActs
<1>4. Reloading => /\ Goal.op = "reload" /\ Act.from = 1 /\ ~(Act.from > Len(Goal.files))
                   /\ Goal.files[1] = Core
  <2>1. Goal.files # << >> => ~(1 > Len(Goal.files))
    BY <1>3
  <2> QED BY <2>1 DEF Reloading, Running
<1>5. CASE /\ UNCHANGED <<database, loading>>
           /\ Goal.op = "include" \/ Act.from > Len(Goal.files)
  <2>1. CoreFirst
    BY <1>4, <1>5 DEF OwnersInv
  <2> QED BY <1>5, <2>1, QuietOwned
<1>6. CASE ~(/\ UNCHANGED <<database, loading>>
             /\ Goal.op = "include" \/ Act.from > Len(Goal.files))
  <2>1. PICK callers : callers = Append(Callers, [Act EXCEPT !.from = @ + 1])
    OBVIOUS
  <2>2. PICK file : file = Goal.files[Act.from]
    OBVIOUS
  <2>3. ~(Act.from > Len(Goal.files)) /\ load_file(file, callers)
    BY <1>6, <2>1, <2>2 DEF LoadNext
  <2>4. file \in Files
    <3>1. Act.from \in 1 .. Len(Goal.files)
      BY <1>3, <2>3
    <3> QED BY <1>3, <2>2, <3>1, InSeq
  <2>5. Reloading => file = Core
    BY <1>4, <2>2
  <2> QED BY <1>2, <2>3, <2>4, <2>5, LoadFileOwned
<1> QED BY <1>5, <1>6

-----------------------------------------------------------------------------
LEMMA OwnersInit == CoreStays /\ Init => OwnersInv
<1> SUFFICES ASSUME CoreStays, Init PROVE OwnersInv
  OBVIOUS
<1>1. StoreInv
  BY InitTyped
<1>2. PICK load : load = [kind |-> "load", file |-> Core, items |-> Text(Core).items,
                          stop |-> FALSE]
  OBVIOUS
<1>3. acts = <<load>> /\ load.kind = "load" /\ load.items = Text(Core).items
  BY <1>2 DEF Init
<1>4. Calm(acts)
  <2>1. disk[Core] \in DOMAIN Versions[Core] /\ Core \in Files
    BY <1>1, StoreAssumption DEF StoreInv, DiskOK
  <2>2. LoadsOnly(load.items)
    BY <1>3, <2>1 DEF CoreStays, Text
  <2>3. CalmAt(load, 1)
    BY <1>3, <2>2 DEF CalmAt
  <2> QED BY <1>3, <2>3 DEF Calm
<1>5. make_files # << >> /\ Len(make_files) = 1 /\ make_files[1].path = Core
  BY DEF Init
<1>6. Placed /\ OwnersIn(database, Len(make_files))
  BY <1>5 DEF Init, Placed, OwnersIn
<1> QED BY <1>1, <1>4, <1>5, <1>6 DEF OwnersInv, CoreFirst

LEMMA OwnersStep == ASSUME CoreStays, OwnersInv, Step PROVE StoreOwned' /\ Calm(acts')
<1>1. CASE Solution \/ Backtrack \/ Call \/ Dynamic \/ Op \/ LoadDirective
  BY <1>1, GoalsOwned, CalmGoals, CalmBacktrack, CalmCall, CalmLoadDirective
<1>2. CASE Assertz \/ Asserta \/ Retract \/ Retractall \/ Abolish
  BY <1>2, AssertOwned, RetractOwned, RemoveAllOwned, CalmGoals
<1>3. CASE EndQuery \/ LoadClause \/ EndLoad
  BY <1>3, EndQueryOwned, LoadClauseOwned, EndLoadOwned, CalmEndQuery,
     CalmLoadClause, CalmEndLoad
<1>4. CASE LoadNext \/ Make \/ Unconsult
  BY <1>4, LoadNextOwned, MakeOwned, UnconsultOwned, CalmLoadNext, CalmGoals
<1> QED BY <1>1, <1>2, <1>3, <1>4 DEF Step

LEMMA OwnersNext ==
  ASSUME CoreStays, OwnersInv, [Next]_vars PROVE OwnersInv'
<1>1. StoreInv'
  BY NextTyped DEF OwnersInv
<1>2. StoreOwned' /\ Calm(acts')
  <2>1. CASE Step
    BY <2>1, OwnersStep
  <2>2. CASE \E goals \in Queries : Query(goals)
    <3>1. PICK goals \in Queries : Query(goals)
      BY <2>2
    <3>2. acts = << >> /\ EnterQuery(goals, << >>)
      BY <3>1 DEF Query
    <3>3. CoreFirst
      BY <3>2 DEF OwnersInv, Reloading, Running, InQuery
    <3>4. UNCHANGED <<database, loading>>
      BY <3>2 DEF EnterQuery
    <3>5. Calm(acts')
      <4>1. goals \in Seq(Goals) /\ KeepsCore(goals)
        BY StoreAssumption DEF CoreStays
      <4>2. Stack(<< >>, Cells) /\ Calm(<< >>)
        BY <3>2 DEF OwnersInv, StoreInv, ActsOK
      <4> QED BY <3>2, <4>1, <4>2, CalmEnterQuery
    <3> QED BY <3>3, <3>4, <3>5, QuietOwned
  <2>3. CASE (\E f \in Files : Edit(f)) \/ UNCHANGED vars
    <3>1. UNCHANGED <<database, make_files, mark, current_source_file, include_depth, acts>>
      BY <2>3 DEF Edit, vars, loading
    <3>2. (CoreFirst \/ Reloading)'
      BY <3>1 DEF OwnersInv, CoreFirst, Reloading, Running, InQuery, Goal, Act
    <3> QED BY <3>1, <3>2 DEF OwnersInv, StoreOwned, Placed
  <2> QED BY <2>1, <2>2, <2>3 DEF Next
<1> QED BY <1>1, <1>2 DEF OwnersInv, StoreOwned

LEMMA OwnersInvIsKnown == OwnersInv => OwnersKnown
BY OwnersTyped DEF OwnersKnown, OwnersInv, Placed

\* If the core library can always be read again and is never unconsulted, and
\* make/0 and unconsult/1 are asked for at the toplevel, not by directives, then
\* every clause that came from a file belongs to one that is tracked, and so
\* does the one being read: whatever is loaded, edited, removed from the tracked
\* files, which moves the others up, or made.
THEOREM ClausesHaveOwners == CoreStays => (Spec => []OwnersKnown)
<1> SUFFICES ASSUME CoreStays PROVE Spec => []OwnersKnown
  OBVIOUS
<1>1. Init => OwnersInv
  BY OwnersInit
<1>2. OwnersInv /\ [Next]_vars => OwnersInv'
  BY OwnersNext
<1> QED BY <1>1, <1>2, OwnersInvIsKnown, PTL DEF Spec
=============================================================================
