----------------------------- MODULE AtomsProof -----------------------------
(***************************************************************************)
(* Atoms, for all texts, arguments and sizes of the pool: what the         *)
(* builtins on atoms answer is right, and they answer if there is one.     *)
(***************************************************************************)
EXTENDS Atoms, InductionLemmas, SequenceTheorems

-----------------------------------------------------------------------------
(* Sequences.                                                              *)

LEMMA PartOfSeq ==
  ASSUME NEW S, NEW q \in Seq(S), NEW i \in Nat \ {0}, NEW j \in Nat,
         i <= j + 1, j <= Len(q), NEW u, u = SubSeq(q, i, j)
  PROVE  /\ u \in Seq(S) /\ Len(u) = j - i + 1
         /\ \A k \in 1 .. j - i + 1 : u[k] = q[i + k - 1]
<1>1. \A k \in i .. j : q[k] \in S
  <2> SUFFICES ASSUME NEW k \in i .. j PROVE q[k] \in S
    OBVIOUS
  <2>1. k \in 1 .. Len(q)
    OBVIOUS
  <2> QED BY <2>1, ElementOfSeq
<1>2. /\ u \in Seq(S) /\ Len(u) = IF i <= j THEN j - i + 1 ELSE 0
      /\ \A k \in 1 .. j - i + 1 : u[k] = q[i + k - 1]
  <2>1. i \in Int /\ j \in Int
    OBVIOUS
  <2>2. /\ SubSeq(q, i, j) \in Seq(S)
        /\ Len(SubSeq(q, i, j)) = IF i <= j THEN j - i + 1 ELSE 0
        /\ \A k \in 1 .. j - i + 1 : SubSeq(q, i, j)[k] = q[i + k - 1]
    BY <1>1, <2>1, SubSeqProperties, SMTT(30)
  <2> QED BY <2>2, Zenon
<1>3. Len(u) = j - i + 1
  BY <1>2
<1> QED BY <1>2, <1>3

LEMMA TogetherSeq ==
  ASSUME NEW S, NEW s \in Seq(S), NEW t \in Seq(S), NEW u, u = s \o t
  PROVE  /\ u \in Seq(S) /\ Len(u) = Len(s) + Len(t)
         /\ \A k \in 1 .. Len(s) : u[k] = s[k]
         /\ \A k \in 1 .. Len(t) : u[Len(s) + k] = t[k]
<1> DEFINE m == Len(s)
           n == Len(t)
<1>1. m \in Nat /\ n \in Nat /\ m = Len(s) /\ n = Len(t)
  OBVIOUS
<1>2. /\ u \in Seq(S) /\ Len(u) = m + n
      /\ \A k \in 1 .. m + n : u[k] = IF k <= m THEN s[k] ELSE t[k - m]
  BY ConcatProperties, Zenon
<1> HIDE DEF m, n
<1>3. \A k \in 1 .. m : k \in 1 .. m + n /\ k <= m
  BY <1>1
<1>4. \A k \in 1 .. n : m + k \in 1 .. m + n /\ ~(m + k <= m) /\ (m + k) - m = k
  BY <1>1
<1> QED BY <1>1, <1>2, <1>3, <1>4

-----------------------------------------------------------------------------
(* Texts in the pool, which ends with a NUL.                               *)

Pools == {pool \in Seq(Characters) : pool # << >> => pool[Len(pool)] = NUL}

\* The text of a pointer: as much of the pool as there is before a NUL.
Holds(pool, p, s) ==
  /\ s \in Texts /\ p + Len(s) <= Len(pool) /\ pool[p + Len(s)] = NUL
  /\ \A i \in 1 .. Len(s) : s[i] = pool[p + i - 1]

LEMMA TextTyped ==
  ASSUME NEW s \in Texts
  PROVE  s \in Seq(Characters) /\ Len(s) \in Nat /\ DOMAIN s = 1 .. Len(s)
BY DEF Texts

LEMMA TextMade ==
  ASSUME NEW u \in Seq(Characters), NEW n, Len(u) = n, \A k \in 1 .. n : u[k] # NUL
  PROVE  u \in Texts
BY DEF Texts

LEMMA CharOf ==
  ASSUME NEW t \in Texts, NEW i \in 1 .. Len(t)
  PROVE  t[i] \in Characters /\ t[i] # NUL
BY DEF Texts

LEMMA TextHeld ==
  ASSUME NEW pool \in Pools, NEW p \in 1 .. Len(pool)
  PROVE  Holds(pool, p, text_of(pool, p))
<1> DEFINE m == Len(pool)
           N == {n \in 0 .. m - p : pool[p + n] = NUL}
<1>1. m \in Nat /\ p \in 1 .. m /\ pool \in Seq(Characters) /\ pool[m] = NUL /\ m = Len(pool)
  BY DEF Pools
<1>2. m - p \in N /\ N \subseteq Nat
  BY <1>1
<1> HIDE DEF m
<1>3. PICK n \in N : \A k \in N : n <= k
  <2> HIDE DEF N
  <2> QED BY <1>2, SmallestNat
<1>4. n \in 0 .. m - p /\ n \in Nat /\ pool[p + n] = NUL /\ p + n <= m
  BY <1>1
<1>5. ASSUME NEW k \in 0 .. n - 1 PROVE pool[p + k] # NUL
  <2>1. k \in 0 .. m - p /\ ~(n <= k)
    BY <1>1, <1>4
  <2> QED BY <1>3, <2>1
<1> HIDE DEF N
<1>6. PICK l : l = Length(pool, p)
  OBVIOUS
<1>7. l \in 0 .. m - p /\ pool[p + l] = NUL /\ \A k \in 0 .. l - 1 : pool[p + k] # NUL
  BY <1>1, <1>4, <1>5, <1>6 DEF Length
<1>8. PICK s : s = text_of(pool, p)
  OBVIOUS
<1>9. s = SubSeq(pool, p, p + l - 1)
  BY <1>6, <1>8 DEF text_of
<1>10. /\ l \in Nat /\ p + l <= m /\ s \in Seq(Characters) /\ Len(s) = l
       /\ \A i \in 1 .. l : s[i] = pool[p + i - 1]
  <2>1. /\ l \in Nat /\ p + l <= m /\ p \in Nat \ {0} /\ p + l - 1 \in Nat
        /\ p <= (p + l - 1) + 1 /\ p + l - 1 <= m /\ (p + l - 1) - p + 1 = l
    BY <1>1, <1>7
  <2>2. PICK e \in Nat : e = p + l - 1
    BY <2>1
  <2>3. p <= e + 1 /\ e <= Len(pool) /\ s = SubSeq(pool, p, e) /\ e - p + 1 = l
    BY <1>1, <1>9, <2>1, <2>2
  <2>4. /\ s \in Seq(Characters) /\ Len(s) = e - p + 1
        /\ \A i \in 1 .. e - p + 1 : s[i] = pool[p + i - 1]
    BY <1>1, <2>1, <2>3, PartOfSeq
  <2> QED BY <2>1, <2>3, <2>4
<1>11. ASSUME NEW i \in 1 .. l PROVE s[i] # NUL
  <2>1. i - 1 \in 0 .. l - 1 /\ p + (i - 1) = p + i - 1
    BY <1>1, <1>10
  <2> QED BY <1>7, <1>10, <2>1
<1>12. s \in Texts
  BY <1>10, <1>11 DEF Texts
<1> QED BY <1>1, <1>7, <1>8, <1>10, <1>12 DEF Holds

LEMMA TextIs ==
  ASSUME NEW pool \in Seq(Characters), NEW p \in 1 .. Len(pool), NEW s, Holds(pool, p, s)
  PROVE  text_of(pool, p) = s
<1> DEFINE m == Len(pool)
           n == Len(s)
<1>1. m \in Nat /\ p \in 1 .. m /\ s \in Seq(Characters) /\ n \in Nat /\ p + n <= m
      /\ m = Len(pool) /\ n = Len(s)
  BY TextTyped DEF Holds
<1>2. pool[p + n] = NUL
  BY DEF Holds
<1>3. ASSUME NEW k \in 0 .. n - 1 PROVE pool[p + k] # NUL
  <2>1. k + 1 \in 1 .. n /\ p + (k + 1) - 1 = p + k
    BY <1>1
  <2>2. s[k + 1] = pool[p + (k + 1) - 1]
    BY <2>1 DEF Holds
  <2>3. s[k + 1] # NUL
    BY <2>1, TextTyped DEF Holds, Texts
  <2> QED BY <2>1, <2>2, <2>3
<1> HIDE DEF m, n
<1>4. ASSUME NEW k \in 0 .. m - p, pool[p + k] = NUL,
             \A j \in 0 .. k - 1 : pool[p + j] # NUL
      PROVE  k = n
  <2>1. ~(k < n)
    BY <1>1, <1>3, <1>4
  <2>2. ~(n < k)
    BY <1>1, <1>2, <1>4
  <2> QED BY <1>1, <2>1, <2>2
<1>5. n \in 0 .. m - p
  BY <1>1
<1>6. Length(pool, p) = n
  BY <1>1, <1>2, <1>3, <1>4, <1>5 DEF Length
<1>7. PICK t : t = SubSeq(pool, p, p + n - 1)
  OBVIOUS
<1>8. t \in Seq(Characters) /\ Len(t) = n /\ \A i \in 1 .. n : t[i] = pool[p + i - 1]
  BY <1>1, <1>7
<1>9. \A i \in 1 .. n : t[i] = s[i]
  BY <1>1, <1>8 DEF Holds
<1>10. t = s
  <2>1. /\ s \in Seq(Characters) /\ t \in Seq(Characters) /\ Len(s) = Len(t)
        /\ \A i \in 1 .. Len(s) : s[i] = t[i]
    BY <1>1, <1>8, <1>9
  <2> QED BY <2>1, SeqEqual
<1> QED BY <1>6, <1>7, <1>10 DEF text_of

\* A pool that goes on: what was there is read as before.
Extends(pool, q) ==
  Len(pool) <= Len(q) /\ \A i \in 1 .. Len(pool) : q[i] = pool[i]

LEMMA ExtendsTwice ==
  ASSUME NEW p \in Pools, NEW q \in Pools, NEW r \in Pools, Extends(p, q), Extends(q, r)
  PROVE  Extends(p, r)
<1>1. Len(p) \in Nat /\ Len(q) \in Nat /\ Len(r) \in Nat
  BY DEF Pools
<1>2. \A i \in 1 .. Len(p) : i \in 1 .. Len(q)
  BY <1>1 DEF Extends
<1> QED BY <1>1, <1>2 DEF Extends

LEMMA TextStays ==
  ASSUME NEW pool \in Pools, NEW q \in Pools, Extends(pool, q), NEW p \in 1 .. Len(pool)
  PROVE  text_of(q, p) = text_of(pool, p) /\ p \in 1 .. Len(q)
<1>1. PICK s : s = text_of(pool, p)
  OBVIOUS
<1>2. Holds(pool, p, s)
  BY <1>1, TextHeld
<1>3. Len(pool) \in Nat /\ Len(q) \in Nat /\ Len(s) \in Nat /\ q \in Seq(Characters)
  BY <1>2, TextTyped DEF Pools, Holds
<1>4. p \in 1 .. Len(q) /\ p + Len(s) \in 1 .. Len(pool) /\ p + Len(s) <= Len(q)
  BY <1>2, <1>3 DEF Extends, Holds
<1>5. \A i \in 1 .. Len(s) : p + i - 1 \in 1 .. Len(pool)
  BY <1>3, <1>4
<1>6. Holds(q, p, s)
  BY <1>2, <1>4, <1>5 DEF Holds, Extends
<1> QED BY <1>1, <1>3, <1>4, <1>6, TextIs

\* What is left of a text after its first k characters.
LEMMA TextAfter ==
  ASSUME NEW pool \in Pools, NEW p \in 1 .. Len(pool), NEW s, s = text_of(pool, p),
         NEW k \in 0 .. Len(s)
  PROVE  /\ p + k \in 1 .. Len(pool)
         /\ text_of(pool, p + k) = SubSeq(s, k + 1, Len(s))
<1>1. Holds(pool, p, s)
  BY TextHeld
<1>2. Len(pool) \in Nat /\ Len(s) \in Nat /\ pool \in Seq(Characters) /\ s \in Seq(Characters)
  BY <1>1, TextTyped DEF Pools, Holds
<1>3. p + k \in 1 .. Len(pool)
  BY <1>1, <1>2 DEF Holds
<1> DEFINE n == Len(s)
<1>4. PICK t : t = SubSeq(s, k + 1, n)
  OBVIOUS
<1>5. t \in Seq(Characters) /\ Len(t) = n - k /\ \A i \in 1 .. n - k : t[i] = s[k + i]
  BY <1>2, <1>4
<1>6. n \in Nat /\ n = Len(s) /\ k \in 0 .. n
  BY <1>2
<1> HIDE DEF n
<1>7. t \in Texts
  <2> SUFFICES ASSUME NEW i \in 1 .. n - k PROVE t[i] # NUL
    BY <1>5 DEF Texts
  <2>1. k + i \in 1 .. n
    BY <1>6
  <2>2. s[k + i] # NUL
    <3>1. s \in Texts /\ k + i \in 1 .. Len(s)
      BY <1>1, <1>6, <2>1 DEF Holds
    <3> QED BY <3>1, CharOf
  <2> QED BY <1>5, <2>2
<1>8. Holds(pool, p + k, t)
  <2>1. (p + k) + Len(t) = p + n
    BY <1>2, <1>5, <1>6
  <2>2. ASSUME NEW i \in 1 .. Len(t) PROVE t[i] = pool[p + k + i - 1]
    <3>1. k + i \in 1 .. n /\ i \in 1 .. n - k /\ p + (k + i) - 1 = p + k + i - 1
      BY <1>5, <1>6
    <3> QED BY <1>1, <1>5, <1>6, <3>1 DEF Holds
  <2>3. p + n <= Len(pool) /\ pool[p + n] = NUL
    BY <1>1, <1>6 DEF Holds
  <2> QED BY <1>7, <2>1, <2>2, <2>3 DEF Holds
<1> QED BY <1>2, <1>3, <1>4, <1>6, <1>8, TextIs

-----------------------------------------------------------------------------
(* Interning.  No name is in the pool twice.                               *)

Distinct(pool) ==
  \A p, q \in NameStarts(pool) : text_of(pool, p) = text_of(pool, q) => p = q

LEMMA StartsStay ==
  ASSUME NEW pool \in Pools, NEW q \in Pools, Extends(pool, q), NEW p \in 1 .. Len(pool)
  PROVE  p \in NameStarts(pool) <=> p \in NameStarts(q)
<1>1. Len(pool) \in Nat /\ Len(q) \in Nat /\ pool \in Seq(Characters) /\ q \in Seq(Characters)
  BY DEF Pools
<1>2. p \in 1 .. Len(q)
  BY <1>1 DEF Extends
<1>3. p # 1 => q[p - 1] = pool[p - 1]
  <2>1. p # 1 => p - 1 \in 1 .. Len(pool)
    BY <1>1
  <2> QED BY <2>1 DEF Extends
<1> QED BY <1>1, <1>2, <1>3 DEF NameStarts

InternedAs(pool, r, s) ==
  /\ r.ok \in BOOLEAN /\ r.pool \in Pools /\ Distinct(r.pool) /\ Extends(pool, r.pool)
  /\ r.ok => r.p \in NameStarts(r.pool) /\ text_of(r.pool, r.p) = s

LEMMA InternName ==
  ASSUME NEW pool \in Pools, Distinct(pool), NEW s \in Texts,
         NEW r, r = intern_name(pool, s)
  PROVE  InternedAs(pool, r, s)
<1> DEFINE m == Len(pool)
           n == Len(s)
           same == {p \in NameStarts(pool) : text_of(pool, p) = s}
           q == pool \o s \o << NUL >>
<1>1. /\ m \in Nat /\ n \in Nat /\ m = Len(pool) /\ n = Len(s)
      /\ pool \in Seq(Characters) /\ s \in Seq(Characters)
      /\ NameStarts(pool) \subseteq 1 .. m
  BY TextTyped DEF Pools, NameStarts
<1> HIDE DEF m, n
<1>2. Extends(pool, pool)
  BY <1>1 DEF Extends
<1>3. CASE same # {}
  <2>1. r = [ok |-> TRUE, pool |-> pool, p |-> Min(same)]
    BY <1>3 DEF intern_name, Named
  <2>2. Min(same) \in same
    <3>1. same \subseteq Nat
      BY <1>1
    <3> HIDE DEF same
    <3> QED BY <1>3, <3>1, MinOfNats
  <2> QED BY <1>2, <2>1, <2>2 DEF InternedAs
<1>4. CASE same = {} /\ Len(pool) + Len(s) + 1 > MAX_STRING_POOL
  <2>1. r = [ok |-> FALSE, pool |-> pool]
    BY <1>4 DEF intern_name, Exhausted
  <2> QED BY <1>2, <2>1 DEF InternedAs
<1>5. CASE same = {} /\ ~(Len(pool) + Len(s) + 1 > MAX_STRING_POOL)
  <2>1. r = [ok |-> TRUE, pool |-> q, p |-> m + 1]
    BY <1>1, <1>5 DEF intern_name, Named
  <2>2. NUL \in Characters
    BY DEF Characters
  <2>3. /\ q \in Seq(Characters) /\ Len(q) = m + n + 1 /\ q[m + n + 1] = NUL
        /\ \A i \in 1 .. m : q[i] = pool[i]
        /\ \A i \in 1 .. n : q[m + i] = s[i]
    <3>1. PICK t : t = pool \o s
      OBVIOUS
    <3>2. /\ t \in Seq(Characters) /\ Len(t) = m + n
          /\ \A i \in 1 .. m : t[i] = pool[i]
          /\ \A i \in 1 .. n : t[m + i] = s[i]
      BY <1>1, <3>1
    <3>3. q = Append(t, NUL)
      BY <1>1, <3>1, <3>2
    <3>4. /\ q \in Seq(Characters) /\ Len(q) = m + n + 1 /\ q[m + n + 1] = NUL
          /\ \A i \in 1 .. m + n : q[i] = t[i]
      <4>1. PICK v : v = Append(t, NUL)
        OBVIOUS
      <4>2. /\ v \in Seq(Characters) /\ Len(v) = Len(t) + 1
            /\ \A i \in 1 .. Len(t) : v[i] = t[i]
            /\ v[Len(t) + 1] = NUL
        BY <2>2, <3>2, <4>1, AppendProperties
      <4>3. q = v /\ Len(t) = m + n
        BY <3>2, <3>3, <4>1
      <4> HIDE DEF q
      <4> QED BY <4>2, <4>3
    <3>5. \A i \in 1 .. m : i \in 1 .. m + n
      BY <1>1
    <3>6. \A i \in 1 .. n : m + i \in 1 .. m + n
      BY <1>1
    <3> QED BY <3>2, <3>4, <3>5, <3>6
  <2>4. PICK big : big = q
    OBVIOUS
  <2> HIDE DEF q
  <2>5. big \in Pools /\ Extends(pool, big)
    <3>1. big \in Seq(Characters) /\ Len(big) = m + n + 1 /\ big[Len(big)] = NUL
      BY <2>3, <2>4
    <3>2. big \in Pools
      BY <3>1 DEF Pools
    <3>3. \A i \in 1 .. m : big[i] = pool[i]
      BY <2>3, <2>4
    <3>4. m <= Len(big)
      BY <1>1, <3>1
    <3> QED BY <1>1, <3>2, <3>3, <3>4 DEF Extends
  <2>6. Holds(big, m + 1, s)
    <3>1. (m + 1) + n = m + n + 1 /\ \A i \in 1 .. n : (m + 1) + i - 1 = m + i
      BY <1>1
    <3> QED BY <1>1, <2>3, <2>4, <3>1 DEF Holds
  <2>7. text_of(big, m + 1) = s /\ m + 1 \in 1 .. Len(big)
    BY <1>1, <2>3, <2>4, <2>6, TextIs
  <2>8. m + 1 \in NameStarts(big)
    <3>1. m = 0 \/ big[m] = NUL
      <4>1. m # 0 => pool # << >> /\ m \in 1 .. m
        BY <1>1
      <4> QED BY <1>1, <2>3, <2>4, <4>1 DEF Pools
    <3>2. (m + 1) - 1 = m /\ DOMAIN big = 1 .. Len(big)
      BY <1>1, <2>3, <2>4
    <3> QED BY <1>1, <2>7, <3>1, <3>2 DEF NameStarts
  <2>9. ASSUME NEW p \in NameStarts(big)
        PROVE  p = m + 1 \/ (p \in 1 .. m /\ p \in NameStarts(pool))
    <3>1. p \in 1 .. m + n + 1 /\ (p = 1 \/ big[p - 1] = NUL)
      BY <1>1, <2>3, <2>4, <2>9 DEF NameStarts
    <3>2. ASSUME p > m + 1 PROVE FALSE
      <4>1. (p - 1) - m \in 1 .. n /\ m + ((p - 1) - m) = p - 1 /\ p # 1
        BY <1>1, <3>1, <3>2
      <4>2. big[p - 1] = s[(p - 1) - m]
        BY <2>3, <2>4, <4>1
      <4>3. s[(p - 1) - m] # NUL
        BY <1>1, <4>1 DEF Texts
      <4> QED BY <3>1, <4>1, <4>2, <4>3
    <3>3. p = m + 1 \/ p \in 1 .. m
      BY <1>1, <3>1, <3>2
    <3> QED BY <1>1, <2>5, <2>9, <3>3, StartsStay
  <2>10. Distinct(big)
    <3> SUFFICES ASSUME NEW p \in NameStarts(big), NEW o \in NameStarts(big),
                        text_of(big, p) = text_of(big, o)
                 PROVE  p = o
      BY DEF Distinct
    <3>1. ASSUME NEW x \in NameStarts(big), text_of(big, x) = s PROVE x = m + 1
      <4>1. SUFFICES ASSUME x \in 1 .. m, x \in NameStarts(pool) PROVE FALSE
        BY <2>9
      <4>2. text_of(pool, x) = s
        BY <1>1, <2>5, <3>1, <4>1, TextStays
      <4> QED BY <1>5, <4>1, <4>2
    <3>2. CASE p = m + 1 \/ o = m + 1
      BY <2>7, <3>1, <3>2
    <3>3. CASE p # m + 1 /\ o # m + 1
      <4>1. /\ p \in 1 .. m /\ p \in NameStarts(pool)
            /\ o \in 1 .. m /\ o \in NameStarts(pool)
        BY <2>9, <3>3
      <4>2. text_of(pool, p) = text_of(pool, o)
        BY <1>1, <2>5, <4>1, TextStays
      <4> QED BY <4>1, <4>2 DEF Distinct
    <3> QED BY <3>2, <3>3
  <2> QED BY <2>1, <2>4, <2>5, <2>7, <2>8, <2>10 DEF InternedAs
<1> QED BY <1>3, <1>4, <1>5

-----------------------------------------------------------------------------
(* The invariant, and what every builtin does to the pool.                 *)

AtomsInv ==
  /\ string_pool \in Pools /\ Distinct(string_pool)
  /\ atoms \subseteq 1 .. Len(string_pool)

Goes(q) == q \in Pools /\ Distinct(q) /\ Extends(string_pool, q)

\* What a builtin returns: a pool that goes on, and pointers into it.
Returned(r, places) ==
  Goes(r.pool) /\ (r.result = "ok" => \A i \in places : r.args[i] \in 1 .. Len(r.pool))

LEMMA CalledKeeps ==
  ASSUME AtomsInv, NEW pred, NEW given, NEW r, NEW places,
         Called(pred, given, r, places), Returned(r, places)
  PROVE  AtomsInv'
<1>1. /\ string_pool' = r.pool /\ r.pool \in Pools /\ Distinct(r.pool)
      /\ Len(string_pool) <= Len(r.pool)
  BY DEF Called, Returned, Goes, Extends
<1>2. Len(string_pool) \in Nat /\ Len(r.pool) \in Nat
  BY <1>1 DEF AtomsInv, Pools
<1>3. atoms' = atoms \cup IF r.result = "ok" THEN {r.args[i] : i \in places} ELSE {}
  BY DEF Called
<1>4. atoms' \subseteq 1 .. Len(r.pool)
  <2> SUFFICES ASSUME NEW x \in atoms' PROVE x \in 1 .. Len(r.pool)
    OBVIOUS
  <2>1. CASE x \in atoms
    <3>1. x \in 1 .. Len(string_pool)
      BY <2>1 DEF AtomsInv
    <3> QED BY <1>1, <1>2, <3>1
  <2>2. CASE x \notin atoms
    <3>1. r.result = "ok" /\ \E i \in places : x = r.args[i]
      BY <1>3, <2>2, Zenon
    <3> QED BY <3>1 DEF Returned
  <2> QED BY <2>1, <2>2
<1> QED BY <1>1, <1>4 DEF AtomsInv

LEMMA Same == ASSUME AtomsInv PROVE Goes(string_pool)
<1>1. Len(string_pool) \in Nat
  BY DEF AtomsInv, Pools
<1> QED BY <1>1 DEF Goes, AtomsInv, Extends

LEMMA Typed ==
  ASSUME AtomsInv, NEW p \in 1 .. Len(string_pool), NEW s, s = text(p)
  PROVE  s \in Texts /\ s = text_of(string_pool, p)
BY TextHeld DEF AtomsInv, text, Holds

LEMMA ReadOf ==
  ASSUME AtomsInv, NEW q, Goes(q), NEW p \in 1 .. Len(string_pool)
  PROVE  text_of(q, p) = text(p) /\ p \in 1 .. Len(q)
BY TextStays DEF AtomsInv, Goes, text

LEMMA AtomBound == ASSUME AtomsInv, NEW p \in atoms PROVE p \in 1 .. Len(string_pool) /\ p # Unbound
<1>1. p \in 1 .. Len(string_pool) /\ Len(string_pool) \in Nat
  BY DEF AtomsInv, Pools
<1> QED BY <1>1, AtomsAssumption

LEMMA Interned ==
  ASSUME AtomsInv, NEW s \in Texts, NEW r, r = intern_name(string_pool, s)
  PROVE  /\ Goes(r.pool) /\ r.ok \in BOOLEAN
         /\ r.ok => /\ r.p \in NameStarts(r.pool) /\ r.p \in 1 .. Len(r.pool)
                    /\ text_of(r.pool, r.p) = s /\ r.p # Unbound
<1>1. InternedAs(string_pool, r, s)
  BY InternName DEF AtomsInv
<1>2. r.ok => r.p \in 1 .. Len(r.pool) /\ Len(r.pool) \in Nat
  BY <1>1 DEF InternedAs, NameStarts, Pools
<1> QED BY <1>1, <1>2, AtomsAssumption DEF InternedAs, Goes

-----------------------------------------------------------------------------
(* Reading a name.                                                         *)

LEMMA ReadRight ==
  ASSUME AtomsInv, NEW s \in Literals, ReadName(s)
  PROVE  AtomsInv' /\ TextsRight'
<1>1. s \in Texts
  BY AtomsAssumption
<1>2. PICK n : n = intern_name(string_pool, s)
  OBVIOUS
<1>3. /\ Goes(n.pool) /\ n.ok \in BOOLEAN
      /\ n.ok => n.p \in 1 .. Len(n.pool) /\ text_of(n.pool, n.p) = s
  BY <1>1, <1>2, Interned
<1>4. PICK r : r = IF n.ok THEN Success(n.pool, << n.p >>)
                   ELSE Errors(n.pool, "string pool exhausted")
  OBVIOUS
<1>5. Called("read", << s >>, r, {1})
  BY <1>2, <1>4 DEF ReadName
<1>6. Returned(r, {1})
  <2>1. CASE n.ok
    <3>1. r.pool = n.pool /\ r.result = "ok" /\ r.args = << n.p >>
      BY <1>4, <2>1 DEF Success
    <3>2. r.args[1] \in 1 .. Len(r.pool)
      BY <1>3, <2>1, <3>1
    <3> QED BY <1>3, <3>1, <3>2 DEF Returned
  <2>2. CASE ~ n.ok
    <3>1. r.pool = n.pool /\ r.result # "ok"
      BY <1>4, <2>2 DEF Errors
    <3> QED BY <1>3, <3>1 DEF Returned
  <2> QED BY <2>1, <2>2
<1>7. AtomsInv'
  BY <1>5, <1>6, CalledKeeps
<1>8. r.result = "ok" => r.args = << n.p >> /\ text_of(r.pool, n.p) = s
  BY <1>3, <1>4 DEF Success, Errors
<1>9. /\ last_call'.pred = "read" /\ last_call'.given = << s >>
      /\ last_call'.result = r.result /\ string_pool' = r.pool
      /\ r.result = "ok" => last_call'.args = r.args
  BY <1>5 DEF Called
<1>10. TextsRight'
  BY <1>8, <1>9 DEF TextsRight, text
<1> QED BY <1>7, <1>10

-----------------------------------------------------------------------------
(* Texts as sequences of characters.                                       *)

Within(t, i, j) == i \in 1 .. Len(t) + 1 /\ j \in i - 1 .. Len(t)
IsPart(u, t, i, j) ==
  /\ u \in Texts /\ Len(u) = j - i + 1
  /\ \A k \in 1 .. j - i + 1 : u[k] = t[i + k - 1]

LEMMA PartOf ==
  ASSUME NEW t \in Texts, NEW i, NEW j, Within(t, i, j), NEW u, u = SubSeq(t, i, j)
  PROVE  IsPart(u, t, i, j)
<1> DEFINE n == Len(t)
<1>1. n \in Nat /\ n = Len(t) /\ t \in Seq(Characters) /\ i \in 1 .. n + 1 /\ j \in i - 1 .. n
  BY TextTyped DEF Within
<1> HIDE DEF n
<1>2. /\ u \in Seq(Characters) /\ Len(u) = j - i + 1
      /\ \A k \in 1 .. j - i + 1 : u[k] = t[i + k - 1]
  <2>1. i \in Nat \ {0} /\ j \in Nat /\ i <= j + 1 /\ j <= Len(t)
    BY <1>1
  <2> QED BY <1>1, <2>1, PartOfSeq
<1>3. ASSUME NEW k \in 1 .. j - i + 1 PROVE u[k] # NUL
  <2>1. i + k - 1 \in 1 .. Len(t)
    BY <1>1
  <2>2. t[i + k - 1] # NUL
    BY <2>1, CharOf
  <2> QED BY <1>2, <2>2
<1> QED BY <1>2, <1>3, TextMade DEF IsPart

Joins(u, s, t) ==
  /\ u \in Texts /\ Len(u) = Len(s) + Len(t)
  /\ \A k \in 1 .. Len(s) : u[k] = s[k]
  /\ \A k \in 1 .. Len(t) : u[Len(s) + k] = t[k]

LEMMA Together ==
  ASSUME NEW s \in Texts, NEW t \in Texts, NEW u, u = s \o t
  PROVE  Joins(u, s, t)
<1> DEFINE m == Len(s)
           n == Len(t)
<1>1. /\ m \in Nat /\ n \in Nat /\ m = Len(s) /\ n = Len(t)
      /\ s \in Seq(Characters) /\ t \in Seq(Characters)
  BY TextTyped
<1> HIDE DEF m, n
<1>2. /\ u \in Seq(Characters) /\ Len(u) = m + n
      /\ \A k \in 1 .. m : u[k] = s[k]
      /\ \A k \in 1 .. n : u[m + k] = t[k]
  BY <1>1, TogetherSeq
<1>3. ASSUME NEW k \in 1 .. m + n PROVE u[k] # NUL
  <2>1. CASE k \in 1 .. m
    <3>1. s[k] # NUL
      BY <1>1, <2>1, CharOf
    <3> QED BY <1>2, <2>1, <3>1
  <2>2. CASE k \notin 1 .. m
    <3>1. k - m \in 1 .. n /\ m + (k - m) = k
      BY <1>1, <2>2
    <3>2. u[k] = t[k - m]
      BY <1>2, <3>1
    <3>3. t[k - m] # NUL
      BY <1>1, <3>1, CharOf
    <3> QED BY <3>2, <3>3
  <2> QED BY <2>1, <2>2
<1>4. u \in Texts
  BY <1>2, <1>3, TextMade
<1> QED BY <1>1, <1>2, <1>4 DEF Joins

LEMMA EqualTexts ==
  ASSUME NEW s \in Texts, NEW t \in Texts, Len(s) = Len(t),
         \A k \in 1 .. Len(s) : s[k] = t[k]
  PROVE  s = t
BY TextTyped DEF Texts

LEMMA PrefixIs ==
  ASSUME NEW s \in Texts, NEW t \in Texts
  PROVE  IsPrefix(s, t) <=> Len(s) <= Len(t) /\ \A k \in 1 .. Len(s) : s[k] = t[k]
<1>1. Len(s) \in Nat /\ Len(t) \in Nat
  BY TextTyped
<1>2. CASE ~(Len(s) <= Len(t))
  BY <1>2 DEF IsPrefix
<1>3. CASE Len(s) <= Len(t)
  <2> DEFINE m == Len(s)
  <2>1. m \in Nat /\ m = Len(s) /\ 1 \in 1 .. Len(s) + 1 /\ m \in 1 - 1 .. Len(s)
        /\ 1 \in 1 .. Len(t) + 1 /\ m \in 1 - 1 .. Len(t) /\ m - 1 + 1 = m
    BY <1>1, <1>3
  <2> HIDE DEF m
  <2>2. PICK u : u = SubSeq(s, 1, m)
    OBVIOUS
  <2>3. PICK v : v = SubSeq(t, 1, m)
    OBVIOUS
  <2>4. u \in Texts /\ Len(u) = m /\ \A k \in 1 .. m : u[k] = s[1 + k - 1]
    <3>1. Within(s, 1, m)
      BY <2>1 DEF Within
    <3>2. IsPart(u, s, 1, m)
      BY <2>2, <3>1, PartOf
    <3> QED BY <2>1, <3>2 DEF IsPart
  <2>5. v \in Texts /\ Len(v) = m /\ \A k \in 1 .. m : v[k] = t[1 + k - 1]
    <3>1. Within(t, 1, m)
      BY <2>1 DEF Within
    <3>2. IsPart(v, t, 1, m)
      BY <2>3, <3>1, PartOf
    <3> QED BY <2>1, <3>2 DEF IsPart
  <2>6. \A k \in 1 .. m : 1 + k - 1 = k
    BY <2>1
  <2>7. u = v <=> \A k \in 1 .. m : s[k] = t[k]
    <3>1. ASSUME u = v PROVE \A k \in 1 .. m : s[k] = t[k]
      BY <2>4, <2>5, <2>6, <3>1
    <3>2. ASSUME \A k \in 1 .. m : s[k] = t[k] PROVE u = v
      BY <2>4, <2>5, <2>6, <3>2, EqualTexts
    <3> QED BY <3>1, <3>2
  <2> QED BY <1>3, <2>1, <2>2, <2>3, <2>7 DEF IsPrefix
<1> QED BY <1>1, <1>2, <1>3

LEMMA Reversed ==
  ASSUME NEW s \in Texts, NEW u, u = Reverse(s)
  PROVE  u \in Texts /\ Len(u) = Len(s) /\ \A k \in 1 .. Len(s) : u[k] = s[Len(s) - k + 1]
<1> DEFINE n == Len(s)
<1>1. n \in Nat /\ n = Len(s) /\ s \in Seq(Characters)
  BY TextTyped
<1> HIDE DEF n
<1>2. \A k \in 1 .. n : n - k + 1 \in 1 .. n /\ s[n - k + 1] \in Characters
                        /\ s[n - k + 1] # NUL
  <2> SUFFICES ASSUME NEW k \in 1 .. n
               PROVE  n - k + 1 \in 1 .. n /\ s[n - k + 1] \in Characters
                      /\ s[n - k + 1] # NUL
    OBVIOUS
  <2>1. n - k + 1 \in 1 .. n
    BY <1>1
  <2> QED BY <1>1, <2>1 DEF Texts
<1>3. u = [k \in 1 .. n |-> s[n - k + 1]]
  BY <1>1 DEF Reverse
<1>4. u \in Seq(Characters) /\ Len(u) = n
  BY <1>1, <1>2, <1>3
<1> QED BY <1>1, <1>2, <1>3, <1>4 DEF Texts

LEMMA Suffixed ==
  ASSUME NEW s \in Texts, NEW t \in Texts
  PROVE  IsSuffix(s, t) <=> /\ Len(s) <= Len(t)
                            /\ \A k \in 1 .. Len(s) : s[k] = t[Len(t) - Len(s) + k]
<1> DEFINE m == Len(s)
           n == Len(t)
<1>1. m \in Nat /\ n \in Nat /\ m = Len(s) /\ n = Len(t)
  BY TextTyped
<1>2. PICK u : u = Reverse(s)
  OBVIOUS
<1>3. PICK v : v = Reverse(t)
  OBVIOUS
<1> HIDE DEF m, n
<1>4. u \in Texts /\ Len(u) = m /\ \A k \in 1 .. m : u[k] = s[m - k + 1]
  BY <1>1, <1>2, Reversed
<1>5. v \in Texts /\ Len(v) = n /\ \A k \in 1 .. n : v[k] = t[n - k + 1]
  BY <1>1, <1>3, Reversed
<1>6. IsSuffix(s, t) <=> m <= n /\ \A k \in 1 .. m : u[k] = v[k]
  <2>1. IsPrefix(u, v) <=> Len(u) <= Len(v) /\ \A k \in 1 .. Len(u) : u[k] = v[k]
    BY <1>4, <1>5, PrefixIs
  <2>2. IsSuffix(s, t) <=> IsPrefix(u, v)
    BY <1>2, <1>3 DEF IsSuffix
  <2>3. Len(u) = m /\ Len(v) = n
    BY <1>4, <1>5
  <2> QED BY <2>1, <2>2, <2>3
<1>7. ASSUME m <= n, \A k \in 1 .. m : u[k] = v[k], NEW k \in 1 .. m
      PROVE  s[k] = t[n - m + k]
  <2>1. PICK j \in 1 .. m : j = m - k + 1
    BY <1>1, <1>7
  <2>2. j \in 1 .. n /\ m - j + 1 = k /\ n - j + 1 = n - m + k
    BY <1>1, <1>7, <2>1
  <2>3. u[j] = s[k] /\ v[j] = t[n - m + k]
    BY <1>4, <1>5, <2>1, <2>2
  <2> QED BY <1>7, <2>1, <2>3
<1>8. ASSUME m <= n, \A k \in 1 .. m : s[k] = t[n - m + k], NEW k \in 1 .. m
      PROVE  u[k] = v[k]
  <2>1. /\ m - k + 1 \in 1 .. m /\ k \in 1 .. n
        /\ n - m + (m - k + 1) = n - k + 1
    BY <1>1, <1>8
  <2>2. s[m - k + 1] = t[n - m + (m - k + 1)]
    BY <1>8, <2>1
  <2> QED BY <1>4, <1>5, <2>1, <2>2
<1>9. m <= n => ((\A k \in 1 .. m : u[k] = v[k]) <=> (\A k \in 1 .. m : s[k] = t[n - m + k]))
  BY <1>7, <1>8
<1> QED BY <1>1, <1>6, <1>9

\* What follows a prefix, and what precedes a suffix, complete it.
LEMMA PrefixAndRest ==
  ASSUME NEW s \in Texts, NEW t \in Texts, IsPrefix(s, t)
  PROVE  /\ SubSeq(t, Len(s) + 1, Len(t)) \in Texts
         /\ s \o SubSeq(t, Len(s) + 1, Len(t)) = t
<1> DEFINE m == Len(s)
           n == Len(t)
<1>1. m \in Nat /\ n \in Nat /\ m = Len(s) /\ n = Len(t)
  BY TextTyped
<1>2. m <= n /\ \A k \in 1 .. m : s[k] = t[k]
  <2>1. Len(s) <= Len(t) /\ \A k \in 1 .. Len(s) : s[k] = t[k]
    BY PrefixIs
  <2> QED BY <2>1
<1> HIDE DEF m, n
<1>3. PICK u : u = SubSeq(t, m + 1, n)
  OBVIOUS
<1>4. m + 1 \in 1 .. n + 1 /\ n \in (m + 1) - 1 .. n /\ n - (m + 1) + 1 = n - m
      /\ \A k \in 1 .. n - m : (m + 1) + k - 1 = m + k
  BY <1>1, <1>2
<1>5. u \in Texts /\ Len(u) = n - m /\ \A k \in 1 .. n - m : u[k] = t[m + k]
  <2>1. u \in Texts /\ Len(u) = n - (m + 1) + 1
        /\ \A k \in 1 .. n - (m + 1) + 1 : u[k] = t[(m + 1) + k - 1]
    <3>1. Within(t, m + 1, n)
      BY <1>1, <1>4 DEF Within
    <3>2. IsPart(u, t, m + 1, n)
      BY <1>3, <3>1, PartOf
    <3> QED BY <3>2 DEF IsPart
  <2> QED BY <1>4, <2>1
<1>6. PICK v : v = s \o u
  OBVIOUS
<1>7. /\ v \in Texts /\ Len(v) = m + (n - m) /\ \A k \in 1 .. m : v[k] = s[k]
      /\ \A k \in 1 .. n - m : v[m + k] = u[k]
  <2>1. /\ v \in Texts /\ Len(v) = Len(s) + Len(u)
        /\ \A k \in 1 .. Len(s) : v[k] = s[k]
        /\ \A k \in 1 .. Len(u) : v[Len(s) + k] = u[k]
    <3>1. u \in Texts
      BY <1>5
    <3>2. Joins(v, s, u)
      BY <1>6, <3>1, Together
    <3> QED BY <3>2 DEF Joins
  <2> QED BY <1>1, <1>5, <2>1
<1>8. ASSUME NEW k \in 1 .. n PROVE v[k] = t[k]
  <2>1. CASE k \in 1 .. m
    BY <1>2, <1>7, <2>1
  <2>2. CASE k \notin 1 .. m
    <3>1. k - m \in 1 .. n - m /\ m + (k - m) = k
      BY <1>1, <2>2
    <3> QED BY <1>5, <1>7, <3>1
  <2> QED BY <2>1, <2>2
<1>9. v = t
  <2>1. Len(v) = n
    BY <1>1, <1>7
  <2> QED BY <1>1, <1>7, <1>8, <2>1, EqualTexts
<1> QED BY <1>1, <1>3, <1>5, <1>6, <1>9

LEMMA RestAndSuffix ==
  ASSUME NEW s \in Texts, NEW t \in Texts, IsSuffix(s, t)
  PROVE  /\ SubSeq(t, 1, Len(t) - Len(s)) \in Texts
         /\ SubSeq(t, 1, Len(t) - Len(s)) \o s = t
<1> DEFINE m == Len(s)
           n == Len(t)
<1>1. m \in Nat /\ n \in Nat /\ m = Len(s) /\ n = Len(t)
  BY TextTyped
<1>2. m <= n /\ \A k \in 1 .. m : s[k] = t[n - m + k]
  <2>1. /\ Len(s) <= Len(t)
        /\ \A k \in 1 .. Len(s) : s[k] = t[Len(t) - Len(s) + k]
    BY Suffixed
  <2> QED BY <2>1
<1> HIDE DEF m, n
<1>3. PICK u : u = SubSeq(t, 1, n - m)
  OBVIOUS
<1>4. 1 \in 1 .. n + 1 /\ n - m \in 1 - 1 .. n /\ (n - m) - 1 + 1 = n - m
      /\ \A k \in 1 .. n - m : 1 + k - 1 = k
  BY <1>1, <1>2
<1>5. u \in Texts /\ Len(u) = n - m /\ \A k \in 1 .. n - m : u[k] = t[k]
  <2>1. u \in Texts /\ Len(u) = (n - m) - 1 + 1
        /\ \A k \in 1 .. (n - m) - 1 + 1 : u[k] = t[1 + k - 1]
    <3>1. Within(t, 1, n - m)
      BY <1>1, <1>4 DEF Within
    <3>2. IsPart(u, t, 1, n - m)
      BY <1>3, <3>1, PartOf
    <3> QED BY <3>2 DEF IsPart
  <2> QED BY <1>4, <2>1
<1>6. PICK v : v = u \o s
  OBVIOUS
<1>7. /\ v \in Texts /\ Len(v) = (n - m) + m /\ \A k \in 1 .. n - m : v[k] = u[k]
      /\ \A k \in 1 .. m : v[(n - m) + k] = s[k]
  <2>1. /\ v \in Texts /\ Len(v) = Len(u) + Len(s)
        /\ \A k \in 1 .. Len(u) : v[k] = u[k]
        /\ \A k \in 1 .. Len(s) : v[Len(u) + k] = s[k]
    <3>1. u \in Texts
      BY <1>5
    <3>2. Joins(v, u, s)
      BY <1>6, <3>1, Together
    <3> QED BY <3>2 DEF Joins
  <2> QED BY <1>1, <1>5, <2>1
<1>8. ASSUME NEW k \in 1 .. n PROVE v[k] = t[k]
  <2>1. CASE k \in 1 .. n - m
    BY <1>5, <1>7, <2>1
  <2>2. CASE k \notin 1 .. n - m
    <3>1. k - (n - m) \in 1 .. m /\ (n - m) + (k - (n - m)) = k
      BY <1>1, <1>2, <2>2
    <3>2. v[k] = s[k - (n - m)]
      BY <1>7, <3>1
    <3> QED BY <1>2, <3>1, <3>2
  <2> QED BY <2>1, <2>2
<1>9. v = t
  <2>1. Len(v) = n
    BY <1>1, <1>7
  <2> QED BY <1>1, <1>7, <1>8, <2>1, EqualTexts
<1> QED BY <1>1, <1>3, <1>5, <1>6, <1>9

-----------------------------------------------------------------------------
(* atom_concat/3, mode by mode.                                            *)

TextAt(q, x) == IF x = Unbound THEN << >> ELSE text_of(q, x)
CanonicalIn(q, p) == p = Unbound \/ p \in NameStarts(q)

\* What ConcatRight says of the arguments a, b that were given and x, y, z.
ConcatTold(q, a, b, x, y, z) == TextAt(q, x) \o TextAt(q, y) = TextAt(q, z)
ConcatDenied(q, a, b, x, y, z) ==
  CASE b = Unbound -> ~ IsPrefix(TextAt(q, x), TextAt(q, z))
    [] a = Unbound -> \/ ~ IsSuffix(TextAt(q, y), TextAt(q, z))
                      \/ Len(TextAt(q, z)) - Len(TextAt(q, y)) >= MAX_NAME
    [] OTHER -> \/ TextAt(q, x) \o TextAt(q, y) # TextAt(q, z)
                \/ Len(TextAt(q, x) \o TextAt(q, y)) >= MAX_NAME
Excused(q, a, b, c) ==
  \/ ~ CanonicalIn(q, a) \/ ~ CanonicalIn(q, b) \/ ~ CanonicalIn(q, c)
  \/ a = Unbound /\ b = Unbound
  \/ a = Unbound /\ c = Unbound
  \/ b = Unbound /\ c = Unbound

ConcatOK(r, a, b, c) ==
  /\ Returned(r, 1 .. 3)
  /\ r.result = "ok" => \E x, y, z : r.args = << x, y, z >> /\ ConcatTold(r.pool, a, b, x, y, z)
  /\ r.result = "fail" => Excused(r.pool, a, b, c) \/ ConcatDenied(r.pool, a, b, a, b, c)

LEMMA ErrorsAre ==
  ASSUME NEW q, NEW r, r = Errors(q, "string pool exhausted")
  PROVE  r.pool = q /\ r.result # "ok" /\ r.result # "fail"
BY DEF Errors

LEMMA ConcatBoth ==
  ASSUME AtomsInv, NEW a \in atoms, NEW b \in atoms, NEW c \in Maybe(atoms),
         NEW r, r = atom_concat(a, b, c)
  PROVE  ConcatOK(r, a, b, c)
<1>1. /\ a \in 1 .. Len(string_pool) /\ a # Unbound
      /\ b \in 1 .. Len(string_pool) /\ b # Unbound
      /\ c # Unbound => c \in 1 .. Len(string_pool)
  BY AtomBound DEF Maybe
<1>2. PICK sa : sa = text(a)
  OBVIOUS
<1>3. PICK sb : sb = text(b)
  OBVIOUS
<1>4. PICK u : u = sa \o sb
  OBVIOUS
<1>5. sa \in Texts /\ sb \in Texts /\ u \in Texts
  <2>1. sa \in Texts /\ sb \in Texts
    BY <1>1, <1>2, <1>3, Typed
  <2>2. Joins(u, sa, sb)
    BY <1>4, <2>1, Together
  <2> QED BY <2>1, <2>2 DEF Joins
<1>6. CASE Len(u) >= MAX_NAME
  <2>1. r = Failure(string_pool)
    BY <1>1, <1>2, <1>3, <1>4, <1>6 DEF atom_concat
  <2>2. r.pool = string_pool /\ r.result = "fail"
    BY <2>1 DEF Failure
  <2>3. TextAt(string_pool, a) = sa /\ TextAt(string_pool, b) = sb
    BY <1>1, <1>2, <1>3 DEF TextAt, text
  <2>4. ConcatDenied(string_pool, a, b, a, b, c)
    BY <1>1, <1>4, <1>6, <2>3 DEF ConcatDenied
  <2> QED BY <2>2, <2>4, Same DEF ConcatOK, Returned
<1>7. CASE ~(Len(u) >= MAX_NAME)
  <2>1. PICK n : n = intern_name(string_pool, u)
    OBVIOUS
  <2>2. /\ Goes(n.pool) /\ n.ok \in BOOLEAN
        /\ n.ok => /\ n.p \in NameStarts(n.pool) /\ n.p \in 1 .. Len(n.pool)
                   /\ text_of(n.pool, n.p) = u /\ n.p # Unbound
    BY <1>5, <2>1, Interned
  <2>3. r = CASE ~ n.ok -> Errors(n.pool, "string pool exhausted")
              [] OTHER -> IF c \in {Unbound, n.p} THEN Success(n.pool, << a, b, n.p >>)
                          ELSE Failure(n.pool)
    BY <1>1, <1>2, <1>3, <1>4, <1>7, <2>1 DEF atom_concat, Unify1
  <2>4. /\ text_of(n.pool, a) = sa /\ a \in 1 .. Len(n.pool)
        /\ text_of(n.pool, b) = sb /\ b \in 1 .. Len(n.pool)
    BY <1>1, <1>2, <1>3, <2>2, ReadOf
  <2>5. CASE ~ n.ok
    <3>1. r = Errors(n.pool, "string pool exhausted")
      BY <2>3, <2>5, Zenon
    <3>2. r.pool = n.pool /\ r.result # "ok" /\ r.result # "fail"
      BY <3>1, ErrorsAre, Zenon
    <3> QED BY <2>2, <3>2 DEF ConcatOK, Returned
  <2>6. CASE n.ok /\ c \in {Unbound, n.p}
    <3>1. r.pool = n.pool /\ r.result = "ok" /\ r.args = << a, b, n.p >>
      BY <2>3, <2>6 DEF Success
    <3>2. ConcatTold(n.pool, a, b, a, b, n.p)
      BY <1>1, <1>4, <2>2, <2>4, <2>6 DEF ConcatTold, TextAt
    <3>3. \A i \in 1 .. 3 : r.args[i] \in 1 .. Len(n.pool)
      BY <2>2, <2>4, <2>6, <3>1
    <3> QED BY <2>2, <3>1, <3>2, <3>3 DEF ConcatOK, Returned
  <2>7. CASE n.ok /\ c \notin {Unbound, n.p}
    <3>1. r.pool = n.pool /\ r.result = "fail"
      BY <2>3, <2>7 DEF Failure
    <3>2. c # Unbound /\ c # n.p
      BY <2>7
    <3>3. ASSUME c \in NameStarts(n.pool) PROVE text_of(n.pool, c) # u
      <4>1. Distinct(n.pool)
        BY <2>2 DEF Goes
      <4> QED BY <2>2, <2>7, <3>2, <3>3, <4>1 DEF Distinct
    <3>4. Excused(n.pool, a, b, c) \/ ConcatDenied(n.pool, a, b, a, b, c)
      <4>1. CASE c \notin NameStarts(n.pool)
        BY <3>2, <4>1 DEF Excused, CanonicalIn
      <4>2. CASE c \in NameStarts(n.pool)
        <5>1. /\ TextAt(n.pool, a) = sa /\ TextAt(n.pool, b) = sb
              /\ TextAt(n.pool, c) # u
          BY <1>1, <2>4, <3>2, <3>3, <4>2 DEF TextAt
        <5> QED BY <1>1, <1>4, <5>1 DEF ConcatDenied
      <4> QED BY <4>1, <4>2
    <3> QED BY <2>2, <3>1, <3>4 DEF ConcatOK, Returned
  <2> QED BY <2>2, <2>5, <2>6, <2>7
<1> QED BY <1>6, <1>7

LEMMA ConcatRest ==
  ASSUME AtomsInv, NEW a \in atoms, NEW c \in atoms,
         NEW r, r = atom_concat(a, Unbound, c)
  PROVE  ConcatOK(r, a, Unbound, c)
<1>1. /\ a \in 1 .. Len(string_pool) /\ a # Unbound
      /\ c \in 1 .. Len(string_pool) /\ c # Unbound
  BY AtomBound
<1>2. PICK sa : sa = text(a)
  OBVIOUS
<1>3. PICK sc : sc = text(c)
  OBVIOUS
<1>4. /\ sa \in Texts /\ sa = text_of(string_pool, a)
      /\ sc \in Texts /\ sc = text_of(string_pool, c)
  BY <1>1, <1>2, <1>3, Typed
<1>5. CASE ~ IsPrefix(sa, sc)
  <2>1. r = Failure(string_pool)
    BY <1>1, <1>2, <1>3, <1>5 DEF atom_concat
  <2>2. r.pool = string_pool /\ r.result = "fail"
    BY <2>1 DEF Failure
  <2>3. TextAt(string_pool, a) = sa /\ TextAt(string_pool, c) = sc
    BY <1>1, <1>4 DEF TextAt
  <2>4. ConcatDenied(string_pool, a, Unbound, a, Unbound, c)
    BY <1>1, <1>5, <2>3 DEF ConcatDenied
  <2> QED BY <2>2, <2>4, Same DEF ConcatOK, Returned
<1>6. CASE IsPrefix(sa, sc)
  <2>1. PICK p : p = c + Len(sa)
    OBVIOUS
  <2>2. r = CASE ~ TRUE -> Errors(string_pool, "string pool exhausted")
              [] OTHER -> IF Unbound \in {Unbound, p}
                          THEN Success(string_pool, << a, p, c >>)
                          ELSE Failure(string_pool)
    BY <1>1, <1>2, <1>3, <1>6, <2>1 DEF atom_concat, Unify1, intern_pointer, Named
  <2>3. r.pool = string_pool /\ r.result = "ok" /\ r.args = << a, p, c >>
    BY <2>2 DEF Success
  <2>4. Len(sa) \in 0 .. Len(sc)
    <3>1. Len(sa) \in Nat /\ Len(sc) \in Nat
      BY <1>4, TextTyped
    <3>2. Len(sa) <= Len(sc)
      BY <1>4, <1>6, PrefixIs
    <3> QED BY <3>1, <3>2
  <2>5. /\ p \in 1 .. Len(string_pool)
        /\ text_of(string_pool, p) = SubSeq(sc, Len(sa) + 1, Len(sc))
    BY <1>1, <1>4, <2>1, <2>4, TextAfter DEF AtomsInv
  <2>6. sa \o SubSeq(sc, Len(sa) + 1, Len(sc)) = sc
    BY <1>4, <1>6, PrefixAndRest
  <2>7. p # Unbound
    <3>1. Len(string_pool) \in Nat
      BY DEF AtomsInv, Pools
    <3> QED BY <2>5, <3>1, AtomsAssumption
  <2>8. ConcatTold(string_pool, a, Unbound, a, p, c)
    BY <1>1, <1>4, <2>5, <2>6, <2>7 DEF ConcatTold, TextAt
  <2>9. \A i \in 1 .. 3 : r.args[i] \in 1 .. Len(string_pool)
    BY <1>1, <2>3, <2>5
  <2> QED BY <2>3, <2>8, <2>9, Same DEF ConcatOK, Returned
<1> QED BY <1>5, <1>6

LEMMA ConcatFront ==
  ASSUME AtomsInv, NEW b \in atoms, NEW c \in atoms,
         NEW r, r = atom_concat(Unbound, b, c)
  PROVE  ConcatOK(r, Unbound, b, c)
<1>1. /\ b \in 1 .. Len(string_pool) /\ b # Unbound
      /\ c \in 1 .. Len(string_pool) /\ c # Unbound
  BY AtomBound
<1>2. PICK sb : sb = text(b)
  OBVIOUS
<1>3. PICK sc : sc = text(c)
  OBVIOUS
<1>4. /\ sb \in Texts /\ sb = text_of(string_pool, b)
      /\ sc \in Texts /\ sc = text_of(string_pool, c)
  BY <1>1, <1>2, <1>3, Typed
<1>5. CASE ~(IsSuffix(sb, sc) /\ Len(sc) - Len(sb) < MAX_NAME)
  <2>1. r = Failure(string_pool)
    BY <1>1, <1>2, <1>3, <1>5 DEF atom_concat
  <2>2. r.pool = string_pool /\ r.result = "fail"
    BY <2>1 DEF Failure
  <2>3. TextAt(string_pool, b) = sb /\ TextAt(string_pool, c) = sc
    BY <1>1, <1>4 DEF TextAt
  <2>4. ~ IsSuffix(sb, sc) \/ Len(sc) - Len(sb) >= MAX_NAME
    <3>1. Len(sc) \in Nat /\ Len(sb) \in Nat /\ MAX_NAME \in Nat
      BY <1>4, TextTyped, AtomsAssumption
    <3> QED BY <1>5, <3>1
  <2>5. ConcatDenied(string_pool, Unbound, b, Unbound, b, c)
    BY <1>1, <2>3, <2>4 DEF ConcatDenied
  <2> QED BY <2>2, <2>5, Same DEF ConcatOK, Returned
<1>6. CASE IsSuffix(sb, sc) /\ Len(sc) - Len(sb) < MAX_NAME
  <2>1. PICK u : u = SubSeq(sc, 1, Len(sc) - Len(sb))
    OBVIOUS
  <2>2. u \in Texts /\ u \o sb = sc
    BY <1>4, <1>6, <2>1, RestAndSuffix
  <2>3. PICK n : n = intern_name(string_pool, u)
    OBVIOUS
  <2>4. /\ Goes(n.pool) /\ n.ok \in BOOLEAN
        /\ n.ok => /\ n.p \in NameStarts(n.pool) /\ n.p \in 1 .. Len(n.pool)
                   /\ text_of(n.pool, n.p) = u /\ n.p # Unbound
    BY <2>2, <2>3, Interned
  <2>5. r = CASE ~ n.ok -> Errors(n.pool, "string pool exhausted")
              [] OTHER -> IF Unbound \in {Unbound, n.p} THEN Success(n.pool, << n.p, b, c >>)
                          ELSE Failure(n.pool)
    BY <1>1, <1>2, <1>3, <1>6, <2>1, <2>3 DEF atom_concat, Unify1
  <2>6. /\ text_of(n.pool, b) = sb /\ b \in 1 .. Len(n.pool)
        /\ text_of(n.pool, c) = sc /\ c \in 1 .. Len(n.pool)
    BY <1>1, <1>2, <1>3, <2>4, ReadOf
  <2>7. CASE ~ n.ok
    <3>1. r = Errors(n.pool, "string pool exhausted")
      BY <2>5, <2>7, Zenon
    <3>2. r.pool = n.pool /\ r.result # "ok" /\ r.result # "fail"
      BY <3>1, ErrorsAre, Zenon
    <3> QED BY <2>4, <3>2 DEF ConcatOK, Returned
  <2>8. CASE n.ok
    <3>1. r.pool = n.pool /\ r.result = "ok" /\ r.args = << n.p, b, c >>
      BY <2>5, <2>8 DEF Success
    <3>2. ConcatTold(n.pool, Unbound, b, n.p, b, c)
      BY <1>1, <2>2, <2>4, <2>6, <2>8 DEF ConcatTold, TextAt
    <3>3. \A i \in 1 .. 3 : r.args[i] \in 1 .. Len(n.pool)
      BY <2>4, <2>6, <2>8, <3>1
    <3> QED BY <2>4, <3>1, <3>2, <3>3 DEF ConcatOK, Returned
  <2> QED BY <2>4, <2>7, <2>8
<1> QED BY <1>5, <1>6

LEMMA ConcatStep ==
  ASSUME AtomsInv, NEW a \in Maybe(atoms), NEW b \in Maybe(atoms), NEW c \in Maybe(atoms),
         NEW r, r = atom_concat(a, b, c)
  PROVE  ConcatOK(r, a, b, c)
<1>1. \A x \in Maybe(atoms) : x \in atoms \/ x = Unbound
  BY DEF Maybe
<1>2. CASE a \in atoms /\ b \in atoms
  BY <1>2, ConcatBoth
<1>3. CASE a \in atoms /\ b = Unbound /\ c \in atoms
  BY <1>3, ConcatRest
<1>4. CASE a = Unbound /\ b \in atoms /\ c \in atoms
  BY <1>4, ConcatFront
<1>5. CASE \/ a = Unbound /\ b = Unbound
           \/ a = Unbound /\ c = Unbound
           \/ b = Unbound /\ c = Unbound
  <2>1. CASE a # Unbound /\ b # Unbound
    BY <1>5, <2>1
  <2>2. CASE ~(a # Unbound /\ b # Unbound)
    <3>1. /\ ~(a # Unbound /\ b # Unbound)
          /\ ~(a # Unbound /\ b = Unbound /\ c # Unbound)
          /\ ~(a = Unbound /\ b # Unbound /\ c # Unbound)
      BY <1>5, <2>2
    <3>2. r = Failure(string_pool)
      BY <3>1 DEF atom_concat
    <3>3. r.pool = string_pool /\ r.result = "fail"
      BY <3>2 DEF Failure
    <3>4. Excused(string_pool, a, b, c)
      BY <1>5 DEF Excused
    <3> QED BY <3>3, <3>4, Same DEF ConcatOK, Returned
  <2> QED BY <2>1, <2>2
<1> QED BY <1>1, <1>2, <1>3, <1>4, <1>5

LEMMA ConcatForm ==
  ASSUME NEW q, string_pool' = q, NEW a, NEW b, NEW c, NEW x, NEW y, NEW z
  PROVE  /\ ConcatTold(q, a, b, x, y, z) =>
              ConcatRight(<< a, b, c >>, << x, y, z >>, TRUE)'
         /\ ConcatDenied(q, a, b, x, y, z) =>
              ConcatRight(<< a, b, c >>, << x, y, z >>, FALSE)'
<1>1. PICK args : args = << x, y, z >>
  OBVIOUS
<1>2. PICK given : given = << a, b, c >>
  OBVIOUS
<1>3. PICK t : t = [i \in 1 .. 3 |-> IF args[i] = Unbound THEN << >> ELSE text_of(q, args[i])]
  OBVIOUS
<1>4. given[1] = a /\ given[2] = b /\ args[1] = x /\ args[2] = y /\ args[3] = z
  BY <1>1, <1>2
<1>5. t[1] = TextAt(q, x) /\ t[2] = TextAt(q, y) /\ t[3] = TextAt(q, z)
  BY <1>3, <1>4 DEF TextAt
<1>6. ConcatRight(given, args, TRUE)' <=> t[1] \o t[2] = t[3]
  BY <1>3 DEF ConcatRight, text
<1>7. ConcatRight(given, args, FALSE)'
        <=> CASE given[2] = Unbound -> ~ IsPrefix(t[1], t[3])
              [] given[1] = Unbound -> \/ ~ IsSuffix(t[2], t[3])
                                       \/ Len(t[3]) - Len(t[2]) >= MAX_NAME
              [] OTHER -> t[1] \o t[2] # t[3] \/ Len(t[1] \o t[2]) >= MAX_NAME
  BY <1>3 DEF ConcatRight, text
<1> QED BY <1>1, <1>2, <1>4, <1>5, <1>6, <1>7 DEF ConcatTold, ConcatDenied

LEMMA ConcatKeeps ==
  ASSUME AtomsInv, NEW a \in Maybe(atoms), NEW b \in Maybe(atoms), NEW c \in Maybe(atoms),
         Concat(a, b, c)
  PROVE  AtomsInv' /\ TextsRight'
<1>1. PICK r : r = atom_concat(a, b, c)
  OBVIOUS
<1>2. ConcatOK(r, a, b, c)
  BY <1>1, ConcatStep
<1>3. Called("atom_concat", << a, b, c >>, r, 1 .. 3)
  BY <1>1 DEF Concat
<1>4. AtomsInv'
  BY <1>2, <1>3, CalledKeeps DEF ConcatOK
<1>5. PICK given : given = << a, b, c >>
  OBVIOUS
<1>6. given[1] = a /\ given[2] = b /\ given[3] = c
  BY <1>5
<1>7. /\ last_call'.pred = "atom_concat" /\ last_call'.given = given
      /\ last_call'.result = r.result /\ string_pool' = r.pool
      /\ r.result = "ok" => last_call'.args = r.args
      /\ r.result # "ok" => last_call'.args = given
  BY <1>3, <1>5 DEF Called
<1>8. CASE r.result = "ok"
  <2>1. PICK x, y, z : r.args = << x, y, z >> /\ ConcatTold(r.pool, a, b, x, y, z)
    BY <1>2, <1>8 DEF ConcatOK
  <2>2. ConcatRight(given, << x, y, z >>, TRUE)'
    <3>1. string_pool' = r.pool
      BY <1>7
    <3> QED BY <1>5, <2>1, <3>1, ConcatForm
  <2> QED BY <1>4, <1>7, <1>8, <2>1, <2>2 DEF TextsRight
<1>9. CASE r.result = "fail" /\ Excused(r.pool, a, b, c)
  <2>1. \/ \E i \in 1 .. 3 : ~ Canonical(given[i])'
        \/ \E i, j \in 1 .. 3 : i # j /\ given[i] = Unbound /\ given[j] = Unbound
    BY <1>6, <1>7, <1>9 DEF Excused, Canonical, CanonicalIn
  <2> QED BY <1>4, <1>7, <1>9, <2>1 DEF TextsRight
<1>10. CASE r.result = "fail" /\ ConcatDenied(r.pool, a, b, a, b, c)
  <2>1. ConcatRight(given, given, FALSE)'
    <3>1. string_pool' = r.pool
      BY <1>7
    <3> QED BY <1>5, <1>10, <3>1, ConcatForm
  <2> QED BY <1>4, <1>7, <1>10, <2>1 DEF TextsRight
<1>11. CASE r.result \notin {"ok", "fail"}
  BY <1>4, <1>7, <1>11 DEF TextsRight
<1> QED BY <1>2, <1>8, <1>9, <1>10, <1>11 DEF ConcatOK

-----------------------------------------------------------------------------
(* sub_atom/5 for a part that is not given.                                *)

Asked(given, n, b, l) ==
  /\ b + l <= n /\ l < MAX_NAME
  /\ Fits(given[2], b) /\ Fits(given[3], l) /\ Fits(given[4], n - b - l)

\* No place and length tried so far is what is asked.
NoneBefore(given, n, b, l) ==
  \A i, j \in 0 .. n : i < b \/ (i = b /\ j < l) => ~ Asked(given, n, i, j)

FoundAt(q, x, given, s, answer) ==
  \E i, j \in 0 .. Len(s) : \E p \in 1 .. Len(q) :
     /\ answer = Success(q, << x, i, j, Len(s) - i - j, p >>)
     /\ Asked(given, Len(s), i, j) /\ text_of(q, p) = SubSeq(s, i + 1, i + j)

\* The search when it comes to place b and length l.
GoodState(x, given, s, b, l, r) ==
  \E q \in Pools :
    /\ Goes(q)
    /\ \/ r = Going(q) /\ NoneBefore(given, Len(s), b, l)
       \/ r = Over(Errors(q, "string pool exhausted"))
       \/ \E answer : r = Over(answer) /\ FoundAt(q, x, given, s, answer)

\* A set of all its states, as the recursion needs one.
Errings == {Errors(q, "string pool exhausted") : q \in Pools}
Findings(x, n) ==
  {Success(f.q, << x, f.i, f.j, n - f.i - f.j, f.p >>) :
     f \in [q : Pools, i : 0 .. n, j : 0 .. n, p : Nat]}
SearchStates(x, n) ==
  {Going(q) : q \in Pools} \cup {Over(answer) : answer \in Errings \cup Findings(x, n)}

LEMMA GoodTyped ==
  ASSUME NEW x, NEW given, NEW s \in Texts, NEW b, NEW l, NEW r,
         GoodState(x, given, s, b, l, r)
  PROVE  r \in SearchStates(x, Len(s))
<1>1. PICK q \in Pools :
        \/ r = Going(q)
        \/ r = Over(Errors(q, "string pool exhausted"))
        \/ \E answer : r = Over(answer) /\ FoundAt(q, x, given, s, answer)
  BY Zenon DEF GoodState
<1>2. CASE r = Going(q)
  BY <1>2, Zenon DEF SearchStates
<1>3. CASE r = Over(Errors(q, "string pool exhausted"))
  <2>1. PICK answer : answer = Errors(q, "string pool exhausted")
    OBVIOUS
  <2>2. answer \in Errings
    BY <2>1, Zenon DEF Errings
  <2> QED BY <1>3, <2>1, <2>2, Zenon DEF SearchStates
<1>4. CASE \E answer : r = Over(answer) /\ FoundAt(q, x, given, s, answer)
  <2>1. PICK answer : r = Over(answer) /\ FoundAt(q, x, given, s, answer)
    BY <1>4
  <2>2. PICK i \in 0 .. Len(s), j \in 0 .. Len(s), p \in 1 .. Len(q) :
          answer = Success(q, << x, i, j, Len(s) - i - j, p >>)
    BY <2>1, Zenon DEF FoundAt
  <2>3. p \in Nat
    <3>1. Len(q) \in Nat
      BY DEF Pools
    <3> QED BY <3>1
  <2>4. answer \in Findings(x, Len(s))
    <3>1. PICK f \in [q : Pools, i : 0 .. Len(s), j : 0 .. Len(s), p : Nat] :
            f = [q |-> q, i |-> i, j |-> j, p |-> p]
      BY <2>3
    <3>2. f.q = q /\ f.i = i /\ f.j = j /\ f.p = p
      BY <3>1
    <3>3. answer = Success(f.q, << x, f.i, f.j, Len(s) - f.i - f.j, f.p >>)
      BY <2>2, <3>2, Zenon
    <3> QED BY <3>1, <3>3, Zenon DEF Findings
  <2> QED BY <2>1, <2>4, Zenon DEF SearchStates
<1> QED BY <1>1, <1>2, <1>3, <1>4, Zenon

LEMMA OverAndGoing ==
  /\ \A q : Going(q).over = FALSE /\ Going(q).answer = Failure(q) /\ Going(q).answer.pool = q
  /\ \A answer : Over(answer).over = TRUE /\ Over(answer).answer = answer
BY DEF Going, Over, Failure

LEMMA NextLength ==
  ASSUME NEW given, NEW n \in Nat, NEW b \in 0 .. n, NEW l \in 0 .. n,
         NoneBefore(given, n, b, l), ~ Asked(given, n, b, l)
  PROVE  NoneBefore(given, n, b, l + 1)
<1> SUFFICES ASSUME NEW i \in 0 .. n, NEW j \in 0 .. n, i < b \/ (i = b /\ j < l + 1)
             PROVE  ~ Asked(given, n, i, j)
  BY DEF NoneBefore
<1>1. CASE i < b \/ (i = b /\ j < l)
  BY <1>1 DEF NoneBefore
<1>2. CASE i = b /\ j = l
  BY <1>2
<1> QED BY <1>1, <1>2

LEMMA TriedWorks ==
  ASSUME AtomsInv, NEW x \in atoms, NEW s, s = text(x), NEW given,
         NEW b \in 0 .. Len(s), NEW l \in 0 .. Len(s),
         NEW d, GoodState(x, given, s, b, l, d), NEW r, r = Tried(d, x, given, b, l)
  PROVE  GoodState(x, given, s, b, l + 1, r)
<1>1. s \in Texts /\ Len(s) \in Nat
  BY AtomBound, Typed, TextTyped
<1>2. PICK q \in Pools :
        /\ Goes(q)
        /\ \/ d = Going(q) /\ NoneBefore(given, Len(s), b, l)
           \/ d = Over(Errors(q, "string pool exhausted"))
           \/ \E answer : d = Over(answer) /\ FoundAt(q, x, given, s, answer)
  BY Zenon DEF GoodState
<1> DEFINE try == /\ ~ d.over /\ b + l <= Len(s) /\ l < MAX_NAME
                  /\ Fits(given[2], b) /\ Fits(given[3], l)
<1>3. PICK part : part = intern_name(d.answer.pool, SubSeq(s, b + 1, b + l))
  OBVIOUS
<1>4. r = CASE ~ try -> d
            [] try /\ ~ part.ok -> Over(Errors(part.pool, "string pool exhausted"))
            [] try /\ part.ok ->
                 IF Fits(given[4], Len(s) - b - l)
                 THEN Over(Success(part.pool, << x, b, l, Len(s) - b - l, part.p >>))
                 ELSE Going(part.pool)
  BY <1>3, Zenon DEF Tried
<1>5. CASE d # Going(q)
  <2>1. PICK answer : d = Over(answer)
    BY <1>2, <1>5, Zenon
  <2>2. d.over = TRUE
    BY <2>1, OverAndGoing, Zenon
  <2>3. r = d
    BY <1>4, <2>2, Zenon
  <2> QED BY <1>2, <1>5, <2>3, Zenon DEF GoodState
<1>6. CASE d = Going(q)
  <2>1. d.over = FALSE /\ d.answer.pool = q
    BY <1>6, OverAndGoing, Zenon
  <2>2. NoneBefore(given, Len(s), b, l)
    BY <1>2, <1>6, OverAndGoing, Zenon
  <2>3. CASE ~ try
    <3>1. r = d
      BY <1>4, <2>3, Zenon
    <3>2. ~ Asked(given, Len(s), b, l)
      BY <2>1, <2>3, Zenon DEF Asked
    <3>3. NoneBefore(given, Len(s), b, l + 1)
      BY <1>1, <2>2, <3>2, NextLength
    <3> QED BY <1>2, <1>6, <3>1, <3>3, Zenon DEF GoodState
  <2>4. CASE try
    <3>1. PICK u : u = SubSeq(s, b + 1, b + l)
      OBVIOUS
    <3>2. u \in Texts
      <4>1. Within(s, b + 1, b + l)
        BY <1>1, <2>4 DEF Within
      <4>2. IsPart(u, s, b + 1, b + l)
        BY <1>1, <3>1, <4>1, PartOf
      <4> QED BY <4>2 DEF IsPart
    <3>3. part = intern_name(q, u)
      BY <1>3, <2>1, <3>1
    <3>4. InternedAs(q, part, u)
      BY <1>2, <3>2, <3>3, InternName DEF Goes
    <3>5. part.pool \in Pools /\ Goes(part.pool) /\ part.ok \in BOOLEAN
      <4>1. string_pool \in Pools
        BY DEF AtomsInv
      <4>2. /\ part.pool \in Pools /\ Distinct(part.pool) /\ Extends(q, part.pool)
            /\ part.ok \in BOOLEAN
        BY <3>4 DEF InternedAs
      <4>3. Extends(string_pool, q)
        BY <1>2 DEF Goes
      <4>4. Extends(string_pool, part.pool)
        BY <4>1, <4>2, <4>3, ExtendsTwice
      <4> QED BY <4>2, <4>4 DEF Goes
    <3>6. CASE ~ part.ok
      <4>1. r = Over(Errors(part.pool, "string pool exhausted"))
        BY <1>4, <2>4, <3>6, Zenon
      <4> QED BY <3>5, <4>1, Zenon DEF GoodState
    <3>7. CASE part.ok /\ Fits(given[4], Len(s) - b - l)
      <4>1. r = Over(Success(part.pool, << x, b, l, Len(s) - b - l, part.p >>))
        BY <1>4, <2>4, <3>7, Zenon
      <4>2. Asked(given, Len(s), b, l)
        BY <2>4, <3>7, Zenon DEF Asked
      <4>3. part.p \in 1 .. Len(part.pool) /\ text_of(part.pool, part.p) = u
        <5>1. part.p \in NameStarts(part.pool) /\ text_of(part.pool, part.p) = u
          BY <3>4, <3>7 DEF InternedAs
        <5>2. part.pool \in Seq(Characters)
          BY <3>5 DEF Pools
        <5> QED BY <5>1, <5>2 DEF NameStarts
      <4>4. PICK answer :
              answer = Success(part.pool, << x, b, l, Len(s) - b - l, part.p >>)
        OBVIOUS
      <4>5. FoundAt(part.pool, x, given, s, answer)
        BY <3>1, <4>2, <4>3, <4>4, Zenon DEF FoundAt
      <4> QED BY <3>5, <4>1, <4>4, <4>5, Zenon DEF GoodState
    <3>8. CASE part.ok /\ ~ Fits(given[4], Len(s) - b - l)
      <4>1. r = Going(part.pool)
        BY <1>4, <2>4, <3>8, Zenon
      <4>2. ~ Asked(given, Len(s), b, l)
        BY <3>8, Zenon DEF Asked
      <4>3. NoneBefore(given, Len(s), b, l + 1)
        BY <1>1, <2>2, <4>2, NextLength
      <4> QED BY <3>5, <4>1, <4>3, Zenon DEF GoodState
    <3> QED BY <3>5, <3>6, <3>7, <3>8, Zenon
  <2> QED BY <2>3, <2>4
<1> QED BY <1>5, <1>6

LEMMA LengthsWork ==
  ASSUME AtomsInv, NEW x \in atoms, NEW s, s = text(x), NEW given, NEW b \in 0 .. Len(s),
         NEW d, GoodState(x, given, s, b, 0, d), NEW r, r = Lengths(d, x, given, b)
  PROVE  GoodState(x, given, s, b + 1, 0, r)
<1> DEFINE n == Len(s)
           T == [k \in 0 .. n + 1 |->
                   {e \in SearchStates(x, n) : GoodState(x, given, s, b, k, e)}]
           step == [k \in 1 .. n + 1 |-> [e \in T[k - 1] |-> Tried(e, x, given, b, k - 1)]]
<1>1. s \in Texts /\ n \in Nat /\ n + 1 \in Nat /\ n = Len(s) /\ b \in 0 .. n
  BY AtomBound, Typed, TextTyped
<1>2. d \in T[0]
  <2>1. d \in SearchStates(x, n)
    BY <1>1, GoodTyped
  <2>2. 0 \in 0 .. n + 1
    BY <1>1
  <2> QED BY <2>1, <2>2
<1>3. ASSUME NEW k \in 1 .. n + 1, NEW e \in T[k - 1]
      PROVE  Tried(e, x, given, b, k - 1) \in T[k]
  <2>1. k \in 0 .. n + 1 /\ k - 1 \in 0 .. n + 1 /\ k - 1 \in 0 .. n /\ (k - 1) + 1 = k
    BY <1>1
  <2>2. GoodState(x, given, s, b, k - 1, e)
    BY <2>1
  <2>3. PICK o : o = Tried(e, x, given, b, k - 1)
    OBVIOUS
  <2>4. GoodState(x, given, s, b, (k - 1) + 1, o)
    BY <1>1, <2>1, <2>2, <2>3, TriedWorks
  <2>5. GoodState(x, given, s, b, k, o)
    BY <2>1, <2>4
  <2>6. o \in SearchStates(x, n)
    BY <1>1, <2>5, GoodTyped
  <2> QED BY <2>1, <2>3, <2>5, <2>6
<1>4. \A k \in 1 .. n + 1 : \A e \in T[k - 1] : step[k][e] = Tried(e, x, given, b, k - 1)
  OBVIOUS
<1>5. \A k \in 1 .. n + 1 : \A e \in T[k - 1] : step[k][e] \in T[k]
  BY <1>3, <1>4
<1>6. \A e \in T[n + 1] : GoodState(x, given, s, b, n + 1, e)
  <2>1. n + 1 \in 0 .. n + 1
    BY <1>1
  <2> QED BY <2>1
<1> HIDE DEF n, T, step
<1>7. Leads(n + 1, T, d, step)
  BY <1>2, <1>5 DEF Leads
<1>8. PICK f : /\ f = [k \in 0 .. n + 1 |-> IF k = 0 THEN d ELSE step[k][f[k - 1]]]
               /\ \A k \in 0 .. n + 1 : f[k] \in T[k]
  BY <1>1, <1>7, RecursionExists
<1>9. f = [k \in 0 .. n + 1 |-> IF k = 0 THEN d ELSE Tried(f[k - 1], x, given, b, k - 1)]
  <2>1. ASSUME NEW k \in 1 .. n + 1
        PROVE  step[k][f[k - 1]] = Tried(f[k - 1], x, given, b, k - 1)
    <3>1. k - 1 \in 0 .. n + 1
      BY <1>1
    <3>2. f[k - 1] \in T[k - 1]
      BY <1>8, <3>1
    <3> QED BY <1>4, <3>2
  <2>2. \A k \in 0 .. n + 1 :
          (IF k = 0 THEN d ELSE step[k][f[k - 1]])
          = (IF k = 0 THEN d ELSE Tried(f[k - 1], x, given, b, k - 1))
    BY <1>1, <2>1
  <2> QED BY <1>8, <2>2
<1>10. PICK done :
         /\ done = [k \in 0 .. n + 1 |->
                      IF k = 0 THEN d ELSE Tried(done[k - 1], x, given, b, k - 1)]
         /\ r = done[n + 1]
  BY <1>1, <1>9 DEF Lengths
<1>11. done[0] = d /\ \A k \in 1 .. n + 1 : done[k] = Tried(done[k - 1], x, given, b, k - 1)
  <2>1. 0 \in 0 .. n + 1 /\ \A k \in 1 .. n + 1 : k \in 0 .. n + 1 /\ k # 0
    BY <1>1
  <2> QED BY <1>10, <2>1
<1>12. Stays(n + 1, T, done)
  BY <1>2, <1>3, <1>11 DEF Stays
<1>13. r \in T[n + 1]
  <2>1. n + 1 \in 0 .. n + 1
    BY <1>1
  <2>2. \A k \in 0 .. n + 1 : done[k] \in T[k]
    BY <1>1, <1>12, RecursionStays
  <2> QED BY <1>10, <2>1, <2>2
<1>14. GoodState(x, given, s, b, n + 1, r)
  BY <1>6, <1>13
<1>15. NoneBefore(given, n, b, n + 1) => NoneBefore(given, n, b + 1, 0)
  <2> SUFFICES ASSUME NoneBefore(given, n, b, n + 1), NEW i \in 0 .. n, NEW j \in 0 .. n,
                      i < b + 1 \/ (i = b + 1 /\ j < 0)
               PROVE  ~ Asked(given, n, i, j)
    BY DEF NoneBefore
  <2>1. i < b \/ (i = b /\ j < n + 1)
    BY <1>1
  <2> QED BY <2>1 DEF NoneBefore
<1> QED BY <1>1, <1>14, <1>15, Zenon DEF GoodState

LEMMA SearchWorks ==
  ASSUME AtomsInv, NEW x \in atoms, NEW s, s = text(x), NEW given,
         NEW r, r = Search(x, given)
  PROVE  \E d : GoodState(x, given, s, Len(s) + 1, 0, d) /\ r = d.answer
<1> DEFINE n == Len(s)
           T == [k \in 0 .. n + 1 |->
                   {e \in SearchStates(x, n) : GoodState(x, given, s, k, 0, e)}]
           base == Going(string_pool)
           step == [k \in 1 .. n + 1 |-> [e \in T[k - 1] |-> Lengths(e, x, given, k - 1)]]
<1>1. s \in Texts /\ n \in Nat /\ n + 1 \in Nat /\ n = Len(s)
  BY AtomBound, Typed, TextTyped
<1>2. base \in T[0]
  <2>1. NoneBefore(given, n, 0, 0)
    BY DEF NoneBefore
  <2>2. string_pool \in Pools /\ Goes(string_pool)
    BY Same DEF AtomsInv
  <2>3. PICK e : e = base
    OBVIOUS
  <2>4. GoodState(x, given, s, 0, 0, e)
    BY <2>1, <2>2, <2>3, Zenon DEF GoodState
  <2>5. e \in SearchStates(x, n)
    BY <1>1, <2>4, GoodTyped
  <2>6. 0 \in 0 .. n + 1
    BY <1>1
  <2> HIDE DEF base
  <2> QED BY <2>3, <2>4, <2>5, <2>6
<1>3. ASSUME NEW k \in 1 .. n + 1, NEW e \in T[k - 1]
      PROVE  Lengths(e, x, given, k - 1) \in T[k]
  <2>1. k \in 0 .. n + 1 /\ k - 1 \in 0 .. n + 1 /\ k - 1 \in 0 .. n /\ (k - 1) + 1 = k
    BY <1>1
  <2>2. GoodState(x, given, s, k - 1, 0, e)
    BY <2>1
  <2>3. PICK o : o = Lengths(e, x, given, k - 1)
    OBVIOUS
  <2>4. GoodState(x, given, s, (k - 1) + 1, 0, o)
    BY <1>1, <2>1, <2>2, <2>3, LengthsWork
  <2>5. GoodState(x, given, s, k, 0, o)
    BY <2>1, <2>4
  <2>6. o \in SearchStates(x, n)
    BY <1>1, <2>5, GoodTyped
  <2> QED BY <2>1, <2>3, <2>5, <2>6
<1>4. \A k \in 1 .. n + 1 : \A e \in T[k - 1] : step[k][e] = Lengths(e, x, given, k - 1)
  OBVIOUS
<1>5. \A k \in 1 .. n + 1 : \A e \in T[k - 1] : step[k][e] \in T[k]
  BY <1>3, <1>4
<1>6. \A e \in T[n + 1] : GoodState(x, given, s, n + 1, 0, e)
  <2>1. n + 1 \in 0 .. n + 1
    BY <1>1
  <2> QED BY <2>1
<1> HIDE DEF n, T, step, base
<1>7. Leads(n + 1, T, base, step)
  BY <1>2, <1>5 DEF Leads
<1>8. PICK f : /\ f = [k \in 0 .. n + 1 |-> IF k = 0 THEN base ELSE step[k][f[k - 1]]]
               /\ \A k \in 0 .. n + 1 : f[k] \in T[k]
  BY <1>1, <1>7, RecursionExists
<1>9. f = [k \in 0 .. n + 1 |-> IF k = 0 THEN base ELSE Lengths(f[k - 1], x, given, k - 1)]
  <2>1. ASSUME NEW k \in 1 .. n + 1
        PROVE  step[k][f[k - 1]] = Lengths(f[k - 1], x, given, k - 1)
    <3>1. k - 1 \in 0 .. n + 1
      BY <1>1
    <3>2. f[k - 1] \in T[k - 1]
      BY <1>8, <3>1
    <3> QED BY <1>4, <3>2
  <2>2. \A k \in 0 .. n + 1 :
          (IF k = 0 THEN base ELSE step[k][f[k - 1]])
          = (IF k = 0 THEN base ELSE Lengths(f[k - 1], x, given, k - 1))
    BY <1>1, <2>1
  <2> QED BY <1>8, <2>2
<1>10. PICK done :
         /\ done = [k \in 0 .. n + 1 |->
                      IF k = 0 THEN base ELSE Lengths(done[k - 1], x, given, k - 1)]
         /\ r = done[n + 1].answer
  BY <1>1, <1>9 DEF Search, base
<1>11. done[0] = base /\ \A k \in 1 .. n + 1 : done[k] = Lengths(done[k - 1], x, given, k - 1)
  <2>1. 0 \in 0 .. n + 1 /\ \A k \in 1 .. n + 1 : k \in 0 .. n + 1 /\ k # 0
    BY <1>1
  <2> QED BY <1>10, <2>1
<1>12. Stays(n + 1, T, done)
  BY <1>2, <1>3, <1>11 DEF Stays
<1>13. done[n + 1] \in T[n + 1]
  <2>1. n + 1 \in 0 .. n + 1
    BY <1>1
  <2>2. \A k \in 0 .. n + 1 : done[k] \in T[k]
    BY <1>1, <1>12, RecursionStays
  <2> QED BY <2>1, <2>2
<1> QED BY <1>1, <1>6, <1>10, <1>13

-----------------------------------------------------------------------------
(* sub_atom/5.                                                             *)

SolutionIn(q, given, s, b, l) ==
  /\ b + l <= Len(s)
  /\ Fits(given[2], b) /\ Fits(given[3], l) /\ Fits(given[4], Len(s) - b - l)
  /\ IF given[5] = Unbound THEN l < MAX_NAME
     ELSE text_of(q, given[5]) = SubSeq(s, b + 1, b + l)

SubTold(q, given, s, args) ==
  /\ SolutionIn(q, given, s, args[2], args[3]) /\ args[4] = Len(s) - args[2] - args[3]
  /\ text_of(q, args[5]) = SubSeq(s, args[2] + 1, args[2] + args[3])
SubDenied(q, given, s) == \A b, l \in 0 .. Len(s) : ~ SolutionIn(q, given, s, b, l)

SubOK(r, given, s) ==
  /\ Returned(r, {1, 5})
  /\ r.result = "ok" => SubTold(r.pool, given, s, r.args)
  /\ r.result = "fail" => SubDenied(r.pool, given, s)

LEMMA SubSearched ==
  ASSUME AtomsInv, NEW x \in atoms, NEW s, s = text(x), NEW given, given[5] = Unbound,
         NEW r, r = Search(x, given)
  PROVE  SubOK(r, given, s)
<1>1. s \in Texts /\ Len(s) \in Nat /\ x \in 1 .. Len(string_pool)
  BY AtomBound, Typed, TextTyped
<1>2. PICK d : GoodState(x, given, s, Len(s) + 1, 0, d) /\ r = d.answer
  BY SearchWorks
<1>3. PICK q \in Pools :
        /\ Goes(q)
        /\ \/ d = Going(q) /\ NoneBefore(given, Len(s), Len(s) + 1, 0)
           \/ d = Over(Errors(q, "string pool exhausted"))
           \/ \E answer : d = Over(answer) /\ FoundAt(q, x, given, s, answer)
  BY <1>2, Zenon DEF GoodState
<1>4. CASE d = Going(q) /\ NoneBefore(given, Len(s), Len(s) + 1, 0)
  <2>1. r = Failure(q)
    BY <1>2, <1>4, OverAndGoing, Zenon
  <2>2. r.pool = q /\ r.result = "fail"
    BY <2>1 DEF Failure
  <2>3. ASSUME NEW b \in 0 .. Len(s), NEW l \in 0 .. Len(s)
        PROVE  ~ SolutionIn(q, given, s, b, l)
    <3>1. ~ Asked(given, Len(s), b, l)
      <4>1. b < Len(s) + 1
        BY <1>1
      <4> QED BY <1>4, <4>1 DEF NoneBefore
    <3> QED BY <3>1 DEF Asked, SolutionIn
  <2> QED BY <1>3, <2>2, <2>3 DEF SubOK, SubDenied, Returned
<1>5. CASE d = Over(Errors(q, "string pool exhausted"))
  <2>1. r = Errors(q, "string pool exhausted")
    BY <1>2, <1>5, OverAndGoing, Zenon
  <2>2. r.pool = q /\ r.result # "ok" /\ r.result # "fail"
    BY <2>1, ErrorsAre, Zenon
  <2> QED BY <1>3, <2>2 DEF SubOK, Returned
<1>6. CASE \E answer : d = Over(answer) /\ FoundAt(q, x, given, s, answer)
  <2>1. FoundAt(q, x, given, s, r)
    BY <1>2, <1>6, OverAndGoing, Zenon
  <2>2. PICK i \in 0 .. Len(s), j \in 0 .. Len(s), p \in 1 .. Len(q) :
          /\ r = Success(q, << x, i, j, Len(s) - i - j, p >>)
          /\ Asked(given, Len(s), i, j) /\ text_of(q, p) = SubSeq(s, i + 1, i + j)
    BY <2>1, Zenon DEF FoundAt
  <2>3. PICK args : args = << x, i, j, Len(s) - i - j, p >>
    OBVIOUS
  <2>4. /\ args[1] = x /\ args[2] = i /\ args[3] = j
        /\ args[4] = Len(s) - i - j /\ args[5] = p
    BY <2>3
  <2>5. r.pool = q /\ r.result = "ok" /\ r.args = args
    BY <2>2, <2>3 DEF Success
  <2>6. SolutionIn(q, given, s, i, j)
    BY <2>2 DEF SolutionIn, Asked
  <2>7. SubTold(q, given, s, args)
    BY <2>2, <2>4, <2>6 DEF SubTold
  <2>8. x \in 1 .. Len(q)
    BY <1>1, <1>3, ReadOf
  <2>9. Returned(r, {1, 5})
    BY <1>3, <2>4, <2>5, <2>8 DEF Returned
  <2> QED BY <2>5, <2>7, <2>9 DEF SubOK
<1> QED BY <1>3, <1>4, <1>5, <1>6

LEMMA SubGiven ==
  ASSUME AtomsInv, NEW x \in atoms, NEW s, s = text(x), NEW p \in atoms,
         NEW b \in Maybe(0 .. Len(s)), NEW l \in Maybe(0 .. Len(s)),
         NEW a \in Maybe(0 .. Len(s)), NEW given, given = << x, b, l, a, p >>,
         NEW r, r = sub_atom(x, b, l, a, p)
  PROVE  SubOK(r, given, s)
<1>1. /\ s \in Texts /\ Len(s) \in Nat /\ x \in 1 .. Len(string_pool)
      /\ p \in 1 .. Len(string_pool) /\ p # Unbound
  BY AtomBound, Typed, TextTyped
<1>2. PICK part : part = text(p)
  OBVIOUS
<1> DEFINE n == Len(s)
           m == Len(part)
           At(k) == /\ k + m <= n /\ SubSeq(s, k + 1, k + m) = part
                    /\ Fits(l, m) /\ Fits(a, n - k - m)
           places == {k \in Befores(b, p, n) : At(k)}
<1>3. part \in Texts /\ m \in Nat /\ n \in Nat /\ part = text_of(string_pool, p)
  BY <1>1, <1>2, Typed, TextTyped
<1>4. r = IF places = {} THEN Failure(string_pool)
          ELSE Success(string_pool,
                       << x, Min(places), m, n - Min(places) - m, p >>)
  BY <1>1, <1>2 DEF sub_atom
<1>5. given[2] = b /\ given[3] = l /\ given[4] = a /\ given[5] = p
  OBVIOUS
<1>6. Befores(b, p, n) = IF b # Unbound THEN {b} ELSE 0 .. n - m
  BY <1>2 DEF Befores
<1>7. ASSUME NEW k \in places PROVE k \in 0 .. n /\ SolutionIn(string_pool, given, s, k, m)
  <2>1. k \in Befores(b, p, n) /\ At(k)
    OBVIOUS
  <2>2. k \in 0 .. n /\ Fits(b, k)
    <3>1. CASE b # Unbound
      <4>1. k = b /\ b \in 0 .. n
        BY <1>6, <2>1, <3>1 DEF Maybe
      <4> QED BY <4>1 DEF Fits
    <3>2. CASE b = Unbound
      <4>1. k \in 0 .. n - m
        BY <1>6, <2>1, <3>2
      <4> QED BY <1>3, <3>2, <4>1 DEF Fits
    <3> QED BY <3>1, <3>2
  <2> QED BY <1>1, <1>3, <1>5, <2>1, <2>2 DEF SolutionIn
<1>8. ASSUME NEW i \in 0 .. n, NEW j \in 0 .. n, SolutionIn(string_pool, given, s, i, j)
      PROVE  i \in places
  <2>1. /\ i + j <= n /\ Fits(b, i) /\ Fits(l, j) /\ Fits(a, n - i - j)
        /\ part = SubSeq(s, i + 1, i + j)
    BY <1>1, <1>3, <1>5, <1>8 DEF SolutionIn
  <2>2. j = m
    <3>1. Within(s, i + 1, i + j) /\ (i + j) - (i + 1) + 1 = j
      BY <1>1, <2>1 DEF Within
    <3>2. IsPart(part, s, i + 1, i + j)
      BY <1>1, <2>1, <3>1, PartOf
    <3> QED BY <3>1, <3>2 DEF IsPart
  <2>3. i \in Befores(b, p, n)
    <3>1. CASE b # Unbound
      BY <1>6, <2>1, <3>1 DEF Fits
    <3>2. CASE b = Unbound
      <4>1. i \in 0 .. n - m
        BY <1>3, <2>1, <2>2
      <4> QED BY <1>6, <3>2, <4>1
    <3> QED BY <3>1, <3>2
  <2>4. At(i)
    BY <2>1, <2>2
  <2> QED BY <2>3, <2>4
<1>9. places \subseteq Nat
  BY <1>3, <1>7
<1>10. Goes(string_pool)
  BY Same
<1>11. CASE places = {}
  <2>1. r = Failure(string_pool)
    BY <1>4, <1>11
  <2>2. r.pool = string_pool /\ r.result = "fail"
    BY <2>1 DEF Failure
  <2>3. SubDenied(string_pool, given, s)
    BY <1>8, <1>11 DEF SubDenied
  <2> QED BY <1>10, <2>2, <2>3 DEF SubOK, Returned
<1>12. CASE places # {}
  <2> HIDE DEF places, n, m
  <2>1. PICK k : k = Min(places)
    OBVIOUS
  <2>2. k \in places
    BY <1>9, <1>12, <2>1, MinOfNats
  <2>3. SolutionIn(string_pool, given, s, k, m)
    BY <1>7, <2>2
  <2>4. PICK args : args = << x, k, m, n - k - m, p >>
    OBVIOUS
  <2>5. /\ args[1] = x /\ args[2] = k /\ args[3] = m
        /\ args[4] = n - k - m /\ args[5] = p
    BY <2>4
  <2>6. r = Success(string_pool, args)
    BY <1>4, <1>12, <2>1, <2>4
  <2>7. r.pool = string_pool /\ r.result = "ok" /\ r.args = args
    BY <2>6 DEF Success
  <2>8. text_of(string_pool, p) = SubSeq(s, k + 1, k + m)
    BY <1>1, <1>5, <2>3 DEF SolutionIn
  <2>9. SubTold(string_pool, given, s, args)
    BY <2>3, <2>5, <2>8 DEF SubTold, n
  <2>10. Returned(r, {1, 5})
    BY <1>1, <1>10, <2>5, <2>7 DEF Returned
  <2> QED BY <2>7, <2>9, <2>10 DEF SubOK
<1> QED BY <1>11, <1>12

LEMMA SubAtomKeeps ==
  ASSUME AtomsInv, NEW x \in atoms, NEW b \in Maybe(0 .. Len(text(x))),
         NEW l \in Maybe(0 .. Len(text(x))), NEW a \in Maybe(0 .. Len(text(x))),
         NEW p \in Maybe(atoms), SubAtom(x, b, l, a, p)
  PROVE  AtomsInv' /\ TextsRight'
<1>1. PICK s : s = text(x)
  OBVIOUS
<1>2. PICK r : r = sub_atom(x, b, l, a, p)
  OBVIOUS
<1>3. PICK given : given = << x, b, l, a, p >>
  OBVIOUS
<1>4. given[1] = x /\ given[5] = p
  BY <1>3
<1>5. SubOK(r, given, s)
  <2>1. CASE p = Unbound
    <3>1. r = Search(x, given)
      BY <1>2, <1>3, <2>1 DEF sub_atom
    <3> QED BY <1>1, <1>4, <2>1, <3>1, SubSearched
  <2>2. CASE p # Unbound
    <3>1. p \in atoms
      BY <2>2 DEF Maybe
    <3> QED BY <1>1, <1>2, <1>3, <3>1, SubGiven
  <2> QED BY <2>1, <2>2
<1>6. Called("sub_atom", given, r, {1, 5})
  BY <1>2, <1>3 DEF SubAtom
<1>7. AtomsInv'
  BY <1>5, <1>6, CalledKeeps DEF SubOK
<1>8. PICK q : q = r.pool
  OBVIOUS
<1>9. /\ last_call'.pred = "sub_atom" /\ last_call'.given = given
      /\ last_call'.result = r.result /\ string_pool' = q
      /\ r.result = "ok" => last_call'.args = r.args
      /\ r.result # "ok" => last_call'.args = given
  BY <1>6, <1>8 DEF Called
<1>10. text_of(q, x) = s
  BY <1>1, <1>5, <1>8, AtomBound, ReadOf DEF SubOK, Returned
<1>11. PICK args : args = IF r.result = "ok" THEN r.args ELSE given
  OBVIOUS
<1>12. ASSUME NEW i, NEW j
       PROVE  Solution(given, s, i, j)' <=> SolutionIn(q, given, s, i, j)
  BY <1>9 DEF Solution, SolutionIn, text
<1>13. text(x)' = s /\ text(args[5])' = text_of(q, args[5])
  BY <1>9, <1>10 DEF text
<1>14. CASE r.result = "ok"
  <2>1. SubTold(q, given, s, args)
    BY <1>5, <1>8, <1>11, <1>14 DEF SubOK
  <2>2. SubAtomRight(given, args, TRUE)'
    BY <1>4, <1>12, <1>13, <2>1 DEF SubAtomRight, SubTold
  <2>3. last_call'.args = args
    BY <1>9, <1>11, <1>14
  <2> QED BY <1>7, <1>9, <1>14, <2>2, <2>3 DEF TextsRight
<1>15. CASE r.result = "fail"
  <2>1. SubDenied(q, given, s)
    BY <1>5, <1>8, <1>15 DEF SubOK
  <2>2. SubAtomRight(given, args, FALSE)'
    BY <1>4, <1>12, <1>13, <2>1 DEF SubAtomRight, SubDenied
  <2>3. last_call'.args = args
    BY <1>9, <1>11, <1>15
  <2> QED BY <1>7, <1>9, <1>15, <2>2, <2>3 DEF TextsRight
<1>16. CASE r.result \notin {"ok", "fail"}
  BY <1>7, <1>9, <1>16 DEF TextsRight
<1> QED BY <1>14, <1>15, <1>16

-----------------------------------------------------------------------------
(* atom_chars/2 and atom_number/2.                                         *)

LEMMA CharsKeeps ==
  ASSUME AtomsInv, NEW p \in atoms, CharsOf(p)
  PROVE  AtomsInv' /\ TextsRight'
<1>1. PICK s : s = text(p)
  OBVIOUS
<1>2. PICK r : r = Success(string_pool, << p, s >>)
  OBVIOUS
<1>3. p \in 1 .. Len(string_pool) /\ p # Unbound
  BY AtomBound
<1>4. Called("atom_chars", << p, Unbound >>, r, {1})
  BY <1>1, <1>2, <1>3 DEF CharsOf, atom_chars
<1>5. r.pool = string_pool /\ r.result = "ok" /\ r.args = << p, s >>
  BY <1>2 DEF Success
<1>6. AtomsInv'
  <2>1. r.args[1] \in 1 .. Len(r.pool)
    BY <1>3, <1>5
  <2>2. Returned(r, {1})
    BY <1>5, <2>1, Same DEF Returned
  <2> QED BY <1>4, <2>2, CalledKeeps
<1>7. /\ last_call'.pred = "atom_chars" /\ last_call'.result = "ok"
      /\ last_call'.args = << p, s >> /\ string_pool' = string_pool
  BY <1>4, <1>5 DEF Called
<1>8. text(p)' = s
  BY <1>1, <1>7 DEF text
<1> QED BY <1>6, <1>7, <1>8 DEF TextsRight

LEMMA OfCharsKeeps ==
  ASSUME AtomsInv, NEW p \in atoms, NEW t \in Suffixes(text(p)), OfChars(t)
  PROVE  AtomsInv' /\ TextsRight'
<1>1. PICK s : s = text(p)
  OBVIOUS
<1>2. s \in Texts /\ Len(s) \in Nat
  BY <1>1, AtomBound, Typed, TextTyped
<1>3. t \in Texts
  <2>1. CASE t = << >>
    BY <2>1 DEF Texts
  <2>2. CASE \E i \in 1 .. Len(s) : t = SubSeq(s, i, Len(s))
    <3>1. PICK i \in 1 .. Len(s) : t = SubSeq(s, i, Len(s))
      BY <2>2
    <3>2. Within(s, i, Len(s))
      BY <1>2 DEF Within
    <3>3. IsPart(t, s, i, Len(s))
      BY <1>2, <3>1, <3>2, PartOf
    <3> QED BY <3>3 DEF IsPart
  <2> QED BY <1>1, <2>1, <2>2 DEF Suffixes
<1>4. PICK r : r = atom_chars(Unbound, t)
  OBVIOUS
<1>5. Called("atom_chars", << Unbound, t >>, r, {1})
  BY <1>4 DEF OfChars
<1>6. PICK n : n = intern_name(string_pool, t)
  OBVIOUS
<1>7. /\ Goes(n.pool) /\ n.ok \in BOOLEAN
      /\ n.ok => n.p \in 1 .. Len(n.pool) /\ text_of(n.pool, n.p) = t
  BY <1>3, <1>6, Interned
<1>8. r = IF t = Unbound THEN Errors(string_pool, "instantiation_error")
          ELSE IF Len(t) >= MAX_NAME THEN Failure(string_pool)
          ELSE CASE ~ n.ok -> Errors(n.pool, "string pool exhausted")
                 [] OTHER -> IF Unbound \in {Unbound, n.p}
                             THEN Success(n.pool, << n.p, t >>) ELSE Failure(n.pool)
  BY <1>4, <1>6 DEF atom_chars, Unify1
<1>9. \/ r.pool = string_pool /\ r.result # "ok"
      \/ r.pool = n.pool /\ r.result # "ok"
      \/ r.pool = n.pool /\ r.result = "ok" /\ r.args = << n.p, t >> /\ n.ok
  <2>1. CASE r = Errors(string_pool, "instantiation_error")
    BY <2>1 DEF Errors
  <2>2. CASE r = Failure(string_pool) \/ r = Failure(n.pool)
    BY <2>2 DEF Failure
  <2>3. CASE r = Errors(n.pool, "string pool exhausted")
    BY <2>3, ErrorsAre, Zenon
  <2>4. CASE n.ok /\ r = Success(n.pool, << n.p, t >>)
    BY <2>4 DEF Success
  <2> QED BY <1>8, <2>1, <2>2, <2>3, <2>4, Zenon
<1>10. Returned(r, {1})
  <2>1. r.result = "ok" => r.args[1] = n.p /\ r.pool = n.pool /\ n.ok
    BY <1>9
  <2>2. Goes(r.pool)
    BY <1>7, <1>9, Same
  <2> QED BY <1>7, <2>1, <2>2 DEF Returned
<1>11. AtomsInv'
  BY <1>5, <1>10, CalledKeeps
<1>12. /\ last_call'.pred = "atom_chars" /\ last_call'.result = r.result
       /\ r.result = "ok" => last_call'.args = r.args
       /\ string_pool' = r.pool
  BY <1>5 DEF Called
<1>13. r.result = "ok" => text(n.p)' = t /\ r.args = << n.p, t >>
  BY <1>7, <1>9, <1>12 DEF text
<1> QED BY <1>11, <1>12, <1>13 DEF TextsRight

LEMMA Zeros ==
  ASSUME NEW k \in Nat, NEW z, z = [i \in 1 .. k |-> "0"]
  PROVE  z \in Texts /\ Len(z) = k /\ \A i \in 1 .. k : z[i] = "0"
<1>1. "0" \in Characters /\ "0" # NUL
  BY DEF Characters, NUL
<1>2. z \in Seq(Characters) /\ Len(z) = k /\ \A i \in 1 .. k : z[i] = "0"
  BY <1>1
<1> QED BY <1>1, <1>2, TextMade

LEMMA NumberName ==
  ASSUME NEW s \in Texts, s # << >>, NEW t, t = number_name(s)
  PROVE  t \in Texts /\ \E k \in 0 .. Len(s) : s = [i \in 1 .. k |-> "0"] \o t
<1> DEFINE n == Len(s)
           I == {i \in 1 .. n : s[i] # "0"}
<1>1. n \in Nat /\ n = Len(s) /\ s \in Seq(Characters) /\ n > 0
  BY TextTyped
<1>2. t = IF I = {} THEN << "0" >>
          ELSE IF Min(I) = 0 THEN << "0" >> ELSE SubSeq(s, Min(I), n)
  BY DEF number_name, SelectInSeq
<1>3. ASSUME NEW k \in 0 .. n, \A i \in 1 .. k : s[i] = "0",
             t \in Texts, Len(t) = n - k, \A i \in 1 .. n - k : t[i] = s[k + i]
      PROVE  s = [i \in 1 .. k |-> "0"] \o t
  <2>1. PICK z : z = [i \in 1 .. k |-> "0"]
    OBVIOUS
  <2>2. z \in Texts /\ Len(z) = k /\ \A i \in 1 .. k : z[i] = "0"
    BY <1>1, <2>1, Zeros
  <2>3. PICK u : u = z \o t
    OBVIOUS
  <2>4. /\ u \in Texts /\ Len(u) = Len(z) + Len(t)
        /\ \A i \in 1 .. Len(z) : u[i] = z[i]
        /\ \A i \in 1 .. Len(t) : u[Len(z) + i] = t[i]
    <3>1. t \in Texts /\ z \in Texts
      BY <1>3, <2>2
    <3>2. Joins(u, z, t)
      BY <2>3, <3>1, Together
    <3> QED BY <3>2 DEF Joins
  <2> HIDE DEF n
  <2>5. Len(u) = n
    BY <1>1, <1>3, <2>2, <2>4
  <2>6. ASSUME NEW i \in 1 .. n PROVE u[i] = s[i]
    <3>1. CASE i \in 1 .. k
      BY <1>3, <2>2, <2>4, <3>1
    <3>2. CASE i \notin 1 .. k
      <4>1. i - k \in 1 .. n - k /\ k + (i - k) = i
        BY <1>1, <1>3, <3>2
      <4> QED BY <1>3, <2>2, <2>4, <4>1
    <3> QED BY <3>1, <3>2
  <2>7. u = s
    BY <1>1, <2>4, <2>5, <2>6, EqualTexts
  <2> QED BY <2>1, <2>3, <2>7
<1>4. CASE I = {}
  <2>1. t = << "0" >>
    BY <1>2, <1>4
  <2>2. t \in Texts /\ Len(t) = 1 /\ t[1] = "0"
    <3>1. "0" \in Characters /\ "0" # NUL
      BY DEF Characters, NUL
    <3> QED BY <2>1, <3>1 DEF Texts
  <2>3. \A i \in 1 .. n : s[i] = "0"
    BY <1>4
  <2>4. n - 1 \in 0 .. n /\ n - (n - 1) = 1 /\ (n - 1) + 1 = n
    BY <1>1
  <2>5. s[n] = "0" /\ \A i \in 1 .. n - 1 : s[i] = "0"
    BY <1>1, <2>3
  <2>6. \A i \in 1 .. n - (n - 1) : t[i] = s[(n - 1) + i]
    BY <1>1, <2>2, <2>4, <2>5
  <2> HIDE DEF n, I
  <2>7. s = [i \in 1 .. n - 1 |-> "0"] \o t
    BY <1>3, <2>2, <2>4, <2>5, <2>6
  <2> QED BY <1>1, <2>2, <2>4, <2>7
<1>5. CASE I # {}
  <2>1. I \subseteq Nat
    BY <1>1
  <2>2. PICK m : m = Min(I)
    OBVIOUS
  <2>3. m \in I /\ \A i \in I : m <= i
    <3> HIDE DEF I
    <3> QED BY <1>5, <2>1, <2>2, MinOfNats
  <2>4. m \in 1 .. n /\ m # 0
    BY <2>3
  <2>5. t = SubSeq(s, m, n)
    BY <1>2, <1>5, <2>2, <2>4
  <2>6. t \in Texts /\ Len(t) = n - m + 1 /\ \A i \in 1 .. n - m + 1 : t[i] = s[m + i - 1]
    <3>1. Within(s, m, n)
      BY <1>1, <2>4 DEF Within
    <3>2. IsPart(t, s, m, n)
      BY <2>5, <3>1, PartOf
    <3> QED BY <3>2 DEF IsPart
  <2>7. ASSUME NEW i \in 1 .. m - 1 PROVE s[i] = "0"
    <3>1. i \in 1 .. n /\ ~(m <= i)
      BY <1>1, <2>4
    <3> QED BY <2>3, <3>1
  <2> HIDE DEF n, I
  <2>8. m - 1 \in 0 .. n /\ n - (m - 1) = n - m + 1
        /\ \A i \in 1 .. n - m + 1 : (m - 1) + i = m + i - 1
    BY <1>1, <2>4
  <2>9. s = [i \in 1 .. m - 1 |-> "0"] \o t
    BY <1>3, <2>6, <2>7, <2>8
  <2> QED BY <1>1, <2>6, <2>8, <2>9
<1> QED BY <1>4, <1>5

LEMMA NumberKeeps ==
  ASSUME AtomsInv, NEW p \in atoms, ThroughNumber(p)
  PROVE  AtomsInv' /\ TextsRight'
<1>1. PICK s : s = text(p)
  OBVIOUS
<1>2. s \in Texts /\ p \in 1 .. Len(string_pool)
  BY <1>1, AtomBound, Typed
<1>3. PICK r : r = atom_number(p)
  OBVIOUS
<1>4. PICK given : given = << p, Unbound >>
  OBVIOUS
<1>5. Called("atom_number", given, r, {1, 2}) /\ given[1] = p
  BY <1>3, <1>4 DEF ThroughNumber
<1>6. /\ last_call'.pred = "atom_number" /\ last_call'.given = given
      /\ last_call'.result = r.result /\ string_pool' = r.pool
      /\ r.result = "ok" => last_call'.args = r.args
      /\ r.result # "ok" => last_call'.args = given
  BY <1>5 DEF Called
<1>7. CASE ~ is_number_str(s)
  <2>1. r = Failure(string_pool)
    BY <1>1, <1>3, <1>7 DEF atom_number
  <2>2. r.pool = string_pool /\ r.result = "fail"
    BY <2>1 DEF Failure
  <2>3. AtomsInv'
    BY <1>5, <2>2, Same, CalledKeeps DEF Returned
  <2>4. text(p)' = s
    BY <1>1, <1>6, <2>2 DEF text
  <2>5. NumberRight(given, given, FALSE)'
    BY <1>5, <1>7, <2>4 DEF NumberRight
  <2> QED BY <1>6, <2>2, <2>3, <2>5 DEF TextsRight
<1>8. CASE is_number_str(s)
  <2>1. PICK t : t = number_name(s)
    OBVIOUS
  <2>2. t \in Texts /\ \E k \in 0 .. Len(s) : s = [i \in 1 .. k |-> "0"] \o t
    <3>1. s # << >>
      BY <1>8 DEF is_number_str
    <3> QED BY <1>2, <2>1, <3>1, NumberName
  <2>3. PICK n : n = intern_name(string_pool, t)
    OBVIOUS
  <2>4. /\ Goes(n.pool) /\ n.ok \in BOOLEAN
        /\ n.ok => n.p \in 1 .. Len(n.pool) /\ text_of(n.pool, n.p) = t
    BY <2>2, <2>3, Interned
  <2>5. intern_pointer(n.pool, n.p).p = n.p
    BY DEF intern_pointer, Named
  <2>6. r = IF n.ok THEN Success(n.pool, << p, n.p >>)
            ELSE Errors(n.pool, "string pool exhausted")
    BY <1>1, <1>3, <1>8, <2>1, <2>3, <2>5, Zenon DEF atom_number
  <2>7. CASE ~ n.ok
    <3>1. r.pool = n.pool /\ r.result # "ok" /\ r.result # "fail"
      BY <2>6, <2>7, ErrorsAre, Zenon
    <3>2. AtomsInv'
      BY <1>5, <2>4, <3>1, CalledKeeps DEF Returned
    <3> QED BY <1>6, <3>1, <3>2 DEF TextsRight
  <2>8. CASE n.ok
    <3>1. r.pool = n.pool /\ r.result = "ok" /\ r.args = << p, n.p >>
      BY <2>6, <2>8 DEF Success
    <3>2. p \in 1 .. Len(n.pool) /\ text_of(n.pool, p) = s
      BY <1>1, <1>2, <2>4, ReadOf
    <3>3. AtomsInv'
      <4>1. r.args[1] \in 1 .. Len(r.pool) /\ r.args[2] \in 1 .. Len(r.pool)
        BY <2>4, <2>8, <3>1, <3>2
      <4>2. Returned(r, {1, 2})
        BY <2>4, <3>1, <4>1 DEF Returned
      <4> QED BY <1>5, <4>2, CalledKeeps
    <3>4. text(p)' = s /\ text(n.p)' = t
      BY <1>6, <2>4, <2>8, <3>1, <3>2 DEF text
    <3>5. PICK args : args = << p, n.p >>
      OBVIOUS
    <3>6. args[1] = p /\ args[2] = n.p
      BY <3>5
    <3>7. NumberRight(given, args, TRUE)'
      BY <1>5, <1>8, <2>2, <3>4, <3>6 DEF NumberRight
    <3> QED BY <1>6, <3>1, <3>3, <3>5, <3>7 DEF TextsRight
  <2> QED BY <2>4, <2>7, <2>8
<1> QED BY <1>7, <1>8

-----------------------------------------------------------------------------
(* The theorem.                                                            *)

LEMMA AtomsStart == AtomsInit => AtomsInv /\ TextsRight
<1>1. ASSUME AtomsInit PROVE AtomsInv
  BY <1>1 DEF AtomsInit, AtomsInv, Pools, Distinct, NameStarts
<1>2. ASSUME AtomsInit PROVE TextsRight
  BY <1>2 DEF AtomsInit, TextsRight
<1> QED BY <1>1, <1>2

LEMMA AtomsStep ==
  AtomsInv /\ TextsRight /\ [AtomsNext]_atomsVars => AtomsInv' /\ TextsRight'
<1> SUFFICES ASSUME AtomsInv, TextsRight, [AtomsNext]_atomsVars
             PROVE  AtomsInv' /\ TextsRight'
  OBVIOUS
<1>1. ASSUME NEW s \in Literals, ReadName(s) PROVE AtomsInv' /\ TextsRight'
  BY <1>1, ReadRight
<1>2. ASSUME NEW a \in Maybe(atoms), NEW b \in Maybe(atoms), NEW c \in Maybe(atoms),
             Concat(a, b, c)
      PROVE  AtomsInv' /\ TextsRight'
  BY <1>2, ConcatKeeps
<1>3. ASSUME NEW x \in atoms, NEW b \in Maybe(0 .. Len(text(x))),
             NEW l \in Maybe(0 .. Len(text(x))), NEW a \in Maybe(0 .. Len(text(x))),
             NEW s \in Maybe(atoms), SubAtom(x, b, l, a, s)
      PROVE  AtomsInv' /\ TextsRight'
  BY <1>3, SubAtomKeeps
<1>4. ASSUME NEW p \in atoms, CharsOf(p) PROVE AtomsInv' /\ TextsRight'
  BY <1>4, CharsKeeps
<1>5. ASSUME NEW p \in atoms, ThroughNumber(p) PROVE AtomsInv' /\ TextsRight'
  BY <1>5, NumberKeeps
<1>6. ASSUME NEW p \in atoms, NEW t \in Suffixes(text(p)), OfChars(t)
      PROVE  AtomsInv' /\ TextsRight'
  BY <1>6, OfCharsKeeps
<1>7. CASE UNCHANGED atomsVars
  BY <1>7 DEF atomsVars, AtomsInv, TextsRight, ConcatRight, SubAtomRight, NumberRight,
              Solution, Canonical, text
<1> QED BY <1>1, <1>2, <1>3, <1>4, <1>5, <1>6, <1>7, Zenon DEF AtomsNext

\* Whatever atoms a program makes, with any arguments the builtins know, and
\* whatever the size of the pool: the texts they answer are right, and they
\* find an answer exactly if there is one (builtins.c:930-1175).
THEOREM AtomTextsRight == AtomsSpec => []TextsRight
BY AtomsStart, AtomsStep, PTL DEF AtomsSpec
=============================================================================
