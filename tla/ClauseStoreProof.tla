-------------------------- MODULE ClauseStoreProof --------------------------
(***************************************************************************)
(* Store implements ClauseStore, for all files: what a program sees by way *)
(* of the pool, the indices and the marks changes as its goals and files   *)
(* ask for; and what that rests on: no name that is used is given back, no *)
(* clause is left without an owner, static clauses are left alone.         *)
(***************************************************************************)
EXTENDS StoreProof

-----------------------------------------------------------------------------
(* Sequences without some of their elements                                *)

\* Induction over sequences; P takes the place of a predicate.
LEMMA SeqInduction ==
  ASSUME NEW S, NEW P, << >> \in P,
         \A s \in Seq(S) : \A x \in S : s \in P => Append(s, x) \in P
  PROVE  \A s \in Seq(S) : s \in P
<1> DEFINE M == {n \in Nat : \A s \in Seq(S) : Len(s) = n => s \in P}
<1>1. 0 \in M
  <2>1. ASSUME NEW s \in Seq(S), Len(s) = 0 PROVE s = << >>
    BY <2>1
  <2> QED BY <2>1
<1>2. ASSUME NEW n \in Nat, n \in M PROVE n + 1 \in M
  <2> SUFFICES ASSUME NEW s \in Seq(S), Len(s) = n + 1 PROVE s \in P
    OBVIOUS
  <2>1. PICK t : t = SubSeq(s, 1, n)
    OBVIOUS
  <2>2. t \in Seq(S) /\ Len(t) = n /\ \A i \in 1 .. n : t[i] = s[i]
    BY <2>1
  <2>3. s[n + 1] \in S
    BY InSeq
  <2>4. s = Append(t, s[n + 1])
    BY <2>2
  <2>5. t \in P
    BY <1>2, <2>2
  <2> QED BY <2>2, <2>3, <2>4, <2>5
<1> HIDE DEF M
<1>3. \A n \in Nat : n \in M
  BY <1>1, <1>2, Induction
<1> QED BY <1>3 DEF M

\* Two ways through sequences that begin the same are the same.
LEMMA SameTrace ==
  ASSUME NEW n \in Nat, NEW f, NEW g, NEW s, NEW t, NEW gone,
         Sieves(f, s, gone), Sieves(g, t, gone),
         n <= Len(s), n <= Len(t), Len(s) \in Nat, Len(t) \in Nat,
         \A k \in 1 .. n : s[k] = t[k]
  PROVE  \A k \in 0 .. n : f[k] = g[k]
<1> DEFINE M == {m \in Nat : m <= n => f[m] = g[m]}
<1>1. 0 \in M
  BY DEF Sieves
<1>2. ASSUME NEW m \in Nat, m \in M PROVE m + 1 \in M
  <2> SUFFICES ASSUME m + 1 <= n PROVE f[m + 1] = g[m + 1]
    OBVIOUS
  <2>1. m + 1 \in 1 .. Len(s) /\ m + 1 \in 1 .. Len(t) /\ m + 1 \in 1 .. n
    OBVIOUS
  <2>2. f[m] = g[m] /\ (m + 1) - 1 = m /\ s[m + 1] = t[m + 1]
    BY <1>2, <2>1
  <2>3. f[m + 1] = IF s[m + 1] \in gone THEN f[m] ELSE Append(f[m], s[m + 1])
    BY <2>1, <2>2 DEF Sieves
  <2>4. g[m + 1] = IF t[m + 1] \in gone THEN g[m] ELSE Append(g[m], t[m + 1])
    BY <2>1, <2>2 DEF Sieves
  <2> QED BY <2>2, <2>3, <2>4
<1> HIDE DEF M
<1>3. \A m \in Nat : m \in M
  BY <1>1, <1>2, Induction
<1> QED BY <1>3 DEF M

LEMMA WithoutEmpty == ASSUME NEW gone PROVE Without(<< >>, gone) = << >>
<1>1. PICK s \in Seq({}) : s = << >>
  BY EmptySeq
<1>2. PICK f : Sieves(f, s, gone) /\ Without(s, gone) = f[Len(s)]
  BY WithoutTrace
<1>3. Len(s) = 0
  BY <1>1
<1> QED BY <1>1, <1>2, <1>3 DEF Sieves

LEMMA WithoutAppend ==
  ASSUME NEW S, NEW s \in Seq(S), NEW x \in S, NEW gone
  PROVE  Without(Append(s, x), gone)
         = IF x \in gone THEN Without(s, gone) ELSE Append(Without(s, gone), x)
<1>1. PICK t : t = Append(s, x)
  OBVIOUS
<1>2. PICK n \in Nat : n = Len(s)
  OBVIOUS
<1>3. t \in Seq(S) /\ Len(t) = n + 1 /\ t[n + 1] = x /\ \A k \in 1 .. n : t[k] = s[k]
  BY <1>1, <1>2
<1>4. PICK f : Sieves(f, s, gone) /\ Without(s, gone) = f[n]
  BY <1>2, WithoutTrace
<1>5. PICK g : Sieves(g, t, gone) /\ Without(t, gone) = g[n + 1]
  <2>1. PICK g : Sieves(g, t, gone) /\ Without(t, gone) = g[Len(t)]
    <3>1. t \in Seq(S)
      BY <1>3
    <3> QED BY <3>1, WithoutTrace
  <2> QED BY <1>3, <2>1
<1>6. f[n] = g[n]
  <2>1. \A k \in 0 .. n : f[k] = g[k]
    BY <1>2, <1>3, <1>4, <1>5, SameTrace
  <2> QED BY <2>1
<1>7. g[n + 1] = IF x \in gone THEN g[n] ELSE Append(g[n], x)
  <2>1. n + 1 \in 1 .. Len(t) /\ (n + 1) - 1 = n
    BY <1>3
  <2> QED BY <1>3, <1>5, <2>1 DEF Sieves
<1> QED BY <1>1, <1>4, <1>5, <1>6, <1>7

\* The elements of the longer sequence.
LEMMA RangeAppend ==
  ASSUME NEW S, NEW s \in Seq(S), NEW x \in S
  PROVE  Range(Append(s, x)) = Range(s) \cup {x}
<1>1. PICK n \in Nat : n = Len(s)
  OBVIOUS
<1>2. PICK t : t = Append(s, x)
  OBVIOUS
<1>3. /\ DOMAIN t = 1 .. n + 1 /\ DOMAIN s = 1 .. n
      /\ t[n + 1] = x /\ \A k \in 1 .. n : t[k] = s[k]
  BY <1>1, <1>2
<1>4. ASSUME NEW y \in Range(t) PROVE y \in Range(s) \cup {x}
  <2>1. PICK k \in 1 .. n + 1 : y = t[k]
    BY <1>3 DEF Range
  <2>2. CASE k = n + 1
    BY <1>3, <2>1, <2>2
  <2>3. CASE k \in 1 .. n
    BY <1>3, <2>1, <2>3 DEF Range
  <2> QED BY <2>2, <2>3
<1>5. ASSUME NEW y \in Range(s) \cup {x} PROVE y \in Range(t)
  <2>1. CASE y = x
    BY <1>3, <2>1 DEF Range
  <2>2. CASE y \in Range(s)
    <3>1. PICK k \in 1 .. n : y = s[k]
      BY <1>3, <2>2 DEF Range
    <3> QED BY <1>3, <3>1 DEF Range
  <2> QED BY <2>1, <2>2
<1> QED BY <1>2, <1>4, <1>5

\* Only the elements of the sequence matter.
LEMMA WithoutSame ==
  ASSUME NEW S, NEW s \in Seq(S), NEW A, NEW B,
         \A x \in Range(s) : x \in A <=> x \in B
  PROVE  Without(s, A) = Without(s, B)
<1> DEFINE P == {t \in Seq(S) : (\A x \in Range(t) : x \in A <=> x \in B)
                                => Without(t, A) = Without(t, B)}
<1>1. << >> \in P
  BY WithoutEmpty
<1>2. ASSUME NEW t \in Seq(S), NEW x \in S, t \in P PROVE Append(t, x) \in P
  <2>1. Append(t, x) \in Seq(S)
    OBVIOUS
  <2>2. ASSUME \A y \in Range(Append(t, x)) : y \in A <=> y \in B
        PROVE  Without(Append(t, x), A) = Without(Append(t, x), B)
    <3>1. (x \in A <=> x \in B) /\ \A y \in Range(t) : y \in A <=> y \in B
      BY <2>2, RangeAppend
    <3>2. Without(t, A) = Without(t, B)
      BY <1>2, <3>1
    <3>3. /\ Without(Append(t, x), A)
             = IF x \in A THEN Without(t, A) ELSE Append(Without(t, A), x)
          /\ Without(Append(t, x), B)
             = IF x \in B THEN Without(t, B) ELSE Append(Without(t, B), x)
      BY WithoutAppend
    <3> QED BY <3>1, <3>2, <3>3
  <2> QED BY <2>1, <2>2
<1> HIDE DEF P
<1>3. s \in P
  BY <1>1, <1>2, SeqInduction
<1> QED BY <1>3 DEF P

Longer(t, s, x) == t = Append(s, x)

\* Elementwise images.
ImageOf(h, s) == [i \in DOMAIN s |-> h[s[i]]]

LEMMA ImageTyped ==
  ASSUME NEW S, NEW T, NEW h \in [S -> T], NEW s \in Seq(S), NEW r, r = ImageOf(h, s)
  PROVE  /\ r \in Seq(T) /\ Len(r) = Len(s)
         /\ \A k \in 1 .. Len(s) : r[k] = h[s[k]]
<1>1. PICK n \in Nat : n = Len(s)
  OBVIOUS
<1>2. DOMAIN s = 1 .. n /\ \A k \in 1 .. n : s[k] \in S
  BY <1>1
<1>3. r \in [1 .. n -> T] /\ \A k \in 1 .. n : r[k] = h[s[k]]
  BY <1>2 DEF ImageOf
<1> QED BY <1>1, <1>3

LEMMA ImageAppend ==
  ASSUME NEW S, NEW T, NEW h \in [S -> T], NEW s \in Seq(S), NEW x \in S,
         NEW r, r = ImageOf(h, s), NEW t, Longer(t, s, x)
  PROVE  ImageOf(h, t) = Append(r, h[x])
<1>1. PICK n \in Nat : n = Len(s)
  OBVIOUS
<1>2. PICK u : u = r
  OBVIOUS
<1>4. u \in Seq(T) /\ Len(u) = n /\ \A k \in 1 .. n : u[k] = h[s[k]]
  BY <1>1, <1>2, ImageTyped
<1>6. DOMAIN t = 1 .. n + 1 /\ t[n + 1] = x /\ \A k \in 1 .. n : t[k] = s[k]
  BY <1>1 DEF Longer
<1>7. PICK v : v = ImageOf(h, t)
  OBVIOUS
<1>8. /\ v = [k \in 1 .. n + 1 |-> h[t[k]]]
      /\ v[n + 1] = h[x] /\ \A k \in 1 .. n : v[k] = u[k]
  BY <1>4, <1>6, <1>7 DEF ImageOf
<1>9. v = Append(u, h[x])
  <2>1. PICK w : w = Append(u, h[x])
    OBVIOUS
  <2>2. h[x] \in T /\ \A k \in 1 .. n + 1 : k \in 1 .. n \/ k = n + 1
    OBVIOUS
  <2>3. /\ w \in Seq(T) /\ Len(w) = n + 1
        /\ w[n + 1] = h[x] /\ \A k \in 1 .. n : w[k] = u[k]
    BY <1>4, <2>1, <2>2, AppendProperties
  <2>4. DOMAIN v = 1 .. n + 1 /\ DOMAIN w = 1 .. n + 1
    BY <1>8, <2>3
  <2>5. \A k \in 1 .. n + 1 : v[k] = w[k]
    BY <1>8, <2>2, <2>3
  <2>6. t \in Seq(S) /\ Len(t) = n + 1
    BY <1>1 DEF Longer
  <2>7. v \in Seq(T) /\ Len(v) = Len(t)
    BY <1>7, <2>6, ImageTyped
  <2> QED BY <2>1, <2>3, <2>5, <2>6, <2>7, SeqEqual
<1> QED BY <1>2, <1>7, <1>9

Maps(h, S, T) == h \in [S -> T]

\* What goes from a sequence goes from its image.
LEMMA WithoutImage ==
  ASSUME NEW S, NEW T, NEW h, Maps(h, S, T), NEW s \in Seq(S), NEW gone, NEW out,
         \A x \in Range(s) : x \in gone <=> h[x] \in out
  PROVE  Without(ImageOf(h, s), out) = ImageOf(h, Without(s, gone))
<1> DEFINE Same(t) == \A x \in Range(t) : x \in gone <=> h[x] \in out
           Fits(t) == Without(ImageOf(h, t), out) = ImageOf(h, Without(t, gone))
           P == {t \in Seq(S) : Same(t) => Fits(t)}
<1>0. h \in [S -> T]
  BY DEF Maps
<1> USE <1>0
<1>1. << >> \in P
  <2>1. ImageOf(h, << >>) = << >>
    BY DEF ImageOf
  <2> QED BY <2>1, WithoutEmpty
<1>2. ASSUME NEW t \in Seq(S), NEW x \in S, t \in P PROVE Append(t, x) \in P
  <2>1. Append(t, x) \in Seq(S)
    OBVIOUS
  <2>2. ASSUME Same(Append(t, x)) PROVE Fits(Append(t, x))
    <3>1. (x \in gone <=> h[x] \in out) /\ Same(t)
      BY <2>2, RangeAppend
    <3>2. PICK u : u = ImageOf(h, t)
      OBVIOUS
    <3>3. u \in Seq(T) /\ ImageOf(h, Append(t, x)) = Append(u, h[x]) /\ h[x] \in T
      <4>1. u \in Seq(T)
        BY <3>2, ImageTyped
      <4>2. ImageOf(h, Append(t, x)) = Append(u, h[x])
        BY <3>2, ImageAppend DEF Longer
      <4> QED BY <4>1, <4>2
    <3>4. PICK r : r = Without(t, gone)
      OBVIOUS
    <3>5. r \in Seq(S)
      BY <3>4, WithoutWorks
    <3>6. Without(u, out) = ImageOf(h, r)
      BY <1>2, <3>1, <3>2, <3>4
    <3>7. Without(Append(t, x), gone) = IF x \in gone THEN r ELSE Append(r, x)
      BY <3>4, WithoutAppend
    <3>8. Without(Append(u, h[x]), out)
          = IF h[x] \in out THEN ImageOf(h, r) ELSE Append(ImageOf(h, r), h[x])
      BY <3>3, <3>6, WithoutAppend
    <3>9. ImageOf(h, Append(r, x)) = Append(ImageOf(h, r), h[x])
      BY <3>5, ImageAppend DEF Longer
    <3> QED BY <3>1, <3>3, <3>7, <3>8, <3>9
  <2> QED BY <2>1, <2>2
<1> HIDE DEF P
<1>3. s \in P
  BY <1>1, <1>2, SeqInduction
<1> QED BY <1>3 DEF P

\* Taking out some of what is taken out anyway changes nothing.
LEMMA WithoutTwice ==
  ASSUME NEW S, NEW s \in Seq(S), NEW gone, NEW out, gone \subseteq out
  PROVE  Without(Without(s, gone), out) = Without(s, out)
<1> DEFINE P == {t \in Seq(S) : Without(Without(t, gone), out) = Without(t, out)}
<1>1. << >> \in P
  BY WithoutEmpty
<1>2. ASSUME NEW t \in Seq(S), NEW x \in S, t \in P PROVE Append(t, x) \in P
  <2>1. PICK r : r = Without(t, gone)
    OBVIOUS
  <2>2. r \in Seq(S) /\ Without(r, out) = Without(t, out)
    BY <1>2, <2>1, WithoutWorks
  <2>3. Without(Append(t, x), gone) = IF x \in gone THEN r ELSE Append(r, x)
    BY <2>1, WithoutAppend
  <2>4. Without(Append(r, x), out)
        = IF x \in out THEN Without(t, out) ELSE Append(Without(t, out), x)
    BY <2>2, WithoutAppend
  <2>5. Without(Append(t, x), out)
        = IF x \in out THEN Without(t, out) ELSE Append(Without(t, out), x)
    BY WithoutAppend
  <2>6. Without(Without(Append(t, x), gone), out) = Without(Append(t, x), out)
    BY <2>2, <2>3, <2>4, <2>5
  <2> QED BY <2>6
<1> HIDE DEF P
<1>3. s \in P
  BY <1>1, <1>2, SeqInduction
<1> QED BY <1>3 DEF P

\* One in front.
LEMMA WithoutFirst ==
  ASSUME NEW S, NEW s \in Seq(S), NEW x \in S, NEW out, x \in out
  PROVE  Without(<< x >> \o s, out) = Without(s, out)
<1> DEFINE P == {t \in Seq(S) : Without(<< x >> \o t, out) = Without(t, out)}
<1>1. << >> \in P
  <2>2. PICK e \in Seq(S) : e = << >>
    BY EmptySeq
  <2>1. << x >> \o << >> = Append(<< >>, x)
    <3>1. << x >> \in Seq(S) /\ << x >> = Append(<< >>, x)
      OBVIOUS
    <3> QED BY <3>1, ConcatEmptySeq
  <2>3. Without(Append(e, x), out) = Without(e, out)
    BY WithoutAppend
  <2> QED BY <2>1, <2>2, <2>3
<1>2. ASSUME NEW t \in Seq(S), NEW y \in S, t \in P PROVE Append(t, y) \in P
  <2>1. << x >> \o t \in Seq(S) /\ << x >> \o Append(t, y) = Append(<< x >> \o t, y)
    <3>1. << x >> \in Seq(S)
      OBVIOUS
    <3> QED BY <3>1
  <2>2. Without(Append(<< x >> \o t, y), out)
        = IF y \in out THEN Without(<< x >> \o t, out)
          ELSE Append(Without(<< x >> \o t, out), y)
    BY <2>1, WithoutAppend
  <2>3. Without(Append(t, y), out)
        = IF y \in out THEN Without(t, out) ELSE Append(Without(t, out), y)
    BY WithoutAppend
  <2>4. Without(<< x >> \o t, out) = Without(t, out)
    BY <1>2
  <2>5. Without(Append(<< x >> \o t, y), out) = Without(Append(t, y), out)
    BY <2>2, <2>3, <2>4
  <2>6. Append(t, y) \in Seq(S)
    OBVIOUS
  <2> QED BY <2>1, <2>5, <2>6
<1> HIDE DEF P
<1>3. s \in P
  BY <1>1, <1>2, SeqInduction
<1> QED BY <1>3 DEF P

\* One anywhere.
LEMMA RemoveAppend ==
  ASSUME NEW S, NEW s \in Seq(S), NEW x \in S, NEW i \in 1 .. Len(s),
         NEW t, Longer(t, s, x)
  PROVE  RemoveAt(t, i) = Append(RemoveAt(s, i), x) /\ RemoveAt(s, i) \in Seq(S)
<1>1. PICK n \in Nat : n = Len(s)
  OBVIOUS
<1>3. t \in Seq(S) /\ Len(t) = n + 1 /\ t[n + 1] = x /\ \A k \in 1 .. n : t[k] = s[k]
  BY <1>1 DEF Longer
<1>4. i \in Nat /\ i >= 1 /\ i <= n
  BY <1>1
<1>6. RemoveAt(t, i) = Append(RemoveAt(s, i), x) /\ RemoveAt(s, i) \in Seq(S)
  <2>1. PICK a : a = SubSeq(s, 1, i - 1)
    OBVIOUS
  <2>2. PICK b : b = SubSeq(s, i + 1, n)
    OBVIOUS
  <2>3. a \in Seq(S) /\ b \in Seq(S)
    BY <1>1, <1>4, <2>1, <2>2
  <2>4. SubSeq(t, 1, i - 1) = a
    BY <1>1, <1>3, <1>4, <2>1
  <2>5. SubSeq(t, i + 1, n + 1) = Append(b, x)
    <3>1. Len(b) = n - i /\ \A k \in 1 .. n - i : b[k] = s[i + k]
      BY <1>1, <1>4, <2>2
    <3>2. PICK c : c = SubSeq(t, i + 1, n + 1)
      OBVIOUS
    <3>3. c \in Seq(S) /\ Len(c) = n + 1 - i /\ \A k \in 1 .. n + 1 - i : c[k] = t[i + k]
      BY <1>3, <1>4, <3>2
    <3>4. PICK d : d = Append(b, x)
      OBVIOUS
    <3>5. /\ d \in Seq(S) /\ Len(d) = n + 1 - i
          /\ \A k \in 1 .. n + 1 - i : d[k] = IF k = n + 1 - i THEN x ELSE b[k]
      <4>1. /\ d \in Seq(S) /\ Len(d) = Len(b) + 1 /\ d[Len(b) + 1] = x
            /\ \A k \in 1 .. Len(b) : d[k] = b[k]
        BY <2>3, <3>4, AppendProperties
      <4>2. n - i \in Nat /\ (n - i) + 1 = n + 1 - i
        BY <1>4
      <4>3. \A k \in 1 .. n + 1 - i : k = n + 1 - i \/ (k # n + 1 - i /\ k \in 1 .. n - i)
        BY <4>2
      <4>4. d[n + 1 - i] = x /\ \A k \in 1 .. n - i : d[k] = b[k]
        BY <3>1, <4>1, <4>2
      <4> QED BY <3>1, <4>1, <4>2, <4>3, <4>4
    <3>6. \A k \in 1 .. n + 1 - i : c[k] = d[k]
      BY <1>3, <1>4, <3>1, <3>3, <3>5
    <3>7. c = d
      BY <3>3, <3>5, <3>6
    <3> QED BY <3>2, <3>4, <3>7
  <2>6. a \o Append(b, x) = Append(a \o b, x) /\ a \o b \in Seq(S)
    BY <2>3
  <2> QED BY <1>1, <1>3, <2>1, <2>2, <2>4, <2>5, <2>6 DEF RemoveAt
<1> QED BY <1>6

LEMMA RemoveLast ==
  ASSUME NEW S, NEW s \in Seq(S), NEW x \in S, NEW t, Longer(t, s, x),
         NEW i, i = Len(s) + 1
  PROVE  RemoveAt(t, i) = s
<1>1. PICK n \in Nat : n = Len(s)
  OBVIOUS
<1>2. t \in Seq(S) /\ Len(t) = n + 1 /\ \A k \in 1 .. n : t[k] = s[k]
  BY <1>1 DEF Longer
<1>3. SubSeq(t, 1, i - 1) = s
  BY <1>1, <1>2, SMTT(30)
<1>4. SubSeq(t, i + 1, Len(t)) = << >>
  BY <1>1, <1>2
<1>5. RemoveAt(t, i) = s \o << >>
  BY <1>3, <1>4, Zenon DEF RemoveAt
<1> QED BY <1>5, ConcatEmptySeq, Zenon

LEMMA WithoutRemoved ==
  ASSUME NEW S, NEW s \in Seq(S), NEW out, NEW i \in 1 .. Len(s), s[i] \in out
  PROVE  Without(RemoveAt(s, i), out) = Without(s, out)
<1> DEFINE Fits(t) == \A k \in 1 .. Len(t) :
                        t[k] \in out => Without(RemoveAt(t, k), out) = Without(t, out)
           P == {t \in Seq(S) : Fits(t)}
<1>1. << >> \in P
  OBVIOUS
<1>2. ASSUME NEW t \in Seq(S), NEW x \in S, t \in P PROVE Append(t, x) \in P
  <2>1. PICK n \in Nat : n = Len(t)
    OBVIOUS
  <2>2. PICK u : u = Append(t, x)
    OBVIOUS
  <2>3. u \in Seq(S) /\ Len(u) = n + 1 /\ u[n + 1] = x /\ \A k \in 1 .. n : u[k] = t[k]
    BY <2>1, <2>2
  <2>4. Without(u, out) = IF x \in out THEN Without(t, out) ELSE Append(Without(t, out), x)
    BY <2>2, WithoutAppend
  <2>a. Longer(u, t, x)
    BY <2>2 DEF Longer
  <2>5. ASSUME NEW k \in 1 .. n + 1, u[k] \in out
        PROVE  Without(RemoveAt(u, k), out) = Without(u, out)
    <3>1. CASE k = n + 1
      <4>1. RemoveAt(u, k) = t
        <5>1. k = Len(t) + 1
          BY <2>1, <3>1
        <5> QED BY <2>a, <5>1, RemoveLast
      <4> QED BY <2>3, <2>4, <2>5, <3>1, <4>1
    <3>2. CASE k \in 1 .. n
      <4>1. PICK r : r = RemoveAt(t, k)
        OBVIOUS
      <4>2. r \in Seq(S) /\ RemoveAt(u, k) = Append(r, x)
        <5>1. k \in 1 .. Len(t)
          BY <2>1, <3>2
        <5> QED BY <2>a, <4>1, <5>1, RemoveAppend
      <4>3. Without(r, out) = Without(t, out)
        BY <1>2, <2>1, <2>3, <2>5, <3>2, <4>1
      <4>4. Without(Append(r, x), out)
            = IF x \in out THEN Without(r, out) ELSE Append(Without(r, out), x)
        BY <4>2, WithoutAppend
      <4> QED BY <2>4, <4>2, <4>3, <4>4
    <3> QED BY <3>1, <3>2
  <2>6. Fits(u)
    BY <2>3, <2>5
  <2> QED BY <2>2, <2>3, <2>6
<1> HIDE DEF P
<1>3. s \in P
  BY <1>1, <1>2, SeqInduction
<1> QED BY <1>3 DEF P

-----------------------------------------------------------------------------
(* What every clause and every operator needs to be read: its names lie    *)
(* below the offset of the pool, and its file is tracked once.             *)

\* make/0 is not asked for while there are operators, whose names it gives back.
NoOpsLost == Running("make") => ops = << >>

NamedClauses(n) == {c \in Clause(n) : c.at # << >>}
ClausesNamed == database \in Seq(NamedClauses(pool.offset))
OpsNamed == ops \in Seq(1 .. pool.offset)
FilesApart ==
  \A i, j \in DOMAIN make_files : make_files[i].path = make_files[j].path => i = j
Readable == ClausesNamed /\ OpsNamed /\ FilesApart
ReadInv == OwnersInv /\ Readable

LEMMA WiderNamed ==
  ASSUME NEW m \in Nat, NEW n \in Nat, m <= n
  PROVE  NamedClauses(m) \subseteq NamedClauses(n)
BY WiderClause DEF NamedClauses

LEMMA PoolTyped ==
  ASSUME ReadInv
  PROVE  /\ pool \in Pools /\ pool.offset \in Nat /\ pool.offset <= Len(pool.cells)
         /\ Len(pool.cells) \in Nat
BY DEF ReadInv, OwnersInv, StoreInv, PoolOK, Pools

\* The pool has grown: what was below the offset still is.
LEMMA StillNamed ==
  ASSUME ReadInv, pool' \in Pools, Grown(pool, pool')
  PROVE  /\ database \in Seq(NamedClauses(pool'.offset))
         /\ ops \in Seq(1 .. pool'.offset)
<1>1. pool.offset \in Nat /\ pool'.offset \in Nat /\ pool.offset <= pool'.offset
  BY PoolTyped DEF Pools, Grown
<1>2. NamedClauses(pool.offset) \subseteq NamedClauses(pool'.offset)
  BY <1>1, WiderNamed
<1>3. database \in Seq(NamedClauses(pool'.offset))
  BY <1>2, WiderSeq DEF ReadInv, Readable, ClausesNamed
<1>4. ops \in Seq(1 .. pool'.offset)
  BY <1>1, WiderPointers DEF ReadInv, Readable, OpsNamed
<1> QED BY <1>3, <1>4

LEMMA QuietRead ==
  ASSUME ReadInv, UNCHANGED <<database, pool, ops, make_files>> PROVE Readable'
BY DEF ReadInv, Readable, ClausesNamed, OpsNamed, FilesApart

\* Only the pool grows.
LEMMA GrownRead ==
  ASSUME ReadInv, UNCHANGED <<database, ops, make_files>>,
         pool' \in Pools, Grown(pool, pool')
  PROVE  Readable'
<1>1. ClausesNamed' /\ OpsNamed'
  BY StillNamed DEF ClausesNamed, OpsNamed
<1>2. FilesApart'
  BY DEF ReadInv, Readable, FilesApart
<1> QED BY <1>1, <1>2 DEF Readable

\* Clauses go.
LEMMA FewerRead ==
  ASSUME ReadInv, UNCHANGED <<pool, ops, make_files>>,
         database' \in Seq(NamedClauses(pool.offset))
  PROVE  Readable'
BY DEF ReadInv, Readable, ClausesNamed, OpsNamed, FilesApart

LEMMA WithoutNamed ==
  ASSUME ReadInv, NEW gone, NEW r, r = Without(database, gone)
  PROVE  r \in Seq(NamedClauses(pool.offset))
BY WithoutWorks DEF ReadInv, Readable, ClausesNamed

\* A query begins: its names are interned.
LEMMA EnterQueryGrows ==
  ASSUME ReadInv, NEW goals \in Seq(Goals), NEW callers, EnterQuery(goals, callers)
  PROVE  /\ pool' \in Pools /\ Grown(pool, pool')
         /\ UNCHANGED <<database, ops, dynamic_preds, loading, disk>>
<1>1. PICK parsed : parsed = parse_goals(goals)
  OBVIOUS
<1>2. parsed.pool \in Pools /\ Grown(pool, parsed.pool)
  BY <1>1, PoolTyped, ParseGoalsWorks
<1>3. pool' = parsed.pool
  BY <1>1 DEF EnterQuery
<1> QED BY <1>2, <1>3 DEF EnterQuery

\* A query ends: what it gives back is not used, and compaction finds every
\* name where it is.
LEMMA EndQueryKeeps ==
  ASSUME ReadInv, GivesBackUnused, EndQuery
  PROVE  /\ UNCHANGED <<database, ops, dynamic_preds, loading, disk>>
         /\ \E p \in Pools :
              /\ p.cells = pool.cells
              /\ pool' \in Pools /\ Grown(p, pool')
              /\ database \in Seq(NamedClauses(p.offset)) /\ ops \in Seq(1 .. p.offset)
<1>1. acts # << >> /\ Act.kind = "query" /\ InQuery("end")
  BY DEF EndQuery, InQuery
<1>2. PICK query \in QueryActs(Cells) : query = Act
  BY <1>1, ActTyped DEF ReadInv, OwnersInv
<1>3. PICK m \in 0 .. Cells : m = Act.string_mark
  <2>1. query.string_mark \in 0 .. Cells
    BY <1>2 DEF QueryActs
  <2> QED BY <1>2, <2>1
<1>4. PICK p :
        /\ p = IF seems_unchanged THEN [pool EXCEPT !.offset = m] ELSE pool
        /\ \/ pool' = p /\ UNCHANGED database
           \/ pool' = Compacted(p).pool /\ database' = Compacted(p).database
  BY <1>3 DEF EndQuery
<1>5. UNCHANGED <<ops, dynamic_preds, loading, disk>>
  BY DEF EndQuery
<1>6. /\ p \in Pools /\ p.cells = pool.cells
      /\ database \in Seq(NamedClauses(p.offset)) /\ ops \in Seq(1 .. p.offset)
  <2>1. CASE ~seems_unchanged
    BY <1>4, <2>1, PoolTyped DEF ReadInv, Readable, ClausesNamed, OpsNamed
  <2>2. CASE seems_unchanged
    <3>1. p.cells = pool.cells /\ p.offset = m /\ p \in Pools
      <4>1. m \in Nat /\ m <= Len(pool.cells)
        BY <1>3, PoolTyped DEF Cells
      <4> QED BY <1>4, <2>2, <4>1, PoolTyped DEF Pools
    <3>2. NamedBelow(m)
      BY <1>1, <1>3, <2>2 DEF GivesBackUnused
    <3>3. m \in Nat
      BY <1>3, PoolTyped DEF Cells
    <3>4. ASSUME NEW k \in 1 .. Len(database) PROVE database[k] \in NamedClauses(m)
      <4>1. database[k] \in NamedClauses(pool.offset)
        BY InSeq DEF ReadInv, Readable, ClausesNamed
      <4>2. PICK c \in NamedClauses(pool.offset) : c = database[k]
        BY <4>1
      <4>3. c \in Clauses
        BY <4>2 DEF Clauses, Range, ReadInv, Readable, ClausesNamed
      <4>4. c.at \in Seq(1 .. pool.offset) /\ c.source_file \in Nat /\ c.at # << >>
            /\ c \in [at : Seq(1 .. pool.offset), source_file : Nat]
        BY <4>2 DEF NamedClauses, Clause
      <4>5. PICK at \in Seq(1 .. pool.offset) : at = c.at
        BY <4>4
      <4>6. \A i \in 1 .. Len(at) : at[i] <= m
        <5>1. DOMAIN c.at = 1 .. Len(at)
          BY <4>5
        <5> QED BY <3>2, <4>3, <4>5, <5>1 DEF NamedBelow
      <4>7. \A i \in 1 .. Len(at) : at[i] \in 1 .. m
        BY <3>3, <4>5, <4>6, InSeq, PoolTyped
      <4>8. at \in Seq(1 .. m)
        <5>1. at = [i \in 1 .. Len(at) |-> at[i]] /\ Len(at) \in Nat
          BY <4>5
        <5>2. at \in [1 .. Len(at) -> 1 .. m]
          BY <4>7, <5>1
        <5> QED BY <5>1, <5>2
      <4>9. c \in Clause(m)
        BY <4>4, <4>5, <4>8 DEF Clause
      <4> QED BY <4>2, <4>4, <4>9 DEF NamedClauses
    <3>5. database \in Seq(NamedClauses(m))
      <4>1. database \in [1 .. Len(database) -> NamedClauses(pool.offset)]
            /\ Len(database) \in Nat
        BY DEF ReadInv, Readable, ClausesNamed
      <4>2. database \in [1 .. Len(database) -> NamedClauses(m)]
        BY <3>4, <4>1
      <4> QED BY <4>1, <4>2
    <3>6. ops \in Seq(1 .. m)
      <4>1. ops \in Seq(1 .. pool.offset)
        BY DEF ReadInv, Readable, OpsNamed
      <4>2. ops \in [1 .. Len(ops) -> 1 .. pool.offset] /\ Len(ops) \in Nat
            /\ DOMAIN ops = 1 .. Len(ops)
        BY <4>1, LenProperties
      <4>3. \A i \in 1 .. Len(ops) : ops[i] \in 1 .. m
        <5>1. \A i \in 1 .. Len(ops) : ops[i] <= m
          BY <3>2, <4>2 DEF NamedBelow, Range
        <5> QED BY <3>3, <4>1, <5>1, InSeq, PoolTyped
      <4>4. ops \in [1 .. Len(ops) -> 1 .. m]
        BY <4>2, <4>3
      <4> QED BY <4>2, <4>4
    <3> QED BY <3>1, <3>5, <3>6
  <2> QED BY <2>1, <2>2
<1>8. pool' \in Pools /\ Grown(p, pool') /\ UNCHANGED database
  <2>1. CASE pool' = p /\ UNCHANGED database
    BY <1>6, <2>1 DEF Grown, Pools
  <2>2. CASE pool' = Compacted(p).pool /\ database' = Compacted(p).database
    <3>1. PICK r : r = Compacted(p)
      OBVIOUS
    <3>2. p.offset \in Nat /\ p.offset <= Len(p.cells) /\ Len(p.cells) \in Nat
      BY <1>6 DEF Pools
    <3>3. NamedClauses(p.offset) \subseteq Clause(Len(p.cells))
      BY <3>2, WiderClause DEF NamedClauses
    <3>4. database \in Seq(Clause(Len(p.cells)))
      BY <1>6, <3>3, WiderSeq
    <3>5. /\ r.pool \in Pools /\ Grown(p, r.pool)
          /\ r.database \in Seq(Clause(Len(r.pool.cells))) /\ Len(r.database) = Len(database)
          /\ \A i \in 1 .. Len(database) :
               database[i].at \in Seq(1 .. p.offset) => r.database[i] = database[i]
      BY <1>6, <3>1, <3>4, CompactedWorks
    <3>6. \A i \in 1 .. Len(database) : database[i].at \in Seq(1 .. p.offset)
      <4> SUFFICES ASSUME NEW i \in 1 .. Len(database)
                   PROVE  database[i].at \in Seq(1 .. p.offset)
        OBVIOUS
      <4>1. database[i] \in NamedClauses(p.offset)
        BY <1>6, InSeq
      <4>2. database[i] \in Clause(p.offset)
        BY <4>1 DEF NamedClauses
      <4> QED BY <4>2 DEF Clause
    <3>7. r.database = database
      <4>1. \A i \in 1 .. Len(database) : r.database[i] = database[i]
        BY <3>5, <3>6
      <4>2. PICK n \in Nat : n = Len(database)
        BY <3>4
      <4>3. r.database = [i \in 1 .. n |-> r.database[i]] /\ database = [i \in 1 .. n |-> database[i]]
        BY <3>4, <3>5, <4>2
      <4> QED BY <4>1, <4>2, <4>3
    <3> QED BY <2>2, <3>1, <3>5, <3>7
  <2> QED BY <1>4, <2>1, <2>2
<1> QED BY <1>5, <1>6, <1>8

-----------------------------------------------------------------------------
(* Sequences again                                                         *)

LEMMA WithoutNothing ==
  ASSUME NEW S, NEW s \in Seq(S), NEW gone, \A x \in Range(s) : x \notin gone
  PROVE  Without(s, gone) = s
<1> DEFINE P == {t \in Seq(S) : Without(t, {}) = t}
<1>1. << >> \in P
  BY WithoutEmpty
<1>2. ASSUME NEW t \in Seq(S), NEW x \in S, t \in P PROVE Append(t, x) \in P
  <2>1. Without(Append(t, x), {}) = IF x \in {} THEN Without(t, {}) ELSE Append(Without(t, {}), x)
    BY WithoutAppend
  <2>2. Without(Append(t, x), {}) = Append(t, x)
    BY <1>2, <2>1
  <2> QED BY <2>2
<1> HIDE DEF P
<1>3. s \in P
  BY <1>1, <1>2, SeqInduction
<1>4. Without(s, gone) = Without(s, {})
  BY WithoutSame
<1> QED BY <1>3, <1>4 DEF P

\* What is where once one is removed.
IsRemoved(S, s, i, r) ==
  /\ r \in Seq(S) /\ Len(r) = Len(s) - 1
  /\ \A k \in 1 .. Len(s) - 1 : r[k] = IF k < i THEN s[k] ELSE s[k + 1]

LEMMA RemovedElements ==
  ASSUME NEW S, NEW s \in Seq(S), NEW i \in 1 .. Len(s)
  PROVE  IsRemoved(S, s, i, RemoveAt(s, i))
<1>0. PICK r : r = RemoveAt(s, i)
  OBVIOUS
<1>1. PICK n \in Nat : n = Len(s)
  OBVIOUS
<1>2. i \in 1 .. n
  BY <1>1
<1>3. PICK a : a = SubSeq(s, 1, i - 1)
  OBVIOUS
<1>4. PICK b : b = SubSeq(s, i + 1, n)
  OBVIOUS
<1>5. a \in Seq(S) /\ Len(a) = i - 1 /\ \A k \in 1 .. i - 1 : a[k] = s[k]
  BY <1>1, <1>2, <1>3
<1>6. b \in Seq(S) /\ Len(b) = n - i /\ \A k \in 1 .. n - i : b[k] = s[i + k]
  BY <1>1, <1>2, <1>4
<1>7. r = a \o b
  BY <1>0, <1>1, <1>3, <1>4 DEF RemoveAt
<1>8. /\ r \in Seq(S) /\ Len(r) = Len(a) + Len(b)
      /\ \A k \in 1 .. Len(a) + Len(b) : r[k] = IF k <= Len(a) THEN a[k] ELSE b[k - Len(a)]
  <2>1. a \in Seq(S) /\ b \in Seq(S)
    BY <1>5, <1>6
  <2>2. /\ a \o b \in Seq(S) /\ Len(a \o b) = Len(a) + Len(b)
        /\ \A k \in 1 .. Len(a) + Len(b) :
             (a \o b)[k] = IF k <= Len(a) THEN a[k] ELSE b[k - Len(a)]
    BY <2>1, ConcatProperties
  <2> QED BY <1>7, <2>2
<1>9. Len(a) + Len(b) = n - 1 /\ Len(a) = i - 1
  BY <1>1, <1>2, <1>5, <1>6
<1>10. ASSUME NEW k \in 1 .. n - 1 PROVE r[k] = IF k < i THEN s[k] ELSE s[k + 1]
  <2>1. r[k] = IF k <= i - 1 THEN a[k] ELSE b[k - (i - 1)]
    BY <1>8, <1>9
  <2>2. CASE k < i
    BY <1>2, <1>5, <2>1, <2>2
  <2>3. CASE ~(k < i)
    <3>1. k - (i - 1) \in 1 .. n - i /\ i + (k - (i - 1)) = k + 1 /\ ~(k <= i - 1)
      BY <1>1, <1>2, <2>3
    <3>2. b[k - (i - 1)] = s[k + 1]
      BY <1>6, <3>1
    <3> QED BY <2>1, <2>3, <3>1, <3>2
  <2> QED BY <2>2, <2>3
<1> QED BY <1>0, <1>1, <1>8, <1>9, <1>10 DEF IsRemoved

\* v is the image of s, elements of T.
IsImage(h, T, s, v) ==
  v \in Seq(T) /\ Len(v) = Len(s) /\ \A k \in 1 .. Len(s) : v[k] = h[s[k]]

LEMMA ImageElements ==
  ASSUME NEW S, NEW T, NEW h, Maps(h, S, T), NEW s \in Seq(S)
  PROVE  IsImage(h, T, s, ImageOf(h, s))
<1>1. PICK v : v = ImageOf(h, s)
  OBVIOUS
<1>2. v \in Seq(T) /\ Len(v) = Len(s)
  <2>1. h \in [S -> T]
    BY DEF Maps
  <2>2. v \in Seq(T)
    BY <1>1, <2>1, ImageTyped
  <2>3. Len(v) = Len(s)
    BY <1>1, InSeq DEF ImageOf
  <2> QED BY <2>2, <2>3
<1>3. \A k \in 1 .. Len(s) : v[k] = h[s[k]]
  BY <1>1 DEF ImageOf
<1> QED BY <1>1, <1>2, <1>3 DEF IsImage

LEMMA ImageRemoved ==
  ASSUME NEW S, NEW T, NEW h, Maps(h, S, T), NEW s \in Seq(S), NEW i \in 1 .. Len(s)
  PROVE  ImageOf(h, RemoveAt(s, i)) = RemoveAt(ImageOf(h, s), i)
<1>1. PICK n \in Nat : n = Len(s)
  OBVIOUS
<1>2. PICK u : u = ImageOf(h, s)
  OBVIOUS
<1>3. u \in Seq(T) /\ Len(u) = n /\ \A k \in 1 .. n : u[k] = h[s[k]]
  <2>1. IsImage(h, T, s, u)
    BY <1>2, ImageElements
  <2> QED BY <1>1, <2>1 DEF IsImage
<1>4. PICK r : r = RemoveAt(s, i)
  OBVIOUS
<1>5. /\ r \in Seq(S) /\ Len(r) = n - 1
      /\ \A k \in 1 .. n - 1 : r[k] = IF k < i THEN s[k] ELSE s[k + 1]
  <2>1. IsRemoved(S, s, i, r)
    BY <1>4, RemovedElements
  <2> QED BY <1>1, <2>1 DEF IsRemoved
<1>6. PICK v : v = ImageOf(h, r)
  OBVIOUS
<1>7. v \in Seq(T) /\ Len(v) = n - 1 /\ \A k \in 1 .. n - 1 : v[k] = h[r[k]]
  <2>1. r \in Seq(S) /\ Len(r) = n - 1
    BY <1>5
  <2>2. IsImage(h, T, r, v)
    BY <1>6, <2>1, ImageElements
  <2> QED BY <2>1, <2>2 DEF IsImage
<1>8. PICK w : w = RemoveAt(u, i)
  OBVIOUS
<1>9. /\ w \in Seq(T) /\ Len(w) = n - 1
      /\ \A k \in 1 .. n - 1 : w[k] = IF k < i THEN u[k] ELSE u[k + 1]
  <2>1. u \in Seq(T) /\ i \in 1 .. Len(u)
    BY <1>1, <1>3
  <2>2. IsRemoved(T, u, i, w)
    BY <1>8, <2>1, RemovedElements
  <2> QED BY <1>3, <2>2 DEF IsRemoved
<1>10. ASSUME NEW k \in 1 .. n - 1 PROVE v[k] = w[k]
  <2>1. k \in 1 .. n /\ k + 1 \in 1 .. n
    BY <1>1
  <2>2. v[k] = h[r[k]] /\ r[k] = (IF k < i THEN s[k] ELSE s[k + 1])
    BY <1>5, <1>7
  <2>3. w[k] = (IF k < i THEN u[k] ELSE u[k + 1])
    BY <1>9
  <2>4. u[k] = h[s[k]] /\ u[k + 1] = h[s[k + 1]]
    BY <1>3, <2>1
  <2> QED BY <2>2, <2>3, <2>4
<1>11. v = w
  BY <1>7, <1>9, <1>10, SeqEqual
<1> QED BY <1>2, <1>4, <1>6, <1>8, <1>11

LEMMA ImageFirst ==
  ASSUME NEW S, NEW T, NEW h, Maps(h, S, T), NEW s \in Seq(S), NEW x \in S
  PROVE  ImageOf(h, << x >> \o s) = << h[x] >> \o ImageOf(h, s)
<1>1. PICK n \in Nat : n = Len(s)
  OBVIOUS
<1>2. PICK u : u = ImageOf(h, s)
  OBVIOUS
<1>3. u \in Seq(T) /\ Len(u) = n /\ \A k \in 1 .. n : u[k] = h[s[k]]
  <2>1. IsImage(h, T, s, u)
    BY <1>2, ImageElements
  <2> QED BY <1>1, <2>1 DEF IsImage
<1>4. /\ << x >> \in Seq(S) /\ Len(<< x >>) = 1 /\ << x >>[1] = x
      /\ << h[x] >> \in Seq(T) /\ Len(<< h[x] >>) = 1 /\ << h[x] >>[1] = h[x]
  BY DEF Maps
<1>5. PICK r : r = << x >> \o s
  OBVIOUS
<1>6. /\ r \in Seq(S) /\ Len(r) = 1 + n
      /\ \A k \in 1 .. 1 + n : r[k] = IF k <= 1 THEN << x >>[k] ELSE s[k - 1]
  BY <1>1, <1>4, <1>5, ConcatProperties
<1>7. PICK v : v = ImageOf(h, r)
  OBVIOUS
<1>8. v \in Seq(T) /\ Len(v) = 1 + n /\ \A k \in 1 .. 1 + n : v[k] = h[r[k]]
  <2>1. r \in Seq(S) /\ Len(r) = 1 + n
    BY <1>6
  <2>2. IsImage(h, T, r, v)
    BY <1>7, <2>1, ImageElements
  <2> QED BY <2>1, <2>2 DEF IsImage
<1>9. PICK w : w = << h[x] >> \o u
  OBVIOUS
<1>10. /\ w \in Seq(T) /\ Len(w) = 1 + n
       /\ \A k \in 1 .. 1 + n : w[k] = IF k <= 1 THEN << h[x] >>[k] ELSE u[k - 1]
  BY <1>3, <1>4, <1>9, ConcatProperties
<1>11. ASSUME NEW k \in 1 .. 1 + n PROVE v[k] = w[k]
  <2>1. CASE k <= 1
    <3>1. k = 1
      BY <2>1
    <3> QED BY <1>4, <1>6, <1>8, <1>10, <3>1
  <2>2. CASE ~(k <= 1)
    <3>1. k - 1 \in 1 .. n
      BY <1>1, <2>2
    <3> QED BY <1>3, <1>6, <1>8, <1>10, <2>2, <3>1
  <2> QED BY <2>1, <2>2
<1>12. v = w
  BY <1>8, <1>10, <1>11, SeqEqual
<1> QED BY <1>2, <1>5, <1>7, <1>9, <1>12

-----------------------------------------------------------------------------
(* What a program sees of clauses db, through the pool p and the files     *)

Reading(p, c) == [i \in DOMAIN c.at |-> p.cells[c.at[i]]]
Shown(p, files, c) ==
  [fact |-> Reading(p, c),
   owner |-> IF c.source_file = 0 THEN None ELSE files[c.source_file].path]
View(p, files, db) == [i \in DOMAIN db |-> Shown(p, files, db[i])]
Facts == [fact : Seq(Names) \ {<< >>}, owner : Files \cup {None}]

LEMMA ContentsShown ==
  /\ Contents = View(pool, make_files, database)
  /\ Contents' = View(pool', make_files', database')
BY DEF Contents, View, Shown, Reading, Read, Owner

\* The view is an image.
Showing(p, files, S) == [c \in S |-> Shown(p, files, c)]
LEMMA ViewIsImage ==
  ASSUME NEW S, NEW db \in Seq(S), NEW p, NEW files
  PROVE  View(p, files, db) = ImageOf(Showing(p, files, S), db)
<1>1. DOMAIN db = 1 .. Len(db) /\ \A k \in 1 .. Len(db) : db[k] \in S
  BY InSeq
<1> QED BY <1>1 DEF View, ImageOf, Showing

Shows(p, files, S, T) == \A c \in S : Shown(p, files, c) \in T

LEMMA ShowingTyped ==
  ASSUME NEW S, NEW T, NEW p, NEW files, Shows(p, files, S, T)
  PROVE  Maps(Showing(p, files, S), S, T)
BY DEF Showing, Shows, Maps

LEMMA ViewElements ==
  ASSUME NEW S, NEW p, NEW files, NEW db \in Seq(S)
  PROVE  /\ Len(View(p, files, db)) = Len(db)
         /\ \A k \in 1 .. Len(db) : View(p, files, db)[k] = Shown(p, files, db[k])
BY DEF View

LEMMA ViewTyped ==
  ASSUME NEW S, NEW T, NEW p, NEW files, NEW db \in Seq(S),
         Shows(p, files, S, T)
  PROVE  View(p, files, db) \in Seq(T)
<1>1. PICK h : h = Showing(p, files, S)
  OBVIOUS
<1>2. Maps(h, S, T)
  BY <1>1, ShowingTyped
<1>3. PICK v : v = ImageOf(h, db)
  OBVIOUS
<1>4. v \in Seq(T) /\ Len(v) = Len(db)
  <2>1. IsImage(h, T, db, v)
    BY <1>2, <1>3, ImageElements
  <2> QED BY <2>1 DEF IsImage
<1>5. v = View(p, files, db)
  BY <1>1, <1>3, ViewIsImage
<1> QED BY <1>4, <1>5

\* Each clause is shown as before.
LEMMA ViewSame ==
  ASSUME NEW S, NEW db \in Seq(S), NEW p, NEW files, NEW q, NEW others,
         \A c \in S : Shown(q, others, c) = Shown(p, files, c)
  PROVE  View(q, others, db) = View(p, files, db)
<1>1. \A k \in DOMAIN db : db[k] \in S
  BY InSeq
<1> QED BY <1>1 DEF View

LEMMA ViewAppend ==
  ASSUME NEW S, NEW T, NEW p, NEW files, Shows(p, files, S, T),
         NEW db \in Seq(S), NEW c \in S
  PROVE  View(p, files, Append(db, c)) = Append(View(p, files, db), Shown(p, files, c))
<1>1. PICK h : h = Showing(p, files, S)
  OBVIOUS
<1>2. Maps(h, S, T) /\ h[c] = Shown(p, files, c)
  BY <1>1, ShowingTyped DEF Showing
<1>3. PICK t : t = Append(db, c)
  OBVIOUS
<1>4. t \in Seq(S) /\ Longer(t, db, c)
  BY <1>3 DEF Longer
<1>5. ImageOf(h, t) = Append(ImageOf(h, db), h[c])
  <2>1. h \in [S -> T]
    BY <1>2 DEF Maps
  <2> QED BY <1>4, <2>1, ImageAppend
<1>6. View(p, files, t) = ImageOf(h, t) /\ View(p, files, db) = ImageOf(h, db)
  BY <1>1, <1>4, ViewIsImage
<1> QED BY <1>2, <1>3, <1>5, <1>6

LEMMA ViewFirst ==
  ASSUME NEW S, NEW T, NEW p, NEW files, Shows(p, files, S, T),
         NEW db \in Seq(S), NEW c \in S
  PROVE  View(p, files, << c >> \o db) = << Shown(p, files, c) >> \o View(p, files, db)
<1>1. PICK h : h = Showing(p, files, S)
  OBVIOUS
<1>2. Maps(h, S, T) /\ h[c] = Shown(p, files, c)
  BY <1>1, ShowingTyped DEF Showing
<1>3. PICK t : t = << c >> \o db
  OBVIOUS
<1>4. t \in Seq(S)
  <2>1. << c >> \in Seq(S)
    OBVIOUS
  <2> QED BY <1>3, <2>1, ConcatProperties
<1>5. ImageOf(h, t) = << h[c] >> \o ImageOf(h, db)
  <2>1. ImageOf(h, << c >> \o db) = << h[c] >> \o ImageOf(h, db)
    BY <1>2, ImageFirst
  <2> QED BY <1>3, <2>1
<1>6. View(p, files, t) = ImageOf(h, t) /\ View(p, files, db) = ImageOf(h, db)
  BY <1>1, <1>4, ViewIsImage
<1> QED BY <1>2, <1>3, <1>5, <1>6

LEMMA ViewRemoved ==
  ASSUME NEW S, NEW T, NEW p, NEW files, Shows(p, files, S, T),
         NEW db \in Seq(S), NEW i \in 1 .. Len(db)
  PROVE  View(p, files, RemoveAt(db, i)) = RemoveAt(View(p, files, db), i)
<1>1. PICK h : h = Showing(p, files, S)
  OBVIOUS
<1>2. Maps(h, S, T)
  BY <1>1, ShowingTyped
<1>3. PICK t : t = RemoveAt(db, i)
  OBVIOUS
<1>4. t \in Seq(S)
  <2>1. IsRemoved(S, db, i, t)
    BY <1>3, RemovedElements
  <2> QED BY <2>1 DEF IsRemoved
<1>5. ImageOf(h, t) = RemoveAt(ImageOf(h, db), i)
  <2>1. ImageOf(h, RemoveAt(db, i)) = RemoveAt(ImageOf(h, db), i)
    BY <1>2, ImageRemoved
  <2> QED BY <1>3, <2>1
<1>6. View(p, files, t) = ImageOf(h, t) /\ View(p, files, db) = ImageOf(h, db)
  BY <1>1, <1>4, ViewIsImage
<1> QED BY <1>3, <1>5, <1>6

LEMMA ViewWithout ==
  ASSUME NEW S, NEW T, NEW p, NEW files, Shows(p, files, S, T),
         NEW db \in Seq(S), NEW gone, NEW out,
         \A c \in Range(db) : c \in gone <=> Shown(p, files, c) \in out
  PROVE  View(p, files, Without(db, gone)) = Without(View(p, files, db), out)
<1>1. PICK h : h = Showing(p, files, S)
  OBVIOUS
<1>2. Maps(h, S, T) /\ \A c \in S : h[c] = Shown(p, files, c)
  BY <1>1, ShowingTyped DEF Showing
<1>3. PICK t : t = Without(db, gone)
  OBVIOUS
<1>4. t \in Seq(S)
  BY <1>3, WithoutWorks
<1>5. \A c \in Range(db) : c \in S
  BY RangeOfSeq
<1>6. ImageOf(h, t) = Without(ImageOf(h, db), out)
  <2>1. \A c \in Range(db) : c \in gone <=> h[c] \in out
    BY <1>2, <1>5
  <2>2. Without(ImageOf(h, db), out) = ImageOf(h, Without(db, gone))
    BY <1>2, <2>1, WithoutImage
  <2> QED BY <1>3, <2>2
<1>7. View(p, files, t) = ImageOf(h, t) /\ View(p, files, db) = ImageOf(h, db)
  BY <1>1, <1>4, ViewIsImage
<1> QED BY <1>3, <1>6, <1>7

-----------------------------------------------------------------------------
(* Clauses that can be read: their names lie in the pool, their file is    *)
(* tracked.                                                                *)

Tracked == [path : Files, mtime : Nat]
Known(n, m) == {c \in NamedClauses(n) : c.source_file \in 0 .. m}

LEMMA DatabaseKnown ==
  ASSUME ReadInv, NEW n \in Nat, database \in Seq(NamedClauses(n))
  PROVE  database \in Seq(Known(n, Len(make_files)))
<1>1. PICK m : m = Len(make_files)
  OBVIOUS
<1>2. DOMAIN database = 1 .. Len(database) /\ Len(database) \in Nat
  OBVIOUS
<1>3. ASSUME NEW k \in 1 .. Len(database) PROVE database[k] \in Known(n, m)
  <2>1. database[k] \in NamedClauses(n)
    BY InSeq
  <2>2. database[k].source_file \in 0 .. m
    BY <1>1, <1>2 DEF ReadInv, OwnersInv, OwnersIn
  <2> QED BY <2>1, <2>2 DEF Known
<1>4. database \in [1 .. Len(database) -> Known(n, m)]
  BY <1>2, <1>3
<1> QED BY <1>1, <1>2, <1>4

LEMMA FilesTyped ==
  ASSUME ReadInv
  PROVE  /\ make_files \in Seq(Tracked) /\ Len(make_files) \in Nat
         /\ DOMAIN make_files = 1 .. Len(make_files)
         /\ \A i \in 1 .. Len(make_files) : make_files[i].path \in Files
<1>1. make_files \in Seq(Tracked)
  BY DEF ReadInv, OwnersInv, StoreInv, FilesOK, Tracked
<1>2. \A i \in 1 .. Len(make_files) : make_files[i] \in Tracked
  BY <1>1, InSeq
<1> QED BY <1>1, <1>2 DEF Tracked

LEMMA ShownIsFact ==
  ASSUME NEW p \in Pools, NEW files \in Seq(Tracked), NEW c \in Known(p.offset, Len(files))
  PROVE  /\ Shown(p, files, c) \in Facts
         /\ Shown(p, files, c).fact = Reading(p, c)
         /\ Shown(p, files, c).owner
            = IF c.source_file = 0 THEN None ELSE files[c.source_file].path
<1>1. PICK at \in Seq(1 .. p.offset) : at = c.at /\ at # << >>
  BY DEF Known, NamedClauses, Clause
<1>2. PICK n \in Nat : n = p.offset /\ n <= Len(p.cells)
  BY DEF Pools
<1>3. p.cells \in Seq(Names) /\ Len(p.cells) \in Nat
  BY DEF Pools
<1>4. ASSUME NEW i \in 1 .. Len(at) PROVE p.cells[at[i]] \in Names
  <2>1. at[i] \in 1 .. n
    BY <1>1, <1>2, InSeq
  <2>2. at[i] \in 1 .. Len(p.cells)
    BY <1>2, <1>3, <2>1
  <2> QED BY <1>3, <2>2, InSeq
<1>5. PICK r : r = Reading(p, c)
  OBVIOUS
<1>6. r \in Seq(Names) \ {<< >>}
  <2>1. DOMAIN at = 1 .. Len(at) /\ Len(at) \in Nat /\ Len(at) # 0
    BY <1>1
  <2>2. r = [i \in 1 .. Len(at) |-> p.cells[at[i]]]
    BY <1>1, <1>5, <2>1 DEF Reading
  <2>3. r \in [1 .. Len(at) -> Names]
    BY <1>4, <2>2
  <2>4. r \in Seq(Names) /\ DOMAIN r = 1 .. Len(at)
    BY <2>1, <2>3
  <2>5. r # << >>
    BY <2>1, <2>4
  <2> QED BY <2>4, <2>5
<1>7. PICK owner : owner = IF c.source_file = 0 THEN None ELSE files[c.source_file].path
  OBVIOUS
<1>8. owner \in Files \cup {None}
  <2>1. CASE c.source_file = 0
    BY <1>7, <2>1
  <2>2. CASE c.source_file # 0
    <3>1. c.source_file \in 0 .. Len(files) /\ Len(files) \in Nat
      BY DEF Known
    <3>2. c.source_file \in 1 .. Len(files)
      BY <2>2, <3>1
    <3>3. files[c.source_file] \in Tracked
      BY <3>2, InSeq
    <3> QED BY <1>7, <2>2, <3>3 DEF Tracked
  <2> QED BY <2>1, <2>2
<1>9. Shown(p, files, c) = [fact |-> r, owner |-> owner]
  BY <1>5, <1>7 DEF Shown
<1> QED BY <1>5, <1>6, <1>7, <1>8, <1>9 DEF Facts

\* What does not depend on what changed is shown as before.
SamePaths(files, others) == \A i \in 1 .. Len(files) : others[i].path = files[i].path

LEMMA ReadAgain ==
  ASSUME NEW p \in Pools, NEW q, Grown(p, q), NEW c \in NamedClauses(p.offset)
  PROVE  Reading(q, c) = Reading(p, c)
<1>1. PICK at \in Seq(1 .. p.offset) : at = c.at
  BY DEF NamedClauses, Clause
<1>2. DOMAIN at = 1 .. Len(at)
  BY <1>1
<1>3. \A i \in 1 .. Len(at) : at[i] \in 1 .. p.offset
  BY <1>1, InSeq
<1>4. \A i \in 1 .. Len(at) : q.cells[at[i]] = p.cells[at[i]]
  BY <1>3 DEF Grown
<1> QED BY <1>1, <1>2, <1>4 DEF Reading

LEMMA ShownAgain ==
  ASSUME NEW p \in Pools, NEW q, Grown(p, q), NEW files \in Seq(Tracked), NEW others,
         SamePaths(files, others), NEW c \in Known(p.offset, Len(files))
  PROVE  Shown(q, others, c) = Shown(p, files, c)
<1>1. Reading(q, c) = Reading(p, c)
  BY ReadAgain DEF Known
<1>2. c.source_file = 0 \/ c.source_file \in 1 .. Len(files)
  <2>1. c.source_file \in 0 .. Len(files) /\ Len(files) \in Nat
    BY DEF Known
  <2> QED BY <2>1
<1>3. c.source_file # 0 => others[c.source_file].path = files[c.source_file].path
  BY <1>2 DEF SamePaths
<1> QED BY <1>1, <1>3 DEF Shown

LEMMA ContentsTyped ==
  ASSUME ReadInv
  PROVE  /\ database \in Seq(Known(pool.offset, Len(make_files)))
         /\ Shows(pool, make_files, Known(pool.offset, Len(make_files)), Facts)
         /\ Contents \in Seq(Facts) /\ Len(Contents) = Len(database)
         /\ \A k \in 1 .. Len(database) : Contents[k] = Shown(pool, make_files, database[k])
<1>1. PICK S : S = Known(pool.offset, Len(make_files))
  OBVIOUS
<1>2. database \in Seq(S)
  BY <1>1, PoolTyped, DatabaseKnown DEF ReadInv, Readable, ClausesNamed
<1>3. Shows(pool, make_files, S, Facts)
  BY <1>1, PoolTyped, FilesTyped, ShownIsFact DEF Shows
<1>4. PICK v : v = View(pool, make_files, database)
  OBVIOUS
<1>5. /\ v \in Seq(Facts) /\ Len(v) = Len(database)
      /\ \A k \in 1 .. Len(database) : v[k] = Shown(pool, make_files, database[k])
  <2>1. v \in Seq(Facts)
    BY <1>2, <1>3, <1>4, ViewTyped
  <2>2. /\ Len(v) = Len(database)
        /\ \A k \in 1 .. Len(database) : v[k] = Shown(pool, make_files, database[k])
    BY <1>2, <1>4, ViewElements
  <2> QED BY <2>1, <2>2
<1>6. Contents = v
  BY <1>4, ContentsShown
<1> QED BY <1>1, <1>2, <1>3, <1>5, <1>6

-----------------------------------------------------------------------------
(* The store as a program sees it, before and after a step                 *)

SameStore == Contents' = Contents /\ OperatorNames' = OperatorNames

NamesAt(p, at) == {p.cells[i] : i \in Range(at)}

LEMMA OperatorsAgain ==
  ASSUME NEW p \in Pools, NEW q, Grown(p, q), NEW at \in Seq(1 .. p.offset)
  PROVE  NamesAt(q, at) = NamesAt(p, at)
<1>1. \A i \in Range(at) : i \in 1 .. p.offset
  BY RangeOfSeq
<1>2. \A i \in Range(at) : q.cells[i] = p.cells[i]
  BY <1>1 DEF Grown
<1> QED BY <1>2 DEF NamesAt

LEMMA OperatorsAt == OperatorNames = NamesAt(pool, ops) /\ OperatorNames' = NamesAt(pool', ops')
BY DEF OperatorNames, NamesAt

LEMMA QuietStore ==
  ASSUME UNCHANGED <<database, pool, ops, make_files>> PROVE SameStore
BY DEF SameStore, Contents, OperatorNames, Read, Owner

LEMMA GrownStore ==
  ASSUME ReadInv, UNCHANGED <<database, ops, make_files>>,
         NEW p \in Pools, p.cells = pool.cells, Grown(p, pool'),
         database \in Seq(NamedClauses(p.offset)), ops \in Seq(1 .. p.offset)
  PROVE  SameStore
<1>1. PICK S : S = Known(p.offset, Len(make_files))
  OBVIOUS
<1>2. database \in Seq(S)
  <2>1. p.offset \in Nat
    BY DEF Pools
  <2> QED BY <1>1, <2>1, DatabaseKnown
<1>3. SamePaths(make_files, make_files')
  BY DEF SamePaths
<1>4. \A c \in S : Shown(pool', make_files', c) = Shown(p, make_files, c)
  BY <1>1, <1>3, FilesTyped, ShownAgain
<1>5. \A c \in S : Shown(p, make_files, c) = Shown(pool, make_files, c)
  BY DEF Shown, Reading
<1>6. Contents' = Contents
  <2>1. \A c \in S : Shown(pool', make_files', c) = Shown(pool, make_files, c)
    BY <1>4, <1>5
  <2>2. View(pool', make_files', database) = View(pool, make_files, database)
    BY <1>2, <2>1, ViewSame
  <2> QED BY <2>2, ContentsShown
<1>7. OperatorNames' = OperatorNames
  <2>1. NamesAt(pool', ops) = NamesAt(p, ops)
    BY OperatorsAgain
  <2>2. NamesAt(p, ops) = NamesAt(pool, ops)
    BY DEF NamesAt
  <2> QED BY <2>1, <2>2, OperatorsAt
<1> QED BY <1>6, <1>7 DEF SameStore

LEMMA GrownStoreOnly ==
  ASSUME ReadInv, UNCHANGED <<database, ops, make_files>>, Grown(pool, pool')
  PROVE  SameStore
<1>1. pool \in Pools /\ pool.cells = pool.cells
  BY PoolTyped
<1>2. database \in Seq(NamedClauses(pool.offset)) /\ ops \in Seq(1 .. pool.offset)
  BY DEF ReadInv, Readable, ClausesNamed, OpsNamed
<1> QED BY <1>1, <1>2, GrownStore

\* A clause more: at the end, or first.
LEMMA WiderKnown ==
  ASSUME NEW m \in Nat, NEW n \in Nat, m <= n, NEW k
  PROVE  Known(m, k) \subseteq Known(n, k)
BY WiderNamed DEF Known

LEMMA MoreStore ==
  ASSUME ReadInv, UNCHANGED <<ops, make_files>>, pool' \in Pools, Grown(pool, pool'),
         NEW clause \in Known(pool'.offset, Len(make_files)),
         NEW e, e = Shown(pool', make_files, clause),
         NEW last \in BOOLEAN,
         database' = IF last THEN Append(database, clause) ELSE << clause >> \o database
  PROVE  /\ Readable' /\ e \in Facts /\ OperatorNames' = OperatorNames
         /\ Contents' = IF last THEN Append(Contents, e) ELSE << e >> \o Contents
         /\ e.fact = Reading(pool', clause)
         /\ e.owner = IF clause.source_file = 0 THEN None
                      ELSE make_files[clause.source_file].path
<1>1. PICK S : S = Known(pool'.offset, Len(make_files))
  OBVIOUS
<1>2. PICK m \in Nat : m = pool.offset
  BY PoolTyped
<1>3. PICK n \in Nat : n = pool'.offset
  BY DEF Pools
<1>4. m <= n
  BY <1>2, <1>3 DEF Grown
<1>5. database \in Seq(S)
  <2>1. database \in Seq(Known(m, Len(make_files)))
    BY <1>2, ContentsTyped
  <2>2. Known(m, Len(make_files)) \subseteq S
    BY <1>1, <1>3, <1>4, WiderKnown
  <2> QED BY <2>1, <2>2, WiderSeq
<1>6. /\ Shows(pool', make_files, S, Facts)
      /\ clause \in S
  <2>1. Shows(pool', make_files, S, Facts)
    BY <1>1, FilesTyped, ShownIsFact DEF Shows
  <2> QED BY <1>1, <2>1
<1>7. /\ e \in Facts /\ e.fact = Reading(pool', clause)
      /\ e.owner = IF clause.source_file = 0 THEN None
                   ELSE make_files[clause.source_file].path
  BY FilesTyped, ShownIsFact
<1>8. View(pool', make_files, database) = Contents
  <2>1. SamePaths(make_files, make_files)
    BY DEF SamePaths
  <2>2. \A c \in Known(pool.offset, Len(make_files)) :
          Shown(pool', make_files, c) = Shown(pool, make_files, c)
    BY <2>1, PoolTyped, FilesTyped, ShownAgain
  <2>3. View(pool', make_files, database) = View(pool, make_files, database)
    BY <2>2, ContentsTyped, ViewSame
  <2> QED BY <2>3, ContentsShown
<1>9. Contents' = View(pool', make_files, database')
  BY ContentsShown
<1>10. Contents' = IF last THEN Append(Contents, e) ELSE << e >> \o Contents
  <2>1. CASE last
    <3>1. View(pool', make_files, Append(database, clause))
          = Append(View(pool', make_files, database), Shown(pool', make_files, clause))
      BY <1>5, <1>6, ViewAppend
    <3> QED BY <1>8, <1>9, <2>1, <3>1
  <2>2. CASE ~last
    <3>1. View(pool', make_files, << clause >> \o database)
          = << Shown(pool', make_files, clause) >> \o View(pool', make_files, database)
      BY <1>5, <1>6, ViewFirst
    <3> QED BY <1>8, <1>9, <2>2, <3>1
  <2> QED BY <2>1, <2>2
<1>11. Readable'
  <2>1. PICK N : N = NamedClauses(pool'.offset)
    OBVIOUS
  <2>2. database \in Seq(N) /\ ops \in Seq(1 .. pool'.offset)
    BY <2>1, StillNamed
  <2>3. clause \in N
    BY <2>1 DEF Known
  <2>4. << clause >> \in Seq(N)
    BY <2>3
  <2>5. Append(database, clause) \in Seq(N) /\ << clause >> \o database \in Seq(N)
    BY <2>2, <2>3, <2>4, ConcatProperties
  <2>6. database' \in Seq(N)
    BY <2>5
  <2>7. FilesApart'
    BY DEF ReadInv, Readable, FilesApart
  <2> QED BY <2>1, <2>2, <2>6, <2>7 DEF Readable, ClausesNamed, OpsNamed
<1>12. OperatorNames' = OperatorNames
  <2>1. ops \in Seq(1 .. pool.offset)
    BY DEF ReadInv, Readable, OpsNamed
  <2>2. NamesAt(pool', ops) = NamesAt(pool, ops)
    BY <2>1, PoolTyped, OperatorsAgain
  <2> QED BY <2>2, OperatorsAt
<1> QED BY <1>7, <1>10, <1>11, <1>12

\* One clause less.
LEMMA LessStore ==
  ASSUME ReadInv, UNCHANGED <<pool, ops, make_files>>,
         NEW i \in 1 .. Len(database), database' = RemoveAt(database, i)
  PROVE  /\ Readable' /\ OperatorNames' = OperatorNames
         /\ Contents' = RemoveAt(Contents, i)
<1>1. PICK S : S = Known(pool.offset, Len(make_files))
  OBVIOUS
<1>2. /\ database \in Seq(S) /\ Shows(pool, make_files, S, Facts)
      /\ S \subseteq NamedClauses(pool.offset)
  <2>1. database \in Seq(S) /\ Shows(pool, make_files, S, Facts)
    BY <1>1, ContentsTyped
  <2> QED BY <1>1, <2>1 DEF Known
<1>3. View(pool, make_files, RemoveAt(database, i)) = RemoveAt(View(pool, make_files, database), i)
  BY <1>2, ViewRemoved
<1>4. Contents' = RemoveAt(Contents, i)
  BY <1>3, ContentsShown
<1>5. database' \in Seq(S)
  <2>1. IsRemoved(S, database, i, database')
    BY <1>2, RemovedElements
  <2> QED BY <2>1 DEF IsRemoved
<1>6. database' \in Seq(NamedClauses(pool.offset))
  BY <1>2, <1>5, WiderSeq
<1>7. OperatorNames' = OperatorNames
  BY DEF OperatorNames
<1> QED BY <1>4, <1>6, <1>7, FewerRead

\* Some clauses less; a file may have been read at another time.
LEMMA FewerStore ==
  ASSUME ReadInv, UNCHANGED <<pool, ops>>, SamePaths(make_files, make_files'),
         NEW gone, NEW out, database' = Without(database, gone),
         \A c \in Clauses : c \in gone <=> Shown(pool, make_files, c) \in out
  PROVE  /\ ClausesNamed' /\ OpsNamed' /\ OperatorNames' = OperatorNames
         /\ Contents' = Without(Contents, out)
<1>1. PICK S : S = Known(pool.offset, Len(make_files))
  OBVIOUS
<1>2. /\ database \in Seq(S) /\ Shows(pool, make_files, S, Facts)
      /\ S \subseteq NamedClauses(pool.offset)
  <2>1. database \in Seq(S) /\ Shows(pool, make_files, S, Facts)
    BY <1>1, ContentsTyped
  <2> QED BY <1>1, <2>1 DEF Known
<1>3. \A c \in Range(database) : c \in gone <=> Shown(pool, make_files, c) \in out
  BY DEF Clauses
<1>4. View(pool, make_files, Without(database, gone))
      = Without(View(pool, make_files, database), out)
  BY <1>2, <1>3, ViewWithout
<1>5. database' \in Seq(S)
  BY <1>2, WithoutWorks
<1>6. View(pool, make_files', database') = View(pool, make_files, database')
  <2>1. Grown(pool, pool)
    BY PoolTyped DEF Grown, Pools
  <2>2. \A c \in S : Shown(pool, make_files', c) = Shown(pool, make_files, c)
    BY <1>1, <2>1, PoolTyped, FilesTyped, ShownAgain
  <2> QED BY <1>5, <2>2, ViewSame
<1>7. Contents' = Without(Contents, out)
  BY <1>4, <1>6, ContentsShown
<1>8. database' \in Seq(NamedClauses(pool.offset))
  BY <1>2, <1>5, WiderSeq
<1>9. OperatorNames' = OperatorNames
  BY DEF OperatorNames
<1> QED BY <1>7, <1>8, <1>9 DEF ReadInv, Readable, ClausesNamed, OpsNamed

-----------------------------------------------------------------------------
(* What each action does to the store as a program sees it                 *)

LEMMA InContents ==
  ASSUME ReadInv
  PROVE  /\ Clauses \subseteq Known(pool.offset, Len(make_files))
         /\ \A c \in Clauses : Shown(pool, make_files, c) \in Range(Contents)
         /\ Range(Contents) \subseteq Facts
<1>1. PICK S : S = Known(pool.offset, Len(make_files))
  OBVIOUS
<1>2. /\ database \in Seq(S) /\ Contents \in Seq(Facts) /\ Len(Contents) = Len(database)
      /\ \A k \in 1 .. Len(database) : Contents[k] = Shown(pool, make_files, database[k])
  BY <1>1, ContentsTyped
<1>3. Clauses \subseteq S
  BY <1>2, RangeOfSeq DEF Clauses
<1>4. ASSUME NEW c \in Clauses PROVE Shown(pool, make_files, c) \in Range(Contents)
  <2>1. PICK k \in 1 .. Len(database) : c = database[k]
    BY <1>2 DEF Clauses, Range
  <2>2. k \in DOMAIN Contents /\ Contents[k] = Shown(pool, make_files, c)
    BY <1>2, <2>1
  <2> QED BY <2>2 DEF Range
<1>5. Range(Contents) \subseteq Facts
  BY <1>2, RangeOfSeq
<1> QED BY <1>1, <1>3, <1>4, <1>5

LEMMA ClauseShown ==
  ASSUME ReadInv, NEW c \in Clauses
  PROVE  /\ Shown(pool, make_files, c) \in Facts
         /\ Shown(pool, make_files, c).fact = Read(c.at)
         /\ Shown(pool, make_files, c).fact[1] = NameOf(c)
         /\ (c.source_file = 0 <=> Shown(pool, make_files, c).owner = None)
         /\ c.source_file # 0 =>
              /\ c.source_file \in DOMAIN make_files
              /\ Shown(pool, make_files, c).owner = make_files[c.source_file].path
<1>1. c \in Known(pool.offset, Len(make_files))
  BY InContents
<1>2. /\ Shown(pool, make_files, c) \in Facts
      /\ Shown(pool, make_files, c).fact = Reading(pool, c)
      /\ Shown(pool, make_files, c).owner
         = IF c.source_file = 0 THEN None ELSE make_files[c.source_file].path
  BY <1>1, PoolTyped, FilesTyped, ShownIsFact
<1>3. Reading(pool, c) = Read(c.at)
  BY DEF Reading, Read
<1>4. 1 \in DOMAIN c.at
  <2>1. c.at \in Seq(1 .. pool.offset) /\ c.at # << >>
    BY <1>1 DEF Known, NamedClauses, Clause
  <2> QED BY <2>1
<1>5. Read(c.at)[1] = NameOf(c)
  BY <1>4 DEF Read, NameOf
<1>6. c.source_file # 0 =>
        /\ c.source_file \in DOMAIN make_files /\ make_files[c.source_file].path # None
  <2>1. c.source_file \in 0 .. Len(make_files)
    BY <1>1 DEF Known
  <2>2. c.source_file # 0 => c.source_file \in 1 .. Len(make_files)
    BY <2>1, FilesTyped
  <2> QED BY <2>2, FilesTyped, StoreAssumption
<1> QED BY <1>2, <1>3, <1>5, <1>6

\* Nothing, or names only.
LEMMA QuietEffect ==
  ASSUME ReadInv, Solution \/ Backtrack \/ Call \/ Dynamic \/ EndLoad \/ UNCHANGED vars
                  \/ \E f \in Files : Edit(f)
  PROVE  Readable' /\ SameStore
<1>1. UNCHANGED <<database, pool, ops, make_files>>
  BY DEF Solution, Backtrack, Call, Dynamic, EndLoad, Edit, vars, loading
<1> QED BY <1>1, QuietRead, QuietStore

LEMMA EnterEffect ==
  ASSUME ReadInv, NEW goals \in Seq(Goals), NEW callers, EnterQuery(goals, callers)
  PROVE  Readable' /\ SameStore
<1>1. /\ pool' \in Pools /\ Grown(pool, pool')
      /\ UNCHANGED <<database, ops, make_files>>
  BY EnterQueryGrows DEF loading
<1> QED BY <1>1, GrownRead, GrownStoreOnly

LEMMA DirectiveEffect == ASSUME ReadInv, LoadDirective PROVE Readable' /\ SameStore
<1>1. acts # << >> /\ Act.kind = "load" /\ Act.items # << >> /\ Item.is = "directive"
  BY DEF LoadDirective, InLoad
<1>2. PICK load \in LoadActs : load = Act
  BY <1>1, ActTyped DEF ReadInv, OwnersInv
<1>3. load.items \in Seq(Items)
  BY DEF LoadActs
<1>4. Head(load.items) \in Items
  BY <1>1, <1>2, <1>3
<1>5. Item.goals \in Seq(Goals)
  BY <1>1, <1>2, <1>4 DEF Item, Items
<1> QED BY <1>5, EnterEffect DEF LoadDirective

LEMMA QueryEffect ==
  ASSUME ReadInv, NEW goals \in Queries, Query(goals) PROVE Readable' /\ SameStore
<1>1. goals \in Seq(Goals)
  BY StoreAssumption
<1> QED BY <1>1, EnterEffect DEF Query

LEMMA EndQueryEffect ==
  ASSUME ReadInv, GivesBackUnused, EndQuery PROVE Readable' /\ SameStore
<1>1. /\ UNCHANGED <<database, ops, make_files>>
      /\ \E p \in Pools :
           /\ p.cells = pool.cells /\ pool' \in Pools /\ Grown(p, pool')
           /\ database \in Seq(NamedClauses(p.offset)) /\ ops \in Seq(1 .. p.offset)
  BY EndQueryKeeps DEF loading
<1>2. PICK p \in Pools :
           /\ p.cells = pool.cells /\ pool' \in Pools /\ Grown(p, pool')
           /\ database \in Seq(NamedClauses(p.offset)) /\ ops \in Seq(1 .. p.offset)
  BY <1>1
<1>3. SameStore
  BY <1>1, <1>2, GrownStore
<1>4. p.offset \in Nat /\ pool'.offset \in Nat /\ p.offset <= pool'.offset
  BY <1>2 DEF Pools, Grown
<1>5. NamedClauses(p.offset) \subseteq NamedClauses(pool'.offset)
  BY <1>4, WiderNamed
<1>6. database \in Seq(NamedClauses(pool'.offset)) /\ ops \in Seq(1 .. pool'.offset)
  BY <1>2, <1>4, <1>5, WiderSeq, WiderPointers
<1>7. Readable'
  BY <1>1, <1>6 DEF ReadInv, Readable, ClausesNamed, OpsNamed, FilesApart
<1> QED BY <1>3, <1>7

\* A predicate none of whose clauses came from a file, or that is dynamic.
LEMMA NotStatic ==
  ASSUME ReadInv, NEW name, ~is_static_procedure(name), NEW e \in Range(Contents),
         e.fact[1] = name
  PROVE  name \in dynamic_preds \/ e.owner = None
<1>1. /\ database \in Seq(Known(pool.offset, Len(make_files)))
      /\ Contents \in Seq(Facts) /\ Len(Contents) = Len(database)
      /\ \A k \in 1 .. Len(database) : Contents[k] = Shown(pool, make_files, database[k])
  BY ContentsTyped
<1>2. PICK k \in 1 .. Len(database) : e = Shown(pool, make_files, database[k])
  BY <1>1 DEF Range
<1>3. PICK c \in Clauses : c = database[k]
  BY <1>1 DEF Clauses, Range
<1>4. NameOf(c) = name /\ (c.source_file = 0 <=> e.owner = None)
  BY <1>2, <1>3, ClauseShown
<1> QED BY <1>3, <1>4 DEF is_static_procedure, is_declared_dynamic

LEMMA AssertEffect ==
  ASSUME ReadInv, NEW op \in {"assertz", "asserta"}, AssertClause(op)
  PROVE  /\ Readable' /\ OperatorNames' = OperatorNames
         /\ \/ Contents' = Contents
            \/ \E e \in Facts :
                 /\ e.owner = None
                 /\ Goal.at \in Seq(1 .. pool.offset) => e.fact[1] = texts[1]
                 /\ Contents' = IF op = "assertz" THEN Append(Contents, e)
                                ELSE << e >> \o Contents
<1>1. UNCHANGED <<ops, make_files>> /\ Running(op) /\ op \in Named
  BY DEF AssertClause, loading, Named
<1>2. CASE UNCHANGED <<database, pool>>
  BY <1>1, <1>2, QuietRead, QuietStore DEF SameStore
<1>3. CASE ~UNCHANGED <<database, pool>>
  <2>1. PICK copy : copy = InternPointers(pool, Goal.at)
    OBVIOUS
  <2>2. PICK clause : clause = [at |-> copy.at, source_file |-> 0]
    OBVIOUS
  <2>3. /\ pool' = copy.pool
        /\ database' = IF op = "assertz" THEN Append(database, clause)
                       ELSE << clause >> \o database
    BY <1>3, <2>1, <2>2 DEF AssertClause
  <2>4. Goal.at \in Seq(1 .. Len(pool.cells)) /\ Goal.at # << >>
    <3>1. Goal \in Asked(Cells) /\ Goal.op = op
      BY <1>1, GoalTyped DEF ReadInv, OwnersInv
    <3> QED BY <1>1, <3>1 DEF Asked, Cells
  <2>5. /\ copy.pool \in Pools /\ Grown(pool, copy.pool)
        /\ copy.at \in Seq(1 .. copy.pool.offset) /\ Len(copy.at) = Len(Goal.at)
    BY <2>1, <2>4, PoolTyped, InternPointersWorks
  <2>6. copy.at # << >>
    BY <2>4, <2>5
  <2>7. clause \in Known(pool'.offset, Len(make_files)) /\ clause.source_file = 0
    BY <2>2, <2>3, <2>5, <2>6, FilesTyped DEF Known, NamedClauses, Clause
  <2>8. PICK e : e = Shown(pool', make_files, clause)
    OBVIOUS
  <2>9. PICK last \in BOOLEAN : last = (op = "assertz")
    OBVIOUS
  <2>10. database' = IF last THEN Append(database, clause) ELSE << clause >> \o database
    BY <2>3, <2>9
  <2>11. pool' \in Pools /\ Grown(pool, pool')
    BY <2>3, <2>5
  <2>12. /\ Readable' /\ e \in Facts /\ OperatorNames' = OperatorNames
         /\ Contents' = IF last THEN Append(Contents, e) ELSE << e >> \o Contents
         /\ e.owner = IF clause.source_file = 0 THEN None
                      ELSE make_files[clause.source_file].path
         /\ e.fact = Reading(pool', clause)
    BY <1>1, <2>7, <2>8, <2>10, <2>11, MoreStore
  <2>13. ASSUME Goal.at \in Seq(1 .. pool.offset) PROVE e.fact[1] = texts[1]
    <3>1. PICK at \in Seq(1 .. pool.offset) : at = Goal.at /\ at # << >>
      BY <2>4, <2>13
    <3>2. clause.at = at
      BY <2>1, <2>2, <2>4, <3>1, PoolTyped, InternPointersWorks
    <3>3. 1 \in DOMAIN at /\ at[1] \in 1 .. pool.offset
      <4>1. 1 \in 1 .. Len(at) /\ DOMAIN at = 1 .. Len(at)
        BY <3>1
      <4> QED BY <4>1, InSeq
    <3>4. pool'.cells[at[1]] = pool.cells[at[1]]
      BY <2>11, <3>3, PoolTyped DEF Grown
    <3> QED BY <2>12, <3>1, <3>2, <3>3, <3>4 DEF Reading, texts, Read
  <2> QED BY <2>7, <2>9, <2>12, <2>13
<1> QED BY <1>2, <1>3

LEMMA RetractEffect ==
  ASSUME ReadInv, Retract
  PROVE  /\ Readable' /\ OperatorNames' = OperatorNames
         /\ \/ Contents' = Contents
            \/ \E i \in 1 .. Len(Contents) :
                 /\ Contents' = RemoveAt(Contents, i) /\ Contents[i] \in Range(Contents)
                 /\ IsPrefix(texts, Contents[i].fact)
                 /\ texts # << >> => ~is_static_procedure(texts[1])
<1>1. PICK found : found = {i \in DOMAIN database : Matches(database[i])}
  OBVIOUS
<1>2. UNCHANGED <<pool, ops, make_files>>
  BY DEF Retract, loading
<1>3. CASE UNCHANGED database
  BY <1>2, <1>3, QuietRead, QuietStore DEF SameStore
<1>4. CASE ~UNCHANGED database
  <2>1. /\ found # {} /\ database' = RemoveAt(database, Min(found))
        /\ ~(texts # << >> /\ is_static_procedure(texts[1]))
    BY <1>1, <1>4 DEF Retract
  <2>2. DOMAIN database = 1 .. Len(database) /\ database \in Seq(Clauses)
    BY OwnersTyped DEF ReadInv
  <2>3. Min(found) \in 1 .. Len(database) /\ Min(found) \in found
    <3>1. found \subseteq Nat /\ found \subseteq 1 .. Len(database)
      BY <1>1, <2>2
    <3> QED BY <2>1, <3>1, MinOfNats
  <2>4. PICK i \in 1 .. Len(database) : i = Min(found) /\ i \in found
    BY <2>3
  <2>5. database' = RemoveAt(database, i)
    BY <2>1, <2>4
  <2>6. /\ Readable' /\ OperatorNames' = OperatorNames
        /\ Contents' = RemoveAt(Contents, i)
    BY <1>2, <2>5, LessStore
  <2>7. /\ Len(Contents) = Len(database) /\ Contents \in Seq(Facts)
        /\ Contents[i] = Shown(pool, make_files, database[i])
    BY ContentsTyped
  <2>8. database[i] \in Clauses
    BY <2>2 DEF Clauses, Range
  <2>9. Contents[i].fact = Read(database[i].at) /\ Contents[i] \in Range(Contents)
    BY <2>7, <2>8, ClauseShown, InContents
  <2>10. IsPrefix(texts, Read(database[i].at))
    BY <1>1, <2>4 DEF Matches
  <2> QED BY <2>1, <2>6, <2>7, <2>9, <2>10
<1> QED BY <1>3, <1>4

LEMMA RetractallEffect ==
  ASSUME ReadInv, Retractall
  PROVE  /\ Readable' /\ OperatorNames' = OperatorNames
         /\ \/ Contents' = Contents
            \/ /\ Contents' = Without(Contents, {e \in Range(Contents) : IsPrefix(texts, e.fact)})
               /\ texts # << >> => ~is_static_procedure(texts[1])
<1>1. UNCHANGED <<pool, ops, make_files>>
  BY DEF Retractall, loading
<1>2. CASE UNCHANGED database
  BY <1>1, <1>2, QuietRead, QuietStore DEF SameStore
<1>3. CASE ~UNCHANGED database
  <2>1. PICK gone : gone = {c \in Clauses : Matches(c)}
    OBVIOUS
  <2>2. PICK out : out = {e \in Range(Contents) : IsPrefix(texts, e.fact)}
    OBVIOUS
  <2>3. /\ database' = Without(database, gone)
        /\ ~(texts # << >> /\ is_static_procedure(texts[1]))
    BY <1>3, <2>1 DEF Retractall
  <2>4. ASSUME NEW c \in Clauses PROVE c \in gone <=> Shown(pool, make_files, c) \in out
    <3>1. /\ Shown(pool, make_files, c) \in Range(Contents)
          /\ Shown(pool, make_files, c).fact = Read(c.at)
      BY InContents, ClauseShown
    <3> QED BY <2>1, <2>2, <3>1 DEF Matches
  <2>5. SamePaths(make_files, make_files')
    BY <1>1 DEF SamePaths
  <2>6. /\ ClausesNamed' /\ OpsNamed' /\ OperatorNames' = OperatorNames
        /\ Contents' = Without(Contents, out)
    BY <1>1, <2>3, <2>4, <2>5, FewerStore
  <2>7. FilesApart'
    BY <1>1 DEF ReadInv, Readable, FilesApart
  <2> QED BY <2>2, <2>3, <2>6, <2>7 DEF Readable
<1> QED BY <1>2, <1>3

LEMMA AbolishEffect ==
  ASSUME ReadInv, Abolish
  PROVE  /\ Readable' /\ OperatorNames' = OperatorNames /\ texts[1] \in Names
         /\ Contents' = Without(Contents, {e \in Range(Contents) : e.fact[1] = texts[1]})
<1>1. UNCHANGED <<pool, ops, make_files>> /\ Running("abolish") /\ "abolish" \in Named
  BY DEF Abolish, loading, Named
<1>2. PICK gone : gone = {c \in Clauses : NameOf(c) = texts[1]}
  OBVIOUS
<1>3. PICK out : out = {e \in Range(Contents) : e.fact[1] = texts[1]}
  OBVIOUS
<1>4. database' = Without(database, gone)
  BY <1>2 DEF Abolish
<1>5. ASSUME NEW c \in Clauses PROVE c \in gone <=> Shown(pool, make_files, c) \in out
  <2>1. /\ Shown(pool, make_files, c) \in Range(Contents)
        /\ Shown(pool, make_files, c).fact[1] = NameOf(c)
    BY InContents, ClauseShown
  <2> QED BY <1>2, <1>3, <2>1
<1>6. SamePaths(make_files, make_files')
  BY <1>1 DEF SamePaths
<1>7. /\ ClausesNamed' /\ OpsNamed' /\ OperatorNames' = OperatorNames
      /\ Contents' = Without(Contents, out)
  BY <1>1, <1>4, <1>5, <1>6, FewerStore
<1>8. FilesApart'
  BY <1>1 DEF ReadInv, Readable, FilesApart
<1>9. texts[1] \in Names
  BY <1>1, NameTyped DEF ReadInv, OwnersInv
<1> QED BY <1>3, <1>7, <1>8, <1>9 DEF Readable

LEMMA OpEffect ==
  ASSUME ReadInv, Op
  PROVE  /\ Readable' /\ Contents' = Contents
         /\ \/ OperatorNames' = OperatorNames
            \/ OperatorNames' = OperatorNames \cup {texts[1]}
<1>1. UNCHANGED <<database, make_files>> /\ Running("op") /\ "op" \in Named
  BY DEF Op, loading, Named
<1>2. CASE UNCHANGED <<ops, pool>>
  BY <1>1, <1>2, QuietRead, QuietStore DEF SameStore
<1>3. CASE ~UNCHANGED <<ops, pool>>
  <2>1. PICK copy : copy = intern_again(pool, Goal.at[1])
    OBVIOUS
  <2>2. ops' = Append(ops, copy.at) /\ pool' = copy.pool
    BY <1>3, <2>1 DEF Op
  <2>3. Goal.at[1] \in 1 .. Len(pool.cells) /\ texts[1] = pool.cells[Goal.at[1]]
    <3>1. Goal \in Asked(Cells) /\ Goal.op = "op"
      BY <1>1, GoalTyped DEF ReadInv, OwnersInv
    <3>2. Goal.at \in Seq(1 .. Cells) /\ Goal.at # << >>
      BY <1>1, <3>1 DEF Asked
    <3>3. 1 \in DOMAIN Goal.at /\ 1 \in 1 .. Len(Goal.at)
      BY <3>2
    <3>4. Goal.at[1] \in 1 .. Cells
      BY <3>2, <3>3, InSeq
    <3> QED BY <3>3, <3>4 DEF Cells, texts, Read
  <2>4. Interned(pool, copy, pool.cells[Goal.at[1]])
    BY <2>1, <2>3, PoolTyped, InternAgain
  <2>5. /\ copy.pool \in Pools /\ Grown(pool, copy.pool)
        /\ copy.at \in 1 .. copy.pool.offset /\ copy.pool.cells[copy.at] = texts[1]
    BY <2>3, <2>4 DEF Interned
  <2>6. pool' \in Pools /\ Grown(pool, pool') /\ copy.at \in 1 .. pool'.offset
    BY <2>2, <2>5
  <2>7. /\ database \in Seq(NamedClauses(pool'.offset))
        /\ ops \in Seq(1 .. pool'.offset)
    BY <2>6, StillNamed
  <2>8. Readable'
    <3>1. ops' \in Seq(1 .. pool'.offset)
      BY <2>2, <2>6, <2>7, AppendProperties
    <3>2. FilesApart'
      BY <1>1 DEF ReadInv, Readable, FilesApart
    <3> QED BY <1>1, <2>7, <3>1, <3>2 DEF Readable, ClausesNamed, OpsNamed
  <2>9. Contents' = Contents
    <3>1. SamePaths(make_files, make_files')
      BY <1>1 DEF SamePaths
    <3>2. PICK S : S = Known(pool.offset, Len(make_files))
      OBVIOUS
    <3>3. \A c \in S : Shown(pool', make_files', c) = Shown(pool, make_files, c)
      BY <2>6, <3>1, <3>2, PoolTyped, FilesTyped, ShownAgain
    <3>4. database \in Seq(S)
      BY <3>2, ContentsTyped
    <3>5. View(pool', make_files', database) = View(pool, make_files, database)
      BY <3>3, <3>4, ViewSame
    <3> QED BY <1>1, <3>5, ContentsShown
  <2>10. OperatorNames' = OperatorNames \cup {texts[1]}
    <3>1. ops \in Seq(1 .. pool.offset)
      BY DEF ReadInv, Readable, OpsNamed
    <3>2. NamesAt(pool', ops) = NamesAt(pool, ops)
      BY <2>6, <3>1, PoolTyped, OperatorsAgain
    <3>3. Range(Append(ops, copy.at)) = Range(ops) \cup {copy.at}
      <4>1. PICK N : N = 1 .. pool'.offset
        OBVIOUS
      <4>2. ops \in Seq(N) /\ copy.at \in N
        BY <2>6, <2>7, <4>1
      <4> QED BY <4>2, RangeAppend
    <3>4. NamesAt(pool', ops') = NamesAt(pool', ops) \cup {pool'.cells[copy.at]}
      BY <2>2, <3>3 DEF NamesAt
    <3> QED BY <2>2, <2>5, <3>2, <3>4, OperatorsAt
  <2> QED BY <2>8, <2>9, <2>10
<1> QED BY <1>2, <1>3

LEMMA LoadClauseEffect ==
  ASSUME ReadInv, LoadClause
  PROVE  /\ Readable' /\ OperatorNames' = OperatorNames
         /\ \/ Contents' = Contents
            \/ \E e \in Facts : /\ e.owner # None \/ current_source_file = 0
                               /\ Contents' = Append(Contents, e)
<1>1. UNCHANGED <<ops, make_files>>
  BY DEF LoadClause, loading
<1>2. CASE UNCHANGED <<database, pool>>
  BY <1>1, <1>2, QuietRead, QuietStore DEF SameStore
<1>3. CASE ~UNCHANGED <<database, pool>>
  <2>1. PICK names : names = InternNames(pool, Item.names)
    OBVIOUS
  <2>2. PICK clause : clause = [at |-> names.at, source_file |-> current_source_file]
    OBVIOUS
  <2>3. /\ acts # << >> /\ Act.kind = "load" /\ Act.items # << >> /\ Item.is = "clause"
        /\ pool' = names.pool /\ database' = Append(database, clause)
    BY <1>3, <2>1, <2>2 DEF LoadClause, InLoad
  <2>4. Item.names \in Seq(Names) /\ Item.names # << >>
    <3>1. PICK load \in LoadActs : load = Act
      BY <2>3, ActTyped DEF ReadInv, OwnersInv
    <3>2. load.items \in Seq(Items)
      BY DEF LoadActs
    <3>3. Head(load.items) \in Items
      BY <2>3, <3>1, <3>2
    <3> QED BY <2>3, <3>1, <3>3 DEF Item, Items
  <2>5. /\ names.pool \in Pools /\ Grown(pool, names.pool)
        /\ names.at \in Seq(1 .. names.pool.offset) /\ Len(names.at) = Len(Item.names)
    BY <2>1, <2>4, PoolTyped, InternNamesWorks DEF Says
  <2>6. names.at # << >>
    BY <2>4, <2>5
  <2>7. current_source_file \in 0 .. Len(make_files)
    BY DEF ReadInv, OwnersInv, Placed
  <2>8. clause \in Known(pool'.offset, Len(make_files))
    BY <2>2, <2>3, <2>5, <2>6, <2>7, FilesTyped DEF Known, NamedClauses, Clause
  <2>9. PICK e : e = Shown(pool', make_files, clause)
    OBVIOUS
  <2>10. PICK last \in BOOLEAN : last = TRUE
    OBVIOUS
  <2>11. database' = IF last THEN Append(database, clause) ELSE << clause >> \o database
    BY <2>3, <2>10
  <2>12. pool' \in Pools /\ Grown(pool, pool')
    BY <2>3, <2>5
  <2>13. /\ Readable' /\ e \in Facts /\ OperatorNames' = OperatorNames
         /\ Contents' = IF last THEN Append(Contents, e) ELSE << e >> \o Contents
         /\ e.owner = IF clause.source_file = 0 THEN None
                      ELSE make_files[clause.source_file].path
    BY <1>1, <2>8, <2>9, <2>11, <2>12, MoreStore
  <2>14. e.owner = None => current_source_file = 0
    <3>1. current_source_file # 0 => make_files[current_source_file].path \in Files
      BY <2>7, FilesTyped
    <3> QED BY <2>2, <2>13, <3>1, StoreAssumption
  <2> QED BY <2>10, <2>13, <2>14
<1> QED BY <1>2, <1>3

\* make/0: nothing changed, or nothing is left.
LEMMA MakeEffect ==
  ASSUME ReadInv, NoOpsLost, Make
  PROVE  /\ Readable' /\ OperatorNames' = OperatorNames
         /\ Contents' = Contents \/ Contents' = << >>
<1>1. ops = << >> /\ UNCHANGED ops
  BY DEF Make, NoOpsLost
<1>2. CASE UNCHANGED <<database, pool, make_files>>
  BY <1>1, <1>2, QuietRead, QuietStore DEF SameStore
<1>3. CASE ~UNCHANGED <<database, pool, make_files>>
  <2>1. database' = SubSeq(database, 1, mark.db) /\ make_files' = << >>
    BY <1>3 DEF Make
  <2>2. database' = << >>
    <3>1. mark.db = 0 /\ database \in Seq(Clauses)
      BY OwnersTyped DEF ReadInv, OwnersInv, Placed
    <3> QED BY <2>1, <3>1
  <2>3. Contents' = << >>
    BY <2>2 DEF Contents
  <2>4. OperatorNames' = OperatorNames
    <3>1. Range(ops) = {}
      BY <1>1 DEF Range
    <3> QED BY <1>1, <3>1 DEF OperatorNames
  <2>5. Readable'
    <3>1. ClausesNamed' /\ OpsNamed'
      BY <1>1, <2>2, EmptySeq DEF ClausesNamed, OpsNamed
    <3>2. FilesApart'
      BY <2>1 DEF FilesApart
    <3> QED BY <3>1, <3>2 DEF Readable
  <2> QED BY <2>3, <2>4, <2>5
<1> QED BY <1>2, <1>3

\* The clauses of the file at i are those with its path.
LEMMA OfFile ==
  ASSUME ReadInv, NEW file \in Files, NEW i \in DOMAIN make_files,
         make_files[i].path = file, NEW c \in Clauses
  PROVE  c.source_file = i <=>
           Shown(pool, make_files, c) \in {e \in Range(Contents) : e.owner = file}
<1>1. /\ Shown(pool, make_files, c) \in Range(Contents)
      /\ (c.source_file = 0 <=> Shown(pool, make_files, c).owner = None)
      /\ c.source_file # 0 =>
           /\ c.source_file \in DOMAIN make_files
           /\ Shown(pool, make_files, c).owner = make_files[c.source_file].path
  BY InContents, ClauseShown
<1>2. file # None /\ i # 0
  BY FilesTyped, StoreAssumption
<1>3. c.source_file = i => Shown(pool, make_files, c).owner = file
  BY <1>1, <1>2
<1>4. ASSUME Shown(pool, make_files, c).owner = file PROVE c.source_file = i
  <2>1. /\ c.source_file \in DOMAIN make_files
        /\ make_files[c.source_file].path = make_files[i].path
    BY <1>1, <1>2, <1>4
  <2> QED BY <2>1 DEF ReadInv, Readable, FilesApart
<1> QED BY <1>1, <1>3, <1>4

\* The tracked files only grow, or one was read at another time.
LEMMA FilesGrow ==
  ASSUME ReadInv, UNCHANGED <<database, pool, ops>>, SamePaths(make_files, make_files')
  PROVE  ClausesNamed' /\ OpsNamed' /\ SameStore
<1>1. PICK S : S = Known(pool.offset, Len(make_files))
  OBVIOUS
<1>2. Grown(pool, pool')
  BY PoolTyped DEF Grown, Pools
<1>3. \A c \in S : Shown(pool', make_files', c) = Shown(pool, make_files, c)
  BY <1>1, <1>2, PoolTyped, FilesTyped, ShownAgain
<1>4. database \in Seq(S)
  BY <1>1, ContentsTyped
<1>5. View(pool', make_files', database) = View(pool, make_files, database)
  BY <1>3, <1>4, ViewSame
<1>6. Contents' = Contents
  BY <1>5, ContentsShown
<1> QED BY <1>6 DEF ReadInv, Readable, ClausesNamed, OpsNamed, SameStore, OperatorNames

LEMMA LoadFileEffect ==
  ASSUME ReadInv, UNCHANGED <<pool, ops, disk>>, NEW file \in Files, NEW callers,
         load_file(file, callers)
  PROVE  /\ Readable' /\ OperatorNames' = OperatorNames
         /\ \/ Contents' = Contents
            \/ Contents' = Without(Contents, {e \in Range(Contents) : e.owner = file})
<1>1. PICK entry : entry = [path |-> file, mtime |-> disk[file]]
  OBVIOUS
<1>2. PICK known : known = IndexOf(file)
  OBVIOUS
<1>3. PICK n \in Nat : n = Len(make_files)
  BY FilesTyped
<1>4. entry \in Tracked /\ entry.path = file
  BY <1>1, DiskTyped DEF ReadInv, OwnersInv, Tracked
<1>5. make_files \in Seq(Tracked) /\ DOMAIN make_files = 1 .. n
  BY <1>3, FilesTyped
<1>6. \/ UNCHANGED <<database, make_files>>
      \/ /\ known # {}
         /\ database' = Without(database, {c \in Clauses : c.source_file = Min(known)})
         /\ make_files' = [make_files EXCEPT ![Min(known)] = entry]
      \/ /\ known = {} /\ make_files' = Append(make_files, entry)
         /\ UNCHANGED database
  BY <1>1, <1>2 DEF load_file, loading
<1>7. CASE UNCHANGED <<database, make_files>>
  BY <1>7, QuietRead, QuietStore DEF SameStore
<1>8. CASE /\ known # {}
           /\ database' = Without(database, {c \in Clauses : c.source_file = Min(known)})
           /\ make_files' = [make_files EXCEPT ![Min(known)] = entry]
  <2>1. known \subseteq 1 .. n /\ known \subseteq Nat
    BY <1>2, <1>5 DEF IndexOf
  <2>2. PICK i \in 1 .. n : i = Min(known) /\ i \in known
    BY <1>8, <2>1, MinOfNats
  <2>3. i \in DOMAIN make_files /\ make_files[i].path = file
    BY <1>2, <2>2 DEF IndexOf
  <2>4. PICK gone : gone = {c \in Clauses : c.source_file = i}
    OBVIOUS
  <2>5. PICK out : out = {e \in Range(Contents) : e.owner = file}
    OBVIOUS
  <2>6. \A c \in Clauses : c \in gone <=> Shown(pool, make_files, c) \in out
    BY <2>3, <2>4, <2>5, OfFile
  <2>7. /\ DOMAIN make_files' = 1 .. n
        /\ \A k \in 1 .. n : make_files'[k].path = make_files[k].path
    BY <1>4, <1>5, <1>8, <2>2, <2>3
  <2>8. SamePaths(make_files, make_files')
    BY <1>3, <2>7 DEF SamePaths
  <2>9. database' = Without(database, gone)
    BY <1>8, <2>2, <2>4
  <2>10. /\ ClausesNamed' /\ OpsNamed' /\ OperatorNames' = OperatorNames
         /\ Contents' = Without(Contents, out)
    BY <2>6, <2>8, <2>9, FewerStore
  <2>11. FilesApart'
    BY <1>5, <2>7 DEF ReadInv, Readable, FilesApart
  <2> QED BY <2>5, <2>10, <2>11 DEF Readable
<1>9. CASE /\ known = {} /\ make_files' = Append(make_files, entry)
           /\ UNCHANGED database
  <2>1. /\ DOMAIN make_files' = 1 .. n + 1 /\ make_files'[n + 1] = entry
        /\ \A k \in 1 .. n : make_files'[k] = make_files[k]
    BY <1>3, <1>4, <1>5, <1>9
  <2>2. SamePaths(make_files, make_files')
    BY <1>3, <2>1 DEF SamePaths
  <2>3. ClausesNamed' /\ OpsNamed' /\ SameStore
    BY <1>9, <2>2, FilesGrow
  <2>4. FilesApart'
    <3>1. \A k \in 1 .. n : make_files[k].path # file
      BY <1>2, <1>5, <1>9 DEF IndexOf
    <3> SUFFICES ASSUME NEW i \in 1 .. n + 1, NEW j \in 1 .. n + 1,
                        make_files'[i].path = make_files'[j].path
                 PROVE  i = j
      BY <2>1 DEF FilesApart
    <3>2. CASE i = n + 1 /\ j = n + 1
      BY <3>2
    <3>3. CASE i # n + 1 /\ j = n + 1
      <4>1. i \in 1 .. n
        BY <3>3
      <4> QED BY <1>4, <2>1, <3>1, <3>3, <4>1
    <3>4. CASE i = n + 1 /\ j # n + 1
      <4>1. j \in 1 .. n
        BY <3>4
      <4> QED BY <1>4, <2>1, <3>1, <3>4, <4>1
    <3>5. CASE i # n + 1 /\ j # n + 1
      <4>1. i \in 1 .. n /\ j \in 1 .. n
        BY <3>5
      <4> QED BY <1>5, <2>1, <4>1 DEF ReadInv, Readable, FilesApart
    <3> QED BY <3>2, <3>3, <3>4, <3>5
  <2> QED BY <2>3, <2>4 DEF Readable, SameStore
<1> QED BY <1>6, <1>7, <1>8, <1>9

LEMMA LoadNextEffect ==
  ASSUME ReadInv, LoadNext
  PROVE  /\ Readable' /\ OperatorNames' = OperatorNames
         /\ \/ Contents' = Contents
            \/ \E file \in Files :
                 Contents' = Without(Contents, {e \in Range(Contents) : e.owner = file})
<1>1. PICK op \in {"consult", "include", "reload"} : Running(op)
  BY DEF LoadNext
<1>2. Goal \in Asked(Cells) /\ Act \in QueryActs(Cells) /\ UNCHANGED <<pool, ops, disk>>
  BY <1>1, GoalTyped DEF ReadInv, OwnersInv, LoadNext
<1>3. Goal.files \in Seq(Files) /\ Act.from \in Nat \ {0}
  BY <1>2 DEF Asked, QueryActs
<1>4. CASE UNCHANGED <<database, loading>>
  BY <1>2, <1>4, QuietRead, QuietStore DEF SameStore, loading
<1>5. CASE ~UNCHANGED <<database, loading>>
  <2>1. PICK callers : callers = Append(Callers, [Act EXCEPT !.from = @ + 1])
    OBVIOUS
  <2>2. PICK file : file = Goal.files[Act.from]
    OBVIOUS
  <2>3. ~(Act.from > Len(Goal.files)) /\ load_file(file, callers)
    BY <1>5, <2>1, <2>2 DEF LoadNext
  <2>4. file \in Files
    <3>1. Act.from \in 1 .. Len(Goal.files)
      BY <1>3, <2>3
    <3> QED BY <1>3, <2>2, <3>1, InSeq
  <2> QED BY <1>2, <2>3, <2>4, LoadFileEffect
<1> QED BY <1>4, <1>5

\* unconsult/1: the clauses of a file go, and those of the files after it move
\* up with their files, so that they are shown as before.
LEMMA UnconsultEffect ==
  ASSUME ReadInv, Unconsult
  PROVE  /\ Readable' /\ OperatorNames' = OperatorNames
         /\ \/ Contents' = Contents
            \/ \E file \in Files :
                 Contents' = Without(Contents, {e \in Range(Contents) : e.owner = file})
<1>1. UNCHANGED <<pool, ops>>
  BY DEF Unconsult
<1>2. CASE UNCHANGED <<database, make_files>>
  BY <1>1, <1>2, QuietRead, QuietStore DEF SameStore
<1>3. CASE ~UNCHANGED <<database, make_files>>
  <2>1. PICK file : file = Goal.files[1]
    OBVIOUS
  <2>2. PICK known : known = IndexOf(file)
    OBVIOUS
  <2>3. PICK n \in Nat : n = Len(make_files)
    BY FilesTyped
  <2>4. make_files \in Seq(Tracked) /\ DOMAIN make_files = 1 .. n
    BY <2>3, FilesTyped
  <2>5. known # {}
    BY <1>3, <2>1, <2>2 DEF Unconsult
  <2>6. known \subseteq 1 .. n /\ known \subseteq Nat
    BY <2>2, <2>4 DEF IndexOf
  <2>7. PICK i \in 1 .. n : i = Min(known) /\ i \in known
    BY <2>5, <2>6, MinOfNats
  <2>8. i \in DOMAIN make_files /\ make_files[i].path = file /\ file \in Files
    BY <2>2, <2>3, <2>7, FilesTyped DEF IndexOf
  <2>9. PICK gone : gone = {c \in Clauses : c.source_file = i}
    OBVIOUS
  <2>10. PICK out : out = {e \in Range(Contents) : e.owner = file}
    OBVIOUS
  <2>11. PICK kept : kept = Without(database, gone)
    OBVIOUS
  <2>12. /\ make_files' = RemoveAt(make_files, i)
         /\ database' = [k \in DOMAIN kept |->
              IF kept[k].source_file > i
              THEN [kept[k] EXCEPT !.source_file = @ - 1] ELSE kept[k]]
    BY <1>3, <2>1, <2>2, <2>7, <2>9, <2>11 DEF Unconsult
  <2>13. /\ Len(make_files') = n - 1
         /\ \A k \in 1 .. n - 1 :
              make_files'[k] = IF k < i THEN make_files[k] ELSE make_files[k + 1]
         /\ make_files' \in Seq(Tracked)
    <3>1. IsRemoved(Tracked, make_files, i, make_files')
      BY <2>3, <2>4, <2>7, <2>12, RemovedElements
    <3> QED BY <2>3, <3>1 DEF IsRemoved
  <2>14. PICK S : S = Known(pool.offset, n)
    OBVIOUS
  <2>15. database \in Seq(S) /\ Shows(pool, make_files, S, Facts)
    BY <2>3, <2>14, ContentsTyped
  <2>16. \A c \in Range(database) : c \in gone <=> Shown(pool, make_files, c) \in out
    BY <2>8, <2>9, <2>10, OfFile DEF Clauses
  <2>17. View(pool, make_files, kept) = Without(Contents, out)
    <3>1. View(pool, make_files, Without(database, gone))
          = Without(View(pool, make_files, database), out)
      BY <2>15, <2>16, ViewWithout
    <3> QED BY <2>11, <3>1, ContentsShown
  <2>18. kept \in Seq(S) /\ kept \in Seq(Clauses \ gone)
    <3>1. database \in Seq(Clauses)
      BY OwnersTyped DEF ReadInv
    <3> QED BY <2>11, <2>15, <3>1, WithoutWorks
  <2>19. DOMAIN kept = 1 .. Len(kept) /\ Len(kept) \in Nat
    BY <2>18
  <2>20. ASSUME NEW k \in 1 .. Len(kept)
         PROVE  /\ database'[k] \in NamedClauses(pool.offset)
                /\ Shown(pool, make_files', database'[k]) = Shown(pool, make_files, kept[k])
    <3>1. kept[k] \in S /\ kept[k] \in Clauses /\ kept[k] \notin gone
      BY <2>18, InSeq
    <3>2. PICK c \in NamedClauses(pool.offset) :
            c = kept[k] /\ c.source_file \in 0 .. n /\ c.source_file # i
      BY <2>9, <2>14, <3>1 DEF Known
    <3>3. c \in [at : Seq(1 .. pool.offset), source_file : Nat] /\ c.at # << >>
      BY DEF NamedClauses, Clause
    <3>4. PICK d : d = database'[k]
      OBVIOUS
    <3>5. d = IF c.source_file > i THEN [c EXCEPT !.source_file = @ - 1] ELSE c
      BY <2>12, <2>19, <3>2, <3>4
    <3>6. /\ d.at = c.at
          /\ d.source_file = IF c.source_file > i THEN c.source_file - 1 ELSE c.source_file
      BY <3>3, <3>5
    <3>7. d \in NamedClauses(pool.offset)
      <4>1. CASE c.source_file > i
        <5>1. c.source_file - 1 \in Nat
          BY <2>7, <3>2, <4>1
        <5>2. d \in [at : Seq(1 .. pool.offset), source_file : Nat]
          BY <3>3, <3>5, <4>1, <5>1
        <5> QED BY <3>3, <3>6, <5>2 DEF NamedClauses, Clause
      <4>2. CASE ~(c.source_file > i)
        BY <3>5, <4>2
      <4> QED BY <4>1, <4>2
    <3>8. Reading(pool, d) = Reading(pool, c)
      BY <3>6 DEF Reading
    <3>9. /\ d.source_file = 0 <=> c.source_file = 0
          /\ c.source_file # 0 =>
               make_files'[d.source_file].path = make_files[c.source_file].path
      <4>1. CASE c.source_file = 0
        <5>1. ~(c.source_file > i)
          BY <2>7, <4>1
        <5> QED BY <3>6, <4>1, <5>1
      <4>2. CASE c.source_file # 0 /\ ~(c.source_file > i)
        <5>1. d.source_file \in 1 .. n - 1 /\ d.source_file < i /\ d.source_file = c.source_file
          BY <2>7, <3>2, <3>6, <4>2
        <5> QED BY <2>13, <4>2, <5>1
      <4>3. CASE c.source_file > i
        <5>1. /\ d.source_file \in 1 .. n - 1 /\ ~(d.source_file < i)
              /\ d.source_file + 1 = c.source_file
          BY <2>7, <3>2, <3>6, <4>3
        <5> QED BY <2>13, <5>1
      <4> QED BY <4>1, <4>2, <4>3
    <3>10. Shown(pool, make_files', d) = Shown(pool, make_files, c)
      BY <3>8, <3>9 DEF Shown
    <3> QED BY <3>2, <3>4, <3>7, <3>10
  <2>21. DOMAIN database' = 1 .. Len(kept)
    BY <2>12, <2>19
  <2>22. View(pool, make_files', database') = View(pool, make_files, kept)
    BY <2>19, <2>20, <2>21 DEF View
  <2>23. Contents' = Without(Contents, out)
    BY <1>1, <2>17, <2>22, ContentsShown
  <2>24. ClausesNamed'
    <3>1. database' \in [1 .. Len(kept) -> NamedClauses(pool.offset)]
      BY <2>12, <2>19, <2>20, <2>21
    <3> QED BY <1>1, <2>19, <3>1 DEF ClausesNamed
  <2>25. FilesApart'
    <3>1. DOMAIN make_files' = 1 .. n - 1
      BY <2>13
    <3> SUFFICES ASSUME NEW j \in 1 .. n - 1, NEW k \in 1 .. n - 1,
                        make_files'[j].path = make_files'[k].path
                 PROVE  j = k
      BY <3>1 DEF FilesApart
    <3> DEFINE At(m) == IF m < i THEN m ELSE m + 1
    <3>2. /\ At(j) \in 1 .. n /\ At(k) \in 1 .. n
          /\ make_files'[j] = make_files[At(j)] /\ make_files'[k] = make_files[At(k)]
      BY <2>7, <2>13
    <3>3. At(j) = At(k)
      <4> HIDE DEF At
      <4> QED BY <2>4, <3>2 DEF ReadInv, Readable, FilesApart
    <3> QED BY <2>7, <3>3
  <2>26. OpsNamed' /\ OperatorNames' = OperatorNames
    BY <1>1 DEF ReadInv, Readable, OpsNamed, OperatorNames
  <2> QED BY <2>8, <2>10, <2>23, <2>24, <2>25, <2>26 DEF Readable
<1> QED BY <1>2, <1>3

-----------------------------------------------------------------------------
(* The names of all clauses and operators lie in the pool, as long as what *)
(* is given back is not used.                                              *)

LEMMA ReadInit == CoreStays /\ Init => ReadInv
<1> SUFFICES ASSUME CoreStays, Init PROVE ReadInv
  OBVIOUS
<1>1. OwnersInv
  BY OwnersInit
<1>2. database = << >> /\ ops = << >> /\ Len(make_files) = 1
  BY DEF Init
<1>3. ClausesNamed /\ OpsNamed
  BY <1>2, EmptySeq DEF ClausesNamed, OpsNamed
<1>4. FilesApart
  BY DEF Init, FilesApart
<1> QED BY <1>1, <1>3, <1>4 DEF ReadInv, Readable

LEMMA ReadNext ==
  ASSUME CoreStays, ReadInv, GivesBackUnused, NoOpsLost, [Next]_vars
  PROVE  ReadInv'
<1>1. OwnersInv'
  BY OwnersNext DEF ReadInv
<1>2. Readable'
  <2>1. CASE Solution \/ Backtrack \/ Call \/ Dynamic \/ EndLoad \/ UNCHANGED vars
             \/ \E f \in Files : Edit(f)
    BY <2>1, QuietEffect
  <2>2. CASE LoadDirective \/ EndQuery
    BY <2>2, DirectiveEffect, EndQueryEffect
  <2>3. CASE \E goals \in Queries : Query(goals)
    BY <2>3, QueryEffect
  <2>4. CASE Assertz \/ Asserta
    <3>1. PICK op \in {"assertz", "asserta"} : AssertClause(op)
      BY <2>4 DEF Assertz, Asserta
    <3> QED BY <3>1, AssertEffect
  <2>5. CASE Retract \/ Retractall \/ Abolish \/ Op \/ LoadClause
    BY <2>5, RetractEffect, RetractallEffect, AbolishEffect, OpEffect, LoadClauseEffect
  <2>6. CASE LoadNext \/ Make \/ Unconsult
    BY <2>6, LoadNextEffect, MakeEffect, UnconsultEffect
  <2> QED BY <2>1, <2>2, <2>3, <2>4, <2>5, <2>6 DEF Next, Step
<1> QED BY <1>1, <1>2 DEF ReadInv

-----------------------------------------------------------------------------
(* The operators of ClauseStore are those of Store.                        *)

LEMMA AbstractWithout ==
  ASSUME NEW s, NEW gone PROVE Abstract!Without(s, gone) = Without(s, gone)
BY DEF Abstract!Without, Without

LEMMA AbstractRange == ASSUME NEW s PROVE Abstract!Range(s) = Range(s)
BY DEF Abstract!Range, Range

LEMMA AbstractIsPrefix == ASSUME NEW s, NEW t PROVE Abstract!IsPrefix(s, t) = IsPrefix(s, t)
BY DEF Abstract!IsPrefix, IsPrefix

LEMMA AbstractRemoveAt == ASSUME NEW s, NEW i PROVE Abstract!RemoveAt(s, i) = RemoveAt(s, i)
BY DEF Abstract!RemoveAt, RemoveAt

LEMMA AbstractLast == ASSUME NEW s PROVE Abstract!Last(s) = s[Len(s)]
BY DEF Abstract!Last, Last

-----------------------------------------------------------------------------
(* Every step is one of ClauseStore, or leaves the store as it is.         *)

Same == UNCHANGED <<Contents, OperatorNames>>
StoreStep == Abstract!Next \/ Same

LEMMA TextsTyped ==
  ASSUME StoreInv, NEW op, Running(op) PROVE texts \in Seq(Names)
<1>1. Goal \in Asked(Cells)
  BY GoalTyped
<1>2. PICK at \in Seq(1 .. Cells) : at = Goal.at
  BY <1>1 DEF Asked
<1>3. pool.cells \in Seq(Names) /\ Len(pool.cells) = Cells /\ DOMAIN at = 1 .. Len(at)
  BY DEF StoreInv, PoolOK, Pools, Cells
<1>4. ASSUME NEW i \in 1 .. Len(at) PROVE pool.cells[at[i]] \in Names
  BY <1>3, InSeq
<1>5. texts = [i \in 1 .. Len(at) |-> pool.cells[at[i]]]
  BY <1>2, <1>3 DEF Read, texts
<1>6. Len(at) \in Nat
  BY <1>2
<1> QED BY <1>4, <1>5, <1>6

LEMMA AppendStep ==
  ASSUME ReadInv, OperatorNames' = OperatorNames,
         NEW e \in Facts, Contents' = Append(Contents, e)
  PROVE  StoreStep
<1>1. PICK s \in Seq(Facts) : s = Contents
  BY ContentsTyped
<1>2. PICK t \in Seq(Facts) : t = Append(s, e)
  BY AppendProperties
<1>3. Len(t) = Len(s) + 1 /\ t[Len(t)] = e /\ t # << >> /\ Contents' = t
  BY <1>1, <1>2
<1>4. e = [fact |-> e.fact, owner |-> e.owner]
  BY DEF Facts
<1>5. Abstract!Last(t) = e
  BY <1>3, AbstractLast
<1>6. t = Append(s, [fact |-> Abstract!Last(t).fact, owner |-> Abstract!Last(t).owner])
  BY <1>2, <1>4, <1>5
<1> QED BY <1>1, <1>3, <1>6 DEF StoreStep, Abstract!Next, Abstract!Add

LEMMA FirstStep ==
  ASSUME ReadInv, OperatorNames' = OperatorNames,
         NEW e \in Facts, e.owner = None, Contents' = << e >> \o Contents
  PROVE  StoreStep
<1>1. PICK s \in Seq(Facts) : s = Contents
  BY ContentsTyped
<1>2. PICK t \in Seq(Facts) : t = << e >> \o s
  <2>1. << e >> \in Seq(Facts)
    OBVIOUS
  <2> QED BY <2>1, ConcatProperties
<1>3. Head(t) = e /\ t # << >> /\ Contents' = t
  BY <1>1, <1>2
<1>4. e = [fact |-> e.fact, owner |-> None]
  BY DEF Facts
<1>5. t = << [fact |-> Head(t).fact, owner |-> None] >> \o s
  BY <1>2, <1>3, <1>4
<1> QED BY <1>1, <1>3, <1>5 DEF StoreStep, Abstract!Next, Abstract!AddFirst

LEMMA DropStep ==
  ASSUME ReadInv, OperatorNames' = OperatorNames,
         NEW i \in 1 .. Len(Contents), Contents' = RemoveAt(Contents, i)
  PROVE  StoreStep
<1>1. DOMAIN Contents = 1 .. Len(Contents)
  BY ContentsTyped
<1>2. Contents' = Abstract!RemoveAt(Contents, i)
  BY AbstractRemoveAt
<1> QED BY <1>1, <1>2 DEF StoreStep, Abstract!Next, Abstract!Drop

\* Nothing is removed, or something is.
LEMMA RemovalStep ==
  ASSUME ReadInv, OperatorNames' = OperatorNames,
         NEW gone, Contents' = Without(Contents, gone), ~Same
  PROVE  \E e \in Range(Contents) : e \in gone
<1>1. PICK s \in Seq(Facts) : s = Contents
  BY ContentsTyped
<1>2. SUFFICES ASSUME \A e \in Range(Contents) : e \notin gone PROVE FALSE
  OBVIOUS
<1>3. Without(s, gone) = s
  BY <1>1, <1>2, WithoutNothing
<1> QED BY <1>1, <1>3 DEF Same

LEMMA DropAllStep ==
  ASSUME ReadInv, OperatorNames' = OperatorNames, NEW pattern \in Seq(Names),
         Contents' = Without(Contents, {e \in Range(Contents) : IsPrefix(pattern, e.fact)})
  PROVE  StoreStep
<1> SUFFICES ASSUME ~Same PROVE Abstract!Next
  BY DEF StoreStep
<1>1. PICK gone : gone = {e \in Range(Contents) : IsPrefix(pattern, e.fact)}
  OBVIOUS
<1>2. PICK e \in Range(Contents) : IsPrefix(pattern, e.fact)
  BY <1>1, RemovalStep
<1>3. PICK n \in 0 .. Len(e.fact) : pattern = SubSeq(e.fact, 1, n)
  <2>1. Len(pattern) \in Nat /\ pattern = SubSeq(pattern, 1, Len(pattern))
    OBVIOUS
  <2>2. Len(pattern) <= Len(e.fact)
    BY <1>2 DEF IsPrefix
  <2>3. PICK fact \in Seq(Names) : fact = e.fact
    BY InContents DEF Facts
  <2>4. Len(pattern) \in 0 .. Len(fact) /\ pattern = SubSeq(fact, 1, Len(pattern))
    BY <1>2, <2>1, <2>2, <2>3 DEF IsPrefix
  <2> QED BY <2>3, <2>4
<1>4. gone = {c \in Abstract!Range(Contents) : Abstract!IsPrefix(pattern, c.fact)}
  BY <1>1, AbstractRange, AbstractIsPrefix
<1>5. Abstract!DropAll(pattern)
  BY <1>1, <1>4, AbstractWithout DEF Abstract!DropAll
<1>6. e \in Abstract!Range(Contents)
  BY <1>2, AbstractRange
<1>7. UNCHANGED OperatorNames
  OBVIOUS
<1>8. Abstract!DropAll(SubSeq(e.fact, 1, n))
  BY <1>3, <1>5
<1>9. \E c \in Abstract!Range(Contents) :
        \E k \in 0 .. Len(c.fact) : Abstract!DropAll(SubSeq(c.fact, 1, k))
  BY <1>6, <1>8
<1> QED BY <1>7, <1>9 DEF Abstract!Next

LEMMA UnloadStep ==
  ASSUME ReadInv, OperatorNames' = OperatorNames, NEW file \in Files,
         Contents' = Without(Contents, {e \in Range(Contents) : e.owner = file})
  PROVE  StoreStep
<1> SUFFICES ASSUME ~Same PROVE Abstract!Next
  BY DEF StoreStep
<1>1. PICK gone : gone = {e \in Range(Contents) : e.owner = file}
  OBVIOUS
<1>2. PICK e \in Range(Contents) : e.owner = file
  BY <1>1, RemovalStep
<1>3. gone = {c \in Abstract!Range(Contents) : c.owner = file}
  BY <1>1, AbstractRange
<1>4. Abstract!Unload(file)
  BY <1>1, <1>3, AbstractWithout DEF Abstract!Unload
<1>5. e \in Abstract!Range(Contents) /\ e.owner # None /\ Abstract!Unload(e.owner)
  BY <1>2, <1>4, AbstractRange, StoreAssumption
<1> QED BY <1>5 DEF Abstract!Next

LEMMA ResetStep ==
  ASSUME ReadInv, OperatorNames' = OperatorNames, Contents' = << >>
  PROVE  StoreStep
<1>1. PICK s \in Seq(Facts) : s = Contents
  BY ContentsTyped
<1>2. SubSeq(s, 1, 0) = << >> /\ 0 \in 0 .. Len(s)
  OBVIOUS
<1>3. Abstract!Reset(0)
  BY <1>1, <1>2 DEF Abstract!Reset
<1> QED BY <1>1, <1>2, <1>3 DEF StoreStep, Abstract!Next

LEMMA DefineStep ==
  ASSUME Contents' = Contents, NEW name, OperatorNames' = OperatorNames \cup {name}
  PROVE  StoreStep
<1>1. name \in OperatorNames'
  OBVIOUS
<1> QED BY <1>1 DEF StoreStep, Abstract!Next, Abstract!Define

LEMMA SameStep == ASSUME SameStore PROVE StoreStep
BY DEF SameStore, StoreStep, Same

LEMMA GoalSteps ==
  ASSUME ReadInv, Assertz \/ Asserta \/ Retract \/ Retractall \/ Abolish \/ Op
  PROVE  StoreStep
<1> USE DEF Same
<1>1. StoreInv
  BY DEF ReadInv, OwnersInv
<1>2. CASE Assertz \/ Asserta
  <2>1. PICK op \in {"assertz", "asserta"} : AssertClause(op)
    BY <1>2 DEF Assertz, Asserta
  <2>2. OperatorNames' = OperatorNames
    BY <2>1, AssertEffect
  <2>3. CASE Contents' = Contents
    BY <2>2, <2>3 DEF StoreStep
  <2>4. CASE Contents' # Contents
    <3>1. PICK e \in Facts : /\ e.owner = None
                             /\ Contents' = IF op = "assertz" THEN Append(Contents, e)
                                            ELSE << e >> \o Contents
      BY <2>1, <2>4, AssertEffect
    <3> QED BY <2>2, <3>1, AppendStep, FirstStep
  <2> QED BY <2>3, <2>4
<1>3. CASE Retract
  <2>1. OperatorNames' = OperatorNames
    BY <1>3, RetractEffect
  <2>2. CASE Contents' = Contents
    BY <2>1, <2>2 DEF StoreStep
  <2>3. CASE Contents' # Contents
    <3>1. PICK i \in 1 .. Len(Contents) : Contents' = RemoveAt(Contents, i)
      BY <1>3, <2>3, RetractEffect
    <3> QED BY <2>1, <3>1, DropStep
  <2> QED BY <2>2, <2>3
<1>4. CASE Retractall
  <2>1. texts \in Seq(Names)
    BY <1>1, <1>4, TextsTyped DEF Retractall
  <2>2. OperatorNames' = OperatorNames
    BY <1>4, RetractallEffect
  <2>3. CASE Contents' = Contents
    BY <2>2, <2>3 DEF StoreStep
  <2>4. CASE Contents' # Contents
    <3>1. Contents' = Without(Contents, {e \in Range(Contents) : IsPrefix(texts, e.fact)})
      BY <1>4, <2>4, RetractallEffect
    <3> QED BY <2>1, <2>2, <3>1, DropAllStep
  <2> QED BY <2>3, <2>4
<1>5. CASE Abolish
  <2>1. PICK name \in Names : name = texts[1]
    BY <1>5, AbolishEffect
  <2>2. OperatorNames' = OperatorNames
    BY <1>5, AbolishEffect
  <2>3. Contents' = Without(Contents, {e \in Range(Contents) : e.fact[1] = name})
    BY <1>5, <2>1, AbolishEffect
  <2>4. << name >> \in Seq(Names)
    OBVIOUS
  <2>5. ASSUME NEW e \in Range(Contents) PROVE e.fact[1] = name <=> IsPrefix(<< name >>, e.fact)
    <3>1. PICK fact \in Seq(Names) : fact = e.fact /\ fact # << >>
      BY InContents DEF Facts
    <3>2. Len(<< name >>) = 1 /\ Len(fact) \in Nat /\ Len(fact) # 0
      BY <3>1
    <3>3. PICK one : one = SubSeq(fact, 1, 1)
      OBVIOUS
    <3>4. Len(one) = 1 /\ one[1] = fact[1] /\ one \in Seq(Names)
      <4>1. 1 \in 1 .. Len(fact)
        BY <3>2
      <4>2. fact[1] \in Names
        BY <4>1, InSeq
      <4>3. \A i \in 1 .. 1 : fact[i] \in Names
        BY <4>2
      <4>4. /\ SubSeq(fact, 1, 1) \in Seq(Names)
            /\ Len(SubSeq(fact, 1, 1)) = IF 1 <= 1 THEN 1 - 1 + 1 ELSE 0
            /\ \A i \in 1 .. 1 - 1 + 1 : SubSeq(fact, 1, 1)[i] = fact[1 + i - 1]
        BY <4>3, SubSeqProperties
      <4> QED BY <3>3, <4>4
    <3>5. PICK t \in Seq(Names) : t = << name >>
      BY <2>4
    <3>6. SubSeq(t, 1, 1) = t /\ Len(t) = 1 /\ t[1] = name
      <4>1. SubSeq(t, 1, Len(t)) = t
        OBVIOUS
      <4>2. Len(t) = 1 /\ t[1] = name
        BY <3>5
      <4> QED BY <4>1, <4>2
    <3>7. fact[1] = name <=> one = t
      BY <3>4, <3>6, SeqEqual
    <3>8. IsPrefix(t, fact) <=> t = one
      BY <3>2, <3>3, <3>6 DEF IsPrefix
    <3> QED BY <3>1, <3>5, <3>7, <3>8
  <2>6. {e \in Range(Contents) : e.fact[1] = name}
        = {e \in Range(Contents) : IsPrefix(<< name >>, e.fact)}
    BY <2>5
  <2>7. Contents' = Without(Contents, {e \in Range(Contents) : IsPrefix(<< name >>, e.fact)})
    BY <2>3, <2>6
  <2> QED BY <2>2, <2>4, <2>7, DropAllStep
<1>6. CASE Op
  BY <1>6, OpEffect, SameStep, DefineStep DEF SameStore
<1> QED BY <1>2, <1>3, <1>4, <1>5, <1>6

LEMMA FileSteps ==
  ASSUME ReadInv, NoOpsLost, LoadNext \/ LoadClause \/ Make \/ Unconsult
  PROVE  StoreStep
<1> USE DEF Same
<1>1. CASE LoadNext \/ Unconsult
  <2>1. OperatorNames' = OperatorNames
    BY <1>1, LoadNextEffect, UnconsultEffect
  <2>2. CASE Contents' = Contents
    BY <2>1, <2>2 DEF StoreStep
  <2>3. CASE Contents' # Contents
    <3>1. PICK file \in Files :
            Contents' = Without(Contents, {e \in Range(Contents) : e.owner = file})
      BY <1>1, <2>3, LoadNextEffect, UnconsultEffect
    <3> QED BY <2>1, <3>1, UnloadStep
  <2> QED BY <2>2, <2>3
<1>2. CASE LoadClause
  <2>1. OperatorNames' = OperatorNames
    BY <1>2, LoadClauseEffect
  <2>2. CASE Contents' = Contents
    BY <2>1, <2>2 DEF StoreStep
  <2>3. CASE Contents' # Contents
    <3>1. PICK e \in Facts : /\ e.owner # None \/ current_source_file = 0
                             /\ Contents' = Append(Contents, e)
      BY <1>2, <2>3, LoadClauseEffect
    <3> QED BY <2>1, <3>1, AppendStep
  <2> QED BY <2>2, <2>3
<1>3. CASE Make
  BY <1>3, MakeEffect, ResetStep DEF StoreStep
<1> QED BY <1>1, <1>2, <1>3

LEMMA NextStep ==
  ASSUME ReadInv, GivesBackUnused, NoOpsLost, [Next]_vars PROVE StoreStep
<1>1. CASE Solution \/ Backtrack \/ Call \/ Dynamic \/ EndLoad \/ UNCHANGED vars
           \/ \E f \in Files : Edit(f)
  BY <1>1, QuietEffect, SameStep
<1>2. CASE LoadDirective \/ EndQuery
  BY <1>2, DirectiveEffect, EndQueryEffect, SameStep
<1>3. CASE \E goals \in Queries : Query(goals)
  BY <1>3, QueryEffect, SameStep
<1>4. CASE Assertz \/ Asserta \/ Retract \/ Retractall \/ Abolish \/ Op
  BY <1>4, GoalSteps
<1>5. CASE LoadNext \/ LoadClause \/ Make \/ Unconsult
  BY <1>5, FileSteps
<1> QED BY <1>1, <1>2, <1>3, <1>4, <1>5 DEF Next, Step

\* Queries that give back no name in use, with make/0 only before there are
\* operators, leave of clauses, operators, files, pools, indices and marks
\* what ClauseStore says, for every library that main() loads and does not
\* take out again.
THEOREM StoreIsAClauseStore ==
  CoreStays => (Spec /\ []GivesBackUnused /\ []NoOpsLost => ImplementsStore)
<1> SUFFICES ASSUME CoreStays
             PROVE  Spec /\ []GivesBackUnused /\ []NoOpsLost => ImplementsStore
  OBVIOUS
<1>1. Init => ReadInv
  BY ReadInit
<1>2. ReadInv /\ GivesBackUnused /\ NoOpsLost /\ [Next]_vars => ReadInv'
  BY ReadNext
<1>3. Init => Abstract!Init
  <2> SUFFICES ASSUME Init PROVE Abstract!Init
    OBVIOUS
  <2>1. database = << >> /\ ops = << >>
    BY DEF Init
  <2>2. OperatorNames = {}
    <3>1. Range(ops) = {}
      BY <2>1 DEF Range
    <3> QED BY <3>1 DEF OperatorNames
  <2>3. Contents = << >>
    <3>1. DOMAIN database = {}
      BY <2>1
    <3> QED BY <3>1 DEF Contents
  <2> QED BY <2>2, <2>3 DEF Abstract!Init
<1>4. ReadInv /\ GivesBackUnused /\ NoOpsLost /\ [Next]_vars
      => [Abstract!Next]_<< Contents, OperatorNames >>
  BY NextStep DEF StoreStep, Same
<1> QED BY <1>1, <1>2, <1>3, <1>4, PTL DEF Spec, ImplementsStore, Abstract!Spec

\* Operators get lost in no other way than these two: their names are given
\* back by a query that seems to have changed nothing, or make/0 is asked for.
THEOREM OperatorsAreNotLost ==
  CoreStays => (Spec /\ []GivesBackUnused /\ []NoOpsLost => OperatorsStay)
<1> SUFFICES ASSUME CoreStays
             PROVE  Spec /\ []GivesBackUnused /\ []NoOpsLost => OperatorsStay
  OBVIOUS
<1>1. Init => ReadInv
  BY ReadInit
<1>2. ReadInv /\ GivesBackUnused /\ NoOpsLost /\ [Next]_vars => ReadInv'
  BY ReadNext
<1>3. StoreStep => OperatorNames \subseteq OperatorNames'
  BY DEF StoreStep, Same, Abstract!Next, Abstract!Define
<1>4. ReadInv /\ GivesBackUnused /\ NoOpsLost /\ [Next]_vars
      => [OperatorNames \subseteq OperatorNames']_vars
  BY <1>3, NextStep
<1> QED BY <1>1, <1>2, <1>4, PTL DEF Spec, OperatorsStay

-----------------------------------------------------------------------------
(* Clauses of files, and the goals that only dynamic predicates allow.     *)

\* What Static leaves out.
Hidden(dynamic) == {e \in Facts : e.owner = None \/ e.fact[1] \in dynamic}

LEMMA WithoutHidden ==
  ASSUME NEW s \in Seq(Facts), NEW dynamic
  PROVE  Without(s, {c \in Range(s) : c.owner = None \/ c.fact[1] \in dynamic})
         = Without(s, Hidden(dynamic))
<1>1. Range(s) \subseteq Facts
  BY RangeOfSeq DEF Range
<1>2. PICK gone : gone = {c \in Range(s) : c.owner = None \/ c.fact[1] \in dynamic}
  OBVIOUS
<1>3. PICK out : out = Hidden(dynamic)
  OBVIOUS
<1>4. \A x \in Range(s) : x \in gone <=> x \in out
  BY <1>1, <1>2, <1>3 DEF Hidden
<1>5. PICK S : S = Facts
  OBVIOUS
<1>6. s \in Seq(S)
  BY <1>5
<1>7. Without(s, gone) = Without(s, out)
  BY <1>4, <1>6, WithoutSame
<1> QED BY <1>2, <1>3, <1>7

LEMMA StaticKept ==
  ASSUME ReadInv, Contents' \in Seq(Facts),
         Without(Contents', Hidden(dynamic_preds')) = Without(Contents, Hidden(dynamic_preds))
  PROVE  Static' = Static
<1>1. Static = Without(Contents, Hidden(dynamic_preds))
  BY ContentsTyped, WithoutHidden DEF Static
<1>2. PICK s \in Seq(Facts) : s = Contents'
  OBVIOUS
<1>3. PICK dynamic : dynamic = dynamic_preds'
  OBVIOUS
<1>4. Static' = Without(s, {c \in Range(s) : c.owner = None \/ c.fact[1] \in dynamic})
  BY <1>2, <1>3 DEF Static
<1>5. Static' = Without(s, Hidden(dynamic))
  BY <1>4, WithoutHidden
<1> QED BY <1>1, <1>2, <1>3, <1>5

LEMMA SameStatic ==
  ASSUME ReadInv, Contents' = Contents, dynamic_preds' = dynamic_preds
  PROVE  Static' = Static
BY ContentsTyped, StaticKept

\* A predicate that is not static may become dynamic.
LEMMA MoreDynamic ==
  ASSUME ReadInv, NEW name, ~is_static_procedure(name),
         NEW dynamic, dynamic \in {dynamic_preds, dynamic_preds \cup {name}}
  PROVE  Without(Contents, Hidden(dynamic)) = Without(Contents, Hidden(dynamic_preds))
<1>1. PICK S : S = Facts
  OBVIOUS
<1>2. Contents \in Seq(S) /\ Range(Contents) \subseteq Facts
  BY <1>1, ContentsTyped, InContents
<1>3. PICK A : A = Hidden(dynamic)
  OBVIOUS
<1>4. PICK B : B = Hidden(dynamic_preds)
  OBVIOUS
<1>5. ASSUME NEW e \in Range(Contents) PROVE e \in A <=> e \in B
  <2>1. e.fact[1] = name => name \in dynamic_preds \/ e.owner = None
    BY NotStatic
  <2>2. e \in Facts
    BY <1>2
  <2> QED BY <1>3, <1>4, <2>1, <2>2 DEF Hidden
<1>6. Without(Contents, A) = Without(Contents, B)
  BY <1>2, <1>5, WithoutSame
<1> QED BY <1>3, <1>4, <1>6

LEMMA AssertStatic ==
  ASSUME ReadInv, NEW op \in {"assertz", "asserta"}, AssertClause(op)
  PROVE  Static' = Static
<1>1. PICK name : name = texts[1]
  OBVIOUS
<1>2. UNCHANGED <<ops, make_files>>
  BY DEF AssertClause, loading
<1>3. CASE UNCHANGED <<database, pool, dynamic_preds>>
  BY <1>2, <1>3, QuietStore, SameStatic DEF SameStore
<1>4. CASE ~UNCHANGED <<database, pool, dynamic_preds>>
  <2>1. ~is_static_procedure(name) /\ ensure_dynamic(name)
    BY <1>1, <1>4 DEF AssertClause
  <2>2. PICK dynamic : dynamic = dynamic_preds'
    OBVIOUS
  <2>3. dynamic \in {dynamic_preds, dynamic_preds \cup {name}}
    BY <2>1, <2>2 DEF ensure_dynamic
  <2>4. PICK out : out = Hidden(dynamic)
    OBVIOUS
  <2>5. Without(Contents, out) = Without(Contents, Hidden(dynamic_preds))
    BY <2>1, <2>3, <2>4, MoreDynamic
  <2>6. PICK S : S = Facts
    OBVIOUS
  <2>7. PICK s \in Seq(S) : s = Contents
    BY <2>6, ContentsTyped
  <2>8. CASE Contents' = Contents
    BY <2>2, <2>4, <2>5, <2>6, <2>7, <2>8, StaticKept
  <2>9. CASE Contents' # Contents
    <3>1. PICK e \in S : /\ e.owner = None
                         /\ Contents' = IF op = "assertz" THEN Append(s, e)
                                        ELSE << e >> \o s
      BY <2>6, <2>7, <2>9, AssertEffect
    <3>2. e \in out
      BY <2>4, <2>6, <3>1 DEF Hidden
    <3>3. Append(s, e) \in Seq(S) /\ << e >> \o s \in Seq(S)
      <4>1. Append(s, e) \in Seq(S)
        BY AppendProperties
      <4>2. << e >> \in Seq(S)
        OBVIOUS
      <4>3. << e >> \o s \in Seq(S)
        BY <4>2, ConcatProperties
      <4> QED BY <4>1, <4>3
    <3>4. Without(Append(s, e), out) = Without(s, out)
      BY <3>2, WithoutAppend
    <3>5. Without(<< e >> \o s, out) = Without(s, out)
      BY <3>2, WithoutFirst
    <3>6. Contents' \in Seq(Facts) /\ Without(Contents', out) = Without(s, out)
      BY <2>6, <3>1, <3>3, <3>4, <3>5
    <3> QED BY <2>2, <2>4, <2>5, <2>7, <3>6, StaticKept
  <2> QED BY <2>8, <2>9
<1> QED BY <1>3, <1>4

\* What a pattern matches is hidden, if its predicate is not static.
LEMMA MatchHidden ==
  ASSUME ReadInv, NEW pattern, pattern # << >>, pattern \in Seq(Names),
         ~is_static_procedure(pattern[1]),
         NEW e \in Range(Contents), IsPrefix(pattern, e.fact)
  PROVE  e \in Hidden(dynamic_preds)
<1>1. e \in Facts
  BY InContents
<1>2. PICK fact \in Seq(Names) : fact = e.fact
  BY <1>1 DEF Facts
<1>3. PICK n \in Nat : n = Len(pattern) /\ n # 0
  OBVIOUS
<1>4. n <= Len(fact) /\ SubSeq(pattern, 1, n) = SubSeq(fact, 1, n)
  BY <1>2, <1>3 DEF IsPrefix
<1>5. SubSeq(pattern, 1, n)[1] = pattern[1] /\ SubSeq(fact, 1, n)[1] = fact[1]
  BY <1>3, <1>4
<1>6. e.fact[1] = pattern[1]
  BY <1>2, <1>4, <1>5
<1> QED BY <1>1, <1>6, NotStatic DEF Hidden

LEMMA RetractStatic ==
  ASSUME ReadInv, Retract, ~UncheckedGoal PROVE Static' = Static
<1>1. UNCHANGED dynamic_preds /\ Running("retract")
  BY DEF Retract
<1>2. texts # << >> /\ texts \in Seq(Names)
  BY <1>1, TextsTyped DEF ReadInv, OwnersInv, UncheckedGoal
<1>3. CASE Contents' = Contents
  BY <1>1, <1>3, SameStatic
<1>4. CASE Contents' # Contents
  <2>1. PICK i \in 1 .. Len(Contents) :
          /\ Contents' = RemoveAt(Contents, i) /\ Contents[i] \in Range(Contents)
          /\ IsPrefix(texts, Contents[i].fact)
          /\ texts # << >> => ~is_static_procedure(texts[1])
    BY <1>4, RetractEffect
  <2>2. PICK out : out = Hidden(dynamic_preds)
    OBVIOUS
  <2>3. Contents[i] \in out
    BY <1>2, <2>1, <2>2, MatchHidden
  <2>4. PICK S : S = Facts
    OBVIOUS
  <2>5. PICK s \in Seq(S) : s = Contents
    BY <2>4, ContentsTyped
  <2>6. Without(RemoveAt(s, i), out) = Without(s, out)
    BY <2>1, <2>3, <2>5, WithoutRemoved
  <2>7. PICK r : IsRemoved(S, s, i, r) /\ r = RemoveAt(s, i)
    BY <2>1, <2>5, RemovedElements
  <2>8. Contents' \in Seq(Facts)
    BY <2>1, <2>4, <2>5, <2>7 DEF IsRemoved
  <2> QED BY <1>1, <2>1, <2>2, <2>5, <2>6, <2>8, StaticKept
<1> QED BY <1>3, <1>4

LEMMA RetractallStatic ==
  ASSUME ReadInv, Retractall, ~UncheckedGoal PROVE Static' = Static
<1>1. UNCHANGED dynamic_preds /\ Running("retractall")
  BY DEF Retractall
<1>2. texts # << >> /\ texts \in Seq(Names)
  BY <1>1, TextsTyped DEF ReadInv, OwnersInv, UncheckedGoal
<1>3. CASE Contents' = Contents
  BY <1>1, <1>3, SameStatic
<1>4. CASE Contents' # Contents
  <2>1. PICK gone : gone = {e \in Range(Contents) : IsPrefix(texts, e.fact)}
    OBVIOUS
  <2>2. Contents' = Without(Contents, gone) /\ ~is_static_procedure(texts[1])
    BY <1>2, <1>4, <2>1, RetractallEffect
  <2>3. PICK out : out = Hidden(dynamic_preds)
    OBVIOUS
  <2>4. gone \subseteq out
    BY <1>2, <2>1, <2>2, <2>3, MatchHidden
  <2>5. PICK S : S = Facts
    OBVIOUS
  <2>6. PICK s \in Seq(S) : s = Contents
    BY <2>5, ContentsTyped
  <2>7. Without(Without(s, gone), out) = Without(s, out)
    BY <2>4, <2>6, WithoutTwice
  <2>8. Without(s, gone) \in Seq(S)
    BY <2>6, WithoutWorks
  <2> QED BY <1>1, <2>2, <2>3, <2>5, <2>6, <2>7, <2>8, StaticKept
<1> QED BY <1>3, <1>4

\* include/1 adds nothing by itself.
LEMMA IncludeSame ==
  ASSUME ReadInv, LoadNext, Running("include") PROVE Contents' = Contents
<1>1. UNCHANGED <<pool, ops>> /\ Goal.op = "include"
  BY DEF LoadNext, Running
<1>2. UNCHANGED <<database, make_files>>
  <2>1. CASE UNCHANGED <<database, loading>>
    BY <2>1 DEF loading
  <2>2. CASE ~UNCHANGED <<database, loading>>
    <3>1. PICK callers : callers = Append(Callers, [Act EXCEPT !.from = @ + 1])
      OBVIOUS
    <3>2. PICK file : file = Goal.files[Act.from]
      OBVIOUS
    <3>3. include_depth # 0 /\ load_file(file, callers)
      BY <1>1, <2>2, <3>1, <3>2 DEF LoadNext
    <3>4. include_depth \in Nat
      BY LoadsFinite DEF ReadInv, OwnersInv, StoreInv, ActsOK
    <3>5. include_depth > 0
      BY <3>3, <3>4
    <3> QED BY <3>3, <3>5 DEF load_file, loading
  <2> QED BY <2>1, <2>2
<1> QED BY <1>1, <1>2, QuietStore DEF SameStore

LEMMA NextStatic ==
  ASSUME ReadInv, GivesBackUnused, [Next]_vars
  PROVE  FileStep \/ UncheckedGoal \/ Static' = Static
<1>1. CASE Solution \/ Backtrack \/ Call \/ EndLoad \/ UNCHANGED vars
           \/ \E f \in Files : Edit(f)
  <2>1. UNCHANGED dynamic_preds
    BY <1>1 DEF Solution, Backtrack, Call, EndLoad, Edit, vars
  <2>2. Contents' = Contents
    BY <1>1, QuietEffect DEF SameStore
  <2> QED BY <2>1, <2>2, SameStatic
<1>2. CASE EndQuery
  <2>1. UNCHANGED dynamic_preds
    BY <1>2 DEF EndQuery
  <2> QED BY <1>2, <2>1, EndQueryEffect, SameStatic DEF SameStore
<1>3. CASE \E goals \in Queries : Query(goals)
  <2>1. UNCHANGED dynamic_preds
    BY <1>3 DEF Query, EnterQuery
  <2> QED BY <1>3, <2>1, QueryEffect, SameStatic DEF SameStore
<1>4. CASE Assertz \/ Asserta
  BY <1>4, AssertStatic DEF Assertz, Asserta
<1>5. CASE Retract \/ Retractall \/ Abolish
  <2>1. Abolish => UncheckedGoal
    BY DEF Abolish, UncheckedGoal
  <2> QED BY <1>5, <2>1, RetractStatic, RetractallStatic
<1>6. CASE Op
  <2>1. UNCHANGED dynamic_preds
    BY <1>6 DEF Op
  <2> QED BY <1>6, <2>1, OpEffect, SameStatic
<1>7. CASE LoadNext
  <2>1. UNCHANGED dynamic_preds /\ acts # << >>
    BY <1>7 DEF LoadNext, Running, InQuery
  <2>2. CASE Running("include")
    BY <1>7, <2>1, <2>2, IncludeSame, SameStatic
  <2>3. CASE ~Running("include")
    BY <1>7, <2>1, <2>3 DEF LoadNext, FileStep
  <2> QED BY <2>2, <2>3
<1>8. CASE Dynamic \/ Make \/ Unconsult
  BY <1>8 DEF Dynamic, Make, Unconsult, FileStep, Running, InQuery
<1>9. CASE LoadClause \/ LoadDirective
  BY <1>9 DEF LoadClause, LoadDirective, InLoad, FileStep
<1> QED BY <1>1, <1>2, <1>3, <1>4, <1>5, <1>6, <1>7, <1>8, <1>9 DEF Next, Step

\* The clauses of files whose predicates are not dynamic are changed by files
\* and make/0, unconsult/1 and dynamic/1 only: what else programs ask for, and
\* what queries give back when they end, leaves them, but for abolish/1 and for
\* retract/1 and retractall/1 of a variable.
THEOREM GoalsLeaveStaticClauses ==
  CoreStays => (Spec /\ []GivesBackUnused /\ []NoOpsLost => StaticProtected)
<1> SUFFICES ASSUME CoreStays
             PROVE  Spec /\ []GivesBackUnused /\ []NoOpsLost => StaticProtected
  OBVIOUS
<1>1. Init => ReadInv
  BY ReadInit
<1>2. ReadInv /\ GivesBackUnused /\ NoOpsLost /\ [Next]_vars => ReadInv'
  BY ReadNext
<1>3. ReadInv /\ GivesBackUnused /\ [Next]_vars
        => [FileStep \/ UncheckedGoal \/ Static' = Static]_vars
  BY NextStatic
<1> QED BY <1>1, <1>2, <1>3, PTL DEF Spec, StaticProtected

-----------------------------------------------------------------------------
(* Clauses without an owner.  A nested load that ends leaves the load      *)
(* around it without its file (current_source_file is 0), and what that    *)
(* still reads would belong to nobody; so would what a file beyond the     *)
(* table of files holds.                                                   *)

\* Everything that is asked for, and what it declares and consults.
Lines == UNION {UNION {Range(v.items) : v \in Range(Versions[f])} : f \in Files}
Programs == Queries \cup {line.goals : line \in {l \in Lines : l.is = "directive"}}
AllGoals == UNION {Range(goals) : goals \in Programs}
Declared ==
  {g.names[1] : g \in {h \in AllGoals : h.op \in {"assertz", "asserta", "dynamic"}}}
Consulted ==
  {Core} \cup UNION {Range(g.files) : g \in {h \in AllGoals : h.op \in {"consult", "reload"}}}

\* The tables of dynamic predicates and of files are large enough.
RoomForAll ==
  /\ IsFiniteSet(Declared) /\ Cardinality(Declared) <= MaxDynamic
  /\ IsFiniteSet(Consulted) /\ Cardinality(Consulted) <= MaxFiles

\* A directive that loads is the last line of its file, and loads one file.
LoadsOne(goals) == Len(goals) = 1 /\ Len(goals[1].files) <= 1
LoadsLast(items) ==
  \A i \in DOMAIN items : items[i].is = "directive" /\ Loading(items[i].goals) =>
    i = Len(items) /\ LoadsOne(items[i].goals)
NothingAfterLoads ==
  \A f \in Files : \A v \in DOMAIN Versions[f] : LoadsLast(Versions[f][v].items)

\* The goals of a query are ones that were asked for, or what make/0 put there.
Like(goal, g) == goal.op = g.op /\ goal.names = g.names /\ goal.files = g.files
FromProgram(goal) ==
  \/ \E g \in AllGoals : Like(goal, g)
  \/ goal.op = "reload" /\ Range(goal.files) \subseteq Consulted
Fine(act, k) ==
  /\ act.kind = "query" =>
       /\ \A i \in DOMAIN act.goals : FromProgram(act.goals[i])
       /\ k > 1 /\ Loading(act.goals) => LoadsOne(act.goals) /\ act.alternatives = << >>
  /\ act.kind = "load" => LoadsLast(act.items) /\ Range(act.items) \subseteq Lines

\* Nothing more will be read: a load has no lines left, a directive that loads
\* has done so.
Begun(act) == act.from > 1 \/ act.next > 1
Settled(act, k) ==
  /\ act.kind = "load" => act.items = << >>
  /\ act.kind = "query" /\ k > 1 /\ Loading(act.goals) => Begun(act)
Plain(act) == act.kind = "query" /\ ~Loading(act.goals)

\* Below the innermost call nothing more will be read, but by the load whose
\* directive runs; and nowhere, once no file is being read.
Orderly(calls, file) ==
  /\ \A k \in DOMAIN calls : Fine(calls[k], k)
  /\ \A k \in 1 .. Len(calls) - 1 :
       Settled(calls[k], k) \/ (k = Len(calls) - 1 /\ Plain(calls[Len(calls)]))
  /\ file = 0 => \A k \in DOMAIN calls : Settled(calls[k], k)

PathsConsulted == \A i \in DOMAIN make_files : make_files[i].path \in Consulted
OwnedOrDynamic ==
  \A e \in Range(Contents) : e.owner = None => e.fact[1] \in dynamic_preds

-----------------------------------------------------------------------------
(* The calls                                                               *)

LEMMA OrderlyPush ==
  ASSUME NEW n, NEW calls, Stack(calls, n), NEW file, Orderly(calls, file),
         calls # << >> => ~Plain(calls[Len(calls)]),
         NEW act, Fine(act, Len(calls) + 1),
         calls # << >> => Settled(calls[Len(calls)], Len(calls)) \/ Plain(act),
         NEW other, other = 0 => calls = << >> /\ Settled(act, 1),
         NEW r, r = Append(calls, act)
  PROVE  Orderly(r, other)
<1> DEFINE m == Len(calls)
<1>1. m \in Nat /\ DOMAIN calls = 1 .. m /\ (m = 0 <=> calls = << >>) /\ m = Len(calls)
  BY DEF Stack
<1>2. /\ DOMAIN r = 1 .. m + 1 /\ Len(r) = m + 1 /\ r[m + 1] = act
      /\ \A k \in 1 .. m : r[k] = calls[k]
  BY <1>1 DEF Stack
<1> HIDE DEF m
<1>7. m \in Nat
  BY <1>1, Zenon
<1>3. ASSUME NEW k \in 1 .. m PROVE Fine(calls[k], k) /\ r[k] = calls[k]
  BY <1>1, <1>2, Zenon DEF Orderly
<1>4. ASSUME NEW k \in 1 .. m + 1 PROVE Fine(r[k], k)
  <2>1. k = m + 1 \/ k \in 1 .. m
    BY <1>1
  <2> QED BY <1>1, <1>2, <1>3, <2>1
<1>5. ASSUME NEW k \in 1 .. m PROVE Settled(r[k], k) \/ (k = m /\ Plain(r[m + 1]))
  <2>1. CASE k = m
    <3>1. calls # << >>
      BY <1>1
    <3> QED BY <1>1, <1>2, <1>3, <2>1, <3>1
  <2>2. CASE k \in 1 .. m - 1
    <3>1. calls # << >> /\ ~Plain(calls[m])
      BY <1>1, <2>2
    <3>2. Settled(calls[k], k)
      BY <1>1, <2>2, <3>1 DEF Orderly
    <3> QED BY <1>3, <3>2
  <2>3. k = m \/ k \in 1 .. m - 1
    BY <1>7
  <2> QED BY <2>1, <2>2, <2>3
<1>6. ASSUME other = 0, NEW k \in 1 .. m + 1 PROVE Settled(r[k], k)
  <2>1. m = 0 /\ k = 1
    BY <1>1, <1>6
  <2> QED BY <1>2, <1>6, <2>1
<1>8. Len(r) = m + 1 /\ Len(r) - 1 = m /\ DOMAIN r = 1 .. m + 1
  BY <1>2, <1>7
<1> QED BY <1>4, <1>5, <1>6, <1>8 DEF Orderly

LEMMA OrderlyPop ==
  ASSUME NEW n, NEW calls, Stack(calls, n), calls # << >>, NEW file, Orderly(calls, file),
         NEW r, r = Front(calls)
  PROVE  /\ Orderly(r, 1) /\ Orderly(r, file)
         /\ Fine(Last(calls), Len(calls)) /\ Len(calls) = Len(r) + 1
         /\ Last(calls) = calls[Len(calls)]
         /\ ~Plain(Last(calls)) => /\ \A k \in DOMAIN r : Settled(r[k], k)
                                   /\ Orderly(r, 0)
         /\ file = 0 => Settled(Last(calls), Len(calls))
<1> DEFINE m == Len(calls)
<1>1. m \in Nat \ {0} /\ DOMAIN calls = 1 .. m /\ m = Len(calls) /\ Last(calls) = calls[m]
  BY DEF Stack, Last
<1>2. /\ DOMAIN r = 1 .. m - 1 /\ Len(r) = m - 1
      /\ \A k \in 1 .. m - 1 : r[k] = calls[k]
  BY <1>1 DEF Stack, Front
<1> HIDE DEF m
<1>8. m \in Nat \ {0}
  BY <1>1, Zenon
<1>3. ASSUME NEW k \in 1 .. m - 1
      PROVE  /\ Fine(r[k], k) /\ r[k] = calls[k]
             /\ Settled(r[k], k) \/ (k = m - 1 /\ Plain(calls[m]))
             /\ file = 0 => Settled(r[k], k)
  <2>1. k \in 1 .. m /\ r[k] = calls[k]
    BY <1>1, <1>2, SMTT(30)
  <2>2. /\ Fine(calls[k], k)
        /\ Settled(calls[k], k) \/ (k = m - 1 /\ Plain(calls[m]))
        /\ file = 0 => Settled(calls[k], k)
    BY <1>1, <2>1 DEF Orderly
  <2> QED BY <2>1, <2>2, Zenon
<1>4. Fine(calls[m], m) /\ (file = 0 => Settled(calls[m], m))
  <2>1. m \in 1 .. m
    BY <1>1
  <2> QED BY <1>1, <2>1, Zenon DEF Orderly
<1>5. ASSUME NEW other, other = 0 => \A k \in 1 .. m - 1 : Settled(r[k], k)
      PROVE  Orderly(r, other)
  <2>1. ASSUME NEW k \in 1 .. m - 2 PROVE Settled(r[k], k)
    <3>1. k \in 1 .. m - 1 /\ k # m - 1
      BY <1>8
    <3> QED BY <1>3, <3>1
  <2>2. \A k \in 1 .. Len(r) - 1 : Settled(r[k], k)
    BY <1>1, <1>2, <2>1
  <2>3. \A k \in DOMAIN r : Fine(r[k], k)
    BY <1>2, <1>3
  <2> QED BY <1>2, <1>5, <2>2, <2>3 DEF Orderly
<1>6. Orderly(r, 1) /\ Orderly(r, file)
  BY <1>3, <1>5
<1>7. ASSUME ~Plain(calls[m])
      PROVE  (\A k \in DOMAIN r : Settled(r[k], k)) /\ Orderly(r, 0)
  BY <1>2, <1>3, <1>5, <1>7
<1> QED BY <1>1, <1>2, <1>4, <1>6, <1>7

\* The innermost call goes on.
LEMMA OrderlyReplace ==
  ASSUME NEW n, NEW calls, Stack(calls, n), calls # << >>, NEW file, Orderly(calls, file),
         NEW act, Fine(act, Len(calls)),
         Len(calls) = 1 \/ (Plain(Last(calls)) => Plain(act)),
         Settled(Last(calls), Len(calls)) => Settled(act, Len(calls)),
         NEW r, r = Append(Front(calls), act)
  PROVE  Orderly(r, file)
<1> DEFINE m == Len(calls)
<1>1. m \in Nat \ {0} /\ DOMAIN calls = 1 .. m /\ m = Len(calls) /\ Last(calls) = calls[m]
  BY DEF Stack, Last
<1>2. /\ DOMAIN r = 1 .. m /\ Len(r) = m /\ r[m] = act
      /\ \A k \in 1 .. m - 1 : r[k] = calls[k]
  <2>1. PICK S : S = QueryActs(n) \cup LoadActs
    OBVIOUS
  <2>2. PICK below \in Seq(S) : below = Front(calls)
    BY <1>1, <2>1, FrontAndLast DEF Stack
  <2>3. Len(below) = m - 1 /\ \A k \in 1 .. m - 1 : below[k] = calls[k]
    BY <1>1, <2>2 DEF Stack, Front
  <2>4. PICK t : t = Append(below, act)
    OBVIOUS
  <2>5. /\ DOMAIN t = 1 .. m /\ Len(t) = m /\ t[m] = act
        /\ \A k \in 1 .. m - 1 : t[k] = below[k]
    <3>1. Len(below) \in Nat /\ DOMAIN below = 1 .. Len(below)
      BY <2>2
    <3>2. /\ Len(t) = Len(below) + 1 /\ DOMAIN t = 1 .. Len(below) + 1
          /\ t[Len(below) + 1] = act /\ \A k \in 1 .. Len(below) : t[k] = below[k]
      BY <2>2, <2>4
    <3>3. Len(below) + 1 = m
      BY <1>1, <2>3, <3>1
    <3> QED BY <2>3, <3>2, <3>3
  <2> QED BY <2>2, <2>3, <2>4, <2>5
<1> HIDE DEF m
<1>3. m \in Nat \ {0}
  BY <1>1, Zenon
<1>4. ASSUME NEW k \in 1 .. m - 1
      PROVE  /\ Fine(r[k], k) /\ r[k] = calls[k]
             /\ Settled(r[k], k) \/ (k = m - 1 /\ Plain(r[m]))
             /\ file = 0 => Settled(r[k], k)
  <2>1. k \in 1 .. m /\ r[k] = calls[k] /\ m # 1
    BY <1>2, <1>3, SMTT(30)
  <2>2. /\ Fine(calls[k], k)
        /\ Settled(calls[k], k) \/ (k = m - 1 /\ Plain(calls[m]))
        /\ file = 0 => Settled(calls[k], k)
    BY <1>1, <2>1 DEF Orderly
  <2>3. Plain(calls[m]) => Plain(act)
    BY <1>1, <2>1, Zenon
  <2> QED BY <1>2, <2>1, <2>2, <2>3
<1>5. Fine(act, m) /\ (file = 0 => Settled(act, m))
  <2>1. m \in 1 .. m
    BY <1>3, SMTT(30)
  <2>2. file = 0 => Settled(calls[m], m)
    BY <1>1, <2>1, Zenon DEF Orderly
  <2> QED BY <1>1, <2>2, Zenon
<1>6. ASSUME NEW k \in 1 .. m PROVE Fine(r[k], k) /\ (file = 0 => Settled(r[k], k))
  <2>1. k = m \/ k \in 1 .. m - 1
    BY <1>3
  <2> QED BY <1>2, <1>4, <1>5, <2>1
<1> QED BY <1>2, <1>4, <1>6 DEF Orderly

-----------------------------------------------------------------------------
(* What is asked for                                                       *)

LEMMA LinesOfFile ==
  ASSUME NEW f \in Files, NEW v \in DOMAIN Versions[f]
  PROVE  Range(Versions[f][v].items) \subseteq Lines
<1>1. Versions[f][v] \in Range(Versions[f])
  BY DEF Range
<1> QED BY <1>1 DEF Lines

LEMMA GoalOfProgram ==
  ASSUME NEW goals \in Programs, NEW i \in DOMAIN goals PROVE goals[i] \in AllGoals
<1>1. goals[i] \in Range(goals)
  BY DEF Range
<1> QED BY <1>1 DEF AllGoals

LEMMA GoalConsults ==
  ASSUME NEW goal, FromProgram(goal)
  PROVE  /\ goal.op \in {"assertz", "asserta", "dynamic"} => goal.names[1] \in Declared
         /\ goal.op \in {"consult", "reload"} => Range(goal.files) \subseteq Consulted
<1>1. ASSUME NEW g \in AllGoals, Like(goal, g)
      PROVE  /\ goal.op \in {"assertz", "asserta", "dynamic"} => goal.names[1] \in Declared
             /\ goal.op \in {"consult", "reload"} => Range(goal.files) \subseteq Consulted
  <2>1. g.op = goal.op /\ g.names = goal.names /\ g.files = goal.files
    BY <1>1 DEF Like
  <2>2. g.op \in {"assertz", "asserta", "dynamic"} => g.names[1] \in Declared
    BY DEF Declared
  <2>3. g.op \in {"consult", "reload"} => Range(g.files) \subseteq Consulted
    BY DEF Consulted
  <2> QED BY <2>1, <2>2, <2>3
<1>2. CASE \E g \in AllGoals : Like(goal, g)
  BY <1>1, <1>2
<1>3. CASE goal.op = "reload" /\ Range(goal.files) \subseteq Consulted
  BY <1>3
<1> QED BY <1>2, <1>3 DEF FromProgram

-----------------------------------------------------------------------------
(* How calls go on                                                         *)

InOrder == StoreInv /\ Orderly(acts, current_source_file)

LEMMA ActInOrder ==
  ASSUME InOrder, acts # << >>
  PROVE  /\ Stack(acts, Cells) /\ Orderly(acts, current_source_file)
         /\ Fine(Act, Len(acts)) /\ Act = Last(acts)
         /\ current_source_file = 0 => Settled(Act, Len(acts))
<1>1. Stack(acts, Cells) /\ Orderly(acts, current_source_file)
  BY DEF InOrder, StoreInv, ActsOK
<1> QED BY <1>1, OrderlyPop DEF Act

LEMMA QueryGoesOn ==
  ASSUME InOrder, acts # << >>, Act.kind = "query", NEW act, SameGoals(act), Continue(act),
         Begun(Act) => Begun(act),
         Len(acts) > 1 /\ Loading(Act.goals) => act.alternatives = << >>
  PROVE  Orderly(acts', current_source_file)
<1>1. PICK k : k = Len(acts)
  OBVIOUS
<1>2. act.kind = "query" /\ act.goals = Act.goals
  BY DEF SameGoals
<1>3. /\ Stack(acts, Cells) /\ Orderly(acts, current_source_file)
      /\ Fine(Act, k) /\ Act = Last(acts)
  BY <1>1, ActInOrder
<1>4. Fine(act, k)
  BY <1>1, <1>2, <1>3 DEF Fine
<1>5. Plain(Act) => Plain(act)
  BY <1>2 DEF Plain
<1>6. Settled(Act, k) => Settled(act, k)
  BY <1>2 DEF Settled
<1>7. acts' = Append(Front(acts), act)
  BY DEF Continue, Callers
<1> QED BY <1>1, <1>3, <1>4, <1>5, <1>6, <1>7, OrderlyReplace

LEMMA OrderlyGoalDone ==
  ASSUME InOrder, acts # << >>, Act.kind = "query", Succeed \/ Fail \/ Error
  PROVE  Orderly(acts', current_source_file)
<1>1. PICK query \in QueryActs(Cells) : query = Act
  BY ActTyped DEF InOrder
<1>2. query.next \in Nat \ {0} /\ query.from \in Nat \ {0}
  BY DEF QueryActs
<1>3. Len(acts) > 1 /\ Loading(query.goals) => query.alternatives = << >>
  BY <1>1, ActInOrder DEF Fine
<1>4. ASSUME NEW act, act = [query EXCEPT !.next = @ + 1, !.from = 1]
      PROVE  SameGoals(act) /\ Begun(act) /\ act.alternatives = query.alternatives
  <2>1. act.next = query.next + 1 /\ act.alternatives = query.alternatives
    BY <1>4 DEF QueryActs
  <2>2. SameGoals(act)
    BY <1>1, <1>4 DEF QueryActs, SameGoals
  <2>3. act.next > 1
    BY <1>2, <2>1
  <2> QED BY <2>1, <2>2, <2>3 DEF Begun
<1>5. ASSUME NEW run, NEW act, act = [query EXCEPT !.run = run]
      PROVE  /\ SameGoals(act) /\ act.alternatives = query.alternatives
             /\ Begun(query) => Begun(act)
  BY <1>1, <1>5 DEF QueryActs, SameGoals, Begun
<1>6. CASE Succeed
  BY <1>1, <1>3, <1>4, <1>6, QueryGoesOn DEF Succeed
<1>7. CASE Fail
  BY <1>1, <1>3, <1>5, <1>7, QueryGoesOn DEF Fail
<1>8. CASE Error
  BY <1>1, <1>3, <1>5, <1>8, QueryGoesOn DEF Error
<1> QED BY <1>6, <1>7, <1>8

LEMMA OrderlyBacktrack ==
  ASSUME InOrder, Backtrack PROVE Orderly(acts', current_source_file)
<1>1. acts # << >> /\ Act.kind = "query"
  BY DEF Backtrack, InQuery
<1>2. CASE Act.alternatives = << >>
  BY <1>1, <1>2, OrderlyGoalDone DEF Backtrack
<1>3. CASE Act.alternatives # << >>
  <2>1. PICK query \in QueryActs(Cells) : query = Act
    BY <1>1, ActTyped DEF InOrder
  <2>2. PICK frame : frame = Last(query.alternatives)
    OBVIOUS
  <2>3. PICK rest : rest = Front(query.alternatives)
    OBVIOUS
  <2>4. PICK back : back = [query EXCEPT !.next = frame.next, !.from = frame.from,
                                         !.alternatives = rest, !.run = "go"]
    OBVIOUS
  <2>5. SameGoals(back)
    BY <2>1, <2>4 DEF QueryActs, SameGoals
  <2>6. Continue(back)
    BY <1>3, <2>1, <2>2, <2>3, <2>4 DEF Backtrack
  <2>7. PICK k \in Nat \ {0} : k = Len(acts)
    BY <1>1, ActInOrder DEF Stack
  <2>8. Fine(Act, k) /\ Stack(acts, Cells) /\ Orderly(acts, current_source_file) /\ Act = Last(acts)
    BY <1>1, <2>7, ActInOrder
  <2>9. k = 1 \/ ~Loading(Act.goals)
    BY <1>1, <1>3, <2>7, <2>8 DEF Fine
  <2>10. back.kind = "query" /\ back.goals = Act.goals
    BY <2>5 DEF SameGoals
  <2>11. Fine(back, k) /\ Settled(back, k) /\ (Plain(Act) => Plain(back))
    <3>1. ~(k > 1) \/ ~Loading(back.goals)
      BY <2>7, <2>9, <2>10
    <3>2. Fine(back, k)
      BY <1>1, <2>8, <2>10, <3>1 DEF Fine
    <3>3. Settled(back, k)
      BY <2>10, <3>1 DEF Settled
    <3> QED BY <2>10, <3>2, <3>3 DEF Plain
  <2>12. acts' = Append(Front(acts), back)
    BY <2>6 DEF Continue, Callers
  <2> QED BY <1>1, <2>7, <2>8, <2>11, <2>12, OrderlyReplace
<1> QED BY <1>2, <1>3

\* A directive that loads runs nothing else.
LEMMA OnlyLoads ==
  ASSUME InOrder, NEW op, Running(op), Len(acts) > 1, Loading(Act.goals)
  PROVE  /\ op \in {"consult", "include", "reload"} /\ Act.next = 1 /\ Len(Act.goals) = 1
         /\ Len(Goal.files) <= 1 /\ Act.alternatives = << >>
<1>1. /\ acts # << >> /\ Act.kind = "query" /\ Act \in QueryActs(Cells)
      /\ Act.next \in DOMAIN Act.goals /\ Goal.op = op
  BY GoalTyped DEF InOrder
<1>2. Len(Act.goals) = 1 /\ Len(Act.goals[1].files) <= 1 /\ Act.alternatives = << >>
  BY <1>1, ActInOrder DEF Fine, LoadsOne
<1>3. Act.goals \in Seq(Asked(Cells))
  BY <1>1 DEF QueryActs
<1>4. DOMAIN Act.goals = 1 .. 1
  BY <1>2, <1>3
<1>5. Act.next = 1 /\ Goal = Act.goals[1]
  BY <1>1, <1>4 DEF Goal
<1>6. Goal.op \in {"consult", "include", "reload"}
  BY <1>4, <1>5 DEF Loading
<1> QED BY <1>1, <1>2, <1>5, <1>6

LEMMA OrderlyCall == ASSUME InOrder, Call PROVE Orderly(acts', current_source_file)
<1>1. acts # << >> /\ Act.kind = "query" /\ Running("call")
  BY DEF Call, Running, InQuery
<1>2. PICK found : found = {i \in Act.from .. Len(database) :
                              database[i].at[1] = Goal.at[1]}
  OBVIOUS
<1>3. CASE found = {}
  BY <1>1, <1>2, <1>3, OrderlyGoalDone DEF Call
<1>4. CASE found # {}
  <2>1. PICK query \in QueryActs(Cells) : query = Act
    BY <1>1, ActTyped DEF InOrder
  <2>2. PICK rest : rest = Append(query.alternatives,
                                  [next |-> query.next, from |-> Min(found) + 1])
    OBVIOUS
  <2>3. PICK tried : tried = [query EXCEPT !.next = @ + 1, !.from = 1,
                                           !.alternatives = rest]
    OBVIOUS
  <2>4. SameGoals(tried) /\ tried.next = query.next + 1
    BY <2>1, <2>3 DEF QueryActs, SameGoals
  <2>5. Continue(tried)
    BY <1>2, <1>4, <2>1, <2>2, <2>3 DEF Call
  <2>6. Begun(tried)
    <3>1. query.next \in Nat \ {0}
      BY DEF QueryActs
    <3>2. tried.next > 1
      BY <2>4, <3>1
    <3> QED BY <3>2 DEF Begun
  <2>7. ~(Len(acts) > 1 /\ Loading(Act.goals))
    BY <1>1, OnlyLoads
  <2> QED BY <1>1, <2>4, <2>5, <2>6, <2>7, QueryGoesOn
<1> QED BY <1>3, <1>4

LEMMA OrderlyGoals ==
  ASSUME InOrder,
         \/ Solution \/ Assertz \/ Asserta \/ Retract \/ Retractall \/ Abolish
         \/ Dynamic \/ Op \/ Unconsult
  PROVE  Orderly(acts', current_source_file)
<1>1. CASE Solution
  <2>1. acts # << >> /\ Act.kind = "query" /\ (Error \/ Fail)
    BY <1>1 DEF Solution, InQuery
  <2> QED BY <2>1, OrderlyGoalDone
<1>2. CASE Assertz \/ Asserta \/ Retract \/ Retractall \/ Abolish \/ Dynamic \/ Op \/ Unconsult
  <2>1. acts # << >> /\ Act.kind = "query" /\ (Succeed \/ Fail \/ Error)
    BY <1>2 DEF Assertz, Asserta, AssertClause, Retract, Retractall, Abolish, Dynamic, Op,
       Unconsult, Running, InQuery
  <2> QED BY <2>1, OrderlyGoalDone
<1> QED BY <1>1, <1>2

\* A query is asked, or is the directive of a load.
LEMMA OrderlyEnterQuery ==
  ASSUME InOrder, NEW goals \in Programs, goals \in Seq(Goals),
         NEW callers, Stack(callers, Cells), Orderly(callers, current_source_file),
         \/ callers = << >>
         \/ /\ Last(callers).kind = "load" /\ current_source_file # 0
            /\ Loading(goals) => LoadsOne(goals) /\ Last(callers).items = << >>,
         EnterQuery(goals, callers)
  PROVE  Orderly(acts', current_source_file)
<1>1. PICK parsed : parsed = parse_goals(goals)
  OBVIOUS
<1>2. pool \in Pools
  BY DEF InOrder, StoreInv, PoolOK
<1>3. /\ parsed.goals \in Seq(Asked(parsed.pool.offset)) /\ Len(parsed.goals) = Len(goals)
      /\ \A i \in 1 .. Len(goals) : AskedAs(parsed.pool, parsed.goals[i], goals[i])
  BY <1>1, <1>2, ParseGoalsWorks
<1>4. PICK query : query =
        [kind |-> "query", goals |-> parsed.goals, next |-> 1, from |-> 1,
         alternatives |-> << >>, run |-> "go", string_mark |-> pool.offset,
         db_mark |-> Len(database)]
  OBVIOUS
<1>5. acts' = Append(callers, query)
  BY <1>1, <1>4 DEF EnterQuery
<1>6. DOMAIN parsed.goals = 1 .. Len(goals) /\ DOMAIN goals = 1 .. Len(goals)
  BY <1>3
<1>7. \A i \in 1 .. Len(goals) : Like(parsed.goals[i], goals[i])
  BY <1>3 DEF AskedAs, Like
<1>8. /\ query.kind = "query" /\ query.goals = parsed.goals /\ query.alternatives = << >>
  BY <1>4
<1>9. \A i \in DOMAIN query.goals : FromProgram(query.goals[i])
  BY <1>6, <1>7, <1>8, GoalOfProgram DEF FromProgram
<1>10. Loading(query.goals) <=> Loading(goals)
  BY <1>6, <1>7, <1>8 DEF Loading, Like
<1>11. LoadsOne(goals) => LoadsOne(query.goals)
  BY <1>3, <1>6, <1>7, <1>8 DEF LoadsOne, Like
<1>12. PICK m \in Nat : m = Len(callers) /\ (m = 0 <=> callers = << >>)
  BY DEF Stack
<1>13. Fine(query, m + 1)
  <2>1. m + 1 > 1 /\ Loading(query.goals) => LoadsOne(query.goals)
    BY <1>10, <1>11, <1>12
  <2> QED BY <1>8, <1>9, <2>1 DEF Fine
<1>14. CASE callers = << >>
  <2>1. Settled(query, 1)
    BY <1>8 DEF Settled
  <2> QED BY <1>5, <1>12, <1>13, <1>14, <2>1, OrderlyPush
<1>15. CASE callers # << >>
  <2>1. Last(callers) = callers[m] /\ Last(callers).kind = "load"
    BY <1>12, <1>15 DEF Last
  <2>2. ~Plain(callers[m])
    BY <2>1 DEF Plain
  <2>3. Settled(callers[m], m) \/ Plain(query)
    BY <1>8, <1>10, <1>15, <2>1 DEF Settled, Plain
  <2> QED BY <1>5, <1>12, <1>13, <1>15, <2>2, <2>3, OrderlyPush
<1> QED BY <1>14, <1>15

LEMMA OrderlyReturn ==
  ASSUME NEW n, NEW callers, Stack(callers, n), NEW file, Orderly(callers, file),
         callers # << >> => Last(callers).kind = "query",
         NEW ok, NEW r, r = Return(callers, ok)
  PROVE  Orderly(r, file)
<1>1. CASE callers = << >>
  BY <1>1 DEF Return
<1>2. CASE callers # << >>
  <2>1. Last(callers) \in QueryActs(n) \cup LoadActs
    BY <1>2, FrontAndLast DEF Stack
  <2>2. PICK query \in QueryActs(n) : query = Last(callers)
    BY <1>2, <2>1 DEF LoadActs
  <2>3. PICK back : back = [query EXCEPT !.run = "back"]
    OBVIOUS
  <2>4. /\ back.kind = "query" /\ query.kind = "query" /\ back.goals = query.goals
        /\ back.next = query.next /\ back.from = query.from
        /\ back.alternatives = query.alternatives
    BY <2>3 DEF QueryActs
  <2>5. r = callers \/ r = Append(Front(callers), back)
    BY <1>2, <2>2, <2>3 DEF Return
  <2>6. PICK m : m = Len(callers)
    OBVIOUS
  <2>7. Fine(query, m)
    BY <1>2, <2>2, <2>6, OrderlyPop
  <2>8. Fine(back, m)
    BY <2>4, <2>7 DEF Fine
  <2>9. (Settled(query, m) => Settled(back, m)) /\ (Plain(query) => Plain(back))
    BY <2>4 DEF Settled, Plain, Begun
  <2>10. ASSUME r = Append(Front(callers), back) PROVE Orderly(r, file)
    BY <1>2, <2>2, <2>6, <2>8, <2>9, <2>10, OrderlyReplace
  <2> QED BY <2>5, <2>10
<1> QED BY <1>1, <1>2

LEMMA OrderlyEndLoad == ASSUME InOrder, EndLoad PROVE Orderly(acts', current_source_file')
<1>1. acts # << >> /\ Act.kind = "load"
  BY DEF EndLoad
<1>2. PICK below : below = Front(acts)
  OBVIOUS
<1>3. Stack(acts, Cells) /\ Orderly(acts, current_source_file) /\ Act = Last(acts)
  BY <1>1, ActInOrder
<1>4. /\ Stack(below, Cells)
      /\ below # << >> => Last(below).kind # "load"
  BY <1>1, <1>2, <1>3, StackPop DEF Act
<1>5. below # << >> => Last(below).kind = "query"
  <2>1. below # << >> => Last(below) \in QueryActs(Cells) \cup LoadActs
    BY <1>4, FrontAndLast DEF Stack
  <2> QED BY <1>4, <2>1 DEF QueryActs, LoadActs
<1>6. Orderly(below, 0)
  <2>1. ~Plain(Last(acts))
    BY <1>1, <1>3 DEF Plain
  <2> QED BY <1>1, <1>2, <1>3, <2>1, OrderlyPop
<1>7. acts' = Return(below, ~Act.stop) /\ current_source_file' = 0
  BY <1>2 DEF EndLoad, Callers
<1> QED BY <1>4, <1>5, <1>6, <1>7, OrderlyReturn

LEMMA OrderlyEndQuery ==
  ASSUME InOrder, EndQuery PROVE Orderly(acts', current_source_file)
<1>1. acts # << >> /\ Act.kind = "query"
  BY DEF EndQuery, InQuery
<1>2. Stack(acts, Cells) /\ Orderly(acts, current_source_file)
  BY <1>1, ActInOrder
<1>3. PICK below : below = Front(acts)
  OBVIOUS
<1>4. Orderly(below, current_source_file)
  BY <1>1, <1>2, <1>3, OrderlyPop
<1>5. /\ Stack(below, Cells)
      /\ below # << >> => Last(below).kind # "query"
  BY <1>1, <1>2, <1>3, StackPop DEF Act
<1>6. CASE below = << >>
  BY <1>3, <1>4, <1>6 DEF EndQuery, Callers
<1>7. CASE below # << >>
  <2>1. Last(below) \in QueryActs(Cells) \cup LoadActs
    BY <1>5, <1>7, FrontAndLast DEF Stack
  <2>2. PICK load \in LoadActs : load = Last(below)
    BY <1>5, <1>7, <2>1 DEF QueryActs
  <2>3. PICK stopped : stopped = [load EXCEPT !.stop = parse_error]
    OBVIOUS
  <2>4. stopped.kind = "load" /\ load.kind = "load" /\ stopped.items = load.items
    BY <2>3 DEF LoadActs
  <2>5. acts' = Append(Front(below), stopped)
    BY <1>3, <1>7, <2>2, <2>3 DEF EndQuery, Callers
  <2>6. PICK m : m = Len(below)
    OBVIOUS
  <2>7. Fine(load, m)
    BY <1>4, <1>5, <1>7, <2>2, <2>6, OrderlyPop
  <2>8. Fine(stopped, m) /\ (Settled(load, m) => Settled(stopped, m)) /\ ~Plain(load)
    BY <2>4, <2>7 DEF Fine, Settled, Plain
  <2> QED BY <1>4, <1>5, <1>7, <2>2, <2>5, <2>6, <2>8, OrderlyReplace
<1> QED BY <1>6, <1>7

\* The lines after the first.
LEMMA LoadsLastTail ==
  ASSUME NEW items \in Seq(Items), items # << >>, LoadsLast(items), Range(items) \subseteq Lines
  PROVE  /\ LoadsLast(Tail(items)) /\ Range(Tail(items)) \subseteq Lines
         /\ items[1] \in Lines
         /\ items[1].is = "directive" /\ Loading(items[1].goals) =>
              Tail(items) = << >> /\ LoadsOne(items[1].goals)
<1>1. PICK n \in Nat \ {0} : n = Len(items) /\ DOMAIN items = 1 .. n
  OBVIOUS
<1>2. PICK rest : rest = Tail(items)
  OBVIOUS
<1>3. /\ DOMAIN rest = 1 .. n - 1 /\ Len(rest) = n - 1
      /\ \A i \in 1 .. n - 1 : rest[i] = items[i + 1]
  BY <1>1, <1>2
<1>4. ASSUME NEW i \in 1 .. n - 1 PROVE i + 1 \in 1 .. n /\ (i + 1 = n => i = n - 1)
  BY <1>1
<1>5. LoadsLast(rest)
  BY <1>1, <1>3, <1>4 DEF LoadsLast
<1>6. Range(rest) \subseteq Lines
  BY <1>1, <1>3, <1>4 DEF Range
<1>7. 1 \in 1 .. n /\ items[1] \in Lines
  BY <1>1 DEF Range
<1>8. ASSUME items[1].is = "directive", Loading(items[1].goals)
      PROVE  rest = << >> /\ LoadsOne(items[1].goals)
  <2>1. n = 1 /\ LoadsOne(items[1].goals)
    BY <1>1, <1>7, <1>8 DEF LoadsLast
  <2> QED BY <1>1, <1>2, <2>1
<1> QED BY <1>2, <1>5, <1>6, <1>7, <1>8

LEMMA OrderlyLoadClause ==
  ASSUME InOrder, LoadClause
  PROVE  Orderly(acts', current_source_file') /\ current_source_file # 0
<1>1. acts # << >> /\ Act.kind = "load" /\ Act.items # << >>
      /\ UNCHANGED current_source_file
  BY DEF LoadClause, InLoad, loading
<1>2. PICK load \in LoadActs : load = Act
  BY <1>1, ActTyped DEF InOrder
<1>3. load.items \in Seq(Items) /\ load.items # << >>
  BY <1>1, <1>2 DEF LoadActs
<1>4. \E stop \in BOOLEAN : Continue([load EXCEPT !.items = Tail(@), !.stop = stop])
  BY <1>2 DEF LoadClause, NextItem
<1>5. PICK stop \in BOOLEAN : Continue([load EXCEPT !.items = Tail(@), !.stop = stop])
  BY <1>4
<1>6. PICK next : next = [load EXCEPT !.items = Tail(@), !.stop = stop]
  OBVIOUS
<1>7. next.kind = "load" /\ next.items = Tail(load.items) /\ acts' = Append(Front(acts), next)
  BY <1>5, <1>6 DEF LoadActs, Continue, Callers
<1>8. PICK k : k = Len(acts)
  OBVIOUS
<1>9. /\ Stack(acts, Cells) /\ Orderly(acts, current_source_file) /\ Act = Last(acts)
      /\ Fine(load, k) /\ (current_source_file = 0 => Settled(load, k))
  BY <1>1, <1>2, <1>8, ActInOrder
<1>10. Fine(next, k)
  BY <1>1, <1>2, <1>3, <1>7, <1>9, LoadsLastTail DEF Fine
<1>11. ~Plain(load) /\ ~Settled(load, k)
  BY <1>1, <1>2 DEF Plain, Settled
<1>12. Orderly(acts', current_source_file)
  BY <1>1, <1>2, <1>7, <1>8, <1>9, <1>10, <1>11, OrderlyReplace
<1> QED BY <1>1, <1>9, <1>11, <1>12

LEMMA OrderlyLoadDirective ==
  ASSUME InOrder, LoadDirective PROVE Orderly(acts', current_source_file)
<1>1. acts # << >> /\ Act.kind = "load" /\ Act.items # << >> /\ Item.is = "directive"
  BY DEF LoadDirective, InLoad
<1>2. PICK load \in LoadActs : load = Act
  BY <1>1, ActTyped DEF InOrder
<1>3. PICK next : next = [load EXCEPT !.items = Tail(@)]
  OBVIOUS
<1>4. PICK callers : callers = Append(Front(acts), next)
  OBVIOUS
<1>5. PICK goals : goals = Item.goals
  OBVIOUS
<1>6. EnterQuery(goals, callers)
  BY <1>2, <1>3, <1>4, <1>5 DEF LoadDirective, Callers
<1>7. load.items \in Seq(Items) /\ load.items # << >> /\ Item = load.items[1]
      /\ 1 \in DOMAIN load.items
  BY <1>1, <1>2 DEF LoadActs, Item
<1>8. goals \in Seq(Goals)
  <2>1. load.items[1] \in Items
    BY <1>7
  <2> QED BY <1>1, <1>5, <1>7, <2>1 DEF Items
<1>9. PICK k : k = Len(acts)
  OBVIOUS
<1>10. /\ Stack(acts, Cells) /\ Orderly(acts, current_source_file) /\ Act = Last(acts)
       /\ Fine(load, k) /\ (current_source_file = 0 => Settled(load, k))
  BY <1>1, <1>2, <1>9, ActInOrder
<1>11. /\ LoadsLast(load.items) /\ Range(load.items) \subseteq Lines
       /\ ~Plain(load) /\ ~Settled(load, k)
  BY <1>1, <1>2, <1>10 DEF Fine, Plain, Settled
<1>12. /\ next \in LoadActs /\ next.kind = "load" /\ next.items = Tail(load.items)
       /\ load.kind = "load"
  <2>1. Tail(load.items) \in Seq(Items)
    BY <1>7
  <2> QED BY <1>3, <2>1 DEF LoadActs
<1>13. /\ LoadsLast(next.items) /\ Range(next.items) \subseteq Lines /\ Item \in Lines
       /\ Loading(goals) => next.items = << >> /\ LoadsOne(goals)
  BY <1>1, <1>5, <1>7, <1>11, <1>12, LoadsLastTail
<1>14. goals \in Programs
  BY <1>1, <1>5, <1>13 DEF Programs
<1>15. Fine(next, k)
  BY <1>12, <1>13 DEF Fine
<1>16. Orderly(callers, current_source_file)
  BY <1>1, <1>2, <1>4, <1>9, <1>10, <1>11, <1>15, OrderlyReplace
<1>17. next \in QueryActs(Cells) \cup LoadActs /\ next.kind = Last(acts).kind
  BY <1>1, <1>12 DEF Act
<1>18. Stack(callers, Cells) /\ Last(callers) = next
  <2>1. GoesOn(callers, acts, next)
    BY <1>1, <1>4, <1>17 DEF GoesOn
  <2> QED BY <1>10, <1>17, <2>1, StackReplace
<1> QED BY <1>6, <1>8, <1>10, <1>11, <1>12, <1>13, <1>14, <1>16, <1>18, OrderlyEnterQuery

-----------------------------------------------------------------------------
(* The files                                                               *)

\* There is an entry for every file that is consulted.
LEMMA RoomForFile ==
  ASSUME ReadInv, PathsConsulted, RoomForAll, NEW file \in Consulted, IndexOf(file) = {}
  PROVE  Len(make_files) < MaxFiles
<1>1. PICK n \in Nat : n = Len(make_files)
  BY FilesTyped
<1>2. DOMAIN make_files = 1 .. n
  BY <1>1, FilesTyped
<1>3. PICK others : others = Consulted \ {file}
  OBVIOUS
<1>4. PICK f : f = [i \in 1 .. n |-> make_files[i].path]
  OBVIOUS
<1>5. f \in [1 .. n -> others]
  BY <1>2, <1>3, <1>4 DEF PathsConsulted, IndexOf
<1>6. \A i, j \in 1 .. n : f[i] = f[j] => i = j
  BY <1>2, <1>4 DEF ReadInv, Readable, FilesApart
<1>7. f \in Injection(1 .. n, others)
  BY <1>5, <1>6 DEF Injection, IsInjective
<1>8. IsFiniteSet(Consulted) /\ Cardinality(Consulted) <= MaxFiles /\ MaxFiles \in Nat
      /\ Cardinality(Consulted) \in Nat
  BY StoreAssumption, FS_CardinalityType DEF RoomForAll
<1>9. IsFiniteSet(others) /\ Cardinality(others) = Cardinality(Consulted) - 1
  BY <1>3, <1>8, FS_RemoveElement
<1>10. Cardinality(1 .. n) <= Cardinality(others)
  BY <1>7, <1>9, FS_Injection
<1>11. Cardinality(1 .. n) = n
  BY FS_Interval
<1> QED BY <1>1, <1>8, <1>9, <1>10, <1>11

\* A file is read only under its entry, but by include/1.
LEMMA FileEntry ==
  ASSUME ReadInv, PathsConsulted, RoomForAll, NEW file, NEW callers, load_file(file, callers)
  PROVE  /\ include_depth = 0 /\ file \in Consulted =>
              /\ PathsConsulted'
              /\ current_source_file' # 0 \/ UNCHANGED <<database, loading>>
         /\ include_depth # 0 => PathsConsulted' /\ UNCHANGED current_source_file
<1>1. PICK known : known = IndexOf(file)
  OBVIOUS
<1>2. PICK entry : entry = [path |-> file, mtime |-> disk[file]]
  OBVIOUS
<1>3. PICK n \in Nat : n = Len(make_files)
  BY FilesTyped
<1>4. make_files \in Seq(Tracked) /\ DOMAIN make_files = 1 .. n
  BY <1>3, FilesTyped
<1>5. include_depth \in Nat
  BY LoadsFinite DEF ReadInv, OwnersInv, StoreInv, ActsOK
<1>6. CASE include_depth # 0
  <2>1. include_depth > 0
    BY <1>5, <1>6
  <2>2. UNCHANGED <<make_files, current_source_file>>
    BY <2>1 DEF load_file, loading
  <2> QED BY <1>6, <2>2 DEF PathsConsulted
<1>7. CASE include_depth = 0 /\ file \in Consulted
  <2>1. ~(include_depth > 0)
    BY <1>7
  <2>2. CASE UNCHANGED <<database, loading>>
    BY <1>7, <2>2 DEF loading, PathsConsulted
  <2>3. CASE ~UNCHANGED <<database, loading>> /\ known # {}
    <3>1. /\ make_files' = [make_files EXCEPT ![Min(known)] = entry]
          /\ current_source_file' = Min(known)
      BY <1>1, <1>2, <2>1, <2>3 DEF load_file
    <3>2. known \subseteq 1 .. n /\ known \subseteq Nat
      BY <1>1, <1>4 DEF IndexOf
    <3>3. PICK i \in 1 .. n : i = Min(known)
      BY <2>3, <3>2, MinOfNats
    <3>4. \A j \in DOMAIN make_files' : j \in DOMAIN make_files /\
             (make_files'[j].path = make_files[j].path \/ make_files'[j].path = file)
      BY <1>2, <1>4, <3>1, <3>3
    <3> QED BY <1>7, <3>1, <3>3, <3>4 DEF PathsConsulted
  <2>4. CASE ~UNCHANGED <<database, loading>> /\ known = {}
    <3>1. Len(make_files) < MaxFiles
      BY <1>1, <1>7, <2>4, RoomForFile
    <3>2. make_files' = Append(make_files, entry) /\ current_source_file' = Len(make_files')
      BY <1>1, <1>2, <2>1, <2>4, <3>1 DEF load_file
    <3>3. /\ DOMAIN make_files' = 1 .. n + 1 /\ Len(make_files') = n + 1
          /\ make_files'[n + 1] = entry /\ \A j \in 1 .. n : make_files'[j] = make_files[j]
      BY <1>3, <1>4, <3>2
    <3>4. \A j \in 1 .. n + 1 : j = n + 1 \/ j \in DOMAIN make_files
      BY <1>4
    <3>5. PathsConsulted'
      BY <1>2, <1>4, <1>7, <3>3, <3>4 DEF PathsConsulted
    <3> QED BY <1>7, <3>2, <3>3, <3>5
  <2> QED BY <2>2, <2>3, <2>4
<1> QED BY <1>6, <1>7

TidyInv ==
  /\ ReadInv /\ NamesInv
  /\ Orderly(acts, current_source_file) /\ PathsConsulted
  /\ OwnedOrDynamic /\ dynamic_preds \subseteq Declared

LEMMA TidyInOrder ==
  ASSUME TidyInv PROVE InOrder /\ OwnersInv /\ ReadInv /\ StoreInv
BY DEF TidyInv, InOrder, ReadInv, OwnersInv

\* What is consulted was asked for.
LEMMA FileConsulted ==
  ASSUME InOrder, NEW op \in {"consult", "reload"}, Running(op),
         NEW i \in DOMAIN Goal.files
  PROVE  Goal.files[i] \in Consulted
<1>1. /\ acts # << >> /\ Act.kind = "query" /\ Act.next \in DOMAIN Act.goals
      /\ Goal.op = op
  BY GoalTyped DEF InOrder
<1>2. FromProgram(Goal)
  BY <1>1, ActInOrder DEF Fine, Goal
<1>3. Range(Goal.files) \subseteq Consulted
  BY <1>1, <1>2, GoalConsults
<1> QED BY <1>3 DEF Range

\* The file of an include/1 that runs is the one being read.
LEMMA StillReading ==
  ASSUME InOrder, NEW op \in {"consult", "include", "reload"}, Running(op),
         include_depth # 0, ~(Act.from > Len(Goal.files))
  PROVE  current_source_file # 0
<1>1. /\ acts # << >> /\ Act.kind = "query" /\ Act \in QueryActs(Cells)
      /\ Act.next \in DOMAIN Act.goals /\ Goal \in Asked(Cells) /\ Goal.op = op
  BY GoalTyped DEF InOrder
<1>2. PICK k \in Nat \ {0} : k = Len(acts)
  BY <1>1, ActInOrder DEF Stack
<1>3. k > 1
  <2>1. k # 1
    BY <1>1, <1>2, OneQuery DEF InOrder
  <2> QED BY <2>1
<1>4. Loading(Act.goals)
  BY <1>1 DEF Loading, Goal
<1>5. Act.next = 1 /\ Len(Goal.files) <= 1
  BY <1>2, <1>3, <1>4, OnlyLoads
<1>6. Act.from \in Nat \ {0} /\ Len(Goal.files) \in Nat
  BY <1>1 DEF QueryActs, Asked
<1>7. Act.from = 1
  BY <1>5, <1>6
<1>8. ~Settled(Act, k)
  BY <1>1, <1>3, <1>4, <1>5, <1>7 DEF Settled, Begun
<1> QED BY <1>1, <1>2, <1>8, ActInOrder

LEMMA OrderlyLoadNext ==
  ASSUME RoomForAll, NothingAfterLoads, TidyInv, LoadNext
  PROVE  Orderly(acts', current_source_file') /\ PathsConsulted'
<1> USE TidyInOrder
<1>1. PICK op \in {"consult", "include", "reload"} : Running(op)
  BY DEF LoadNext
<1>2. /\ acts # << >> /\ Act.kind = "query" /\ Act \in QueryActs(Cells)
      /\ Act.next \in DOMAIN Act.goals /\ Goal \in Asked(Cells) /\ Goal.op = op
  BY <1>1, GoalTyped
<1>3. CASE (Fail \/ Succeed) /\ UNCHANGED <<database, loading>>
  <2>1. UNCHANGED <<current_source_file, make_files>>
    BY <1>3 DEF loading
  <2>2. Orderly(acts', current_source_file)
    BY <1>2, <1>3, OrderlyGoalDone
  <2> QED BY <2>1, <2>2 DEF TidyInv, PathsConsulted
<1>4. CASE ~((Fail \/ Succeed) /\ UNCHANGED <<database, loading>>)
  <2>1. PICK query \in QueryActs(Cells) : query = Act
    BY <1>2
  <2>2. PICK waiting : waiting = [query EXCEPT !.from = @ + 1]
    OBVIOUS
  <2>3. PICK file : file = Goal.files[query.from]
    OBVIOUS
  <2>4. PICK callers : callers = Append(Front(acts), waiting)
    OBVIOUS
  <2>5. ~(query.from > Len(Goal.files)) /\ load_file(file, callers)
        /\ ~(op = "include" /\ include_depth = 0)
    BY <1>2, <1>4, <2>1, <2>2, <2>3, <2>4 DEF LoadNext, Callers
  <2>6. Goal.files \in Seq(Files) /\ query.from \in Nat \ {0}
    BY <1>2, <2>1 DEF Asked, QueryActs
  <2>7. query.from \in 1 .. Len(Goal.files) /\ query.from \in DOMAIN Goal.files
    BY <2>5, <2>6
  <2>8. file \in Files
    BY <2>3, <2>6, <2>7, InSeq
  <2>9. /\ waiting.kind = "query" /\ waiting.goals = query.goals
        /\ waiting.alternatives = query.alternatives /\ Begun(waiting)
        /\ waiting \in QueryActs(Cells)
    <3>1. PICK from \in Nat \ {0} : from = query.from + 1 /\ from > 1
      BY <2>6
    <3>2. waiting = [query EXCEPT !.from = from]
      BY <2>2, <3>1
    <3> QED BY <2>1, <3>1, <3>2 DEF QueryActs, Begun
  <2>10. PICK k : k = Len(acts)
    OBVIOUS
  <2>11. /\ Stack(acts, Cells) /\ Orderly(acts, current_source_file) /\ Act = Last(acts)
         /\ Fine(query, k) /\ query.kind = "query"
    BY <1>2, <2>1, <2>10, ActInOrder
  <2>12. Loading(query.goals) /\ ~Plain(query) /\ ~Plain(waiting)
    BY <1>2, <2>1, <2>9 DEF Loading, Goal, Plain
  <2>13. Fine(waiting, k) /\ Settled(waiting, k)
    BY <2>9, <2>11 DEF Fine, Settled
  <2>14. Orderly(callers, current_source_file)
    BY <1>2, <2>1, <2>4, <2>10, <2>11, <2>12, <2>13, OrderlyReplace
  <2>15. Stack(callers, Cells) /\ callers # << >> /\ Last(callers) = waiting
         /\ Len(callers) = k
    <3>1. waiting \in QueryActs(Cells) \cup LoadActs /\ waiting.kind = Last(acts).kind
      BY <1>2, <2>9 DEF Act
    <3>2. GoesOn(callers, acts, waiting)
      BY <1>2, <2>4, <3>1 DEF GoesOn
    <3>3. PICK S : S = QueryActs(Cells) \cup LoadActs
      OBVIOUS
    <3>4. acts \in Seq(S) /\ waiting \in S
      BY <2>11, <3>1, <3>3 DEF Stack
    <3>5. Front(acts) \in Seq(S) /\ Len(Front(acts)) = k - 1 /\ k \in Nat
      BY <1>2, <2>10, <3>4 DEF Front
    <3>6. Len(callers) = k
      BY <2>4, <3>4, <3>5
    <3> QED BY <2>11, <3>1, <3>2, <3>6, StackReplace
  <2>16. include_depth = 0 => file \in Consulted
    BY <1>1, <2>1, <2>3, <2>5, <2>7, FileConsulted
  <2>17. PathsConsulted'
    BY <2>5, <2>16, FileEntry DEF TidyInv
  <2>18. CASE acts' = Return(callers, CanOpen(file)) /\ UNCHANGED <<database, loading>>
    <3>1. Orderly(acts', current_source_file)
      BY <2>9, <2>14, <2>15, <2>18, OrderlyReturn
    <3> QED BY <2>17, <2>18, <3>1 DEF loading
  <2>19. CASE ~(acts' = Return(callers, CanOpen(file)) /\ UNCHANGED <<database, loading>>)
    <3>1. PICK load : load = [kind |-> "load", file |-> file, items |-> Text(file).items,
                              stop |-> FALSE]
      OBVIOUS
    <3>2. acts' = Append(callers, load) /\ include_depth' = include_depth + 1
      BY <2>5, <2>19, <3>1 DEF load_file
    <3>3. disk[file] \in DOMAIN Versions[file]
      BY <2>8 DEF StoreInv, DiskOK
    <3>4. LoadsLast(Text(file).items) /\ Range(Text(file).items) \subseteq Lines
      BY <2>8, <3>3, LinesOfFile DEF NothingAfterLoads, Text
    <3>5. Fine(load, Len(callers) + 1)
      BY <3>1, <3>4 DEF Fine
    <3>6. current_source_file' # 0
      <4>1. include_depth \in Nat
        BY <2>11, LoadsFinite DEF StoreInv, ActsOK
      <4>2. CASE include_depth = 0
        <5>1. ~UNCHANGED <<database, loading>>
          BY <3>2, <4>1 DEF loading
        <5> QED BY <2>5, <2>16, <4>2, <5>1, FileEntry DEF TidyInv
      <4>3. CASE include_depth # 0
        <5>1. current_source_file # 0
          BY <1>1, <2>1, <2>5, <4>3, StillReading
        <5> QED BY <2>5, <4>3, <5>1, FileEntry DEF TidyInv
      <4> QED BY <4>2, <4>3
    <3>7. callers[Len(callers)] = waiting
      BY <2>15 DEF Last
    <3>8. Orderly(acts', current_source_file')
      BY <2>12, <2>13, <2>14, <2>15, <3>2, <3>5, <3>6, <3>7, OrderlyPush
    <3> QED BY <2>17, <3>8
  <2> QED BY <2>18, <2>19
<1> QED BY <1>3, <1>4

\* make/0 consults what was consulted.
LEMMA OrderlyMake ==
  ASSUME TidyInv, Make
  PROVE  Orderly(acts', current_source_file') /\ PathsConsulted'
<1> USE TidyInOrder
<1>1. Running("make") /\ UNCHANGED current_source_file
  BY DEF Make
<1>2. /\ acts # << >> /\ Act.kind = "query" /\ Act \in QueryActs(Cells)
      /\ Act.next \in DOMAIN Act.goals
  BY <1>1, GoalTyped
<1>3. CASE Succeed /\ UNCHANGED make_files
  <2>1. Orderly(acts', current_source_file)
    BY <1>2, <1>3, OrderlyGoalDone
  <2> QED BY <1>1, <1>3, <2>1 DEF TidyInv, PathsConsulted
<1>4. CASE ~(Succeed /\ UNCHANGED make_files)
  <2>1. PICK query \in QueryActs(Cells) : query = Act
    BY <1>2
  <2>2. PICK files : files = [i \in DOMAIN make_files |-> make_files[i].path]
    OBVIOUS
  <2>3. PICK goal : goal = [op |-> "reload", at |-> << >>, names |-> << >>, files |-> files]
    OBVIOUS
  <2>4. PICK goals : goals = [query.goals EXCEPT ![query.next] = goal]
    OBVIOUS
  <2>5. PICK reload : reload = [query EXCEPT !.goals = goals, !.from = 1]
    OBVIOUS
  <2>6. make_files' = << >> /\ Continue(reload)
    BY <1>4, <2>1, <2>2, <2>3, <2>4, <2>5 DEF Make
  <2>7. PathsConsulted'
    BY <2>6 DEF PathsConsulted
  <2>8. Range(files) \subseteq Consulted
    BY <2>2 DEF TidyInv, PathsConsulted, Range
  <2>9. FromProgram(goal)
    BY <2>3, <2>8 DEF FromProgram
  <2>10. Len(acts) = 1
    BY <1>1, Alone
  <2>11. query.goals \in Seq(Asked(Cells)) /\ query.next \in DOMAIN query.goals
    BY <1>2, <2>1 DEF QueryActs
  <2>12. /\ DOMAIN goals = DOMAIN query.goals
         /\ \A j \in DOMAIN goals : goals[j] = goal \/ goals[j] = query.goals[j]
    BY <2>4, <2>11
  <2>13. reload.kind = "query" /\ reload.goals = goals
    BY <2>5 DEF QueryActs
  <2>14. /\ Stack(acts, Cells) /\ Orderly(acts, current_source_file) /\ Act = Last(acts)
         /\ Fine(query, 1) /\ query.kind = "query"
    BY <1>2, <2>1, <2>10, ActInOrder
  <2>15. Fine(reload, 1)
    <3>1. \A j \in DOMAIN reload.goals : FromProgram(reload.goals[j])
      BY <2>9, <2>12, <2>13, <2>14 DEF Fine
    <3> QED BY <2>13, <3>1 DEF Fine
  <2>16. Settled(reload, 1)
    BY <2>13 DEF Settled
  <2>17. acts' = Append(Front(acts), reload)
    BY <2>6 DEF Continue, Callers
  <2>18. Orderly(acts', current_source_file)
    BY <1>2, <2>10, <2>14, <2>15, <2>16, <2>17, OrderlyReplace
  <2> QED BY <1>1, <2>7, <2>18
<1> QED BY <1>3, <1>4

LEMMA UnconsultPaths == ASSUME TidyInv, Unconsult PROVE PathsConsulted'
<1> USE TidyInOrder
<1>1. CASE UNCHANGED make_files
  BY <1>1 DEF TidyInv, PathsConsulted
<1>2. CASE ~UNCHANGED make_files
  <2>1. PICK known : known = IndexOf(Goal.files[1])
    OBVIOUS
  <2>2. known # {} /\ make_files' = RemoveAt(make_files, Min(known))
    BY <1>2, <2>1 DEF Unconsult
  <2>3. PICK n \in Nat : n = Len(make_files)
    BY FilesTyped
  <2>4. make_files \in Seq(Tracked) /\ DOMAIN make_files = 1 .. n
    BY <2>3, FilesTyped
  <2>5. known \subseteq 1 .. n /\ known \subseteq Nat
    BY <2>1, <2>4 DEF IndexOf
  <2>6. PICK i \in 1 .. n : i = Min(known)
    BY <2>2, <2>5, MinOfNats
  <2>7. /\ Len(make_files') = n - 1 /\ make_files' \in Seq(Tracked)
        /\ \A k \in 1 .. n - 1 :
             make_files'[k] = IF k < i THEN make_files[k] ELSE make_files[k + 1]
    <3>1. IsRemoved(Tracked, make_files, i, make_files')
      BY <2>2, <2>3, <2>4, <2>6, RemovedElements
    <3> QED BY <2>3, <3>1 DEF IsRemoved
  <2>8. ASSUME NEW k \in DOMAIN make_files' PROVE make_files'[k].path \in Consulted
    <3>1. k \in 1 .. n - 1 /\ k \in 1 .. n /\ k + 1 \in 1 .. n
      BY <2>7
    <3>2. make_files[k].path \in Consulted /\ make_files[k + 1].path \in Consulted
      BY <2>4, <3>1 DEF TidyInv, PathsConsulted
    <3> QED BY <2>7, <3>1, <3>2
  <2> QED BY <2>8 DEF PathsConsulted
<1> QED BY <1>1, <1>2

-----------------------------------------------------------------------------
(* The calls and the files, whatever happens                               *)

LEMMA TidyCalls ==
  ASSUME RoomForAll, NothingAfterLoads, TidyInv, [Next]_vars
  PROVE  Orderly(acts', current_source_file') /\ PathsConsulted'
<1> USE TidyInOrder
<1> SUFFICES \/ Orderly(acts', current_source_file') /\ PathsConsulted'
             \/ Orderly(acts', current_source_file') /\ UNCHANGED make_files
             \/ /\ Orderly(acts', current_source_file)
                /\ UNCHANGED <<make_files, current_source_file>>
  BY DEF TidyInv, PathsConsulted
<1>1. CASE Solution \/ Assertz \/ Asserta \/ Retract \/ Retractall \/ Abolish
           \/ Dynamic \/ Op
  <2>1. UNCHANGED <<make_files, current_source_file>>
    BY <1>1 DEF Solution, Assertz, Asserta, AssertClause, Retract, Retractall, Abolish,
       Dynamic, Op, loading
  <2> QED BY <1>1, <2>1, OrderlyGoals
<1>2. CASE Backtrack \/ Call \/ EndQuery \/ LoadDirective
  <2>1. UNCHANGED <<make_files, current_source_file>>
    BY <1>2 DEF Backtrack, Call, EndQuery, LoadDirective, EnterQuery, loading
  <2> QED BY <1>2, <2>1, OrderlyBacktrack, OrderlyCall, OrderlyEndQuery, OrderlyLoadDirective
<1>3. CASE LoadClause \/ EndLoad
  <2>1. UNCHANGED make_files
    BY <1>3 DEF LoadClause, EndLoad, loading
  <2> QED BY <1>3, <2>1, OrderlyLoadClause, OrderlyEndLoad
<1>4. CASE LoadNext \/ Make
  BY <1>4, OrderlyLoadNext, OrderlyMake
<1>5. CASE Unconsult
  <2>1. UNCHANGED current_source_file
    BY <1>5 DEF Unconsult
  <2> QED BY <1>5, <2>1, OrderlyGoals, UnconsultPaths
<1>6. CASE \E goals \in Queries : Query(goals)
  <2>1. PICK goals \in Queries : Query(goals)
    BY <1>6
  <2>2. acts = << >> /\ EnterQuery(goals, << >>)
    BY <2>1 DEF Query
  <2>3. goals \in Programs /\ goals \in Seq(Goals)
    BY StoreAssumption DEF Programs
  <2>4. Stack(<< >>, Cells) /\ Orderly(<< >>, current_source_file)
    BY <2>2 DEF InOrder, StoreInv, ActsOK
  <2>5. UNCHANGED <<make_files, current_source_file>>
    BY <2>2 DEF EnterQuery, loading
  <2> QED BY <2>2, <2>3, <2>4, <2>5, OrderlyEnterQuery
<1>7. CASE (\E f \in Files : Edit(f)) \/ UNCHANGED vars
  <2>1. UNCHANGED <<acts, make_files, current_source_file>>
    BY <1>7 DEF Edit, vars, loading
  <2> QED BY <2>1 DEF InOrder
<1> QED BY <1>1, <1>2, <1>3, <1>4, <1>5, <1>6, <1>7 DEF Next, Step

-----------------------------------------------------------------------------
(* Clauses without an owner                                                *)

\* What a goal asserts or declares was declared, and there is room for it.
LEMMA DeclaredRoom ==
  ASSUME RoomForAll, TidyInv, NEW op \in {"assertz", "asserta", "dynamic"}, Running(op),
         ensure_dynamic(texts[1])
  PROVE  /\ Goal.at \in Seq(1 .. pool.offset)
         /\ dynamic_preds' = dynamic_preds \cup {texts[1]}
         /\ dynamic_preds' \subseteq Declared
<1> USE TidyInOrder
<1>1. /\ acts # << >> /\ Act.kind = "query" /\ Act.next \in DOMAIN Act.goals
      /\ Goal.op = op /\ Goal \in Asked(Cells)
  BY GoalTyped
<1>2. FromProgram(Goal)
  BY <1>1, ActInOrder DEF Fine, Goal
<1>3. Goal.names[1] \in Declared
  BY <1>1, <1>2, GoalConsults
<1>4. Says(pool, Goal.at, Goal.names)
  <2>1. Len(acts) \in DOMAIN acts /\ Act = acts[Len(acts)]
    BY <1>1 DEF StoreInv, ActsOK, Stack, Act, Last
  <2>2. Intact(pool, Act, Len(acts))
    BY <2>1 DEF TidyInv, NamesInv, NamesKept
  <2> QED BY <1>1, <2>2 DEF Intact, Reads, Goal
<1>5. Goal.names \in Seq(Names) /\ Goal.at # << >> /\ Len(Goal.at) = Len(Goal.names)
  BY <1>1 DEF Asked, Named
<1>6. Goal.at \in Seq(1 .. pool.offset) /\ texts[1] = Goal.names[1]
  <2>1. Goal.at \in Seq(1 .. pool.offset)
    BY <1>4 DEF Says
  <2>2. 1 \in 1 .. Len(Goal.names) /\ 1 \in DOMAIN Goal.at
    BY <1>5, <2>1
  <2> QED BY <1>4, <2>1, <2>2 DEF Says, texts, Read
<1>7. texts[1] \in Declared
  BY <1>3, <1>6
<1>8. /\ IsFiniteSet(Declared) /\ Cardinality(Declared) <= MaxDynamic
      /\ dynamic_preds \subseteq Declared /\ MaxDynamic \in Nat
  BY StoreAssumption DEF RoomForAll, TidyInv
<1>9. /\ Cardinality(dynamic_preds) \in Nat /\ Cardinality(Declared) \in Nat
      /\ Cardinality(dynamic_preds) <= Cardinality(Declared)
      /\ Cardinality(dynamic_preds) = Cardinality(Declared) => dynamic_preds = Declared
  BY <1>8, FS_Subset, FS_CardinalityType
<1>10. Cardinality(dynamic_preds) < MaxDynamic \/ texts[1] \in dynamic_preds
  BY <1>7, <1>8, <1>9
<1>11. dynamic_preds' = dynamic_preds \cup {texts[1]}
  BY <1>10 DEF ensure_dynamic
<1> QED BY <1>6, <1>7, <1>8, <1>11

\* Fewer clauses, no fewer dynamic predicates.
LEMMA FewerClauses ==
  ASSUME TidyInv, dynamic_preds \subseteq dynamic_preds', Range(Contents') \subseteq Range(Contents)
  PROVE  OwnedOrDynamic'
BY DEF TidyInv, OwnedOrDynamic

LEMMA WithoutFewer ==
  ASSUME ReadInv, NEW gone PROVE Range(Without(Contents, gone)) \subseteq Range(Contents)
<1>1. PICK S : S = Range(Contents)
  OBVIOUS
<1>2. Contents \in Seq(S)
  <2>1. Contents \in Seq(Facts)
    BY ContentsTyped
  <2> QED BY <1>1, <2>1 DEF Range
<1>3. Without(Contents, gone) \in Seq(S)
  BY <1>2, WithoutWorks
<1> QED BY <1>1, <1>3, RangeOfSeq

LEMMA OneMoreClause ==
  ASSUME TidyInv, dynamic_preds \subseteq dynamic_preds', NEW e \in Facts,
         e.owner = None => e.fact[1] \in dynamic_preds',
         \/ Contents' = Append(Contents, e) \/ Contents' = << e >> \o Contents
  PROVE  OwnedOrDynamic'
<1>1. Contents \in Seq(Facts)
  BY ContentsTyped, TidyInOrder
<1>2. PICK S : S = Facts
  OBVIOUS
<1>3. PICK s \in Seq(S) : s = Contents
  BY <1>1, <1>2
<1>4. Range(Append(s, e)) = Range(s) \cup {e}
  BY <1>2, <1>3, RangeAppend
<1>5. Range(<< e >> \o s) \subseteq Range(s) \cup {e}
  <2>1. PICK r : r = << e >> \o s
    OBVIOUS
  <2>2. ASSUME NEW k \in DOMAIN r PROVE r[k] \in Range(s) \cup {e}
    <3>1. PICK n \in Nat : n = Len(s) /\ DOMAIN s = 1 .. n
      BY <1>3
    <3>2. /\ DOMAIN r = 1 .. n + 1 /\ r[1] = e
          /\ \A j \in 1 .. n + 1 : j # 1 => j - 1 \in 1 .. n /\ r[j] = s[j - 1]
      BY <1>2, <1>3, <2>1, <3>1
    <3> QED BY <2>2, <3>1, <3>2 DEF Range
  <2> QED BY <2>1, <2>2 DEF Range
<1>6. Range(Contents') \subseteq Range(Contents) \cup {e}
  BY <1>3, <1>4, <1>5
<1> QED BY <1>6 DEF TidyInv, OwnedOrDynamic

LEMMA AssertTidy ==
  ASSUME RoomForAll, TidyInv, NEW op \in {"assertz", "asserta"}, AssertClause(op)
  PROVE  OwnedOrDynamic' /\ dynamic_preds' \subseteq Declared
<1> USE TidyInOrder
<1>1. Running(op)
  BY DEF AssertClause
<1>2. CASE UNCHANGED <<database, pool, dynamic_preds>>
  <2>1. UNCHANGED <<ops, make_files>>
    BY DEF AssertClause, loading
  <2>2. Contents' = Contents
    BY <1>2, <2>1, QuietStore DEF SameStore
  <2> QED BY <1>2, <2>2, FewerClauses DEF TidyInv
<1>3. CASE ~UNCHANGED <<database, pool, dynamic_preds>>
  <2>1. ensure_dynamic(texts[1])
    BY <1>3 DEF AssertClause
  <2>2. /\ Goal.at \in Seq(1 .. pool.offset)
        /\ dynamic_preds' = dynamic_preds \cup {texts[1]} /\ dynamic_preds' \subseteq Declared
    BY <1>1, <2>1, DeclaredRoom
  <2>3. CASE Contents' = Contents
    BY <2>2, <2>3, FewerClauses
  <2>4. CASE Contents' # Contents
    <3>1. PICK e \in Facts :
            /\ e.owner = None
            /\ Goal.at \in Seq(1 .. pool.offset) => e.fact[1] = texts[1]
            /\ Contents' = IF op = "assertz" THEN Append(Contents, e)
                           ELSE << e >> \o Contents
      BY <2>4, AssertEffect
    <3>2. e.fact[1] \in dynamic_preds'
      BY <2>2, <3>1
    <3> QED BY <2>2, <3>1, <3>2, OneMoreClause
  <2> QED BY <2>2, <2>3, <2>4
<1> QED BY <1>2, <1>3

LEMMA RetractTidy == ASSUME TidyInv, Retract PROVE OwnedOrDynamic'
<1> USE TidyInOrder
<1>1. UNCHANGED dynamic_preds
  BY DEF Retract
<1>2. CASE Contents' = Contents
  BY <1>1, <1>2, FewerClauses
<1>3. CASE Contents' # Contents
  <2>1. PICK i \in 1 .. Len(Contents) : Contents' = RemoveAt(Contents, i)
    BY <1>3, RetractEffect
  <2>2. PICK S : S = Range(Contents)
    OBVIOUS
  <2>3. Contents \in Seq(S)
    <3>1. Contents \in Seq(Facts)
      BY ContentsTyped
    <3> QED BY <2>2, <3>1 DEF Range
  <2>4. IsRemoved(S, Contents, i, Contents')
    BY <2>1, <2>3, RemovedElements
  <2>5. Contents' \in Seq(S)
    BY <2>4 DEF IsRemoved
  <2> QED BY <1>1, <2>2, <2>5, RangeOfSeq, FewerClauses
<1> QED BY <1>2, <1>3

LEMMA TidyClauses ==
  ASSUME RoomForAll, TidyInv, GivesBackUnused, NoOpsLost, [Next]_vars
  PROVE  OwnedOrDynamic' /\ dynamic_preds' \subseteq Declared
<1> USE TidyInOrder
<1>1. CASE Solution \/ Backtrack \/ Call \/ EndLoad \/ UNCHANGED vars
           \/ \E f \in Files : Edit(f)
  <2>1. UNCHANGED dynamic_preds
    BY <1>1 DEF Solution, Backtrack, Call, EndLoad, Edit, vars
  <2>2. Contents' = Contents
    BY <1>1, QuietEffect DEF SameStore
  <2> QED BY <2>1, <2>2, FewerClauses DEF TidyInv
<1>2. CASE EndQuery \/ LoadDirective \/ Op
  <2>1. UNCHANGED dynamic_preds
    BY <1>2 DEF EndQuery, LoadDirective, EnterQuery, Op
  <2>2. Contents' = Contents
    BY <1>2, EndQueryEffect, DirectiveEffect, OpEffect DEF SameStore
  <2> QED BY <2>1, <2>2, FewerClauses DEF TidyInv
<1>3. CASE \E goals \in Queries : Query(goals)
  <2>1. UNCHANGED dynamic_preds
    BY <1>3 DEF Query, EnterQuery
  <2>2. Contents' = Contents
    BY <1>3, QueryEffect DEF SameStore
  <2> QED BY <2>1, <2>2, FewerClauses DEF TidyInv
<1>4. CASE Assertz \/ Asserta
  BY <1>4, AssertTidy DEF Assertz, Asserta
<1>5. CASE Retract
  <2>1. UNCHANGED dynamic_preds
    BY <1>5 DEF Retract
  <2> QED BY <1>5, <2>1, RetractTidy DEF TidyInv
<1>6. CASE Retractall \/ Abolish \/ LoadNext \/ Unconsult
  <2>1. UNCHANGED dynamic_preds
    BY <1>6 DEF Retractall, Abolish, LoadNext, Unconsult
  <2>2. Contents' = Contents \/ \E gone : Contents' = Without(Contents, gone)
    BY <1>6, RetractallEffect, AbolishEffect, LoadNextEffect, UnconsultEffect
  <2>3. Range(Contents') \subseteq Range(Contents)
    BY <2>2, WithoutFewer
  <2> QED BY <2>1, <2>3, FewerClauses DEF TidyInv
<1>7. CASE Dynamic
  <2>1. Running("dynamic") /\ ensure_dynamic(texts[1])
    BY <1>7 DEF Dynamic
  <2>2. dynamic_preds' = dynamic_preds \cup {texts[1]} /\ dynamic_preds' \subseteq Declared
    BY <2>1, DeclaredRoom
  <2>3. Contents' = Contents
    BY <1>7, QuietEffect DEF SameStore
  <2> QED BY <2>2, <2>3, FewerClauses
<1>8. CASE LoadClause
  <2>1. UNCHANGED dynamic_preds
    BY <1>8 DEF LoadClause
  <2>2. current_source_file # 0
    BY <1>8, OrderlyLoadClause
  <2>3. CASE Contents' = Contents
    BY <2>1, <2>3, FewerClauses DEF TidyInv
  <2>4. CASE Contents' # Contents
    <3>1. PICK e \in Facts : /\ e.owner # None \/ current_source_file = 0
                             /\ Contents' = Append(Contents, e)
      BY <1>8, <2>4, LoadClauseEffect
    <3>2. OwnedOrDynamic'
      BY <2>1, <2>2, <3>1, OneMoreClause
    <3> QED BY <2>1, <3>2 DEF TidyInv
  <2> QED BY <2>3, <2>4
<1>9. CASE Make
  <2>1. UNCHANGED dynamic_preds
    BY <1>9 DEF Make
  <2>2. Contents' = Contents \/ Contents' = << >>
    BY <1>9, MakeEffect
  <2>3. Range(Contents') \subseteq Range(Contents)
    BY <2>2 DEF Range
  <2> QED BY <2>1, <2>3, FewerClauses DEF TidyInv
<1> QED BY <1>1, <1>2, <1>3, <1>4, <1>5, <1>6, <1>7, <1>8, <1>9 DEF Next, Step

LEMMA TidyInit ==
  MakeAlone /\ CoreStays /\ NothingAfterLoads /\ Init => TidyInv
<1> SUFFICES ASSUME MakeAlone, CoreStays, NothingAfterLoads, Init PROVE TidyInv
  OBVIOUS
<1>1. ReadInv /\ NamesInv
  BY ReadInit, NamesInit
<1>2. PICK load : load = [kind |-> "load", file |-> Core, items |-> Text(Core).items,
                          stop |-> FALSE]
  OBVIOUS
<1>3. acts = <<load>> /\ load.kind = "load" /\ load.items = Text(Core).items
      /\ current_source_file = 1
  BY <1>2 DEF Init
<1>4. LoadsLast(load.items) /\ Range(load.items) \subseteq Lines
  <2>1. disk[Core] \in DOMAIN Versions[Core] /\ Core \in Files
    BY <1>1, StoreAssumption DEF NamesInv, StoreInv, DiskOK
  <2> QED BY <1>3, <2>1, LinesOfFile DEF NothingAfterLoads, Text
<1>5. Fine(load, 1)
  BY <1>3, <1>4 DEF Fine
<1>6. Orderly(acts, current_source_file)
  <2>1. DOMAIN acts = {1} /\ Len(acts) = 1 /\ acts[1] = load
    BY <1>3
  <2> QED BY <1>3, <1>5, <2>1 DEF Orderly
<1>7. PathsConsulted
  <2>1. DOMAIN make_files = {1} /\ make_files[1].path = Core
    BY DEF Init
  <2> QED BY <2>1 DEF PathsConsulted, Consulted
<1>8. OwnedOrDynamic /\ dynamic_preds \subseteq Declared
  <2>1. database = << >> /\ dynamic_preds = {}
    BY DEF Init
  <2>2. Range(Contents) = {}
    BY <2>1 DEF Contents, Range
  <2> QED BY <2>1, <2>2 DEF OwnedOrDynamic
<1> QED BY <1>1, <1>6, <1>7, <1>8 DEF TidyInv

LEMMA TidyNext ==
  ASSUME MakeAlone, CoreStays, RoomForAll, NothingAfterLoads,
         TidyInv, GivesBackUnused, NoOpsLost, [Next]_vars
  PROVE  TidyInv'
<1>1. ReadInv' /\ NamesInv'
  BY ReadNext, NamesNext DEF TidyInv
<1> QED BY <1>1, TidyCalls, TidyClauses DEF TidyInv

LEMMA TidyIsOwned == TidyInv => NoOrphans
<1> SUFFICES ASSUME TidyInv, NEW c \in Clauses, c.source_file = 0
             PROVE  NameOf(c) \in dynamic_preds
  BY DEF NoOrphans
<1>1. PICK e : e = Shown(pool, make_files, c)
  OBVIOUS
<1>2. e \in Range(Contents) /\ e.owner = None /\ e.fact[1] = NameOf(c)
  BY <1>1, TidyInOrder, InContents, ClauseShown
<1> QED BY <1>2 DEF TidyInv, OwnedOrDynamic

\* A clause of no file is one of a dynamic predicate, if there is room for all
\* files and all dynamic predicates, and nothing follows a directive that loads:
\* the end of the nested load takes the file that is being read away
\* (current_source_file = 0), so that the clauses after it would be nobody's.
THEOREM ClausesAreOwned ==
  MakeAlone /\ CoreStays /\ RoomForAll /\ NothingAfterLoads =>
    (Spec /\ []GivesBackUnused /\ []NoOpsLost => []NoOrphans)
<1> SUFFICES ASSUME MakeAlone, CoreStays, RoomForAll, NothingAfterLoads
             PROVE  Spec /\ []GivesBackUnused /\ []NoOpsLost => []NoOrphans
  OBVIOUS
<1>1. Init => TidyInv
  BY TidyInit
<1>2. TidyInv /\ GivesBackUnused /\ NoOpsLost /\ [Next]_vars => TidyInv'
  BY TidyNext
<1> QED BY <1>1, <1>2, TidyIsOwned, PTL DEF Spec

-----------------------------------------------------------------------------
(* What a query gives back at its end.  It looks at flags that every       *)
(* directive sets to FALSE, and at the number of clauses; so it cannot be  *)
(* fooled if whatever loads files only adds clauses, and defines no        *)
(* operators.  Every other query runs on its own, and its flags are true.  *)

Meek(act, k) ==
  /\ act.kind = "query" => /\ NoMake(act.goals)
                           /\ k > 1 \/ Loading(act.goals) => Adds(act.goals)
  /\ act.kind = "load" => AddsOnly(act.items)

\* Only a query that loads is left waiting.
Proper(calls) ==
  /\ \A k \in DOMAIN calls : Meek(calls[k], k)
  /\ \A k \in 1 .. Len(calls) - 1 : ~Plain(calls[k])

\* What the database tells of the query that runs.
ClausesBelow(n) == \A c \in Clauses : \A i \in DOMAIN c.at : c.at[i] <= n
OpsBelow(n) == \A at \in Range(ops) : at <= n
Judged(act) ==
  IF Loading(act.goals)
  THEN /\ OpsBelow(act.string_mark) /\ act.db_mark <= Len(database)
       /\ Len(database) = act.db_mark => ClausesBelow(act.string_mark)
  ELSE /\ ~db_dirty => ClausesBelow(act.string_mark)
       /\ ~ops_dirty => OpsBelow(act.string_mark)
AllJudged(calls) == \A k \in DOMAIN calls : calls[k].kind = "query" => Judged(calls[k])

Unedited == \A i \in DOMAIN make_files : make_files[i].mtime = 1

KeepInv == ReadInv /\ Proper(acts) /\ AllJudged(acts) /\ Unedited

-----------------------------------------------------------------------------
(* The calls                                                               *)

LEMMA PushElements ==
  ASSUME NEW n, NEW calls, Stack(calls, n), NEW act, NEW r, r = Append(calls, act)
  PROVE  /\ Len(calls) \in Nat /\ DOMAIN calls = 1 .. Len(calls)
         /\ calls = << >> <=> Len(calls) = 0
         /\ DOMAIN r = 1 .. Len(calls) + 1 /\ Len(r) = Len(calls) + 1
         /\ r[Len(calls) + 1] = act /\ \A k \in 1 .. Len(calls) : r[k] = calls[k]
BY DEF Stack

LEMMA PopElements ==
  ASSUME NEW n, NEW calls, Stack(calls, n), calls # << >>, NEW r, r = Front(calls)
  PROVE  /\ Len(calls) \in Nat \ {0} /\ DOMAIN calls = 1 .. Len(calls)
         /\ Last(calls) = calls[Len(calls)]
         /\ DOMAIN r = 1 .. Len(calls) - 1 /\ Len(r) = Len(calls) - 1
         /\ \A k \in 1 .. Len(calls) - 1 : r[k] = calls[k]
<1>1. PICK S : S = QueryActs(n) \cup LoadActs
  OBVIOUS
<1>2. PICK m \in Nat \ {0} : m = Len(calls)
  BY DEF Stack
<1>3. calls \in Seq(S) /\ r = SubSeq(calls, 1, m - 1)
  BY <1>1, <1>2 DEF Stack, Front
<1>4. /\ DOMAIN r = 1 .. m - 1 /\ Len(r) = m - 1
      /\ \A k \in 1 .. m - 1 : r[k] = calls[k]
  BY <1>2, <1>3
<1>5. DOMAIN calls = 1 .. m /\ Last(calls) = calls[m]
  BY <1>2, <1>3 DEF Last
<1> QED BY <1>2, <1>4, <1>5

LEMMA ReplaceElements ==
  ASSUME NEW n, NEW calls, Stack(calls, n), calls # << >>, NEW act,
         NEW r, r = Append(Front(calls), act)
  PROVE  /\ DOMAIN r = 1 .. Len(calls) /\ Len(r) = Len(calls) /\ r[Len(calls)] = act
         /\ \A k \in 1 .. Len(calls) - 1 : r[k] = calls[k]
<1>1. PICK m \in Nat \ {0} : m = Len(calls)
  BY DEF Stack
<1>2. PICK S : S = QueryActs(n) \cup LoadActs
  OBVIOUS
<1>3. PICK below \in Seq(S) : below = Front(calls)
  BY <1>2, FrontAndLast DEF Stack
<1>4. Len(below) = m - 1 /\ \A k \in 1 .. m - 1 : below[k] = calls[k]
  BY <1>1, <1>3, PopElements
<1>5. /\ DOMAIN r = 1 .. Len(below) + 1 /\ Len(r) = Len(below) + 1
      /\ r[Len(below) + 1] = act /\ \A k \in 1 .. Len(below) : r[k] = below[k]
  BY <1>3
<1>6. Len(below) + 1 = m
  BY <1>1, <1>4
<1> QED BY <1>1, <1>4, <1>5, <1>6

\* One more call.
LEMMA ProperPush ==
  ASSUME NEW n, NEW calls, Stack(calls, n), Proper(calls),
         calls # << >> => ~Plain(Last(calls)),
         NEW act, Meek(act, Len(calls) + 1), NEW r, r = Append(calls, act)
  PROVE  /\ Proper(r)
         /\ AllJudged(calls)' /\ (act.kind = "query" => Judged(act)') => AllJudged(r)'
<1>1. PICK m \in Nat : m = Len(calls) /\ DOMAIN calls = 1 .. m /\ (calls = << >> <=> m = 0)
  BY PushElements
<1>2. /\ DOMAIN r = 1 .. m + 1 /\ Len(r) = m + 1 /\ r[m + 1] = act
      /\ \A k \in 1 .. m : r[k] = calls[k]
  BY <1>1, PushElements
<1>3. ASSUME NEW k \in 1 .. m + 1 PROVE Meek(r[k], k)
  <2>1. k = m + 1 \/ k \in 1 .. m
    BY <1>1
  <2>2. CASE k = m + 1
    BY <1>1, <1>2, <2>2
  <2>3. CASE k \in 1 .. m
    BY <1>1, <1>2, <2>3 DEF Proper
  <2> QED BY <2>1, <2>2, <2>3
<1>4. ASSUME NEW k \in 1 .. m PROVE ~Plain(r[k])
  <2>1. k = m \/ k \in 1 .. m - 1
    BY <1>1
  <2>2. CASE k = m
    <3>1. calls # << >> /\ Last(calls) = calls[m]
      BY <1>1, <2>2 DEF Last
    <3> QED BY <1>2, <2>2, <3>1
  <2>3. CASE k \in 1 .. m - 1
    BY <1>1, <1>2, <2>3 DEF Proper
  <2> QED BY <2>1, <2>2, <2>3
<1>5. ASSUME AllJudged(calls)', act.kind = "query" => Judged(act)', NEW k \in 1 .. m + 1,
             r[k].kind = "query"
      PROVE  Judged(r[k])'
  <2>1. k = m + 1 \/ k \in 1 .. m
    BY <1>1
  <2>2. CASE k = m + 1
    BY <1>2, <1>5, <2>2
  <2>3. CASE k \in 1 .. m
    <3>1. Judged(calls[k])' /\ r[k] = calls[k]
      BY <1>1, <1>2, <1>5, <2>3 DEF AllJudged
    <3> QED BY <3>1
  <2> QED BY <2>1, <2>2, <2>3
<1>6. Len(r) - 1 = m
  BY <1>1, <1>2
<1> QED BY <1>2, <1>3, <1>4, <1>5, <1>6 DEF Proper, AllJudged

\* One call less.
LEMMA ProperPop ==
  ASSUME NEW n, NEW calls, Stack(calls, n), calls # << >>, Proper(calls),
         NEW r, r = Front(calls)
  PROVE  /\ Proper(r) /\ Meek(Last(calls), Len(calls))
         /\ r # << >> => ~Plain(Last(r)) /\ Meek(Last(r), Len(r))
         /\ AllJudged(calls)' => AllJudged(r)'
<1>1. PICK m \in Nat \ {0} : m = Len(calls) /\ DOMAIN calls = 1 .. m /\ Last(calls) = calls[m]
  BY PopElements
<1>2. /\ DOMAIN r = 1 .. m - 1 /\ Len(r) = m - 1
      /\ \A k \in 1 .. m - 1 : r[k] = calls[k]
  BY <1>1, PopElements
<1>3. ASSUME NEW k \in 1 .. m - 1 PROVE k \in 1 .. m /\ Meek(r[k], k) /\ ~Plain(r[k])
  <2>1. k \in 1 .. m
    BY <1>1
  <2> QED BY <1>1, <1>2, <2>1 DEF Proper
<1>4. Proper(r)
  <2>1. \A k \in 1 .. (m - 1) - 1 : k \in 1 .. m - 1
    BY <1>1
  <2> QED BY <1>2, <1>3, <2>1 DEF Proper
<1>5. Meek(Last(calls), m)
  BY <1>1 DEF Proper
<1>6. ASSUME r # << >> PROVE ~Plain(Last(r)) /\ Meek(Last(r), Len(r))
  <2>1. m - 1 \in 1 .. m - 1 /\ Last(r) = r[m - 1]
    <3>1. Stack(r, n)
      BY StackPop
    <3>2. Len(r) # 0 /\ Len(r) \in Nat
      BY <1>6, <3>1 DEF Stack
    <3> QED BY <1>1, <1>2, <3>2 DEF Last
  <2> QED BY <1>2, <1>3, <2>1
<1>7. ASSUME AllJudged(calls)' PROVE AllJudged(r)'
  BY <1>1, <1>2, <1>3, <1>7 DEF AllJudged
<1> QED BY <1>1, <1>4, <1>5, <1>6, <1>7

\* The marks of a query stay as long as it runs.
SameMarks(act, query) ==
  /\ act.kind = query.kind
  /\ query.kind = "query" => /\ act.goals = query.goals
                             /\ act.string_mark = query.string_mark
                             /\ act.db_mark = query.db_mark
  /\ query.kind = "load" => AddsOnly(act.items)

LEMMA JudgedAlike ==
  ASSUME NEW query, NEW act, SameMarks(act, query), query.kind = "query"
  PROVE  Judged(act)' <=> Judged(query)'
<1>1. /\ act.goals = query.goals /\ act.string_mark = query.string_mark
      /\ act.db_mark = query.db_mark
  BY DEF SameMarks
<1> QED BY <1>1 DEF Judged

\* The innermost call goes on.
LEMMA ProperReplace ==
  ASSUME NEW n, NEW calls, Stack(calls, n), calls # << >>, Proper(calls),
         NEW act, SameMarks(act, Last(calls)), NEW r, r = Append(Front(calls), act)
  PROVE  Proper(r) /\ (AllJudged(calls)' => AllJudged(r)') /\ r # << >>
<1>1. PICK m \in Nat \ {0} : m = Len(calls) /\ DOMAIN calls = 1 .. m /\ Last(calls) = calls[m]
  BY PopElements
<1>2. /\ DOMAIN r = 1 .. m /\ Len(r) = m /\ r[m] = act
      /\ \A k \in 1 .. m - 1 : r[k] = calls[k]
  BY <1>1, ReplaceElements
<1>3. \A k \in 1 .. m : k = m \/ k \in 1 .. m - 1
  BY <1>1
<1>4. \A k \in 1 .. m - 1 : k \in 1 .. m
  BY <1>1
<1>5. Meek(act, m)
  <2>1. Meek(calls[m], m)
    BY <1>1 DEF Proper
  <2> QED BY <1>1, <2>1 DEF Meek, SameMarks
<1>6. Proper(r)
  <2>1. ASSUME NEW k \in 1 .. m PROVE Meek(r[k], k)
    BY <1>1, <1>2, <1>3, <1>5 DEF Proper
  <2>2. ASSUME NEW k \in 1 .. m - 1 PROVE ~Plain(r[k])
    BY <1>1, <1>2, <1>4 DEF Proper
  <2> QED BY <1>2, <2>1, <2>2 DEF Proper
<1>7. ASSUME AllJudged(calls)', NEW k \in 1 .. m, r[k].kind = "query" PROVE Judged(r[k])'
  <2>1. CASE k = m
    <3>1. calls[m].kind = "query" /\ r[k] = act
      BY <1>1, <1>2, <1>7, <2>1 DEF SameMarks
    <3>2. Judged(calls[m])'
      BY <1>1, <1>7, <3>1 DEF AllJudged
    <3>3. Judged(act)'
      BY <1>1, <3>1, <3>2, JudgedAlike
    <3> QED BY <3>1, <3>3
  <2>2. CASE k \in 1 .. m - 1
    <3>1. Judged(calls[k])' /\ r[k] = calls[k]
      BY <1>1, <1>2, <1>4, <1>7, <2>2 DEF AllJudged
    <3> QED BY <3>1
  <2> QED BY <1>3, <2>1, <2>2
<1>8. r # << >>
  <2>1. Len(r) # 0
    BY <1>1, <1>2
  <2> QED BY <2>1
<1> QED BY <1>2, <1>6, <1>7, <1>8 DEF AllJudged

-----------------------------------------------------------------------------
(* What happens to the database under a query that runs                    *)

OnlyMore ==
  /\ Range(ops') \subseteq Range(ops)
  /\ Len(database') >= Len(database)
  /\ Len(database') = Len(database) => Clauses' \subseteq Clauses
FlagsTrue ==
  /\ ~db_dirty' => ~db_dirty /\ Clauses' \subseteq Clauses
  /\ ~ops_dirty' => ~ops_dirty /\ ops' = ops

LEMMA StillJudged ==
  ASSUME NEW act, Judged(act), act.db_mark \in Nat,
         Len(database) \in Nat, Len(database') \in Nat,
         OnlyMore \/ ~Loading(act.goals), FlagsTrue \/ Loading(act.goals)
  PROVE  Judged(act)'
<1>1. ASSUME Clauses' \subseteq Clauses, NEW n, ClausesBelow(n) PROVE ClausesBelow(n)'
  BY <1>1 DEF ClausesBelow
<1>2. CASE Loading(act.goals)
  <2>1. OnlyMore
    BY <1>2
  <2>2. OpsBelow(act.string_mark)'
    BY <1>2, <2>1 DEF Judged, OpsBelow, OnlyMore
  <2>3. act.db_mark <= Len(database) /\ Len(database) <= Len(database')
    BY <1>2, <2>1 DEF Judged, OnlyMore
  <2>4. ASSUME Len(database') = act.db_mark PROVE ClausesBelow(act.string_mark)'
    <3>1. Len(database) = act.db_mark /\ Len(database') = Len(database)
      BY <2>3, <2>4
    <3>2. ClausesBelow(act.string_mark) /\ Clauses' \subseteq Clauses
      BY <1>2, <2>1, <3>1 DEF Judged, OnlyMore
    <3> QED BY <1>1, <3>2
  <2>5. act.db_mark <= Len(database')
    BY <2>3
  <2> QED BY <1>2, <2>2, <2>4, <2>5 DEF Judged
<1>3. CASE ~Loading(act.goals)
  <2>1. FlagsTrue
    BY <1>3
  <2>2. ASSUME ~db_dirty' PROVE ClausesBelow(act.string_mark)'
    BY <1>1, <1>3, <2>1, <2>2 DEF Judged, FlagsTrue
  <2>3. ASSUME ~ops_dirty' PROVE OpsBelow(act.string_mark)'
    BY <1>3, <2>1, <2>3 DEF Judged, FlagsTrue, OpsBelow
  <2> QED BY <1>3, <2>2, <2>3 DEF Judged
<1> QED BY <1>2, <1>3

LEMMA KeepTyped ==
  ASSUME KeepInv
  PROVE  /\ OwnersInv /\ StoreInv /\ ReadInv /\ Stack(acts, Cells)
         /\ Proper(acts) /\ AllJudged(acts) /\ Unedited
         /\ Len(database) \in Nat /\ Cells \in Nat
<1>1. StoreInv
  BY DEF KeepInv, ReadInv, OwnersInv
<1>2. Len(database) \in Nat
  BY <1>1 DEF StoreInv, DatabaseOK
<1>3. Cells \in Nat
  BY <1>1, CellsNat DEF StoreInv
<1> QED BY <1>1, <1>2, <1>3 DEF KeepInv, ReadInv, OwnersInv, StoreInv, ActsOK

\* The queries that run, innermost or not.
LEMMA QueryAt ==
  ASSUME KeepInv, NEW k \in DOMAIN acts, acts[k].kind = "query"
  PROVE  /\ acts # << >> /\ acts[k].db_mark \in Nat /\ Judged(acts[k])
         /\ ~Loading(acts[k].goals) => k = Len(acts) /\ acts[k] = Act
<1>1. PICK m \in Nat : m = Len(acts) /\ DOMAIN acts = 1 .. m
  BY KeepTyped DEF Stack
<1>2. PICK S : S = QueryActs(Cells) \cup LoadActs
  OBVIOUS
<1>3. acts \in Seq(S)
  BY <1>2, KeepTyped DEF Stack
<1>4. acts[k] \in S
  BY <1>1, <1>3, InSeq
<1>5. acts[k].db_mark \in Nat
  BY <1>2, <1>4 DEF QueryActs, LoadActs
<1>6. Judged(acts[k])
  BY KeepTyped DEF AllJudged
<1>7. ASSUME ~Loading(acts[k].goals) PROVE k = m
  <2>1. Plain(acts[k])
    BY <1>7 DEF Plain
  <2>2. k \notin 1 .. m - 1
    BY <1>1, <2>1, KeepTyped DEF Proper
  <2> QED BY <1>1, <2>2
<1>8. acts # << >> /\ Act = acts[m]
  BY <1>1 DEF Act, Last
<1> QED BY <1>1, <1>5, <1>6, <1>7, <1>8

LEMMA StillMarked ==
  ASSUME KeepInv, Len(database') \in Nat, NEW calls, calls = acts,
         \/ OnlyMore
         \/ acts # << >> /\ ~Loading(Act.goals) /\ Len(acts) = 1,
         FlagsTrue \/ (acts # << >> => ~Plain(Act))
  PROVE  AllJudged(calls)'
<1> SUFFICES ASSUME NEW k \in DOMAIN calls, calls[k].kind = "query"
             PROVE  Judged(calls[k])'
  BY DEF AllJudged
<1>1. PICK act : act = acts[k]
  OBVIOUS
<1>2. /\ acts # << >> /\ act.db_mark \in Nat /\ Judged(act) /\ act.kind = "query"
      /\ ~Loading(act.goals) => k = Len(acts) /\ act = Act
  BY <1>1, QueryAt
<1>3. OnlyMore \/ ~Loading(act.goals)
  <2>1. ASSUME Len(acts) = 1 PROVE act = Act
    <3>1. k = 1 /\ Act = acts[1]
      BY <1>2, <2>1, KeepTyped DEF Stack, Act, Last
    <3> QED BY <1>1, <3>1
  <2> QED BY <2>1
<1>4. FlagsTrue \/ Loading(act.goals)
  BY <1>2 DEF Plain
<1>5. Judged(act)'
  BY <1>2, <1>3, <1>4, KeepTyped, StillJudged
<1> QED BY <1>1, <1>5

\* Nothing that a query is judged by changes.
QuietFlags ==
  UNCHANGED <<database, ops, db_dirty, ops_dirty>>

LEMMA QuietMarked ==
  ASSUME KeepInv, QuietFlags, NEW calls, calls = acts PROVE AllJudged(calls)'
<1>1. Clauses' = Clauses /\ Len(database') \in Nat /\ Len(database') = Len(database)
  BY KeepTyped DEF QuietFlags, Clauses
<1>2. OnlyMore
  <2>1. Len(database) >= Len(database)
    BY KeepTyped
  <2> QED BY <1>1, <2>1 DEF OnlyMore, QuietFlags
<1>3. FlagsTrue
  BY <1>1 DEF FlagsTrue, QuietFlags
<1> QED BY <1>1, <1>2, <1>3, StillMarked

-----------------------------------------------------------------------------
(* Goals                                                                   *)

LEMMA MarkedNow ==
  ASSUME NEW r, r = acts', AllJudged(r)' PROVE AllJudged(acts)'
BY DEF AllJudged, Judged

LEMMA RunsOn ==
  ASSUME KeepInv, acts # << >>, NEW act, SameMarks(act, Act), Continue(act),
         NEW calls, calls = acts, AllJudged(calls)'
  PROVE  Proper(acts') /\ AllJudged(acts)'
<1>1. PICK r : r = acts'
  OBVIOUS
<1>2. Stack(calls, Cells) /\ Proper(calls) /\ calls # << >> /\ Last(calls) = Act
  BY KeepTyped DEF Act
<1>3. r = Append(Front(calls), act)
  BY <1>1 DEF Continue, Callers
<1>4. Proper(r) /\ AllJudged(r)'
  BY <1>2, <1>3, ProperReplace
<1> QED BY <1>1, <1>4, MarkedNow

LEMMA GoalRunsOn ==
  ASSUME KeepInv, acts # << >>, Act.kind = "query", Succeed \/ Fail \/ Error,
         NEW calls, calls = acts, AllJudged(calls)'
  PROVE  Proper(acts') /\ AllJudged(acts)'
<1>1. PICK query \in QueryActs(Cells) : query = Act
  BY ActTyped, KeepTyped
<1>2. ASSUME NEW act, act = [query EXCEPT !.next = @ + 1, !.from = 1]
      PROVE  SameMarks(act, Act)
  BY <1>1, <1>2 DEF QueryActs, SameMarks
<1>3. ASSUME NEW run, NEW act, act = [query EXCEPT !.run = run]
      PROVE  SameMarks(act, Act)
  BY <1>1, <1>3 DEF QueryActs, SameMarks
<1>4. CASE Succeed
  BY <1>1, <1>2, <1>4, RunsOn DEF Succeed
<1>5. CASE Fail
  BY <1>1, <1>3, <1>5, RunsOn DEF Fail
<1>6. CASE Error
  BY <1>1, <1>3, <1>6, RunsOn DEF Error
<1> QED BY <1>4, <1>5, <1>6

LEMMA BacktrackKeeps == ASSUME KeepInv, Backtrack PROVE Proper(acts') /\ AllJudged(acts)'
<1>1. acts # << >> /\ Act.kind = "query"
  BY DEF Backtrack, InQuery
<1>2. PICK calls : calls = acts
  OBVIOUS
<1>3. AllJudged(calls)'
  BY <1>2, QuietMarked DEF Backtrack, QuietFlags, flags
<1>4. CASE Act.alternatives = << >>
  BY <1>1, <1>2, <1>3, <1>4, GoalRunsOn DEF Backtrack
<1>5. CASE Act.alternatives # << >>
  <2>1. PICK query \in QueryActs(Cells) : query = Act
    BY <1>1, ActTyped, KeepTyped
  <2>2. PICK frame : frame = Last(query.alternatives)
    OBVIOUS
  <2>3. PICK rest : rest = Front(query.alternatives)
    OBVIOUS
  <2>4. PICK back : back = [query EXCEPT !.next = frame.next, !.from = frame.from,
                                         !.alternatives = rest, !.run = "go"]
    OBVIOUS
  <2>5. SameMarks(back, Act)
    BY <2>1, <2>4 DEF QueryActs, SameMarks
  <2>6. Continue(back)
    BY <1>5, <2>1, <2>2, <2>3, <2>4 DEF Backtrack
  <2> QED BY <1>1, <1>2, <1>3, <2>5, <2>6, RunsOn
<1> QED BY <1>4, <1>5

LEMMA CallKeeps == ASSUME KeepInv, Call PROVE Proper(acts') /\ AllJudged(acts)'
<1>1. acts # << >> /\ Act.kind = "query"
  BY DEF Call, Running, InQuery
<1>2. PICK calls : calls = acts
  OBVIOUS
<1>3. AllJudged(calls)'
  BY <1>2, QuietMarked DEF Call, QuietFlags, flags
<1>4. PICK found : found = {i \in Act.from .. Len(database) :
                              database[i].at[1] = Goal.at[1]}
  OBVIOUS
<1>5. CASE found = {}
  BY <1>1, <1>2, <1>3, <1>4, <1>5, GoalRunsOn DEF Call
<1>6. CASE found # {}
  <2>1. PICK query \in QueryActs(Cells) : query = Act
    BY <1>1, ActTyped, KeepTyped
  <2>2. PICK rest : rest = Append(query.alternatives,
                                  [next |-> query.next, from |-> Min(found) + 1])
    OBVIOUS
  <2>3. PICK tried : tried = [query EXCEPT !.next = @ + 1, !.from = 1,
                                           !.alternatives = rest]
    OBVIOUS
  <2>4. SameMarks(tried, Act)
    BY <2>1, <2>3 DEF QueryActs, SameMarks
  <2>5. Continue(tried)
    BY <1>4, <1>6, <2>1, <2>2, <2>3 DEF Call
  <2> QED BY <1>1, <1>2, <1>3, <2>4, <2>5, RunsOn
<1> QED BY <1>5, <1>6

\* What takes clauses away is asked for on its own.
LEMMA OnItsOwn ==
  ASSUME KeepInv, NEW op, Running(op),
         op \notin {"call", "assertz", "asserta", "dynamic", "consult", "include"}
  PROVE  Len(acts) = 1 /\ ~Loading(Act.goals) /\ op # "make"
<1>1. /\ acts # << >> /\ Act.kind = "query" /\ Act.next \in DOMAIN Act.goals
      /\ Goal.op = op
  BY GoalTyped, KeepTyped
<1>2. PICK m \in Nat \ {0} : m = Len(acts)
  BY <1>1, KeepTyped DEF Stack
<1>3. Meek(Act, m)
  BY <1>1, <1>2, KeepTyped, ProperPop DEF Act
<1>4. ~Adds(Act.goals)
  BY <1>1 DEF Adds, Goal
<1>5. ~(m > 1) /\ ~Loading(Act.goals) /\ NoMake(Act.goals)
  BY <1>1, <1>3, <1>4 DEF Meek
<1>6. op # "make"
  BY <1>1, <1>5 DEF NoMake, Goal
<1> QED BY <1>2, <1>5, <1>6

LEMMA QuietGoalKeeps ==
  ASSUME KeepInv, Solution \/ Dynamic PROVE Proper(acts') /\ AllJudged(acts)'
<1>1. acts # << >> /\ Act.kind = "query" /\ (Succeed \/ Fail \/ Error) /\ QuietFlags
  BY DEF Solution, Dynamic, Running, InQuery, QuietFlags, flags
<1>2. PICK calls : calls = acts
  OBVIOUS
<1> QED BY <1>1, <1>2, QuietMarked, GoalRunsOn

LEMMA AssertKeeps ==
  ASSUME KeepInv, NEW op \in {"assertz", "asserta"}, AssertClause(op)
  PROVE  Proper(acts') /\ AllJudged(acts)'
<1>1. acts # << >> /\ Act.kind = "query" /\ (Succeed \/ Fail \/ Error)
      /\ UNCHANGED <<ops, ops_dirty>>
  BY DEF AssertClause, Running, InQuery
<1>2. PICK calls : calls = acts
  OBVIOUS
<1>3. CASE UNCHANGED <<database, db_dirty>>
  BY <1>1, <1>2, <1>3, QuietMarked, GoalRunsOn DEF QuietFlags
<1>4. CASE ~UNCHANGED <<database, db_dirty>>
  <2>1. PICK clause : database' = Append(database, clause) \/ database' = <<clause>> \o database
    BY <1>4 DEF AssertClause
  <2>2. PICK n \in Nat : n = Len(database)
    BY KeepTyped
  <2>3. database \in Seq(Clause(Cells))
    BY KeepTyped DEF StoreInv, DatabaseOK
  <2>4. Len(database') = n + 1
    BY <2>1, <2>2, <2>3
  <2>5. OnlyMore
    BY <1>1, <2>2, <2>4 DEF OnlyMore
  <2>6. db_dirty' = TRUE
    BY <1>4 DEF AssertClause
  <2>7. FlagsTrue
    BY <1>1, <2>6 DEF FlagsTrue
  <2>8. AllJudged(calls)'
    BY <1>2, <2>2, <2>4, <2>5, <2>7, StillMarked
  <2> QED BY <1>1, <1>2, <2>8, GoalRunsOn
<1> QED BY <1>3, <1>4

LEMMA RemovalKeeps ==
  ASSUME KeepInv, StoreInv', Retract \/ Retractall \/ Abolish \/ Unconsult \/ Op
  PROVE  Proper(acts') /\ AllJudged(acts)'
<1>1. acts # << >> /\ Act.kind = "query" /\ (Succeed \/ Fail \/ Error)
  BY DEF Retract, Retractall, Abolish, Unconsult, Op, Running, InQuery
<1>2. Len(acts) = 1 /\ ~Loading(Act.goals)
  BY OnItsOwn DEF Retract, Retractall, Abolish, Unconsult, Op
<1>3. PICK calls : calls = acts
  OBVIOUS
<1>4. FlagsTrue
  <2>1. ASSUME NEW gone, database' = Without(database, gone) PROVE Clauses' \subseteq Clauses
    <3>1. PICK S : S = Clauses
      OBVIOUS
    <3>2. database \in Seq(S)
      <4>1. database \in Seq(Clause(Cells))
        BY KeepTyped DEF StoreInv, DatabaseOK
      <4> QED BY <3>1, <4>1 DEF Clauses, Range
    <3>3. database' \in Seq(S)
      BY <2>1, <3>2, WithoutWorks
    <3> QED BY <3>1, <3>3 DEF Clauses, Range
  <2>2. CASE Retract
    <3>1. (UNCHANGED <<database, db_dirty>> \/ db_dirty' = TRUE) /\ UNCHANGED <<ops, ops_dirty>>
      BY <2>2 DEF Retract
    <3> QED BY <3>1 DEF FlagsTrue, Clauses
  <2>3. CASE Retractall
    <3>1. /\ \/ UNCHANGED <<database, db_dirty>>
             \/ db_dirty' = (db_dirty \/ database' # database)
          /\ UNCHANGED <<ops, ops_dirty>>
      BY <2>3 DEF Retractall
    <3>2. ~db_dirty' => ~db_dirty /\ database' = database
      <4>1. CASE UNCHANGED <<database, db_dirty>>
        BY <4>1
      <4>2. CASE db_dirty' = (db_dirty \/ database' # database)
        BY <4>2
      <4> QED BY <3>1, <4>1, <4>2
    <3>3. ~db_dirty' => Clauses' \subseteq Clauses
      BY <3>2 DEF Clauses
    <3> QED BY <3>1, <3>2, <3>3 DEF FlagsTrue
  <2>4. CASE Abolish
    <3>1. /\ database' = Without(database, {c \in Clauses : NameOf(c) = texts[1]})
          /\ UNCHANGED <<ops, db_dirty, ops_dirty>>
      BY <2>4 DEF Abolish, flags
    <3>2. Clauses' \subseteq Clauses
      BY <2>1, <3>1
    <3> QED BY <3>1, <3>2 DEF FlagsTrue
  <2>5. CASE Unconsult
    <3>1. (UNCHANGED <<database, db_dirty>> \/ db_dirty' = TRUE) /\ UNCHANGED <<ops, ops_dirty>>
      BY <2>5 DEF Unconsult
    <3> QED BY <3>1 DEF FlagsTrue, Clauses
  <2>6. CASE Op
    <3>1. ops_dirty' = TRUE /\ UNCHANGED <<database, db_dirty>>
      BY <2>6 DEF Op
    <3> QED BY <3>1 DEF FlagsTrue, Clauses
  <2> QED BY <2>2, <2>3, <2>4, <2>5, <2>6
<1>5. Len(database') \in Nat
  BY DEF StoreInv, DatabaseOK
<1>6. AllJudged(calls)'
  BY <1>1, <1>2, <1>3, <1>4, <1>5, StillMarked
<1> QED BY <1>1, <1>3, <1>6, GoalRunsOn

-----------------------------------------------------------------------------
(* Queries that begin and end                                              *)

LEMMA EnterKeeps ==
  ASSUME KeepInv, NEW goals \in Seq(Goals), NoMake(goals),
         NEW callers, Stack(callers, Cells), Proper(callers), AllJudged(callers)',
         \/ callers = << >> /\ (Loading(goals) => Adds(goals))
         \/ callers # << >> /\ Last(callers).kind = "load" /\ Adds(goals),
         EnterQuery(goals, callers)
  PROVE  Proper(acts') /\ AllJudged(acts)'
<1>1. PICK parsed : parsed = parse_goals(goals)
  OBVIOUS
<1>2. pool \in Pools
  BY KeepTyped DEF StoreInv, PoolOK
<1>3. /\ parsed.goals \in Seq(Asked(parsed.pool.offset)) /\ Len(parsed.goals) = Len(goals)
      /\ \A i \in 1 .. Len(goals) : AskedAs(parsed.pool, parsed.goals[i], goals[i])
  BY <1>1, <1>2, ParseGoalsWorks
<1>4. PICK query : query =
        [kind |-> "query", goals |-> parsed.goals, next |-> 1, from |-> 1,
         alternatives |-> << >>, run |-> "go", string_mark |-> pool.offset,
         db_mark |-> Len(database)]
  OBVIOUS
<1>5. /\ acts' = Append(callers, query) /\ db_dirty' = FALSE
      /\ UNCHANGED <<database, ops, ops_dirty>>
  BY <1>1, <1>4 DEF EnterQuery
<1>6. /\ query.kind = "query" /\ query.goals = parsed.goals
      /\ query.string_mark = pool.offset /\ query.db_mark = Len(database)
  BY <1>4
<1>7. DOMAIN parsed.goals = 1 .. Len(goals) /\ DOMAIN goals = 1 .. Len(goals)
  BY <1>3
<1>8. \A i \in 1 .. Len(goals) : parsed.goals[i].op = goals[i].op
  BY <1>3 DEF AskedAs
<1>9. /\ NoMake(query.goals) /\ (Loading(query.goals) <=> Loading(goals))
      /\ Adds(goals) => Adds(query.goals)
  BY <1>6, <1>7, <1>8 DEF NoMake, Loading, Adds
<1>10. ClausesBelow(pool.offset) /\ OpsBelow(pool.offset)
  <2>1. database \in Seq(NamedClauses(pool.offset)) /\ ops \in Seq(1 .. pool.offset)
    BY KeepTyped DEF ReadInv, Readable, ClausesNamed, OpsNamed
  <2>2. ASSUME NEW c \in Clauses, NEW i \in DOMAIN c.at PROVE c.at[i] <= pool.offset
    <3>1. PICK S : S = NamedClauses(pool.offset)
      OBVIOUS
    <3>2. c \in S
      BY <2>1, <3>1, RangeOfSeq DEF Clauses
    <3>3. c.at \in Seq(1 .. pool.offset)
      BY <3>1, <3>2 DEF NamedClauses, Clause
    <3>4. PICK at \in Seq(1 .. pool.offset) : at = c.at
      BY <3>3
    <3>5. i \in 1 .. Len(at)
      BY <3>4
    <3>6. at[i] \in 1 .. pool.offset
      BY <3>4, <3>5, InSeq
    <3>7. pool.offset \in Nat
      BY KeepTyped, PoolTyped
    <3> QED BY <3>4, <3>6, <3>7
  <2>3. ASSUME NEW at \in Range(ops) PROVE at <= pool.offset
    <3>1. PICK i \in DOMAIN ops : at = ops[i]
      BY DEF Range
    <3>2. i \in 1 .. Len(ops)
      BY <2>1, <3>1
    <3>3. at \in 1 .. pool.offset
      BY <2>1, <3>1, <3>2, InSeq
    <3>4. pool.offset \in Nat
      BY KeepTyped, PoolTyped
    <3> QED BY <3>3, <3>4
  <2> QED BY <2>2, <2>3 DEF ClausesBelow, OpsBelow
<1>11. Judged(query)'
  <2>2. Len(database) <= Len(database') /\ Len(database) \in Nat
    BY <1>5, KeepTyped
  <2>3. PICK below : below = pool.offset
    OBVIOUS
  <2>4. ClausesBelow(below)' /\ OpsBelow(below)' /\ query.string_mark = below
    BY <1>5, <1>6, <1>10, <2>3 DEF ClausesBelow, OpsBelow, Clauses
  <2> QED BY <1>6, <2>2, <2>4 DEF Judged
<1>12. PICK m \in Nat : m = Len(callers) /\ (callers = << >> <=> m = 0)
  BY DEF Stack
<1>13. Meek(query, m + 1)
  <2>1. callers # << >> => Adds(query.goals)
    BY <1>9
  <2>2. m + 1 > 1 \/ Loading(query.goals) => Adds(query.goals)
    BY <1>9, <1>12, <2>1
  <2> QED BY <1>6, <1>9, <2>2 DEF Meek
<1>14. callers # << >> => ~Plain(Last(callers))
  BY DEF Plain
<1>15. PICK r : r = acts'
  OBVIOUS
<1>16. Proper(r) /\ AllJudged(r)'
  BY <1>5, <1>11, <1>12, <1>13, <1>14, <1>15, ProperPush
<1> QED BY <1>15, <1>16, MarkedNow

LEMMA QueryKeeps ==
  ASSUME LoadsAdd, KeepInv, NEW goals \in Queries, Query(goals)
  PROVE  Proper(acts') /\ AllJudged(acts)'
<1>1. acts = << >> /\ EnterQuery(goals, << >>)
  BY DEF Query
<1>2. goals \in Seq(Goals) /\ NoMake(goals) /\ (Loading(goals) => Adds(goals))
  BY StoreAssumption DEF LoadsAdd
<1>3. Stack(<< >>, Cells) /\ Proper(<< >>)
  BY <1>1, KeepTyped
<1>4. PICK none : none = << >>
  OBVIOUS
<1>5. AllJudged(none)'
  BY <1>4 DEF AllJudged
<1> QED BY <1>1, <1>2, <1>3, <1>4, <1>5, EnterKeeps

\* The lines after the first.
LEMMA AddsTail ==
  ASSUME NEW items \in Seq(Items), items # << >>, AddsOnly(items)
  PROVE  AddsOnly(Tail(items)) /\ (items[1].is = "directive" => Adds(items[1].goals))
<1>1. PICK n \in Nat \ {0} : n = Len(items) /\ DOMAIN items = 1 .. n
  OBVIOUS
<1>2. PICK rest : rest = Tail(items)
  OBVIOUS
<1>3. DOMAIN rest = 1 .. n - 1 /\ \A i \in 1 .. n - 1 : rest[i] = items[i + 1]
  BY <1>1, <1>2
<1>4. \A i \in 1 .. n - 1 : i + 1 \in 1 .. n
  BY <1>1
<1>5. AddsOnly(rest)
  BY <1>1, <1>3, <1>4 DEF AddsOnly
<1>6. 1 \in DOMAIN items
  BY <1>1
<1> QED BY <1>2, <1>5, <1>6 DEF AddsOnly

\* The load that is running, and what is left of it.
LEMMA LoadLeft ==
  ASSUME KeepInv, acts # << >>, Act.kind = "load", Act.items # << >>,
         NEW stop \in BOOLEAN,
         NEW next, next = [Act EXCEPT !.items = Tail(@), !.stop = stop]
  PROVE  /\ next \in LoadActs /\ SameMarks(next, Act) /\ next.kind = "load"
         /\ Item \in Items /\ (Item.is = "directive" => Adds(Item.goals))
<1>1. PICK load \in LoadActs : load = Act
  BY ActTyped, KeepTyped
<1>2. load.items \in Seq(Items) /\ load.items # << >> /\ Item = load.items[1]
      /\ 1 \in 1 .. Len(load.items)
  BY <1>1 DEF LoadActs, Item
<1>3. next \in LoadActs /\ next.kind = "load"
  BY <1>1, LoadGoesOn
<1>4. next.items = Tail(load.items)
  BY <1>1 DEF LoadActs
<1>5. AddsOnly(load.items)
  <2>1. Meek(Act, Len(acts))
    BY KeepTyped, ProperPop DEF Act
  <2> QED BY <1>1, <2>1 DEF Meek
<1>6. SameMarks(next, Act)
  BY <1>1, <1>2, <1>3, <1>4, <1>5, AddsTail DEF SameMarks
<1>7. Item \in Items
  BY <1>2, InSeq
<1> QED BY <1>2, <1>3, <1>5, <1>6, <1>7, AddsTail

LEMMA DirectiveKeeps ==
  ASSUME KeepInv, LoadDirective PROVE Proper(acts') /\ AllJudged(acts)'
<1>1. acts # << >> /\ Act.kind = "load" /\ Act.items # << >> /\ Item.is = "directive"
  BY DEF LoadDirective, InLoad
<1>2. PICK load \in LoadActs : load = Act
  BY <1>1, ActTyped, KeepTyped
<1>3. PICK next : next = [load EXCEPT !.items = Tail(@)]
  OBVIOUS
<1>4. next = [load EXCEPT !.items = Tail(@), !.stop = load.stop] /\ load.stop \in BOOLEAN
  BY <1>3 DEF LoadActs
<1>5. /\ next \in LoadActs /\ SameMarks(next, Act) /\ next.kind = "load"
      /\ Item \in Items /\ Adds(Item.goals)
  BY <1>1, <1>2, <1>4, LoadLeft
<1>6. PICK goals : goals = Item.goals
  OBVIOUS
<1>7. goals \in Seq(Goals) /\ Adds(goals) /\ NoMake(goals)
  <2>1. goals \in Seq(Goals)
    BY <1>1, <1>5, <1>6 DEF Items
  <2> QED BY <1>5, <1>6, <2>1 DEF Adds, NoMake
<1>8. PICK callers : callers = Append(Front(acts), next)
  OBVIOUS
<1>9. EnterQuery(goals, callers)
  BY <1>2, <1>3, <1>6, <1>8 DEF LoadDirective, Callers
<1>10. PICK calls : calls = acts
  OBVIOUS
<1>11. AllJudged(calls)'
  <2>1. UNCHANGED <<database, ops>>
    BY <1>9 DEF EnterQuery
  <2>2. Clauses' = Clauses /\ Len(database') \in Nat /\ Len(database') = Len(database)
    BY <2>1, KeepTyped DEF Clauses
  <2>3. OnlyMore
    <3>1. Len(database) >= Len(database)
      BY KeepTyped
    <3> QED BY <2>1, <2>2, <3>1 DEF OnlyMore
  <2>4. ~Plain(Act)
    BY <1>1 DEF Plain
  <2> QED BY <1>10, <2>2, <2>3, <2>4, StillMarked
<1>12. /\ Stack(acts, Cells) /\ Proper(acts) /\ Act = Last(acts)
  BY KeepTyped DEF Act
<1>13. Proper(callers) /\ AllJudged(callers)' /\ callers # << >>
  BY <1>1, <1>5, <1>8, <1>10, <1>11, <1>12, ProperReplace
<1>14. Stack(callers, Cells) /\ Last(callers) = next
  <2>1. next \in QueryActs(Cells) \cup LoadActs /\ next.kind = Last(acts).kind
    BY <1>1, <1>5, <1>12
  <2>2. GoesOn(callers, acts, next)
    BY <1>1, <1>8, <2>1 DEF GoesOn
  <2> QED BY <1>12, <2>1, <2>2, StackReplace
<1> QED BY <1>5, <1>7, <1>9, <1>13, <1>14, EnterKeeps

LEMMA EndQueryLeaves ==
  ASSUME KeepInv, GivesBackUnused, EndQuery PROVE Proper(acts') /\ AllJudged(acts)'
<1>1. acts # << >> /\ Act.kind = "query"
  BY DEF EndQuery, InQuery
<1>2. UNCHANGED <<database, ops>>
  BY EndQueryKeeps, KeepTyped
<1>3. PICK calls : calls = acts
  OBVIOUS
<1>4. PICK below : below = Front(acts)
  OBVIOUS
<1>5. Stack(acts, Cells) /\ Proper(acts)
  BY KeepTyped
<1>6. /\ Stack(below, Cells) /\ Proper(below)
      /\ below # << >> => ~Plain(Last(below)) /\ Last(below).kind # "query"
  BY <1>1, <1>4, <1>5, StackPop, ProperPop DEF Act
<1>7. CASE below = << >>
  <2>1. acts' = << >>
    BY <1>4, <1>7 DEF EndQuery, Callers
  <2> QED BY <2>1 DEF Proper, AllJudged
<1>8. CASE below # << >>
  <2>1. Last(below) \in QueryActs(Cells) \cup LoadActs
    BY <1>6, <1>8, FrontAndLast DEF Stack
  <2>2. PICK load \in LoadActs : load = Last(below)
    BY <1>6, <1>8, <2>1 DEF QueryActs
  <2>3. PICK stopped : stopped = [load EXCEPT !.stop = parse_error]
    OBVIOUS
  <2>4. stopped.kind = "load" /\ load.kind = "load" /\ stopped.items = load.items
    BY <2>3 DEF LoadActs
  <2>5. AddsOnly(load.items)
    BY <1>1, <1>4, <1>5, <1>8, <2>2, <2>4, ProperPop DEF Meek
  <2>6. SameMarks(stopped, Last(below))
    BY <2>2, <2>4, <2>5 DEF SameMarks
  <2>7. acts' = Append(Front(below), stopped)
    BY <1>4, <1>8, <2>2, <2>3 DEF EndQuery, Callers
  <2>8. \A k \in DOMAIN below : below[k].kind = "query" => Judged(below[k])'
    <3> SUFFICES ASSUME NEW k \in DOMAIN below, below[k].kind = "query"
                 PROVE  Judged(below[k])'
      OBVIOUS
    <3>1. PICK m \in Nat \ {0} : m = Len(acts) /\ DOMAIN acts = 1 .. m /\ DOMAIN below = 1 .. m - 1
      BY <1>1, <1>4, <1>5, PopElements
    <3>2. below[k] = acts[k] /\ k \in DOMAIN acts /\ k # m
      BY <1>1, <1>4, <1>5, <3>1, PopElements
    <3>3. PICK act : act = acts[k]
      OBVIOUS
    <3>4. act.db_mark \in Nat /\ Judged(act) /\ Loading(act.goals)
      BY <3>1, <3>2, <3>3, QueryAt
    <3>5. OnlyMore /\ Len(database) \in Nat /\ Len(database') \in Nat
      <4>1. Len(database) >= Len(database) /\ Len(database) \in Nat
        BY KeepTyped
      <4> QED BY <1>2, <4>1 DEF OnlyMore, Clauses
    <3>6. Judged(act)'
      BY <3>4, <3>5, StillJudged
    <3> QED BY <3>2, <3>3, <3>6
  <2>9. AllJudged(below)'
    BY <2>8 DEF AllJudged
  <2>10. PICK r : r = acts'
    OBVIOUS
  <2>11. Proper(r) /\ AllJudged(r)'
    BY <1>6, <1>8, <2>6, <2>7, <2>9, <2>10, ProperReplace
  <2> QED BY <2>10, <2>11, MarkedNow
<1> QED BY <1>7, <1>8

-----------------------------------------------------------------------------
(* Files                                                                   *)

\* Every file is as it was.
LEMMA FileAsItWas ==
  ASSUME LoadsAdd, KeepInv, NEW file \in Files PROVE disk[file] = 1 /\ AddsOnly(Text(file).items)
<1>1. Len(Versions[file]) = 1 /\ Versions[file] \in Seq([there : BOOLEAN, items : Seq(Items)])
  BY StoreAssumption DEF LoadsAdd
<1>2. disk[file] \in DOMAIN Versions[file]
  BY KeepTyped DEF StoreInv, DiskOK
<1>3. disk[file] = 1
  BY <1>1, <1>2
<1> QED BY <1>2, <1>3 DEF LoadsAdd, Text

\* So nothing is unloaded to be loaded again.
LEMMA LoadsOnTop ==
  ASSUME LoadsAdd, KeepInv, NEW file \in Files, NEW callers, load_file(file, callers)
  PROVE  /\ UNCHANGED database /\ Unedited'
         /\ \/ acts' = Return(callers, CanOpen(file))
            \/ acts' = Append(callers, [kind |-> "load", file |-> file,
                                        items |-> Text(file).items, stop |-> FALSE])
<1>1. PICK known : known = IndexOf(file)
  OBVIOUS
<1>2. PICK entry : entry = [path |-> file, mtime |-> 1]
  OBVIOUS
<1>3. entry = [path |-> file, mtime |-> disk[file]] /\ entry.mtime = 1 /\ disk[file] = 1
  BY <1>2, FileAsItWas
<1>4. PICK n \in Nat : n = Len(make_files) /\ DOMAIN make_files = 1 .. n
                       /\ make_files \in Seq(Tracked)
  BY KeepTyped, FilesTyped
<1>5. \A i \in 1 .. n : make_files[i].mtime = 1
  BY <1>4, KeepTyped DEF Unedited
<1>6. include_depth \in Nat
  BY KeepTyped, LoadsFinite DEF StoreInv, ActsOK
<1>7. CASE UNCHANGED <<database, make_files>>
  <2>1. Unedited'
    BY <1>7, KeepTyped DEF Unedited
  <2> QED BY <1>7, <2>1 DEF load_file
<1>8. CASE ~UNCHANGED <<database, make_files>>
  <2>1. ~(include_depth > 0) /\ include_depth = 0
    <3>1. ~(include_depth > 0)
      BY <1>8 DEF load_file, loading
    <3> QED BY <1>6, <3>1
  <2>2. ~(\E i \in known : make_files[i].mtime = disk[file])
    BY <1>1, <1>8, <2>1 DEF load_file, loading
  <2>3. known = {}
    <3>1. known \subseteq 1 .. n
      BY <1>1, <1>4 DEF IndexOf
    <3> QED BY <1>3, <1>5, <2>2, <3>1
  <2>4. make_files' = Append(make_files, entry) /\ UNCHANGED database
    BY <1>1, <1>3, <1>8, <2>1, <2>3 DEF load_file, loading
  <2>5. /\ DOMAIN make_files' = 1 .. n + 1 /\ make_files'[n + 1] = entry
        /\ \A i \in 1 .. n : make_files'[i] = make_files[i]
    BY <1>4, <2>4
  <2>6. \A i \in 1 .. n + 1 : i = n + 1 \/ i \in 1 .. n
    BY <1>4
  <2>7. Unedited'
    BY <1>3, <1>5, <2>5, <2>6 DEF Unedited
  <2> QED BY <2>4, <2>7 DEF load_file
<1> QED BY <1>7, <1>8

LEMMA ReturnKeeps ==
  ASSUME NEW n, NEW callers, Stack(callers, n), callers # << >>, Proper(callers),
         Last(callers).kind = "query", NEW ok, NEW r, r = Return(callers, ok)
  PROVE  Proper(r) /\ (AllJudged(callers)' => AllJudged(r)')
<1>1. Last(callers) \in QueryActs(n) \cup LoadActs
  BY FrontAndLast DEF Stack
<1>2. PICK query \in QueryActs(n) : query = Last(callers)
  BY <1>1 DEF LoadActs
<1>3. PICK back : back = [query EXCEPT !.run = "back"]
  OBVIOUS
<1>4. SameMarks(back, Last(callers))
  BY <1>2, <1>3 DEF QueryActs, SameMarks
<1>5. r = callers \/ r = Append(Front(callers), back)
  BY <1>2, <1>3 DEF Return
<1>6. CASE r = callers
  BY <1>6
<1>7. CASE r = Append(Front(callers), back)
  BY <1>4, <1>7, ProperReplace
<1> QED BY <1>5, <1>6, <1>7

LEMMA LoadNextKeeps ==
  ASSUME LoadsAdd, KeepInv, LoadNext PROVE Proper(acts') /\ AllJudged(acts)' /\ Unedited'
<1>1. PICK op \in {"consult", "include", "reload"} : Running(op)
  BY DEF LoadNext
<1>2. /\ acts # << >> /\ Act.kind = "query" /\ Act \in QueryActs(Cells)
      /\ Act.next \in DOMAIN Act.goals /\ Goal \in Asked(Cells) /\ Goal.op = op
  BY <1>1, GoalTyped, KeepTyped
<1>3. PICK calls : calls = acts
  OBVIOUS
<1>4. UNCHANGED <<ops, db_dirty, ops_dirty>>
  BY DEF LoadNext, flags
<1>5. CASE (Fail \/ Succeed) /\ UNCHANGED <<database, loading>>
  <2>1. QuietFlags
    BY <1>4, <1>5 DEF QuietFlags
  <2>2. AllJudged(calls)'
    BY <1>3, <2>1, QuietMarked
  <2>3. Unedited'
    BY <1>5, KeepTyped DEF Unedited, loading
  <2> QED BY <1>2, <1>3, <1>5, <2>2, <2>3, GoalRunsOn
<1>6. CASE ~((Fail \/ Succeed) /\ UNCHANGED <<database, loading>>)
  <2>1. PICK query \in QueryActs(Cells) : query = Act
    BY <1>2
  <2>2. PICK waiting : waiting = [query EXCEPT !.from = @ + 1]
    OBVIOUS
  <2>3. PICK file : file = Goal.files[query.from]
    OBVIOUS
  <2>4. PICK callers : callers = Append(Front(acts), waiting)
    OBVIOUS
  <2>5. ~(query.from > Len(Goal.files)) /\ load_file(file, callers)
    BY <1>2, <1>6, <2>1, <2>2, <2>3, <2>4 DEF LoadNext, Callers
  <2>6. Goal.files \in Seq(Files) /\ query.from \in Nat \ {0}
    BY <1>2, <2>1 DEF Asked, QueryActs
  <2>7. query.from \in 1 .. Len(Goal.files)
    BY <2>5, <2>6
  <2>8. file \in Files
    BY <2>3, <2>6, <2>7, InSeq
  <2>9. /\ UNCHANGED database /\ Unedited'
        /\ \/ acts' = Return(callers, CanOpen(file))
           \/ acts' = Append(callers, [kind |-> "load", file |-> file,
                                       items |-> Text(file).items, stop |-> FALSE])
    BY <2>5, <2>8, LoadsOnTop
  <2>10. AllJudged(calls)'
    BY <1>3, <1>4, <2>9, QuietMarked DEF QuietFlags
  <2>11. /\ SameMarks(waiting, Act) /\ waiting.goals = query.goals
         /\ waiting \in QueryActs(Cells) /\ waiting.kind = "query"
    <3>1. PICK from \in Nat \ {0} : from = query.from + 1
      BY <2>6
    <3>2. waiting = [query EXCEPT !.from = from]
      BY <2>2, <3>1
    <3> QED BY <2>1, <3>2 DEF QueryActs, SameMarks
  <2>12. Stack(acts, Cells) /\ Proper(acts) /\ Act = Last(acts)
    BY KeepTyped DEF Act
  <2>13. Proper(callers) /\ AllJudged(callers)' /\ callers # << >>
    BY <1>2, <1>3, <2>4, <2>10, <2>11, <2>12, ProperReplace
  <2>14. Stack(callers, Cells) /\ Last(callers) = waiting
    <3>1. waiting \in QueryActs(Cells) \cup LoadActs /\ waiting.kind = Last(acts).kind
      BY <1>2, <2>11, <2>12
    <3>2. GoesOn(callers, acts, waiting)
      BY <1>2, <2>4, <3>1 DEF GoesOn
    <3> QED BY <2>12, <3>1, <3>2, StackReplace
  <2>15. PICK r : r = acts'
    OBVIOUS
  <2>16. CASE acts' = Return(callers, CanOpen(file))
    <3>1. Proper(r) /\ AllJudged(r)'
      BY <2>11, <2>13, <2>14, <2>15, <2>16, ReturnKeeps
    <3> QED BY <2>9, <2>15, <3>1, MarkedNow
  <2>17. CASE acts' = Append(callers, [kind |-> "load", file |-> file,
                                       items |-> Text(file).items, stop |-> FALSE])
    <3>1. PICK load : load = [kind |-> "load", file |-> file, items |-> Text(file).items,
                              stop |-> FALSE]
      OBVIOUS
    <3>2. load.kind = "load" /\ load.items = Text(file).items
      BY <3>1
    <3>3. Meek(load, Len(callers) + 1)
      BY <2>8, <3>2, FileAsItWas DEF Meek
    <3>4. ~Plain(Last(callers))
      BY <1>1, <1>2, <2>1, <2>11, <2>14 DEF Plain, Loading, Goal
    <3>5. r = Append(callers, load) /\ load.kind # "query"
      BY <2>15, <2>17, <3>1, <3>2
    <3>6. Proper(r) /\ AllJudged(r)'
      BY <2>13, <2>14, <3>3, <3>4, <3>5, ProperPush
    <3> QED BY <2>9, <2>15, <3>6, MarkedNow
  <2> QED BY <2>9, <2>16, <2>17
<1> QED BY <1>5, <1>6

LEMMA LoadClauseKeeps ==
  ASSUME KeepInv, StoreInv', LoadClause PROVE Proper(acts') /\ AllJudged(acts)'
<1>1. acts # << >> /\ Act.kind = "load" /\ Act.items # << >>
      /\ UNCHANGED <<ops, db_dirty, ops_dirty>>
  BY DEF LoadClause, InLoad
<1>2. PICK stop \in BOOLEAN : Continue([Act EXCEPT !.items = Tail(@), !.stop = stop])
  BY DEF LoadClause, NextItem
<1>3. PICK next : next = [Act EXCEPT !.items = Tail(@), !.stop = stop]
  OBVIOUS
<1>4. SameMarks(next, Act)
  BY <1>1, <1>3, LoadLeft
<1>5. PICK calls : calls = acts
  OBVIOUS
<1>6. UNCHANGED database \/ \E clause : database' = Append(database, clause)
  BY DEF LoadClause
<1>7. PICK n \in Nat : n = Len(database)
  BY KeepTyped
<1>8. OnlyMore /\ Len(database') \in Nat
  <2>1. CASE UNCHANGED database
    <3>1. Len(database') = n /\ Clauses' = Clauses /\ n >= n
      BY <1>7, <2>1 DEF Clauses
    <3> QED BY <1>1, <1>7, <3>1 DEF OnlyMore
  <2>2. ASSUME NEW clause, database' = Append(database, clause)
        PROVE  OnlyMore /\ Len(database') \in Nat
    <3>1. database \in Seq(Clause(Cells))
      BY KeepTyped DEF StoreInv, DatabaseOK
    <3>2. Len(database') = n + 1
      BY <1>7, <2>2, <3>1
    <3> QED BY <1>1, <1>7, <3>2 DEF OnlyMore
  <2> QED BY <1>6, <2>1, <2>2
<1>9. AllJudged(calls)'
  <2>1. ~Plain(Act)
    BY <1>1 DEF Plain
  <2> QED BY <1>5, <1>8, <2>1, StillMarked
<1> QED BY <1>1, <1>2, <1>3, <1>4, <1>5, <1>9, RunsOn

LEMMA EndLoadKeeps == ASSUME KeepInv, EndLoad PROVE Proper(acts') /\ AllJudged(acts)'
<1>1. acts # << >> /\ Act.kind = "load" /\ QuietFlags
  BY DEF EndLoad, QuietFlags, flags
<1>2. PICK calls : calls = acts
  OBVIOUS
<1>3. AllJudged(calls)'
  BY <1>1, <1>2, QuietMarked
<1>4. PICK below : below = Front(acts)
  OBVIOUS
<1>5. Stack(acts, Cells) /\ Proper(acts)
  BY KeepTyped
<1>6. /\ Stack(below, Cells) /\ Proper(below) /\ AllJudged(below)'
      /\ below # << >> => Last(below).kind = "query"
  <2>1. /\ Stack(below, Cells)
        /\ below # << >> => Last(below).kind # "load"
    BY <1>1, <1>4, <1>5, StackPop DEF Act
  <2>2. below # << >> => Last(below) \in QueryActs(Cells) \cup LoadActs
    BY <2>1, FrontAndLast DEF Stack
  <2>3. Proper(below) /\ AllJudged(below)'
    BY <1>1, <1>2, <1>3, <1>4, <1>5, ProperPop
  <2> QED BY <2>1, <2>2, <2>3 DEF QueryActs, LoadActs
<1>7. PICK r : r = acts'
  OBVIOUS
<1>8. r = Return(below, ~Act.stop)
  BY <1>4, <1>7 DEF EndLoad, Callers
<1>9. CASE below = << >>
  <2>1. acts' = << >>
    BY <1>7, <1>8, <1>9 DEF Return
  <2> QED BY <2>1 DEF Proper, AllJudged
<1>10. CASE below # << >>
  <2>1. Proper(r) /\ AllJudged(r)'
    BY <1>6, <1>8, <1>10, ReturnKeeps
  <2> QED BY <1>7, <2>1, MarkedNow
<1> QED BY <1>9, <1>10

-----------------------------------------------------------------------------
(* Every step                                                              *)

LEMMA GivesBack == KeepInv => GivesBackUnused
<1> SUFFICES ASSUME KeepInv, InQuery("end"), seems_unchanged PROVE NamedBelow(Act.string_mark)
  BY DEF GivesBackUnused
<1>1. PICK m \in Nat \ {0} : m = Len(acts) /\ m \in DOMAIN acts /\ Act = acts[m]
                             /\ acts[m].kind = "query"
  BY KeepTyped DEF Stack, InQuery, Act, Last
<1>2. Judged(Act)
  BY <1>1, QueryAt
<1>3. ClausesBelow(Act.string_mark) /\ OpsBelow(Act.string_mark)
  BY <1>2 DEF Judged, seems_unchanged
<1> QED BY <1>3 DEF ClausesBelow, OpsBelow, NamedBelow

LEMMA NoMakeHere == KeepInv => NoOpsLost
BY OnItsOwn DEF NoOpsLost

LEMMA UnconsultUnedited == ASSUME KeepInv, Unconsult PROVE Unedited'
<1>1. CASE UNCHANGED make_files
  BY <1>1, KeepTyped DEF Unedited
<1>2. CASE ~UNCHANGED make_files
  <2>1. PICK known : known = IndexOf(Goal.files[1])
    OBVIOUS
  <2>2. known # {} /\ make_files' = RemoveAt(make_files, Min(known))
    BY <1>2, <2>1 DEF Unconsult
  <2>3. PICK n \in Nat : n = Len(make_files)
    BY KeepTyped, FilesTyped
  <2>4. make_files \in Seq(Tracked) /\ DOMAIN make_files = 1 .. n
    BY <2>3, KeepTyped, FilesTyped
  <2>5. known \subseteq 1 .. n /\ known \subseteq Nat
    BY <2>1, <2>4 DEF IndexOf
  <2>6. PICK i \in 1 .. n : i = Min(known)
    BY <2>2, <2>5, MinOfNats
  <2>7. /\ Len(make_files') = n - 1 /\ make_files' \in Seq(Tracked)
        /\ \A k \in 1 .. n - 1 :
             make_files'[k] = IF k < i THEN make_files[k] ELSE make_files[k + 1]
    <3>1. IsRemoved(Tracked, make_files, i, make_files')
      BY <2>2, <2>3, <2>4, <2>6, RemovedElements
    <3> QED BY <2>3, <3>1 DEF IsRemoved
  <2>8. ASSUME NEW k \in DOMAIN make_files' PROVE make_files'[k].mtime = 1
    <3>1. k \in 1 .. n - 1 /\ k \in 1 .. n /\ k + 1 \in 1 .. n
      BY <2>7
    <3>2. make_files[k].mtime = 1 /\ make_files[k + 1].mtime = 1
      BY <2>4, <3>1, KeepTyped DEF Unedited
    <3> QED BY <2>7, <3>1, <3>2
  <2> QED BY <2>8 DEF Unedited
<1> QED BY <1>1, <1>2

LEMMA KeepNext ==
  ASSUME CoreStays, LoadsAdd, KeepInv, [Next]_vars PROVE KeepInv'
<1> USE KeepTyped
<1>1. ReadInv'
  BY ReadNext, GivesBack, NoMakeHere
<1>2. StoreInv'
  BY NextTyped
<1> SUFFICES Proper(acts') /\ AllJudged(acts)' /\ (Unedited' \/ UNCHANGED make_files)
  BY <1>1 DEF KeepInv, Unedited
<1>3. CASE Solution \/ Assertz \/ Asserta \/ Retract \/ Retractall \/ Abolish
           \/ Dynamic \/ Op
  <2>1. UNCHANGED make_files
    BY <1>3 DEF Solution, Assertz, Asserta, AssertClause, Retract, Retractall, Abolish,
       Dynamic, Op, loading
  <2> QED BY <1>2, <1>3, <2>1, QuietGoalKeeps, AssertKeeps, RemovalKeeps DEF Assertz, Asserta
<1>4. CASE Backtrack \/ Call \/ EndQuery \/ LoadDirective
  <2>1. UNCHANGED make_files
    BY <1>4 DEF Backtrack, Call, EndQuery, LoadDirective, EnterQuery, loading
  <2> QED BY <1>4, <2>1, BacktrackKeeps, CallKeeps, EndQueryLeaves, DirectiveKeeps, GivesBack
<1>5. CASE LoadClause \/ EndLoad
  <2>1. UNCHANGED make_files
    BY <1>5 DEF LoadClause, EndLoad, loading
  <2> QED BY <1>2, <1>5, <2>1, LoadClauseKeeps, EndLoadKeeps
<1>6. CASE LoadNext
  BY <1>6, LoadNextKeeps
<1>7. CASE Make
  BY <1>7, OnItsOwn DEF Make
<1>8. CASE Unconsult
  BY <1>2, <1>8, RemovalKeeps, UnconsultUnedited
<1>9. CASE \E goals \in Queries : Query(goals)
  <2>1. PICK goals \in Queries : Query(goals)
    BY <1>9
  <2>2. UNCHANGED make_files
    BY <2>1 DEF Query, EnterQuery, loading
  <2> QED BY <2>1, <2>2, QueryKeeps
<1>10. CASE (\E f \in Files : Edit(f)) \/ UNCHANGED vars
  <2>1. UNCHANGED <<acts, make_files>> /\ QuietFlags
    BY <1>10 DEF Edit, vars, loading, flags, QuietFlags
  <2>2. PICK calls : calls = acts
    OBVIOUS
  <2>3. AllJudged(calls)'
    BY <2>1, <2>2, QuietMarked
  <2>4. Proper(acts') /\ AllJudged(acts)'
    BY <2>1, <2>2, <2>3, MarkedNow
  <2> QED BY <2>1, <2>4
<1> QED BY <1>3, <1>4, <1>5, <1>6, <1>7, <1>8, <1>9, <1>10 DEF Next, Step

LEMMA KeepInit == CoreStays /\ LoadsAdd /\ Init => KeepInv
<1> SUFFICES ASSUME CoreStays, LoadsAdd, Init PROVE KeepInv
  OBVIOUS
<1>1. ReadInv
  BY ReadInit
<1>2. PICK load : load = [kind |-> "load", file |-> Core, items |-> Text(Core).items,
                          stop |-> FALSE]
  OBVIOUS
<1>3. acts = <<load>> /\ load.kind = "load" /\ load.items = Text(Core).items
  BY <1>2 DEF Init
<1>4. AddsOnly(load.items)
  <2>1. disk[Core] \in DOMAIN Versions[Core] /\ Core \in Files
    BY <1>1, StoreAssumption DEF ReadInv, OwnersInv, StoreInv, DiskOK
  <2> QED BY <1>3, <2>1 DEF LoadsAdd, Text
<1>5. DOMAIN acts = {1} /\ Len(acts) = 1 /\ acts[1] = load
  BY <1>3
<1>6. Proper(acts) /\ AllJudged(acts)
  BY <1>3, <1>4, <1>5 DEF Proper, Meek, AllJudged
<1>7. Unedited
  <2>1. DOMAIN make_files = {1} /\ make_files[1].mtime = 1
    BY DEF Init
  <2> QED BY <2>1 DEF Unedited
<1> QED BY <1>1, <1>6, <1>7 DEF KeepInv

\* As long as no file is edited, and whatever loads files only adds clauses and
\* defines no operators (LoadsAdd), no query gives back a name that a clause or
\* an operator still has, however its goals, its files and their directives are
\* nested.
THEOREM NothingUsedIsGivenBack == CoreStays => (Spec => []UsedNamesKept)
<1> SUFFICES ASSUME CoreStays PROVE Spec => []UsedNamesKept
  OBVIOUS
<1>1. CASE LoadsAdd
  <2>1. Init => KeepInv
    BY <1>1, KeepInit
  <2>2. KeepInv /\ [Next]_vars => KeepInv'
    BY <1>1, KeepNext
  <2>3. KeepInv => UsedNamesKept
    BY GivesBack DEF UsedNamesKept
  <2> QED BY <2>1, <2>2, <2>3, PTL DEF Spec
<1>2. CASE ~LoadsAdd
  <2>1. UsedNamesKept
    BY <1>2 DEF UsedNamesKept
  <2>2. []UsedNamesKept
    BY <2>1, PTL
  <2> QED BY <2>2
<1> QED BY <1>1, <1>2

\* make/0 is not asked for, so it gives back no operator's name either.
LEMMA NoOperatorIsLost ==
  CoreStays /\ LoadsAdd => (Spec => []NoOpsLost)
<1> SUFFICES ASSUME CoreStays, LoadsAdd PROVE Spec => []NoOpsLost
  OBVIOUS
<1>1. Init => KeepInv
  BY KeepInit
<1>2. KeepInv /\ [Next]_vars => KeepInv'
  BY KeepNext
<1> QED BY <1>1, <1>2, NoMakeHere, PTL DEF Spec

\* Then the store is a ClauseStore, its operators stay, its static clauses come
\* and go with files only, and no clause is left without an owner.
COROLLARY WhereLoadsAdd ==
  CoreStays /\ LoadsAdd =>
    (Spec => /\ ImplementsStore /\ OperatorsStay
             /\ StaticProtected
             /\ RoomForAll /\ NothingAfterLoads => []NoOrphans)
<1> SUFFICES ASSUME CoreStays, LoadsAdd
             PROVE  Spec => /\ ImplementsStore /\ OperatorsStay
                            /\ StaticProtected
                            /\ RoomForAll /\ NothingAfterLoads => []NoOrphans
  OBVIOUS
<1>1. MakeAlone
  BY DEF LoadsAdd, AddsOnly, Adds, MakeAlone, Harmless, NoMake
<1>2. Spec => []GivesBackUnused /\ []NoOpsLost
  <2>1. Spec => []UsedNamesKept
    BY NothingUsedIsGivenBack
  <2>2. UsedNamesKept => GivesBackUnused
    BY DEF UsedNamesKept
  <2> QED BY <2>1, <2>2, NoOperatorIsLost, PTL
<1>3. Spec /\ []GivesBackUnused /\ []NoOpsLost => ImplementsStore /\ OperatorsStay
  BY StoreIsAClauseStore, OperatorsAreNotLost
<1>4. Spec /\ []GivesBackUnused /\ []NoOpsLost => StaticProtected
  BY GoalsLeaveStaticClauses
<1>5. RoomForAll /\ NothingAfterLoads /\ Spec /\ []GivesBackUnused /\ []NoOpsLost
        => []NoOrphans
  BY <1>1, ClausesAreOwned
<1> QED BY <1>2, <1>3, <1>4, <1>5
=============================================================================
