--------------------------- MODULE OperatorsProof ----------------------------
(***************************************************************************)
(* Operators: op/3 defines what it says and nothing else, for every table, *)
(* every number of entries and every list of calls; and the arithmetic of  *)
(* two integers is exact or says why it cannot be, for every width of an   *)
(* int.                                                                    *)
(***************************************************************************)
EXTENDS OpTable, Arith, InductionLemmas, SequenceTheorems

-----------------------------------------------------------------------------
(* The names of operators                                                  *)

Named(calls) == UNION {Range(call.names) : call \in calls}
PostfixNames == Named({call \in OpCalls : call.assoc \in PostfixAssoc})
OtherNames == {e.name : e \in Range(default_ops)}
              \cup Named({call \in OpCalls : call.assoc \notin PostfixAssoc})

\* No name is a postfix operator and also another.  Without this do_op() takes
\* the postfix entry of a name for its infix or prefix one (SameClass).
PostfixAlone == PostfixNames \cap OtherNames = {}

Kinds == {InfixAssoc, PrefixAssoc}
Names == PostfixNames \cup OtherNames
Fits(name, assoc) == name \in Names /\ (name \in PostfixNames) = (assoc \in PostfixAssoc)
Entries == {e \in [name : Names, priority : Nat, assoc : Assocs] : Fits(e.name, e.assoc)}

\* One entry for a name and a class.
Tables == {t \in Seq(Entries) :
             \A i, j \in 1 .. Len(t) :
               /\ t[i].name = t[j].name
               /\ (t[i].assoc \in InfixAssoc) = (t[j].assoc \in InfixAssoc)
               => i = j}

-----------------------------------------------------------------------------
(* One table                                                               *)

LEMMA EntryAt ==
  ASSUME NEW t \in Tables, NEW i \in 1 .. Len(t)
  PROVE  /\ t[i] \in Entries /\ t[i].name \in Names /\ t[i].priority \in Nat
         /\ t[i].assoc \in Assocs /\ Fits(t[i].name, t[i].assoc)
BY DEF Tables, Entries

\* What the first entry of a name in a class says is what it means.
LEMMA DefinitionAt ==
  ASSUME NEW t \in Tables, NEW class \in Kinds, NEW i \in 1 .. Len(t),
         t[i].assoc \in class, NEW name, name = t[i].name
  PROVE  Definition(t, name, class) =
           IF t[i].priority = 0 THEN << 0 >> ELSE << t[i].priority, t[i].assoc >>
<1> DEFINE I == {j \in 1 .. Len(t) : t[j].priority # 0 /\ t[j].name = name /\ t[j].assoc \in class}
<1>1. ASSUME NEW j \in I PROVE j = i
  <2>1. (t[i].assoc \in InfixAssoc) = (t[j].assoc \in InfixAssoc)
    BY DEF Kinds, InfixAssoc, PrefixAssoc
  <2> QED BY <2>1 DEF Tables
<1>2. i \in Int /\ i # 0 /\ Len(t) \in Nat
  BY DEF Tables
<1>3. Lookup(t, name, class) = IF I # {} THEN Min(I) ELSE 0
  BY DEF Lookup, SelectInSeq
<1>4. CASE t[i].priority = 0
  <2>1. I = {}
    BY <1>1, <1>4
  <2> QED BY <1>3, <1>4, <2>1 DEF Definition
<1>5. CASE t[i].priority # 0
  <2>1. I = {i}
    BY <1>1, <1>5
  <2> HIDE DEF I
  <2>2. I \subseteq Nat /\ I # {}
    BY <1>2, <2>1
  <2>3. Min(I) = i
    BY <2>1, <2>2, MinOfNats
  <2> QED BY <1>2, <1>3, <1>5, <2>2, <2>3 DEF Definition
<1> QED BY <1>4, <1>5

LEMMA DefinitionNone ==
  ASSUME NEW t \in Tables, NEW class \in Kinds, NEW name,
         \A i \in 1 .. Len(t) : ~(t[i].name = name /\ t[i].assoc \in class)
  PROVE  Definition(t, name, class) = << 0 >>
<1> DEFINE I == {j \in 1 .. Len(t) : t[j].priority # 0 /\ t[j].name = name /\ t[j].assoc \in class}
<1>1. I = {}
  OBVIOUS
<1>2. Lookup(t, name, class) = IF I # {} THEN Min(I) ELSE 0
  BY DEF Lookup, SelectInSeq
<1> QED BY <1>1, <1>2 DEF Definition

\* Tables that agree on the entries of a name in a class agree on its meaning.
Has(t, i, name, class) == t[i].name = name /\ t[i].assoc \in class
Agree(t, u, name, class) ==
  /\ \A i \in 1 .. Len(t) : Has(t, i, name, class) => i \in 1 .. Len(u) /\ u[i] = t[i]
  /\ \A i \in 1 .. Len(u) : Has(u, i, name, class) => i \in 1 .. Len(t) /\ u[i] = t[i]

LEMMA SameDefinition ==
  ASSUME NEW t \in Tables, NEW u \in Tables, NEW class \in Kinds, NEW name,
         Agree(t, u, name, class)
  PROVE  Definition(u, name, class) = Definition(t, name, class)
<1>1. CASE \E i \in 1 .. Len(t) : t[i].name = name /\ t[i].assoc \in class
  <2>1. PICK i \in 1 .. Len(t) : t[i].name = name /\ t[i].assoc \in class
    BY <1>1
  <2>2. i \in 1 .. Len(u) /\ u[i] = t[i]
    BY <2>1 DEF Agree, Has
  <2>3. Definition(t, name, class) =
          IF t[i].priority = 0 THEN << 0 >> ELSE << t[i].priority, t[i].assoc >>
    BY <2>1, DefinitionAt
  <2>4. Definition(u, name, class) =
          IF u[i].priority = 0 THEN << 0 >> ELSE << u[i].priority, u[i].assoc >>
    BY <2>1, <2>2, DefinitionAt
  <2> QED BY <2>2, <2>3, <2>4
<1>2. CASE \A i \in 1 .. Len(t) : ~(t[i].name = name /\ t[i].assoc \in class)
  <2>1. \A i \in 1 .. Len(u) : ~(u[i].name = name /\ u[i].assoc \in class)
    BY <1>2 DEF Agree, Has
  <2> QED BY <1>2, <2>1, DefinitionNone
<1> QED BY <1>1, <1>2

LEMMA ClassOfEntry ==
  ASSUME NEW e \in Entries, NEW assoc \in Assocs, Fits(e.name, assoc)
  PROVE  SameClass(e, assoc) <=> ((e.assoc \in InfixAssoc) = (assoc \in InfixAssoc))
BY DEF SameClass, Entries, Fits, Assocs, InfixAssoc, PrefixAssoc, PostfixAssoc

LEMMA SameKind ==
  ASSUME NEW name, NEW a \in Assocs, NEW b \in Assocs, Fits(name, a), Fits(name, b),
         (a \in InfixAssoc) = (b \in InfixAssoc)
  PROVE  \A class \in Kinds : a \in class <=> b \in class
BY DEF Kinds, Fits, Assocs, InfixAssoc, PrefixAssoc, PostfixAssoc

LEMMA ClassIs ==
  ASSUME NEW assoc \in Assocs, NEW class \in Kinds
  PROVE  assoc \in class <=> class = Class(assoc)
BY DEF Class, Kinds, Assocs, InfixAssoc, PrefixAssoc, PostfixAssoc

-----------------------------------------------------------------------------
(* One name                                                                *)

\* Only the name's definition in the class differs.
OnlyThis(t, u, name, assoc) ==
  /\ u \in Tables
  /\ \A other : \A class \in Kinds :
       other # name \/ class # Class(assoc) =>
         Definition(u, other, class) = Definition(t, other, class)

NowIs(u, name, prio, assoc) ==
  assoc \notin PostfixAssoc =>
    Definition(u, name, Class(assoc)) = IF prio = 0 THEN << 0 >> ELSE << prio, assoc >>

LEMMA Unchanged ==
  ASSUME NEW t \in Tables, NEW name, NEW assoc
  PROVE  OnlyThis(t, t, name, assoc)
BY DEF OnlyThis

LEMMA PostfixOrKind ==
  ASSUME NEW assoc \in Assocs, assoc \notin PostfixAssoc
  PROVE  Class(assoc) \in Kinds /\ assoc \in Class(assoc)
BY DEF Class, Kinds, Assocs, InfixAssoc, PrefixAssoc, PostfixAssoc

\* The entry of the name in the class is written.
LEMMA Rewritten ==
  ASSUME NEW t \in Tables, NEW name, NEW assoc \in Assocs, Fits(name, assoc),
         NEW i \in 1 .. Len(t), t[i].name = name, SameClass(t[i], assoc),
         NEW e \in Entries, e.name = name, e.assoc \in {t[i].assoc, assoc},
         NEW u, u = [t EXCEPT ![i] = e]
  PROVE  /\ OnlyThis(t, u, name, assoc)
         /\ NowIs(u, name, e.priority, e.assoc)
         /\ Class(e.assoc) = Class(assoc)
         /\ e.assoc \in PostfixAssoc <=> assoc \in PostfixAssoc
<1>1. t[i] \in Entries /\ t[i].assoc \in Assocs /\ Fits(name, t[i].assoc)
  BY EntryAt
<1>2. (t[i].assoc \in InfixAssoc) = (assoc \in InfixAssoc)
  BY <1>1, ClassOfEntry
<1>3. (e.assoc \in InfixAssoc) = (assoc \in InfixAssoc)
      /\ e.assoc \in Assocs /\ Fits(name, e.assoc)
  BY <1>1, <1>2
<1>4. \A class \in Kinds : /\ e.assoc \in class <=> assoc \in class
                           /\ t[i].assoc \in class <=> assoc \in class
  BY <1>1, <1>2, <1>3, SameKind
<1>5. t \in Seq(Entries) /\ Len(t) \in Nat
  BY DEF Tables
<1>6. /\ u \in Seq(Entries) /\ Len(u) = Len(t) /\ u[i] = e
      /\ \A j \in 1 .. Len(t) : j # i => u[j] = t[j]
  BY <1>5
<1>7. ASSUME NEW j \in 1 .. Len(t)
      PROVE  /\ u[j].name = t[j].name
             /\ (u[j].assoc \in InfixAssoc) = (t[j].assoc \in InfixAssoc)
  <2>1. CASE j = i
    BY <1>2, <1>3, <1>6, <2>1
  <2>2. CASE j # i
    BY <1>6, <2>2
  <2> QED BY <2>1, <2>2
<1>8. u \in Tables
  <2> SUFFICES ASSUME NEW j \in 1 .. Len(u), NEW k \in 1 .. Len(u),
                      u[j].name = u[k].name,
                      (u[j].assoc \in InfixAssoc) = (u[k].assoc \in InfixAssoc)
               PROVE  j = k
    BY <1>6 DEF Tables
  <2>1. /\ t[j].name = t[k].name
        /\ (t[j].assoc \in InfixAssoc) = (t[k].assoc \in InfixAssoc)
    BY <1>6, <1>7
  <2> QED BY <1>6, <2>1 DEF Tables
<1>9. ASSUME NEW other, NEW class \in Kinds, other # name \/ class # Class(assoc)
      PROVE  Definition(u, other, class) = Definition(t, other, class)
  <2>1. ~(t[i].name = other /\ t[i].assoc \in class) /\ ~(e.name = other /\ e.assoc \in class)
    <3>1. other # name \/ assoc \notin class
      BY <1>9, ClassIs
    <3>2. /\ e.assoc \in class <=> assoc \in class
          /\ t[i].assoc \in class <=> assoc \in class
      BY <1>4, Zenon
    <3> QED BY <3>1, <3>2, Zenon
  <2>2. \A j \in 1 .. Len(t) : t[j].name = other /\ t[j].assoc \in class
          => j \in 1 .. Len(u) /\ u[j] = t[j]
    BY <1>6, <2>1
  <2>3. \A j \in 1 .. Len(u) : u[j].name = other /\ u[j].assoc \in class
          => j \in 1 .. Len(t) /\ u[j] = t[j]
    BY <1>6, <2>1
  <2>4. Agree(t, u, other, class)
    BY <2>2, <2>3 DEF Agree, Has
  <2> QED BY <1>8, <2>4, SameDefinition, Zenon
<1>10. OnlyThis(t, u, name, assoc)
  BY <1>8, <1>9 DEF OnlyThis
<1>11. NowIs(u, name, e.priority, e.assoc)
  <2> SUFFICES ASSUME e.assoc \notin PostfixAssoc
               PROVE  Definition(u, name, Class(e.assoc)) =
                        IF e.priority = 0 THEN << 0 >> ELSE << e.priority, e.assoc >>
    BY DEF NowIs
  <2>1. Class(e.assoc) \in Kinds /\ e.assoc \in Class(e.assoc)
    BY <1>3, PostfixOrKind
  <2>2. i \in 1 .. Len(u) /\ u[i].assoc = e.assoc /\ u[i].name = name /\ u[i].priority = e.priority
    BY <1>6
  <2>3. PICK class : class = Class(e.assoc)
    OBVIOUS
  <2>4. class \in Kinds /\ u[i].assoc \in class
    BY <2>1, <2>2, <2>3
  <2>5. Definition(u, name, class) =
          IF u[i].priority = 0 THEN << 0 >> ELSE << u[i].priority, u[i].assoc >>
    BY <1>8, <2>2, <2>4, DefinitionAt
  <2> QED BY <2>2, <2>3, <2>5, Zenon
<1>12. Class(e.assoc) = Class(assoc) /\ (e.assoc \in PostfixAssoc <=> assoc \in PostfixAssoc)
  <2>1. e.assoc \in PostfixAssoc <=> assoc \in PostfixAssoc
    BY <1>3 DEF Fits
  <2> QED BY <1>3, <2>1 DEF Class, Assocs, InfixAssoc, PrefixAssoc, PostfixAssoc
<1> QED BY <1>10, <1>11, <1>12

\* A name without an entry in the class gets one.
LEMMA Added ==
  ASSUME NEW t \in Tables, NEW name, NEW assoc \in Assocs, Fits(name, assoc),
         \A i \in 1 .. Len(t) : ~(t[i].name = name /\ SameClass(t[i], assoc)),
         NEW e \in Entries, e.name = name, e.assoc = assoc,
         NEW u, u = Append(t, e)
  PROVE  OnlyThis(t, u, name, assoc) /\ NowIs(u, name, e.priority, assoc)
<1>1. t \in Seq(Entries) /\ Len(t) \in Nat
  BY DEF Tables
<1> DEFINE n == Len(t) + 1
<1>2. /\ u \in Seq(Entries) /\ Len(u) = n /\ u[n] = e /\ n \in Nat \ {0}
      /\ \A j \in 1 .. Len(t) : u[j] = t[j]
  BY <1>1
<1>3. ASSUME NEW j \in 1 .. Len(t), t[j].name = name
      PROVE  (t[j].assoc \in InfixAssoc) # (assoc \in InfixAssoc)
  <2>1. t[j] \in Entries
    BY EntryAt
  <2> QED BY <1>3, <2>1, ClassOfEntry
<1>4. \A j \in 1 .. Len(u) : j = n \/ j \in 1 .. Len(t)
  BY <1>1, <1>2
<1> HIDE DEF n
<1>5. u \in Tables
  <2> SUFFICES ASSUME NEW j \in 1 .. Len(u), NEW k \in 1 .. Len(u),
                      u[j].name = u[k].name,
                      (u[j].assoc \in InfixAssoc) = (u[k].assoc \in InfixAssoc)
               PROVE  j = k
    BY <1>2 DEF Tables
  <2>1. CASE j \in 1 .. Len(t) /\ k \in 1 .. Len(t)
    BY <1>2, <2>1 DEF Tables
  <2>2. CASE j = n /\ k \in 1 .. Len(t)
    BY <1>2, <1>3, <2>2
  <2>3. CASE k = n /\ j \in 1 .. Len(t)
    BY <1>2, <1>3, <2>3
  <2> QED BY <1>4, <2>1, <2>2, <2>3
<1>6. ASSUME NEW other, NEW class \in Kinds, other # name \/ class # Class(assoc)
      PROVE  Definition(u, other, class) = Definition(t, other, class)
  <2>1. ~(e.name = other /\ e.assoc \in class)
    BY <1>6, ClassIs
  <2>2. \A j \in 1 .. Len(t) : j \in 1 .. Len(u)
    BY <1>1, <1>2 DEF n
  <2>3. \A j \in 1 .. Len(u) : u[j].name = other /\ u[j].assoc \in class
          => j \in 1 .. Len(t) /\ u[j] = t[j]
    BY <1>2, <1>4, <2>1
  <2>4. Agree(t, u, other, class)
    BY <1>2, <2>2, <2>3 DEF Agree, Has
  <2> QED BY <1>5, <2>4, SameDefinition, Zenon
<1>7. NowIs(u, name, e.priority, assoc)
  <2> SUFFICES ASSUME assoc \notin PostfixAssoc
               PROVE  Definition(u, name, Class(assoc)) =
                        IF e.priority = 0 THEN << 0 >> ELSE << e.priority, assoc >>
    BY DEF NowIs
  <2>1. Class(assoc) \in Kinds /\ assoc \in Class(assoc)
    BY PostfixOrKind
  <2>2. n \in 1 .. Len(u) /\ u[n].assoc = assoc /\ u[n].name = name /\ u[n].priority = e.priority
    BY <1>2
  <2>3. PICK class : class = Class(assoc)
    OBVIOUS
  <2>4. class \in Kinds /\ u[n].assoc \in class
    BY <2>1, <2>2, <2>3
  <2>5. Definition(u, name, class) =
          IF u[n].priority = 0 THEN << 0 >> ELSE << u[n].priority, u[n].assoc >>
    BY <1>5, <2>2, <2>4, DefinitionAt
  <2> QED BY <2>2, <2>3, <2>5, Zenon
<1> QED BY <1>5, <1>6, <1>7 DEF OnlyThis

Results == {"ok", "permission_error", "full"}

Answers(a, t, prio, assoc, name) ==
  /\ OnlyThis(t, a.table, name, assoc)
  /\ a.result = "ok" => NowIs(a.table, name, prio, assoc)
  /\ \E result \in Results : \E u : a = Answer(result, u)

LEMMA SmallestNotZero ==
  ASSUME NEW T, T \subseteq Nat, T # {}, 0 \notin T PROVE Min(T) # 0
<1>1. Min(T) \in T
  BY MinOfNats
<1> QED BY <1>1

\* do_op() defines the name in the class, or leaves the table as it is.
LEMMA OneName ==
  ASSUME NEW t \in Tables, NEW prio, prio \in 0 .. 1200, NEW name, NEW assoc \in Assocs,
         Fits(name, assoc), NEW a, a = do_op(prio, assoc, name, t)
  PROVE  Answers(a, t, prio, assoc, name)
<1> DEFINE I == {j \in 1 .. Len(t) : t[j].name = name /\ SameClass(t[j], assoc)}
           W(i) == [t EXCEPT ![i] = IF prio = 0 THEN [@ EXCEPT !.priority = 0]
                                    ELSE Entry(name, prio, assoc)]
<1>1. Len(t) \in Nat /\ t \in Seq(Entries)
  BY DEF Tables
<1>2. PICK i : i = IF I # {} THEN Min(I) ELSE 0
  OBVIOUS
<1> DEFINE Right == /\ OnlyThis(t, a.table, name, assoc)
                    /\ a.result = "ok" => NowIs(a.table, name, prio, assoc)
<1> DEFINE Bar == /\ name = "|" /\ prio # 0
                  /\ assoc \notin InfixAssoc \/ prio < 1001
<1>3. a = CASE Bar -> Answer("permission_error", t)
            [] ~ Bar /\ i # 0 -> Answer("ok", W(i))
            [] ~ Bar /\ i = 0 /\ prio = 0 -> Answer("ok", t)
            [] ~ Bar /\ i = 0 /\ prio # 0 ->
                 IF Len(t) >= MAX_OPS THEN Answer("full", t)
                 ELSE Answer("ok", Append(t, Entry(name, prio, assoc)))
  BY <1>2 DEF do_op, SelectInSeq
<1>4. ASSUME a.table = t /\ a.result # "ok" PROVE Right
  BY <1>4, Unchanged
<1>5. ASSUME i # 0 /\ a = Answer("ok", W(i)) PROVE Right
  <2>1. i \in I
    <3>1. I \subseteq Nat /\ I # {} /\ i = Min(I)
      BY <1>2, <1>5
    <3> HIDE DEF I
    <3> QED BY <3>1, MinOfNats
  <2>2. t[i] \in Entries /\ i \in 1 .. Len(t)
    BY <2>1, EntryAt
  <2>3. PICK e : e = IF prio = 0 THEN [t[i] EXCEPT !.priority = 0] ELSE Entry(name, prio, assoc)
    OBVIOUS
  <2>4. e \in Entries /\ e.name = name /\ e.priority = prio /\ e.assoc \in {t[i].assoc, assoc}
        /\ (prio # 0 => e.assoc = assoc)
    <3>1. CASE prio = 0
      <4>1. e = [t[i] EXCEPT !.priority = 0]
        BY <2>3, <3>1
      <4>2. /\ t[i] \in [name : Names, priority : Nat, assoc : Assocs]
            /\ t[i].name = name /\ Fits(t[i].name, t[i].assoc)
        BY <2>1, <2>2 DEF Entries
      <4>3. /\ e \in [name : Names, priority : Nat, assoc : Assocs]
            /\ e.name = t[i].name /\ e.priority = 0 /\ e.assoc = t[i].assoc
        BY <4>1, <4>2
      <4> QED BY <3>1, <4>2, <4>3 DEF Entries
    <3>2. CASE prio # 0
      <4>1. e = [name |-> name, priority |-> prio, assoc |-> assoc]
        BY <2>3, <3>2 DEF Entry
      <4>2. name \in Names /\ prio \in Nat
        BY DEF Fits
      <4> QED BY <3>2, <4>1, <4>2 DEF Entries
    <3> QED BY <3>1, <3>2
  <2>5. a.result = "ok" /\ a.table = [t EXCEPT ![i] = e]
    BY <1>5, <2>3 DEF Answer
  <2>6. /\ OnlyThis(t, a.table, name, assoc)
        /\ NowIs(a.table, name, e.priority, e.assoc)
        /\ Class(e.assoc) = Class(assoc)
        /\ e.assoc \in PostfixAssoc <=> assoc \in PostfixAssoc
    BY <2>1, <2>2, <2>4, <2>5, Rewritten
  <2>7. NowIs(a.table, name, prio, assoc)
    BY <2>4, <2>6 DEF NowIs
  <2> QED BY <2>6, <2>7
<1>6. ASSUME i = 0 PROVE \A j \in 1 .. Len(t) : ~(t[j].name = name /\ SameClass(t[j], assoc))
  <2>1. I = {}
    <3> SUFFICES ASSUME I # {} PROVE FALSE
      OBVIOUS
    <3>1. I \subseteq Nat /\ i = Min(I) /\ 0 \notin I
      BY <1>2
    <3>2. PICK T : T = I
      OBVIOUS
    <3> HIDE DEF I
    <3>3. T \subseteq Nat /\ T # {} /\ 0 \notin T
      BY <3>1, <3>2
    <3>4. Min(T) # 0
      BY <3>3, SmallestNotZero
    <3> QED BY <1>6, <3>1, <3>2, <3>4
  <2> QED BY <2>1
<1>7. ASSUME i = 0 /\ prio = 0 /\ a = Answer("ok", t) PROVE Right
  <2>1. a.table = t
    BY <1>7 DEF Answer
  <2>2. ASSUME assoc \notin PostfixAssoc PROVE Definition(t, name, Class(assoc)) = << 0 >>
    <3>1. Class(assoc) \in Kinds
      BY <2>2, PostfixOrKind
    <3>2. ASSUME NEW j \in 1 .. Len(t), t[j].name = name, t[j].assoc \in Class(assoc) PROVE FALSE
      <4>1. t[j] \in Entries
        BY EntryAt
      <4>2. t[j].assoc \in InfixAssoc <=> assoc \in InfixAssoc
        BY <3>2 DEF Class, InfixAssoc, PrefixAssoc, PostfixAssoc
      <4> QED BY <1>6, <1>7, <3>2, <4>2 DEF SameClass
    <3> QED BY <3>1, <3>2, DefinitionNone
  <2> QED BY <1>7, <2>1, <2>2, Unchanged DEF NowIs
<1>8. ASSUME i = 0 /\ prio # 0 /\ a = Answer("ok", Append(t, Entry(name, prio, assoc))) PROVE Right
  <2>1. PICK e : e = Entry(name, prio, assoc)
    OBVIOUS
  <2>2. e \in Entries /\ e.name = name /\ e.assoc = assoc /\ e.priority = prio
    BY <2>1 DEF Entry, Entries, Fits
  <2>3. a.table = Append(t, e)
    BY <1>8, <2>1 DEF Answer
  <2> QED BY <1>6, <1>8, <2>2, <2>3, Added
<1>9. ASSUME a \in {Answer("permission_error", t), Answer("full", t)} PROVE Right
  BY <1>4, <1>9 DEF Answer
<1> HIDE DEF I, W, Bar
<1>10. \/ a \in {Answer("permission_error", t), Answer("full", t)}
       \/ i # 0 /\ a = Answer("ok", W(i))
       \/ i = 0 /\ prio = 0 /\ a = Answer("ok", t)
       \/ i = 0 /\ prio # 0 /\ a = Answer("ok", Append(t, Entry(name, prio, assoc)))
  <2>1. CASE Bar
    BY <1>3, <2>1
  <2>2. CASE ~ Bar /\ i # 0
    BY <1>3, <2>2
  <2>3. CASE ~ Bar /\ i = 0 /\ prio = 0
    BY <1>3, <2>3
  <2>4. CASE ~ Bar /\ i = 0 /\ prio # 0 /\ Len(t) >= MAX_OPS
    BY <1>3, <2>4
  <2>5. CASE ~ Bar /\ i = 0 /\ prio # 0 /\ ~(Len(t) >= MAX_OPS)
    BY <1>3, <2>5
  <2> QED BY <2>1, <2>2, <2>3, <2>4, <2>5
<1>11. \E result \in Results : \E u : a = Answer(result, u)
  BY <1>10 DEF Results
<1> QED BY <1>5, <1>7, <1>8, <1>9, <1>10, <1>11 DEF Answers

-----------------------------------------------------------------------------
(* A call                                                                  *)

LEMMA CallFits ==
  ASSUME PostfixAlone, NEW call \in OpCalls, NEW k \in 1 .. Len(call.names)
  PROVE  Fits(call.names[k], call.assoc)
<1>1. k \in DOMAIN call.names
  BY OpTableAssumption
<1>2. call.names[k] \in Range(call.names)
  BY <1>1 DEF Range
<1>3. CASE call.assoc \in PostfixAssoc
  <2>1. call.names[k] \in PostfixNames
    BY <1>2, <1>3 DEF PostfixNames, Named
  <2> QED BY <1>3, <2>1 DEF Fits, Names
<1>4. CASE call.assoc \notin PostfixAssoc
  <2>1. call.names[k] \in OtherNames
    BY <1>2, <1>4 DEF OtherNames, Named
  <2> QED BY <1>4, <2>1 DEF Fits, Names, PostfixAlone
<1> QED BY <1>3, <1>4

\* What the first k names of a call have made of a table.
AfterNames(call, k, t, d) ==
  /\ d \in [result : Results, table : Tables]
  /\ \A name : \A class \in Kinds :
       name \notin Range(call.names) \/ class # Class(call.assoc) =>
         Definition(d.table, name, class) = Definition(t, name, class)
  /\ d.result = "ok" => \A j \in 1 .. k : NowIs(d.table, call.names[j], call.prio, call.assoc)

OneMoreName(call, k, d) ==
  IF d.result # "ok" THEN d
  ELSE IF op_name_valid(call.names[k])
       THEN do_op(call.prio, call.assoc, call.names[k], d.table)
       ELSE Answer("permission_error", d.table)

LEMMA NameByName ==
  ASSUME PostfixAlone, NEW call \in OpCalls, call.prio \in 0 .. 1200,
         call.assoc \in Assocs, NEW k \in 1 .. Len(call.names), NEW t \in Tables,
         NEW d, AfterNames(call, k - 1, t, d)
  PROVE  AfterNames(call, k, t, OneMoreName(call, k, d))
<1> DEFINE e == OneMoreName(call, k, d)
           name == call.names[k]
<1>1. /\ d \in [result : Results, table : Tables] /\ d.table \in Tables /\ d.result \in Results
      /\ \A n : \A class \in Kinds :
           n \notin Range(call.names) \/ class # Class(call.assoc) =>
             Definition(d.table, n, class) = Definition(t, n, class)
      /\ d.result = "ok" => \A j \in 1 .. k - 1 : NowIs(d.table, call.names[j], call.prio, call.assoc)
  BY DEF AfterNames
<1>2. CASE d.result # "ok"
  BY <1>1, <1>2 DEF AfterNames, OneMoreName
<1>3. CASE d.result = "ok" /\ ~ op_name_valid(name)
  <2>1. e = Answer("permission_error", d.table)
    BY <1>3 DEF OneMoreName
  <2>2. e \in [result : Results, table : Tables] /\ e.table = d.table /\ e.result # "ok"
    BY <1>1, <2>1 DEF Answer, Results
  <2> QED BY <1>1, <2>2 DEF AfterNames
<1>4. CASE d.result = "ok" /\ op_name_valid(name)
  <2>1. e = do_op(call.prio, call.assoc, name, d.table)
    BY <1>4 DEF OneMoreName
  <2>2. Fits(name, call.assoc)
    BY CallFits
  <2> HIDE DEF e, name
  <2>3. /\ OnlyThis(d.table, e.table, name, call.assoc)
        /\ e.result = "ok" => NowIs(e.table, name, call.prio, call.assoc)
        /\ \E result \in Results : \E u : e = Answer(result, u)
    <3>1. Answers(e, d.table, call.prio, call.assoc, name)
      BY <1>1, <2>1, <2>2, OneName
    <3> QED BY <3>1 DEF Answers
  <2>4. e \in [result : Results, table : Tables]
    BY <2>3 DEF Answer, OnlyThis
  <2>5. name \in Range(call.names)
    BY OpTableAssumption DEF Range, name
  <2>6. ASSUME NEW n, NEW class \in Kinds, n \notin Range(call.names) \/ class # Class(call.assoc)
        PROVE  Definition(e.table, n, class) = Definition(t, n, class)
    BY <1>1, <2>3, <2>5, <2>6 DEF OnlyThis
  <2>7. ASSUME e.result = "ok", NEW j \in 1 .. k
        PROVE  NowIs(e.table, call.names[j], call.prio, call.assoc)
    <3>1. CASE call.names[j] = name
      BY <2>3, <2>7, <3>1
    <3>2. CASE call.names[j] # name
      <4>1. j \in 1 .. k - 1
        BY <3>2 DEF name
      <4>2. NowIs(d.table, call.names[j], call.prio, call.assoc)
        BY <1>1, <1>4, <4>1
      <4>3. ASSUME call.assoc \notin PostfixAssoc
            PROVE  Definition(e.table, call.names[j], Class(call.assoc)) =
                     Definition(d.table, call.names[j], Class(call.assoc))
        <5>1. Class(call.assoc) \in Kinds
          BY <4>3, PostfixOrKind
        <5> QED BY <2>3, <3>2, <5>1 DEF OnlyThis
      <4> QED BY <4>2, <4>3 DEF NowIs
    <3> QED BY <3>1, <3>2
  <2>8. AfterNames(call, k, t, e)
    BY <2>4, <2>6, <2>7 DEF AfterNames
  <2> QED BY <2>8 DEF e
<1> QED BY <1>2, <1>3, <1>4

LEMMA WholeCall ==
  ASSUME PostfixAlone, op_table \in Tables, NEW call \in OpCalls,
         NEW a, a = builtin_op(call)
  PROVE  /\ a.table \in Tables
         /\ \A name : \A class \in Kinds :
              name \notin Range(call.names) \/ class # Class(call.assoc) =>
                Definition(a.table, name, class) = Definition(op_table, name, class)
         /\ a.result = "ok" /\ call.assoc \notin PostfixAssoc => DefinesIts(call, a.table)
<1> DEFINE n == Len(call.names)
           base == Answer("ok", op_table)
           Step(d, k) == IF d.result # "ok" THEN d
                         ELSE IF op_name_valid(call.names[k])
                              THEN do_op(call.prio, call.assoc, call.names[k], d.table)
                              ELSE Answer("permission_error", d.table)
           All == [result : Results, table : Tables]
           T == [k \in 0 .. n |-> {d \in All : AfterNames(call, k, op_table, d)}]
           step == [k \in 1 .. n |-> [d \in All |-> Step(d, k)]]
<1>1. n \in Nat /\ n = Len(call.names) /\ DOMAIN call.names = 1 .. n
  BY OpTableAssumption
<1>2. CASE call.prio \notin 0 .. 1200 \/ call.assoc \notin Assocs
  <2>1. a = Answer("error", op_table)
    BY <1>2 DEF builtin_op
  <2>2. a.table = op_table /\ a.result # "ok"
    BY <2>1 DEF Answer
  <2> QED BY <2>2
<1>3. CASE call.prio \in 0 .. 1200 /\ call.assoc \in Assocs
  <2> HIDE DEF n
  <2>1. base \in All /\ AfterNames(call, 0, op_table, base)
    BY DEF Answer, AfterNames, Results
  <2>2. ASSUME NEW k \in 1 .. n, NEW d \in T[k - 1]
        PROVE  Step(d, k) \in T[k]
    <3>1. k - 1 \in 0 .. n /\ k \in 0 .. n
      BY <1>1
    <3>2. AfterNames(call, k - 1, op_table, d)
      BY <3>1
    <3>3. AfterNames(call, k, op_table, Step(d, k))
      <4> HIDE DEF T
      <4>1. AfterNames(call, k, op_table, OneMoreName(call, k, d))
        BY <1>1, <1>3, <3>2, NameByName
      <4> QED BY <4>1 DEF OneMoreName
    <3>4. Step(d, k) \in All
      BY <3>3 DEF AfterNames
    <3> HIDE DEF Step, All
    <3> QED BY <3>1, <3>3, <3>4
  <2>3. T[0] = {d \in All : AfterNames(call, 0, op_table, d)}
    BY <1>1
  <2>4. base \in T[0]
    BY <2>1, <2>3
  <2>5. ASSUME NEW k \in 1 .. n, NEW d \in T[k - 1] PROVE step[k][d] = Step(d, k)
    <3>1. d \in All
      <4>1. k - 1 \in 0 .. n
        BY <1>1
      <4> HIDE DEF All
      <4> QED BY <4>1
    <3> HIDE DEF Step, All, T
    <3> QED BY <3>1
  <2> HIDE DEF Step, T, step, base, All
  <2>6. Leads(n, T, base, step)
    BY <2>2, <2>4, <2>5 DEF Leads
  <2>7. PICK f : /\ f = [k \in 0 .. n |-> IF k = 0 THEN base ELSE step[k][f[k - 1]]]
                 /\ \A k \in 0 .. n : f[k] \in T[k]
    BY <1>1, <2>6, RecursionExists
  <2>8. f = [k \in 0 .. n |-> IF k = 0 THEN base ELSE Step(f[k - 1], k)]
    <3>1. ASSUME NEW k \in 1 .. n PROVE step[k][f[k - 1]] = Step(f[k - 1], k)
      <4>1. k - 1 \in 0 .. n
        BY <1>1
      <4>2. f[k - 1] \in T[k - 1]
        BY <2>7, <4>1
      <4> QED BY <2>5, <4>2
    <3>2. \A k \in 0 .. n : (IF k = 0 THEN base ELSE step[k][f[k - 1]])
                            = (IF k = 0 THEN base ELSE Step(f[k - 1], k))
      BY <1>1, <3>1
    <3> QED BY <2>7, <3>2
  <2>9. PICK done : /\ done = [k \in 0 .. n |-> IF k = 0 THEN base ELSE Step(done[k - 1], k)]
                    /\ a = done[n]
    <3>1. a = LET done[k \in 0 .. n] == IF k = 0 THEN base ELSE Step(done[k - 1], k)
              IN done[n]
      BY <1>3 DEF builtin_op, Step, base, n
    <3> QED BY <2>8, <3>1
  <2>10. done[0] = base /\ \A k \in 1 .. n : done[k] = Step(done[k - 1], k)
    <3>1. 0 \in 0 .. n /\ \A k \in 1 .. n : k \in 0 .. n /\ k # 0
      BY <1>1
    <3> QED BY <2>9, <3>1
  <2>11. Stays(n, T, done)
    BY <2>2, <2>4, <2>10 DEF Stays
  <2>12. a \in T[n]
    <3>1. n \in 0 .. n
      BY <1>1
    <3> QED BY <1>1, <2>9, <2>11, <3>1, RecursionStays
  <2>13. AfterNames(call, n, op_table, a)
    <3>1. n \in 0 .. n
      BY <1>1
    <3> QED BY <2>12, <3>1 DEF T
  <2>14. ASSUME a.result = "ok", call.assoc \notin PostfixAssoc PROVE DefinesIts(call, a.table)
    <3>1. \A j \in 1 .. n : Definition(a.table, call.names[j], Class(call.assoc)) =
             IF call.prio = 0 THEN << 0 >> ELSE << call.prio, call.assoc >>
      BY <2>13, <2>14 DEF AfterNames, NowIs
    <3>2. \A name \in Range(call.names) : \E j \in 1 .. n : name = call.names[j]
      BY <1>1 DEF Range
    <3> QED BY <3>1, <3>2 DEF DefinesIts
  <2> QED BY <2>13, <2>14 DEF AfterNames
<1> QED BY <1>2, <1>3

-----------------------------------------------------------------------------
(* Every behaviour                                                         *)

LEMMA DefaultsFit == PostfixAlone => default_ops \in Tables
<1> SUFFICES ASSUME PostfixAlone PROVE default_ops \in Tables
  OBVIOUS
<1>1. /\ default_ops \in Seq([name : {e.name : e \in Range(default_ops)},
                              priority : Nat, assoc : InfixAssoc \cup PrefixAssoc])
      /\ DOMAIN default_ops = 1 .. Len(default_ops) /\ Len(default_ops) \in Nat
  BY OpTableAssumption
<1>2. ASSUME NEW i \in 1 .. Len(default_ops) PROVE default_ops[i] \in Entries
  <2>1. PICK e : e = default_ops[i]
    OBVIOUS
  <2>2. e \in [name : {x.name : x \in Range(default_ops)},
               priority : Nat, assoc : InfixAssoc \cup PrefixAssoc]
    <3> DEFINE S == [name : {x.name : x \in Range(default_ops)},
                     priority : Nat, assoc : InfixAssoc \cup PrefixAssoc]
    <3>1. default_ops \in Seq(S)
      BY <1>1
    <3> HIDE DEF S
    <3>2. e \in S
      BY <2>1, <3>1
    <3> QED BY <3>2 DEF S
  <2>3. e.name \in OtherNames /\ e.name \notin PostfixNames
    BY <2>2 DEF OtherNames, PostfixAlone
  <2>4. e.assoc \in Assocs /\ e.assoc \notin PostfixAssoc
    BY <2>2 DEF Assocs, InfixAssoc, PrefixAssoc, PostfixAssoc
  <2>5. e \in [name : Names, priority : Nat, assoc : Assocs]
    BY <2>2, <2>3, <2>4 DEF Names
  <2> QED BY <2>1, <2>3, <2>4, <2>5 DEF Entries, Fits, Names
<1>3. default_ops \in Seq(Entries)
  BY <1>1, <1>2
<1> QED BY <1>1, <1>3, OpTableAssumption DEF Tables

OpInv == op_table \in Tables /\ \E S : op_calls \in Seq(S)

LEMMA InvInit == PostfixAlone /\ OpInit => OpInv
<1> SUFFICES ASSUME PostfixAlone, OpInit PROVE OpInv
  OBVIOUS
<1>1. op_calls \in Seq({})
  BY DEF OpInit
<1> QED BY <1>1, DefaultsFit DEF OpInit, OpInv

LEMMA InvStep ==
  PostfixAlone /\ OpInv /\ [OpNext]_opVars => OpInv' /\ (op_calls' # op_calls => CallRight)
<1> SUFFICES ASSUME PostfixAlone, OpInv, [OpNext]_opVars
             PROVE  OpInv' /\ (op_calls' # op_calls => CallRight)
  OBVIOUS
<1>1. CASE UNCHANGED opVars
  BY <1>1 DEF opVars, OpInv
<1>2. ASSUME NEW call \in OpCalls, Op(call) PROVE OpInv' /\ CallRight
  <2>1. PICK a : a = builtin_op(call)
    OBVIOUS
  <2>2. /\ op_table' = a.table
        /\ op_calls' = Append(op_calls, [call |-> call, result |-> a.result])
    BY <1>2, <2>1 DEF Op
  <2>3. /\ a.table \in Tables
        /\ \A name : \A class \in Kinds :
             name \notin Range(call.names) \/ class # Class(call.assoc) =>
               Definition(a.table, name, class) = Definition(op_table, name, class)
        /\ a.result = "ok" /\ call.assoc \notin PostfixAssoc => DefinesIts(call, a.table)
    BY <2>1, WholeCall DEF OpInv
  <2>4. /\ \E S : op_calls' \in Seq(S)
        /\ op_calls'[Len(op_calls')] = [call |-> call, result |-> a.result]
    <3>1. PICK S : op_calls \in Seq(S)
      BY DEF OpInv
    <3>2. PICK x : x = [call |-> call, result |-> a.result]
      OBVIOUS
    <3>3. op_calls \in Seq(S \cup {x})
      BY <3>1
    <3> QED BY <2>2, <3>2, <3>3
  <2>5. CallRight
    BY <2>2, <2>3, <2>4 DEF CallRight, Kinds
  <2> QED BY <2>2, <2>3, <2>4, <2>5 DEF OpInv
<1> QED BY <1>1, <1>2 DEF OpNext

\* For every table of a new context, every set of calls and every size: what a
\* call of op/3 says of its names in the class of its type is so, and no other
\* definition changes, also when a list fails half-way (builtins.c:do_op); as
\* long as no name is a postfix operator and also another.
THEOREM OpDefinesOnly == PostfixAlone => (OpSpec => DefinesOnly)
<1> SUFFICES ASSUME PostfixAlone PROVE OpSpec => DefinesOnly
  OBVIOUS
<1>1. OpInit => OpInv
  BY InvInit
<1>2. OpInv /\ [OpNext]_opVars => OpInv'
  BY InvStep
<1>3. OpInv /\ [OpNext]_opVars => [op_calls' # op_calls => CallRight]_opVars
  BY InvStep
<1>4. OpSpec => [][op_calls' # op_calls => CallRight]_opVars
  BY <1>1, <1>2, <1>3, PTL DEF OpSpec
<1> QED BY <1>4 DEF DefinesOnly

-----------------------------------------------------------------------------
(* Powers of two                                                           *)

LEMMA PowersOfTwo ==
  /\ \A k \in 0 .. Width : Pow2[k] \in Nat \ {0}
  /\ Pow2[0] = 1 /\ \A k \in 0 .. Width - 1 : Pow2[k + 1] = 2 * Pow2[k]
<1>1. Width \in Nat \ {0}
  BY ArithAssumption
<1>2. PICK T : T = [k \in 0 .. Width |-> Nat \ {0}]
  OBVIOUS
<1>3. PICK step : step = [k \in 1 .. Width |-> [d \in Nat \ {0} |-> 2 * d]]
  OBVIOUS
<1>4. Leads(Width, T, 1, step)
  <2>1. ASSUME NEW k \in 1 .. Width, NEW d \in T[k - 1] PROVE step[k][d] \in T[k]
    <3>1. T[k - 1] = Nat \ {0} /\ T[k] = Nat \ {0}
      BY <1>1, <1>2
    <3>2. step[k][d] = 2 * d
      BY <1>3, <3>1
    <3> QED BY <3>1, <3>2
  <2>2. 1 \in T[0]
    BY <1>1, <1>2
  <2> QED BY <2>1, <2>2 DEF Leads
<1>5. \E f : f = [k \in 0 .. Width |-> IF k = 0 THEN 1 ELSE 2 * f[k - 1]]
  <2>1. PICK f : /\ f = [k \in 0 .. Width |-> IF k = 0 THEN 1 ELSE step[k][f[k - 1]]]
                 /\ \A k \in 0 .. Width : f[k] \in T[k]
    BY <1>1, <1>4, RecursionExists
  <2>2. ASSUME NEW k \in 0 .. Width, k # 0 PROVE step[k][f[k - 1]] = 2 * f[k - 1]
    <3>1. k \in 1 .. Width /\ k - 1 \in 0 .. Width
      BY <1>1, <2>2
    <3> QED BY <1>2, <1>3, <2>1, <3>1
  <2>3. f = [k \in 0 .. Width |-> IF k = 0 THEN 1 ELSE 2 * f[k - 1]]
    BY <2>1, <2>2
  <2> QED BY <2>3
<1>6. Pow2 = [k \in 0 .. Width |-> IF k = 0 THEN 1 ELSE 2 * Pow2[k - 1]]
  BY <1>5 DEF Pow2
<1>7. Pow2[0] = 1 /\ \A k \in 0 .. Width - 1 : Pow2[k + 1] = 2 * Pow2[k]
  <2>1. 0 \in 0 .. Width
    BY <1>1
  <2>2. Pow2[0] = 1
    BY <1>6, <2>1
  <2>3. ASSUME NEW k \in 0 .. Width - 1 PROVE Pow2[k + 1] = 2 * Pow2[k]
    <3>1. k + 1 \in 0 .. Width /\ k + 1 # 0 /\ (k + 1) - 1 = k
      BY <1>1
    <3>2. PICK m \in 0 .. Width : m = k + 1
      BY <3>1
    <3>3. Pow2[m] = 2 * Pow2[m - 1]
      BY <1>6, <3>1, <3>2
    <3> QED BY <3>1, <3>2, <3>3
  <2> QED BY <2>2, <2>3
<1>8. \A k \in 0 .. Width : Pow2[k] \in Nat \ {0}
  <2>1. Stays(Width, T, Pow2)
    <3>1. ASSUME NEW k \in 1 .. Width, Pow2[k - 1] \in T[k - 1] PROVE Pow2[k] \in T[k]
      <4>1. k - 1 \in 0 .. Width - 1 /\ (k - 1) + 1 = k /\ k \in 0 .. Width
        BY <1>1
      <4>2. T[k - 1] = Nat \ {0} /\ T[k] = Nat \ {0}
        BY <1>1, <1>2, <4>1
      <4>3. PICK m \in 0 .. Width - 1 : m = k - 1
        BY <4>1
      <4>4. Pow2[m + 1] = 2 * Pow2[m] /\ m + 1 = k
        BY <1>7, <4>1, <4>3
      <4> QED BY <3>1, <4>2, <4>3, <4>4
    <3>2. Pow2[0] \in T[0]
      BY <1>1, <1>2, <1>7
    <3> QED BY <3>1, <3>2 DEF Stays
  <2> QED BY <1>1, <1>2, <2>1, RecursionStays
<1> QED BY <1>7, <1>8

\* The integers of a word.
LEMMA WordLimits ==
  \E H \in Nat \ {0} : /\ INT_MIN = -H /\ INT_MAX = H - 1
                       /\ Pow2[Width - 1] = H /\ Pow2[Width] = 2 * H
<1>1. Width \in Nat \ {0} /\ Width - 1 \in 0 .. Width /\ Width - 1 \in 0 .. Width - 1
  BY ArithAssumption
<1>2. (Width - 1) + 1 = Width
  BY <1>1
<1> QED BY <1>1, <1>2, PowersOfTwo DEF INT_MIN, INT_MAX

LEMMA WordOfInt ==
  ASSUME NEW i \in Int
  PROVE  /\ Word(i) \in INT_MIN .. INT_MAX
         /\ i \in INT_MIN .. INT_MAX => Word(i) = i
<1>1. PICK H \in Nat \ {0} : /\ INT_MIN = -H /\ INT_MAX = H - 1
                             /\ Pow2[Width] = 2 * H
  BY WordLimits
<1>2. Word(i) = ((i + H) % (2 * H)) - H
  BY <1>1 DEF Word
<1>3. 2 * H \in Nat \ {0}
  OBVIOUS
<1>4. (i + H) % (2 * H) \in 0 .. 2 * H - 1
  BY <1>3
<1>5. i + H \in 0 .. 2 * H - 1 => (i + H) % (2 * H) = i + H
  BY <1>3
<1> QED BY <1>1, <1>2, <1>4, <1>5

-----------------------------------------------------------------------------
(* Bits                                                                    *)

Bit(i, k) == (i \div Pow2[k]) % 2
Within(n) == -Pow2[n] .. Pow2[n] - 1    \* the integers of n bits and a sign

LEMMA BitIsBit == ASSUME NEW i \in Int, NEW k \in 0 .. Width PROVE Bit(i, k) \in {0, 1}
<1>1. PICK p \in Nat \ {0} : p = Pow2[k]
  BY PowersOfTwo
<1>2. i \div p \in Int
  OBVIOUS
<1> QED BY <1>1, <1>2 DEF Bit

\* The lowest bit of an integer, and the others, which are those of its half.
Halved(i, q, r) == q \in Int /\ r \in {0, 1} /\ i = 2 * q + r

LEMMA HalfOf == ASSUME NEW i \in Int PROVE Halved(i, i \div 2, i % 2)
BY DEF Halved

LEMMA DivTwice ==
  ASSUME NEW q \in Int, NEW m \in Nat \ {0}, NEW r \in 0 .. 1
  PROVE  (2 * q + r) \div (2 * m) = q \div m
OBVIOUS

LEMMA LowBit == ASSUME NEW i, NEW q, NEW r, Halved(i, q, r) PROVE Bit(i, 0) = r
<1>1. Pow2[0] = 1 /\ i \in Int
  BY PowersOfTwo DEF Halved
<1>2. i \div 1 = i /\ i % 2 = r
  BY <1>1 DEF Halved
<1> QED BY <1>1, <1>2 DEF Bit

LEMMA HighBit ==
  ASSUME NEW i, NEW q, NEW r, Halved(i, q, r), NEW k \in 0 .. Width - 1
  PROVE  Bit(i, k + 1) = Bit(q, k)
<1>1. PICK m \in Nat \ {0} : m = Pow2[k] /\ Pow2[k + 1] = 2 * m
  BY PowersOfTwo, ArithAssumption
<1>2. i \div (2 * m) = q \div m
  <2>1. r \in 0 .. 1 /\ q \in Int /\ i = 2 * q + r
    BY DEF Halved
  <2> QED BY <2>1, DivTwice
<1> QED BY <1>1, <1>2 DEF Bit

LEMMA HalfWithin ==
  ASSUME NEW n \in 0 .. Width - 1, NEW i, NEW q, NEW r, Halved(i, q, r)
  PROVE  i \in Within(n + 1) <=> q \in Within(n)
<1>1. PICK m \in Nat \ {0} : m = Pow2[n] /\ Pow2[n + 1] = 2 * m
  BY PowersOfTwo, ArithAssumption
<1> QED BY <1>1 DEF Within, Halved

\* An integer of n bits and a sign is known by these bits.
SameBits(i, j, n) == \A k \in 0 .. n : Bit(i, k) = Bit(j, k)

LEMMA BitsTell ==
  ASSUME NEW n \in 0 .. Width - 1, NEW i \in Within(n), NEW j \in Within(n), SameBits(i, j, n)
  PROVE  i = j
<1> DEFINE N == {m \in Nat : m <= Width - 1 =>
                   \A x, y \in Within(m) : SameBits(x, y, m) => x = y}
<1>1. 0 \in N
  <2>1. SUFFICES ASSUME NEW x \in Within(0), NEW y \in Within(0), SameBits(x, y, 0)
                 PROVE  x = y
    OBVIOUS
  <2>2. x \in {-1, 0} /\ y \in {-1, 0} /\ Bit(x, 0) = Bit(y, 0)
    BY <2>1, PowersOfTwo DEF Within, SameBits
  <2>3. Bit(-1, 0) = 1
    <3>1. Halved(-1, -1, 1)
      BY DEF Halved
    <3> QED BY <3>1, LowBit
  <2>4. Bit(0, 0) = 0
    <3>1. Halved(0, 0, 0)
      BY DEF Halved
    <3> QED BY <3>1, LowBit
  <2> QED BY <2>2, <2>3, <2>4
<1>2. ASSUME NEW m \in Nat, m \in N PROVE m + 1 \in N
  <2>1. SUFFICES ASSUME m + 1 <= Width - 1, NEW x \in Within(m + 1), NEW y \in Within(m + 1),
                        SameBits(x, y, m + 1)
                 PROVE  x = y
    OBVIOUS
  <2>2. m \in 0 .. Width - 1 /\ m + 1 \in 0 .. Width /\ m <= Width - 1
    BY <2>1, ArithAssumption
  <2>3. x \in Int /\ y \in Int
    BY <2>2, PowersOfTwo DEF Within
  <2>4. PICK p, r : Halved(x, p, r)
    BY <2>3, HalfOf
  <2>5. PICK q, s : Halved(y, q, s)
    BY <2>3, HalfOf
  <2>6. p \in Within(m) /\ q \in Within(m)
    BY <2>2, <2>4, <2>5, HalfWithin
  <2>7. r = s
    <3>1. Bit(x, 0) = r /\ Bit(y, 0) = s
      BY <2>4, <2>5, LowBit
    <3>2. 0 \in 0 .. m + 1
      OBVIOUS
    <3> QED BY <2>1, <3>1, <3>2 DEF SameBits
  <2>8. SameBits(p, q, m)
    <3>1. ASSUME NEW k \in 0 .. m PROVE Bit(p, k) = Bit(q, k)
      <4>1. k \in 0 .. Width - 1 /\ k + 1 \in 0 .. m + 1
        BY <2>1, ArithAssumption
      <4>2. Bit(x, k + 1) = Bit(p, k)
        BY <2>4, <4>1, HighBit
      <4>3. Bit(y, k + 1) = Bit(q, k)
        BY <2>5, <4>1, HighBit
      <4> QED BY <2>1, <4>1, <4>2, <4>3 DEF SameBits
    <3> QED BY <3>1 DEF SameBits
  <2>9. p = q
    BY <1>2, <2>2, <2>6, <2>8
  <2> QED BY <2>4, <2>5, <2>7, <2>9 DEF Halved
<1> HIDE DEF N
<1>3. n \in N
  <2>1. n \in Nat
    BY ArithAssumption
  <2> QED BY <1>1, <1>2, <2>1, Induction
<1>4. n <= Width - 1
  BY ArithAssumption
<1> QED BY <1>3, <1>4 DEF N

\* The reference for the operators on bits, unfolded.
LEMMA AndUnfolds ==
  /\ \A x, y \in Int : BitAnd[0][x][y] = IF x = -1 /\ y = -1 THEN -1 ELSE 0
  /\ \A n \in 0 .. Width - 1 : \A x, y \in Int :
       BitAnd[n + 1][x][y] = 2 * BitAnd[n][x \div 2][y \div 2] + (x % 2) * (y % 2)
<1>1. Width \in Nat \ {0}
  BY ArithAssumption
<1>2. PICK F : F = [Int -> [Int -> Int]]
  OBVIOUS
<1>3. PICK T : T = [k \in 0 .. Width |-> F]
  OBVIOUS
<1>4. PICK base : base = [x \in Int |-> [y \in Int |-> IF x = -1 /\ y = -1 THEN -1 ELSE 0]]
  OBVIOUS
<1>5. PICK double : double = [d \in F |-> [x \in Int |-> [y \in Int |->
                      2 * d[x \div 2][y \div 2] + (x % 2) * (y % 2)]]]
  OBVIOUS
<1>6. PICK step : step = [k \in 1 .. Width |-> double]
  OBVIOUS
<1>7. base \in F /\ \A d \in F : double[d] \in F
  <2>1. base \in F
    BY <1>2, <1>4
  <2>2. ASSUME NEW d \in F PROVE double[d] \in F
    <3>1. ASSUME NEW x \in Int, NEW y \in Int
          PROVE  2 * d[x \div 2][y \div 2] + (x % 2) * (y % 2) \in Int
      <4>1. x \div 2 \in Int /\ y \div 2 \in Int /\ x % 2 \in {0, 1} /\ y % 2 \in {0, 1}
        OBVIOUS
      <4>2. d[x \div 2] \in [Int -> Int]
        BY <1>2, <4>1
      <4>3. d[x \div 2][y \div 2] \in Int
        BY <4>1, <4>2
      <4> QED BY <4>1, <4>3
    <3>2. double[d] = [x \in Int |-> [y \in Int |->
                        2 * d[x \div 2][y \div 2] + (x % 2) * (y % 2)]]
      BY <1>5
    <3>3. ASSUME NEW x \in Int
          PROVE  [y \in Int |-> 2 * d[x \div 2][y \div 2] + (x % 2) * (y % 2)] \in [Int -> Int]
      BY <3>1
    <3>4. PICK r : r = double[d]
      OBVIOUS
    <3>5. ASSUME NEW x \in Int PROVE r[x] \in [Int -> Int]
      <4>1. r[x] = [y \in Int |-> 2 * d[x \div 2][y \div 2] + (x % 2) * (y % 2)]
        BY <3>2, <3>4
      <4> QED BY <3>3, <4>1
    <3>6. r = [x \in Int |-> r[x]]
      BY <3>2, <3>4
    <3> QED BY <1>2, <3>4, <3>5, <3>6
  <2> QED BY <2>1, <2>2
<1>8. Leads(Width, T, base, step)
  <2>1. ASSUME NEW k \in 1 .. Width, NEW d \in T[k - 1] PROVE step[k][d] \in T[k]
    <3>1. T[k - 1] = F /\ T[k] = F /\ step[k] = double
      BY <1>1, <1>3, <1>6
    <3> QED BY <1>7, <3>1
  <2>2. base \in T[0]
    BY <1>1, <1>3, <1>7
  <2> QED BY <2>1, <2>2 DEF Leads
<1>9. PICK f : /\ f = [k \in 0 .. Width |-> IF k = 0 THEN base ELSE step[k][f[k - 1]]]
               /\ \A k \in 0 .. Width : f[k] \in T[k]
  BY <1>1, <1>8, RecursionExists
<1>10. f = [n \in 0 .. Width |-> [x \in Int |-> [y \in Int |->
              IF n = 0 THEN IF x = -1 /\ y = -1 THEN -1 ELSE 0
              ELSE 2 * f[n - 1][x \div 2][y \div 2] + (x % 2) * (y % 2)]]]
  <2>1. ASSUME NEW n \in 0 .. Width
        PROVE  (IF n = 0 THEN base ELSE step[n][f[n - 1]])
               = [x \in Int |-> [y \in Int |->
                   IF n = 0 THEN IF x = -1 /\ y = -1 THEN -1 ELSE 0
                   ELSE 2 * f[n - 1][x \div 2][y \div 2] + (x % 2) * (y % 2)]]
    <3>1. CASE n = 0
      BY <1>4, <3>1
    <3>2. CASE n # 0
      <4>1. n \in 1 .. Width /\ n - 1 \in 0 .. Width
        BY <1>1, <3>2
      <4>2. step[n] = double /\ f[n - 1] \in F
        BY <1>3, <1>6, <1>9, <4>1
      <4>3. PICK d \in F : d = f[n - 1]
        BY <4>2
      <4>4. double[d] = [x \in Int |-> [y \in Int |->
                          2 * d[x \div 2][y \div 2] + (x % 2) * (y % 2)]]
        BY <1>5
      <4> QED BY <3>2, <4>2, <4>3, <4>4
    <3> QED BY <3>1, <3>2
  <2> QED BY <1>9, <2>1
<1>11. BitAnd = [n \in 0 .. Width |-> [x \in Int |-> [y \in Int |->
                   IF n = 0 THEN IF x = -1 /\ y = -1 THEN -1 ELSE 0
                   ELSE 2 * BitAnd[n - 1][x \div 2][y \div 2] + (x % 2) * (y % 2)]]]
  BY <1>10 DEF BitAnd
<1>12. ASSUME NEW n \in 0 .. Width - 1, NEW x \in Int, NEW y \in Int
       PROVE  BitAnd[n + 1][x][y] = 2 * BitAnd[n][x \div 2][y \div 2] + (x % 2) * (y % 2)
  <2>1. PICK m \in 0 .. Width : m = n + 1 /\ m # 0 /\ m - 1 = n
    BY <1>1
  <2>2. BitAnd[m][x][y] = 2 * BitAnd[m - 1][x \div 2][y \div 2] + (x % 2) * (y % 2)
    <3>1. BitAnd[m] = [u \in Int |-> [v \in Int |->
                        IF m = 0 THEN IF u = -1 /\ v = -1 THEN -1 ELSE 0
                        ELSE 2 * BitAnd[m - 1][u \div 2][v \div 2] + (u % 2) * (v % 2)]]
      BY <1>11
    <3>2. BitAnd[m][x] = [v \in Int |->
                           IF m = 0 THEN IF x = -1 /\ v = -1 THEN -1 ELSE 0
                           ELSE 2 * BitAnd[m - 1][x \div 2][v \div 2] + (x % 2) * (v % 2)]
      BY <3>1
    <3> QED BY <2>1, <3>2
  <2> QED BY <2>1, <2>2
<1>13. ASSUME NEW x \in Int, NEW y \in Int
       PROVE  BitAnd[0][x][y] = IF x = -1 /\ y = -1 THEN -1 ELSE 0
  <2>1. 0 \in 0 .. Width
    BY <1>1
  <2> QED BY <1>11, <2>1
<1> QED BY <1>12, <1>13

\* c is the conjunction of x and y, and what the other two operators are
\* defined by has their bits.
Joins(x, y, c, o, e, k) ==
  /\ Bit(c, k) = 1 <=> Bit(x, k) = 1 /\ Bit(y, k) = 1
  /\ Bit(o, k) = 1 <=> Bit(x, k) = 1 \/ Bit(y, k) = 1
  /\ Bit(e, k) = 1 <=> \/ Bit(x, k) = 1 /\ Bit(y, k) # 1
                       \/ Bit(x, k) # 1 /\ Bit(y, k) = 1
Joined(x, y, c, o, e, n) ==
  /\ c \in Within(n) /\ o \in Within(n) /\ e \in Within(n)
  /\ \A k \in 0 .. n : Joins(x, y, c, o, e, k)

LEMMA JoinedLonger ==
  ASSUME NEW n \in Nat, n + 1 <= Width - 1, NEW p, NEW q, NEW d, NEW v, NEW w,
         Joined(p, q, d, v, w, n),
         NEW r, NEW s, NEW t, NEW a, NEW b, NEW x, NEW y, NEW c, NEW o, NEW e,
         Halved(x, p, r), Halved(y, q, s), Halved(c, d, t), Halved(o, v, a), Halved(e, w, b),
         t = r * s, a = r + s - t, b = r + s - 2 * t
  PROVE  Joined(x, y, c, o, e, n + 1)
<1>3. n \in 0 .. Width - 1
  BY ArithAssumption
<1>4. c \in Within(n + 1) /\ o \in Within(n + 1) /\ e \in Within(n + 1)
  <2>1. d \in Within(n) /\ v \in Within(n) /\ w \in Within(n)
    BY DEF Joined
  <2> QED BY <1>3, <2>1, HalfWithin
<1>5. Joins(x, y, c, o, e, 0)
  <2>1. Bit(x, 0) = r /\ Bit(y, 0) = s /\ Bit(c, 0) = t
    BY LowBit
  <2>2. Bit(o, 0) = a /\ Bit(e, 0) = b
    BY LowBit
  <2>3. r \in {0, 1} /\ s \in {0, 1}
    BY DEF Halved
  <2> QED BY <2>1, <2>2, <2>3 DEF Joins
<1>6. ASSUME NEW k \in 0 .. n PROVE Joins(x, y, c, o, e, k + 1)
  <2>1. k \in 0 .. Width - 1
    BY ArithAssumption
  <2>2. Bit(x, k + 1) = Bit(p, k)
    BY <2>1, HighBit
  <2>3. Bit(y, k + 1) = Bit(q, k)
    BY <2>1, HighBit
  <2>4. Bit(c, k + 1) = Bit(d, k)
    BY <2>1, HighBit
  <2>5. Bit(o, k + 1) = Bit(v, k)
    BY <2>1, HighBit
  <2>6. Bit(e, k + 1) = Bit(w, k)
    BY <2>1, HighBit
  <2>7. Joins(p, q, d, v, w, k)
    BY DEF Joined
  <2> QED BY <2>2, <2>3, <2>4, <2>5, <2>6, <2>7 DEF Joins
<1>7. ASSUME NEW k \in 0 .. n + 1 PROVE Joins(x, y, c, o, e, k)
  <2>1. CASE k = 0
    BY <1>5, <2>1
  <2>2. CASE k # 0
    <3>1. PICK j \in 0 .. n : k = j + 1
      BY <2>2
    <3> QED BY <1>6, <3>1
  <2> QED BY <2>1, <2>2
<1> QED BY <1>4, <1>7 DEF Joined

LEMMA AndJoins ==
  ASSUME NEW n \in 0 .. Width - 1, NEW x \in Within(n), NEW y \in Within(n),
         NEW c, c = BitAnd[n][x][y]
  PROVE  Joined(x, y, c, x + y - c, x + y - 2 * c, n)
<1> DEFINE Right(m) == \A i, j \in Within(m) :
             \A d : d = BitAnd[m][i][j] => Joined(i, j, d, i + j - d, i + j - 2 * d, m)
           N == {m \in Nat : m <= Width - 1 => Right(m)}
<1>1. 0 \in N
  <2>1. SUFFICES ASSUME NEW i \in Within(0), NEW j \in Within(0), NEW d,
                        d = BitAnd[0][i][j]
                 PROVE  Joined(i, j, d, i + j - d, i + j - 2 * d, 0)
    OBVIOUS
  <2>2. Within(0) = {-1, 0}
    BY PowersOfTwo DEF Within
  <2>3. i \in {-1, 0} /\ j \in {-1, 0} /\ d = IF i = -1 /\ j = -1 THEN -1 ELSE 0
    <3>1. i \in {-1, 0} /\ j \in {-1, 0} /\ i \in Int /\ j \in Int
      BY <2>2
    <3>2. BitAnd[0][i][j] = IF i = -1 /\ j = -1 THEN -1 ELSE 0
      BY <3>1, AndUnfolds
    <3> QED BY <2>1, <3>1, <3>2
  <2>4. ASSUME NEW b \in {-1, 0} PROVE (Bit(b, 0) = 1) = (b = -1)
    <3>1. b = -1 => Halved(b, -1, 1)
      BY DEF Halved
    <3>2. b = 0 => Halved(b, 0, 0)
      BY DEF Halved
    <3> QED BY <3>1, <3>2, LowBit
  <2>5. PICK o \in {-1, 0}, e \in {-1, 0} : o = i + j - d /\ e = i + j - 2 * d
    BY <2>3
  <2>6. Joins(i, j, d, o, e, 0)
    <3>1. d \in {-1, 0}
      BY <2>3
    <3>2. /\ (Bit(i, 0) = 1) = (i = -1) /\ (Bit(j, 0) = 1) = (j = -1)
          /\ (Bit(d, 0) = 1) = (d = -1) /\ (Bit(o, 0) = 1) = (o = -1)
          /\ (Bit(e, 0) = 1) = (e = -1)
      BY <2>3, <2>4, <3>1
    <3> QED BY <2>3, <2>5, <3>2 DEF Joins
  <2>7. \A k \in 0 .. 0 : k = 0
    OBVIOUS
  <2>8. Joined(i, j, d, o, e, 0)
    BY <2>2, <2>3, <2>6, <2>7 DEF Joined
  <2> QED BY <2>5, <2>8
<1>2. ASSUME NEW m \in Nat, m \in N PROVE m + 1 \in N
  <2>1. SUFFICES ASSUME m + 1 <= Width - 1, NEW i \in Within(m + 1), NEW j \in Within(m + 1),
                        NEW d, d = BitAnd[m + 1][i][j]
                 PROVE  Joined(i, j, d, i + j - d, i + j - 2 * d, m + 1)
    OBVIOUS
  <2>2. m \in 0 .. Width - 1 /\ m <= Width - 1 /\ m + 1 \in 0 .. Width
    BY <2>1, ArithAssumption
  <2>3. i \in Int /\ j \in Int
    BY <2>2, PowersOfTwo DEF Within
  <2>4. PICK p, r : Halved(i, p, r) /\ p = i \div 2 /\ r = i % 2
    BY <2>3, HalfOf
  <2>5. PICK q, s : Halved(j, q, s) /\ q = j \div 2 /\ s = j % 2
    BY <2>3, HalfOf
  <2>6. p \in Within(m) /\ q \in Within(m)
    BY <2>2, <2>4, <2>5, HalfWithin
  <2>7. PICK g : g = BitAnd[m][p][q]
    OBVIOUS
  <2>8. Joined(p, q, g, p + q - g, p + q - 2 * g, m)
    BY <1>2, <2>2, <2>6, <2>7
  <2>9. g \in Int
    BY <2>2, <2>8, PowersOfTwo DEF Joined, Within
  <2>10. PICK t \in {0, 1}, a \in {0, 1}, b \in {0, 1} :
           t = r * s /\ a = r + s - t /\ b = r + s - 2 * t
    BY <2>4, <2>5 DEF Halved
  <2>11. d = 2 * g + t
    <3>1. BitAnd[m + 1][i][j] = 2 * BitAnd[m][i \div 2][j \div 2] + (i % 2) * (j % 2)
      BY <2>2, <2>3, AndUnfolds
    <3> QED BY <2>1, <2>4, <2>5, <2>7, <2>10, <3>1
  <2>12. PICK v \in Int, w \in Int : v = p + q - g /\ w = p + q - 2 * g
    BY <2>4, <2>5, <2>9 DEF Halved
  <2>13. PICK o, e : o = i + j - d /\ e = i + j - 2 * d
    OBVIOUS
  <2>14. Halved(d, g, t) /\ Halved(o, v, a) /\ Halved(e, w, b)
    BY <2>4, <2>5, <2>9, <2>10, <2>11, <2>12, <2>13 DEF Halved
  <2>15. Joined(p, q, g, v, w, m)
    BY <2>8, <2>12
  <2>16. Joined(i, j, d, o, e, m + 1)
    BY <2>1, <2>4, <2>5, <2>10, <2>14, <2>15, JoinedLonger
  <2> QED BY <2>13, <2>16
<1> HIDE DEF N
<1>3. n \in N
  <2>1. n \in Nat
    BY ArithAssumption
  <2> QED BY <1>1, <1>2, <2>1, Induction
<1>4. n <= Width - 1
  BY ArithAssumption
<1> QED BY <1>3, <1>4 DEF N

-----------------------------------------------------------------------------
(* The operators                                                           *)

Words == INT_MIN .. INT_MAX

LEMMA WordsAre == Words = Within(Width - 1) /\ Width - 1 \in 0 .. Width - 1
BY ArithAssumption DEF Words, Within, INT_MIN, INT_MAX

LEMMA BitsAre ==
  ASSUME NEW i, NEW k PROVE k \in Bits(i) <=> k \in 0 .. Width - 1 /\ Bit(i, k) = 1
BY DEF Bits, Bit

LEMMA OfBitsIs ==
  ASSUME NEW c \in Words, NEW S, Bits(c) = S PROVE OfBits(S) = c
<1>1. ASSUME NEW i \in Words, Bits(i) = S PROVE i = c
  <2>1. ASSUME NEW k \in 0 .. Width - 1 PROVE Bit(i, k) = Bit(c, k)
    <3>1. Bit(i, k) \in {0, 1} /\ Bit(c, k) \in {0, 1}
      <4>1. k \in 0 .. Width /\ i \in Int /\ c \in Int
        BY ArithAssumption, WordLimits DEF Words
      <4> QED BY <4>1, BitIsBit
    <3>2. k \in Bits(i) <=> k \in Bits(c)
      BY <1>1
    <3> QED BY <3>1, <3>2, BitsAre
  <2> QED BY <2>1, WordsAre, BitsTell DEF SameBits
<1> QED BY <1>1 DEF OfBits, Words

\* The three operators on bits agree with the reference.
LEMMA BitOperators ==
  ASSUME NEW x \in Words, NEW y \in Words
  PROVE  /\ And(x, y) \in Words /\ OfBits(Bits(x) \cap Bits(y)) = And(x, y)
         /\ x + y - And(x, y) \in Words
         /\ OfBits(Bits(x) \cup Bits(y)) = x + y - And(x, y)
         /\ x + y - 2 * And(x, y) \in Words
         /\ OfBits((Bits(x) \cup Bits(y)) \ (Bits(x) \cap Bits(y))) = x + y - 2 * And(x, y)
<1>1. PICK c, o, e : c = And(x, y) /\ o = x + y - c /\ e = x + y - 2 * c
  OBVIOUS
<1>2. Joined(x, y, c, o, e, Width - 1)
  BY <1>1, WordsAre, AndJoins DEF And
<1>3. c \in Words /\ o \in Words /\ e \in Words
  BY <1>2, WordsAre DEF Joined
<1>4. ASSUME NEW k \in 0 .. Width - 1 PROVE Joins(x, y, c, o, e, k)
  BY <1>2 DEF Joined
<1>5. Bits(c) = Bits(x) \cap Bits(y)
  BY <1>4, BitsAre DEF Joins
<1>6. Bits(o) = Bits(x) \cup Bits(y)
  BY <1>4, BitsAre DEF Joins
<1>7. Bits(e) = (Bits(x) \cup Bits(y)) \ (Bits(x) \cap Bits(y))
  BY <1>4, BitsAre DEF Joins
<1> QED BY <1>1, <1>3, <1>5, <1>6, <1>7, OfBitsIs

LEMMA ShiftsRight ==
  ASSUME NEW x \in Words, NEW y \in 0 .. Width - 1
  PROVE  /\ x >= 0 => /\ x \div Pow2[y] \in Words
                      /\ arith_shr(x, y) = x \div Pow2[y]
         /\ x * Pow2[y] \in Words => arith_shl(x, y) = x * Pow2[y]
         /\ arith_shr(x, y) \in Words /\ arith_shl(x, y) \in Words
<1>1. PICK H \in Nat \ {0} : INT_MIN = -H /\ INT_MAX = H - 1 /\ Pow2[Width] = 2 * H
  BY WordLimits
<1>2. y % Width = y /\ y \in 0 .. Width
  BY ArithAssumption
<1>3. PICK p \in Nat \ {0} : p = Pow2[y]
  BY <1>2, PowersOfTwo
<1>4. x \in Int /\ x \in -H .. H - 1
  BY <1>1 DEF Words
<1>5. PICK u \in Int : u = x % (2 * H) /\ (x >= 0 => u = x)
  BY <1>4
<1>6. arith_shr(x, y) = Word(u \div p) /\ arith_shl(x, y) = Word(x * p)
  BY <1>1, <1>2, <1>3, <1>5 DEF arith_shr, arith_shl
<1>7. u \div p \in Int /\ x * p \in Int
  BY <1>3, <1>4
<1>8. x >= 0 => x \div p \in 0 .. x
  <2>1. SUFFICES ASSUME x >= 0 PROVE x \div p \in 0 .. x
    OBVIOUS
  <2>2. PICK q \in Int, r \in 0 .. p - 1 : q = x \div p /\ x = p * q + r
    <3>1. x \div p \in Int /\ x % p \in 0 .. p - 1 /\ x = p * (x \div p) + (x % p)
      BY <1>3, <1>4
    <3> QED BY <3>1
  <2>3. q >= 0
    BY <2>1, <2>2
  <2>4. q <= p * q
    BY <2>3
  <2> QED BY <2>2, <2>3, <2>4
<1> QED BY <1>1, <1>3, <1>4, <1>5, <1>6, <1>7, <1>8, WordOfInt DEF Words

LEMMA Signs ==
  ASSUME NEW y \in Int, NEW d \in Int
  PROVE  /\ d * y = y * d /\ d * (-y) = -(y * d)
         /\ (-d) * y = -(y * d) /\ (-d) * (-y) = y * d
OBVIOUS

\* A quotient and a remainder in C, and their signs.
LEMMA Divided ==
  ASSUME NEW x \in Int, NEW y \in Int, y # 0
  PROVE  \E X \in Nat, Y \in Nat \ {0}, d \in Nat, e \in Nat :
           /\ X = magnitude(x) /\ Y = magnitude(y) /\ X = Y * d + e /\ e < Y /\ d <= X
           /\ Quotient(x, y) = (IF (x < 0) = (y < 0) THEN d ELSE -d)
           /\ x - Quotient(x, y) * y = (IF x < 0 THEN -e ELSE e)
<1>1. PICK X \in Nat, Y \in Nat \ {0} :
        /\ X = magnitude(x) /\ Y = magnitude(y)
        /\ x = (IF x < 0 THEN -X ELSE X) /\ y = (IF y < 0 THEN -Y ELSE Y)
  BY DEF magnitude
<1>2. PICK d \in Int, e \in 0 .. Y - 1 : d = X \div Y /\ X = Y * d + e
  <2>1. X \div Y \in Int /\ X % Y \in 0 .. Y - 1 /\ X = Y * (X \div Y) + (X % Y)
    OBVIOUS
  <2> QED BY <2>1
<1>3. d >= 0 /\ d <= X
  <2>1. d >= 0
    BY <1>2
  <2>2. d <= Y * d
    BY <2>1
  <2> QED BY <1>2, <2>1, <2>2
<1>4. Quotient(x, y) = (IF (x < 0) = (y < 0) THEN d ELSE -d)
  BY <1>1, <1>2 DEF Quotient
<1>5. x - Quotient(x, y) * y = (IF x < 0 THEN -e ELSE e)
  <2>1. PICK z \in Int : z = Y * d
    BY <1>2
  <2>2. PICK q \in Int : q = Quotient(x, y) /\ q = (IF (x < 0) = (y < 0) THEN d ELSE -d)
    BY <1>4
  <2>3. q * y = (IF x < 0 THEN -z ELSE z)
    <3>1. d * Y = z /\ d * (-Y) = -z /\ (-d) * Y = -z /\ (-d) * (-Y) = z
      BY <2>1, Signs
    <3>2. CASE x < 0 /\ y < 0
      <4>1. q = d /\ y = -Y
        BY <1>1, <2>2, <3>2
      <4> QED BY <3>1, <3>2, <4>1
    <3>3. CASE x < 0 /\ ~(y < 0)
      <4>1. q = -d /\ y = Y
        BY <1>1, <2>2, <3>3
      <4> QED BY <3>1, <3>3, <4>1
    <3>4. CASE ~(x < 0) /\ y < 0
      <4>1. q = -d /\ y = -Y
        BY <1>1, <2>2, <3>4
      <4> QED BY <3>1, <3>4, <4>1
    <3>5. CASE ~(x < 0) /\ ~(y < 0)
      <4>1. q = d /\ y = Y
        BY <1>1, <2>2, <3>5
      <4> QED BY <3>1, <3>5, <4>1
    <3> QED BY <3>2, <3>3, <3>4, <3>5
  <2>4. PICK w \in Int : w = q * y
    BY <2>2
  <2>5. x - w = (IF x < 0 THEN -e ELSE e)
    BY <1>1, <1>2, <2>1, <2>3, <2>4
  <2> QED BY <2>2, <2>4, <2>5
<1>6. d \in Nat /\ e \in Nat /\ e < Y
  BY <1>2, <1>3
<1> QED BY <1>1, <1>2, <1>3, <1>4, <1>5, <1>6

LEMMA NoMultiple ==
  ASSUME NEW m \in Int, NEW y \in Int, y # 0, NEW Y, Y = magnitude(y),
         NEW z, z = m * y, -Y < z, z < Y
  PROVE  m = 0
<1>1. Y \in Nat \ {0}
  BY DEF magnitude
<1>2. ASSUME m >= 1 PROVE FALSE
  BY <1>1, <1>2 DEF magnitude
<1>3. ASSUME m <= -1 PROVE FALSE
  BY <1>1, <1>3 DEF magnitude
<1> QED BY <1>2, <1>3

IsQuotient(x, y, q) ==
  magnitude(x - q * y) < magnitude(y) /\ (x - q * y) * x >= 0

LEMMA QuotientRight ==
  ASSUME NEW x \in Int, NEW y \in Int, y # 0
  PROVE  /\ Quotient(x, y) \in -magnitude(x) .. magnitude(x)
         /\ Quotient(x, y) = CHOOSE q \in -magnitude(x) .. magnitude(x) :
              magnitude(x - q * y) < magnitude(y) /\ (x - q * y) * x >= 0
<1>1. PICK X \in Nat, Y \in Nat \ {0}, d \in Nat, e \in Nat :
        /\ X = magnitude(x) /\ Y = magnitude(y) /\ X = Y * d + e /\ e < Y /\ d <= X
        /\ Quotient(x, y) = (IF (x < 0) = (y < 0) THEN d ELSE -d)
        /\ x - Quotient(x, y) * y = (IF x < 0 THEN -e ELSE e)
  BY Divided
<1>2. PICK p \in -X .. X : p = Quotient(x, y)
  BY <1>1
<1>3. IsQuotient(x, y, p)
  <2>1. PICK r \in Int : r = x - p * y /\ r = IF x < 0 THEN -e ELSE e
    BY <1>1, <1>2
  <2>2. magnitude(r) < Y
    BY <1>1, <2>1 DEF magnitude
  <2>3. r * x >= 0
    <3>1. CASE x < 0
      <4>1. r <= 0
        BY <2>1, <3>1
      <4> QED BY <3>1, <4>1
    <3>2. CASE ~(x < 0)
      <4>1. r >= 0
        BY <2>1, <3>2
      <4> QED BY <3>2, <4>1
    <3> QED BY <3>1, <3>2
  <2> QED BY <1>1, <2>1, <2>2, <2>3 DEF IsQuotient
<1>4. ASSUME NEW q \in -X .. X, IsQuotient(x, y, q) PROVE q = p
  <2>1. CASE x = 0
    BY <1>1, <2>1 DEF magnitude
  <2>2. CASE x # 0
    <3>1. PICK r \in Int, s \in Int : r = x - p * y /\ s = x - q * y
      OBVIOUS
    <3>2. magnitude(r) < Y /\ r * x >= 0 /\ magnitude(s) < Y /\ s * x >= 0
      BY <1>1, <1>3, <1>4, <3>1 DEF IsQuotient
    <3>3. x > 0 => r >= 0 /\ s >= 0
      BY <3>2
    <3>4. x < 0 => r <= 0 /\ s <= 0
      BY <3>2
    <3>5. -Y < r - s /\ r - s < Y
      BY <2>2, <3>2, <3>3, <3>4 DEF magnitude
    <3>6. PICK k \in Int, z \in Int : k = q - p /\ z = r - s
      BY <3>1
    <3>7. z = k * y
      BY <3>1, <3>6
    <3>8. k = 0
      <4>1. -Y < z /\ z < Y /\ Y = magnitude(y)
        BY <1>1, <3>5, <3>6
      <4> QED BY <3>7, <4>1, NoMultiple
    <3> QED BY <3>6, <3>8
  <2> QED BY <2>1, <2>2
<1>5. p = CHOOSE q \in -X .. X : IsQuotient(x, y, q)
  BY <1>3, <1>4
<1> QED BY <1>1, <1>2, <1>5 DEF IsQuotient

IsModulus(x, y, r) ==
  /\ magnitude(r) < magnitude(y) /\ r * y >= 0
  /\ \E q \in -magnitude(x) - 1 .. magnitude(x) + 1 : x = q * y + r

LEMMA ModulusRight ==
  ASSUME NEW x \in Int, NEW y \in Int, y # 0
  PROVE  /\ arith_mod(x, y) \in -magnitude(y) + 1 .. magnitude(y) - 1
         /\ arith_mod(x, y) = CHOOSE r \in -magnitude(y) .. magnitude(y) :
              /\ magnitude(r) < magnitude(y) /\ r * y >= 0
              /\ \E q \in -magnitude(x) - 1 .. magnitude(x) + 1 : x = q * y + r
<1>1. PICK X \in Nat, Y \in Nat \ {0}, d \in Nat, e \in Nat :
        /\ X = magnitude(x) /\ Y = magnitude(y) /\ X = Y * d + e /\ e < Y /\ d <= X
        /\ Quotient(x, y) = (IF (x < 0) = (y < 0) THEN d ELSE -d)
        /\ x - Quotient(x, y) * y = (IF x < 0 THEN -e ELSE e)
  BY Divided
<1>2. PICK p \in -X .. X : p = Quotient(x, y)
  BY <1>1
<1>3. PICK s \in Int : s = x - y * p /\ s = x - p * y /\ (s = IF x < 0 THEN -e ELSE e)
  BY <1>1, <1>2
<1>4. PICK m \in Int : m = arith_mod(x, y)
                       /\ m = IF s # 0 /\ (s < 0) # (y < 0) THEN s + y ELSE s
  BY <1>2, <1>3 DEF arith_mod
<1>5. magnitude(m) < Y
  BY <1>1, <1>3, <1>4 DEF magnitude
<1>6. m * y >= 0
  <2>1. CASE y < 0
    <3>1. m <= 0
      BY <1>1, <1>3, <1>4, <2>1 DEF magnitude
    <3> QED BY <2>1, <3>1
  <2>2. CASE ~(y < 0)
    <3>1. m >= 0
      BY <1>1, <1>3, <1>4, <2>2 DEF magnitude
    <3> QED BY <2>2, <3>1
  <2> QED BY <2>1, <2>2
<1>7. \E q \in -X - 1 .. X + 1 : x = q * y + m
  <2>1. CASE m = s
    BY <1>3, <2>1
  <2>2. CASE m = s + y
    <3>1. x = (p - 1) * y + m
      BY <1>3, <2>2
    <3> QED BY <3>1
  <2> QED BY <1>4, <2>1, <2>2
<1>8. m \in -Y + 1 .. Y - 1
  BY <1>5 DEF magnitude
<1>9. IsModulus(x, y, m)
  BY <1>1, <1>5, <1>6, <1>7 DEF IsModulus
<1>10. ASSUME NEW r \in -Y .. Y, IsModulus(x, y, r) PROVE r = m
  <2>1. PICK q \in Int, u \in Int : x = q * y + r /\ x = u * y + m
    <3>1. magnitude(x) = X
      BY <1>1
    <3>2. PICK q \in -X - 1 .. X + 1 : x = q * y + r
      BY <1>10, <3>1 DEF IsModulus
    <3>3. PICK u \in -X - 1 .. X + 1 : x = u * y + m
      BY <1>7
    <3>4. q \in Int /\ u \in Int
      BY <1>1
    <3> QED BY <3>2, <3>3, <3>4
  <2>2. magnitude(r) < Y /\ r * y >= 0
    BY <1>1, <1>10 DEF IsModulus
  <2>3. -Y < r - m /\ r - m < Y
    <3>1. y > 0 => r >= 0 /\ m >= 0
      BY <1>6, <2>2
    <3>2. y < 0 => r <= 0 /\ m <= 0
      BY <1>6, <2>2
    <3> QED BY <1>5, <2>2, <3>1, <3>2 DEF magnitude
  <2>4. PICK k \in Int, z \in Int : k = u - q /\ z = r - m
    <3>1. r \in Int
      BY <1>1
    <3> QED BY <3>1
  <2>5. z = k * y
    BY <1>1, <1>4, <2>1, <2>4
  <2>6. k = 0
    <3>1. -Y < z /\ z < Y /\ Y = magnitude(y)
      BY <1>1, <2>3, <2>4
    <3> QED BY <2>5, <3>1, NoMultiple
  <2> QED BY <1>4, <2>4, <2>5, <2>6
<1>11. m = CHOOSE r \in -Y .. Y : IsModulus(x, y, r)
  <2>1. m \in -Y .. Y
    BY <1>8
  <2> QED BY <1>9, <1>10, <2>1
<1> QED BY <1>1, <1>4, <1>8, <1>11 DEF IsModulus


\* What an integer operator gives stays in the word.
LEMMA QuotientStays ==
  ASSUME NEW x \in Words, NEW y \in Words, y # 0, ~ Traps(x, y)
  PROVE  Quotient(x, y) \in Words
<1>1. PICK H \in Nat \ {0} : INT_MIN = -H /\ INT_MAX = H - 1
  BY WordLimits
<1>2. x \in -H .. H - 1 /\ y \in -H .. H - 1 /\ x \in Int /\ y \in Int
  BY <1>1 DEF Words
<1>3. PICK X \in Nat, Y \in Nat \ {0}, d \in Nat, e \in Nat :
        /\ X = magnitude(x) /\ Y = magnitude(y) /\ X = Y * d + e /\ e < Y /\ d <= X
        /\ Quotient(x, y) = (IF (x < 0) = (y < 0) THEN d ELSE -d)
        /\ x - Quotient(x, y) * y = (IF x < 0 THEN -e ELSE e)
  BY <1>2, Divided
<1>4. X <= H
  BY <1>2, <1>3 DEF magnitude
<1>5. ASSUME d = H, x < 0, y < 0 PROVE FALSE
  <2>1. X = H /\ x = -H
    BY <1>2, <1>3, <1>4, <1>5 DEF magnitude
  <2>2. Y = 1
    <3>1. SUFFICES ASSUME Y >= 2 PROVE FALSE
      OBVIOUS
    <3>2. Y * d >= 2 * d
      BY <1>3, <3>1
    <3> QED BY <1>3, <1>5, <2>1, <3>2
  <2>3. y = -1
    BY <1>2, <1>3, <1>5, <2>2 DEF magnitude
  <2> QED BY <1>1, <2>1, <2>3 DEF Traps
<1>6. ASSUME d = H, ~(x < 0) PROVE FALSE
  BY <1>2, <1>3, <1>6 DEF magnitude
<1>7. d < H \/ (d = H /\ x < 0 /\ ~(y < 0))
  BY <1>2, <1>3, <1>4, <1>5, <1>6
<1>8. Quotient(x, y) \in -H .. H - 1
  BY <1>2, <1>3, <1>7
<1> QED BY <1>1, <1>8 DEF Words

LEMMA ModulusStays ==
  ASSUME NEW x \in Words, NEW y \in Words, y # 0
  PROVE  arith_mod(x, y) \in Words
<1>1. PICK H \in Nat \ {0} : INT_MIN = -H /\ INT_MAX = H - 1
  BY WordLimits
<1>2. x \in Int /\ y \in Int /\ y \in -H .. H - 1
  BY <1>1 DEF Words
<1>3. arith_mod(x, y) \in -magnitude(y) + 1 .. magnitude(y) - 1
  BY <1>2, ModulusRight
<1>4. magnitude(y) \in 1 .. H
  BY <1>2 DEF magnitude
<1>5. arith_mod(x, y) \in -H .. H - 1
  BY <1>3, <1>4
<1> QED BY <1>1, <1>5 DEF Words

LEMMA ShiftsStay ==
  ASSUME NEW x \in Words, NEW y \in Words
  PROVE  arith_shr(x, y) \in Words /\ arith_shl(x, y) \in Words
<1>1. PICK H \in Nat \ {0} : INT_MIN = -H /\ INT_MAX = H - 1 /\ Pow2[Width] = 2 * H
  BY WordLimits
<1>2. x \in Int /\ y \in Int
  BY <1>1 DEF Words
<1>3. y % Width \in 0 .. Width
  BY <1>2, ArithAssumption
<1>4. PICK p \in Nat \ {0} : p = Pow2[y % Width]
  BY <1>3, PowersOfTwo
<1>5. PICK u \in Int : u = x % (2 * H)
  BY <1>2
<1>6. u \div p \in Int /\ x * p \in Int
  BY <1>2, <1>4
<1>7. arith_shr(x, y) = Word(u \div p) /\ arith_shl(x, y) = Word(x * p)
  BY <1>1, <1>4, <1>5 DEF arith_shr, arith_shl
<1> QED BY <1>6, <1>7, WordOfInt DEF Words

-----------------------------------------------------------------------------
(* The evaluator                                                           *)

Numbers == Ints \cup Doubles
Outcome(r) == r.ok \in BOOLEAN /\ (r.ok => r.v \in Numbers)

LEMMA IntegersAre ==
  /\ \A i \in Words : Integer(i) \in Ints
  /\ \A a \in Ints : a.n \in Words /\ a.d = 1 /\ a = Integer(a.n) /\ a.type = "INT"
BY DEF Ints, Integer, Words

LEMMA DoublesAre ==
  /\ \A n \in Int, d \in Nat \ {0} : Double(n, d) \in Doubles
  /\ \A a \in Doubles : a.n \in Int /\ a.d \in Nat \ {0} /\ a.type = "FLOAT"
BY DEF Doubles, Double

LEMMA NumbersAre ==
  ASSUME NEW a \in Numbers
  PROVE  /\ a.n \in Int /\ a.d \in Nat \ {0}
         /\ (a.type = "INT" /\ a \in Ints) \/ (a.type = "FLOAT" /\ a \in Doubles)
<1>1. CASE a \in Ints
  <2>1. a.n \in Words /\ a.d = 1 /\ a.type = "INT"
    BY <1>1, IntegersAre
  <2>2. a.n \in Int
    <3>1. PICK H \in Nat \ {0} : INT_MIN = -H /\ INT_MAX = H - 1
      BY WordLimits
    <3> QED BY <2>1, <3>1 DEF Words
  <2>3. a.d \in Nat \ {0}
    BY <2>1
  <2> QED BY <1>1, <2>1, <2>2, <2>3
<1>2. CASE a \in Doubles
  BY <1>2, DoublesAre
<1> QED BY <1>1, <1>2 DEF Numbers

LEMMA OutcomesAre ==
  /\ \A v \in Numbers : Outcome(Yields(v)) /\ Yields(v).ok /\ Yields(v).v = v
  /\ \A e : Outcome(Throw(e)) /\ ~ Throw(e).ok
BY DEF Outcome, Yields, Throw

LEMMA RangeChecked ==
  ASSUME NEW i \in Int
  PROVE  /\ Outcome(av_to_int_result(i))
         /\ i \in Words => av_to_int_result(i) = Yields(Integer(i))
         /\ i \notin Words => av_to_int_result(i) = Throw("int_overflow")
<1>1. i \in Words <=> ~(i < INT_MIN \/ i > INT_MAX)
  BY WordLimits DEF Words
<1>2. CASE i \in Words
  <2>1. av_to_int_result(i) = Yields(Integer(i))
    BY <1>1, <1>2 DEF av_to_int_result
  <2>2. Integer(i) \in Numbers
    BY <1>2, IntegersAre DEF Numbers
  <2> QED BY <1>2, <2>1, <2>2, OutcomesAre
<1>3. CASE i \notin Words
  <2>1. av_to_int_result(i) = Throw("int_overflow")
    BY <1>1, <1>3 DEF av_to_int_result
  <2> QED BY <1>3, <2>1, OutcomesAre
<1> QED BY <1>2, <1>3

LEMMA IntegerYields == ASSUME NEW i \in Words PROVE Outcome(Yields(Integer(i)))
BY IntegersAre, OutcomesAre DEF Numbers

LEMMA DoubleYields ==
  ASSUME NEW n \in Int, NEW d \in Nat \ {0} PROVE Outcome(Yields(Double(n, d)))
BY DoublesAre, OutcomesAre DEF Numbers

LEMMA IntegerOutcome ==
  ASSUME NEW op \in IntOps \cup {"/"}, NEW x \in Words, NEW y \in Words
  PROVE  Outcome(arith_int(op, x, y))
<1>1. CASE op \in Divides /\ y = 0
  <2>1. arith_int(op, x, y) = Throw("zero_divisor")
    BY <1>1 DEF arith_int, Divides
  <2> QED BY <2>1, OutcomesAre
<1>2. CASE op \in Divides /\ y # 0 /\ Traps(x, y)
  <2>1. arith_int(op, x, y) = Throw("SIGFPE")
    BY <1>2 DEF arith_int, Divides
  <2> QED BY <2>1, OutcomesAre
<1>3. CASE op = "mod" /\ y # 0 /\ ~ Traps(x, y)
  <2>1. arith_int(op, x, y) = Yields(Integer(arith_mod(x, y)))
    BY <1>3 DEF arith_int, Divides
  <2> QED BY <1>3, <2>1, ModulusStays, IntegerYields
<1>4. CASE op \in {"//", "/"} /\ y # 0 /\ ~ Traps(x, y)
  <2>1. arith_int(op, x, y) = Yields(Integer(Quotient(x, y)))
    BY <1>4 DEF arith_int, Divides
  <2> QED BY <1>4, <2>1, QuotientStays, IntegerYields
<1>5. CASE op = "/\\"
  <2>1. arith_int(op, x, y) = Yields(Integer(OfBits(Bits(x) \cap Bits(y))))
    BY <1>5 DEF arith_int, Divides
  <2> QED BY <2>1, BitOperators, IntegerYields
<1>6. CASE op = "\\/"
  <2>1. arith_int(op, x, y) = Yields(Integer(OfBits(Bits(x) \cup Bits(y))))
    BY <1>6 DEF arith_int, Divides
  <2> QED BY <2>1, BitOperators, IntegerYields
<1>7. CASE op = "xor"
  <2>1. arith_int(op, x, y) = Yields(Integer(OfBits((Bits(x) \cup Bits(y))
                                                    \ (Bits(x) \cap Bits(y)))))
    BY <1>7 DEF arith_int, Divides
  <2> QED BY <2>1, BitOperators, IntegerYields
<1>8. CASE op = ">>"
  <2>1. arith_int(op, x, y) = Yields(Integer(arith_shr(x, y)))
    BY <1>8 DEF arith_int, Divides
  <2> QED BY <2>1, ShiftsStay, IntegerYields
<1>9. CASE op = "<<"
  <2>1. arith_int(op, x, y) = Yields(Integer(arith_shl(x, y)))
    BY <1>9 DEF arith_int, Divides
  <2> QED BY <2>1, ShiftsStay, IntegerYields
<1> QED BY <1>1, <1>2, <1>3, <1>4, <1>5, <1>6, <1>7, <1>8, <1>9 DEF IntOps, Divides

\* What floor, ceiling, truncate and round give is an integer of mathematics.
LEMMA RoundedIsInteger ==
  ASSUME NEW op \in {"floor", "ceiling", "round", "truncate"}, NEW a \in Numbers
  PROVE  Rounded(op, a) \in Int
<1>1. PICK n \in Int, d \in Nat \ {0} : n = a.n /\ d = a.d
  BY NumbersAre
<1>2. n \div d \in Int /\ -((-n) \div d) \in Int
  OBVIOUS
<1>3. PICK m \in Int : m = 2 * magnitude(n) + d
  BY DEF magnitude
<1>4. PICK h \in Int : h = m \div (2 * d)
  OBVIOUS
<1>5. (2 * magnitude(a.n) + a.d) \div (2 * a.d) = h
  BY <1>1, <1>3, <1>4
<1> QED BY <1>1, <1>2, <1>4, <1>5 DEF Rounded

LEMMA FloorDivision ==
  ASSUME NEW m \in Int, NEW e \in Nat \ {0}, NEW q \in Int
  PROVE  q * e <= m /\ m < (q + 1) * e <=> q = m \div e
<1>1. PICK p \in Int, r \in 0 .. e - 1 : p = m \div e /\ m = p * e + r
  <2>1. m \div e \in Int
    OBVIOUS
  <2>2. e * (m \div e) <= m /\ m < e * (m \div e) + e
    OBVIOUS
  <2>3. PICK p \in Int, u \in Int : p = m \div e /\ u = p * e /\ u = e * p
    BY <2>1
  <2>4. m - u \in 0 .. e - 1 /\ m = p * e + (m - u)
    BY <2>2, <2>3
  <2> QED BY <2>3, <2>4
<1>2. (p + 1) * e = p * e + e /\ (q + 1) * e = q * e + e
  OBVIOUS
<1>3. CASE q = p
  BY <1>1, <1>2, <1>3
<1>4. CASE q # p
  <2>1. PICK k \in Int, z \in Int : k = q - p /\ z = q * e - p * e
    OBVIOUS
  <2>2. z = k * e /\ k # 0
    BY <1>4, <2>1
  <2>3. e = magnitude(e) /\ e # 0
    BY DEF magnitude
  <2>4. ~(-e < z /\ z < e)
    BY <2>2, <2>3, NoMultiple
  <2>5. q * e = p * e + z
    BY <2>1
  <2>6. PICK u \in Int : u = p * e
    OBVIOUS
  <2>7. ASSUME q * e <= m, m < (q + 1) * e PROVE FALSE
    BY <1>1, <1>2, <2>4, <2>5, <2>6, <2>7
  <2> QED BY <1>1, <1>4, <2>7
<1> QED BY <1>3, <1>4

\* floor, ceiling, truncate and round give the one integer that is meant.
LEMMA RoundedIs ==
  ASSUME NEW op \in Roundings, NEW a \in Numbers, NEW i \in Int
  PROVE  IsRounded(op, a, i) <=> i = Rounded(op, a)
<1>1. PICK n \in Int, d \in Nat \ {0} : n = a.n /\ d = a.d
  BY NumbersAre
<1>2. i * d <= n /\ n < (i + 1) * d <=> i = n \div d
  BY FloorDivision
<1>3. (i - 1) * d < n /\ n <= i * d <=> i = -((-n) \div d)
  <2>1. (-i) * d <= -n /\ -n < (-i + 1) * d <=> -i = (-n) \div d
    BY FloorDivision
  <2>2. (-i) * d = -(i * d) /\ (-i + 1) * d = -((i - 1) * d)
    OBVIOUS
  <2>3. (-n) \div d \in Int /\ i * d \in Int /\ (i - 1) * d \in Int
    OBVIOUS
  <2> QED BY <2>1, <2>2, <2>3
<1>4. ASSUME NEW m \in Int, NEW k \in Int
      PROVE  (2 * k - 1) * d <= 2 * m /\ 2 * m < (2 * k + 1) * d
               <=> k = (2 * m + d) \div (2 * d)
  <2>1. 2 * d \in Nat \ {0} /\ 2 * m + d \in Int
    OBVIOUS
  <2>2. k * (2 * d) <= 2 * m + d /\ 2 * m + d < (k + 1) * (2 * d)
          <=> k = (2 * m + d) \div (2 * d)
    BY <2>1, FloorDivision
  <2>3. PICK u \in Int : u = k * d
    OBVIOUS
  <2>4. /\ k * (2 * d) = 2 * u /\ (k + 1) * (2 * d) = 2 * u + 2 * d
        /\ (2 * k - 1) * d = 2 * u - d /\ (2 * k + 1) * d = 2 * u + d
    BY <2>3
  <2> QED BY <2>2, <2>4
<1>5. CASE op = "floor"
  BY <1>1, <1>2, <1>5 DEF IsRounded, Rounded
<1>6. CASE op = "ceiling"
  BY <1>1, <1>3, <1>6 DEF IsRounded, Rounded
<1>7. CASE op = "truncate"
  BY <1>1, <1>2, <1>3, <1>7 DEF IsRounded, Rounded
<1>8. CASE op = "round"
  <2>1. CASE n < 0
    <3>1. (2 * (-i) - 1) * d <= 2 * (-n) /\ 2 * (-n) < (2 * (-i) + 1) * d
            <=> -i = (2 * (-n) + d) \div (2 * d)
      BY <1>4
    <3>2. PICK u \in Int : u = i * d
      OBVIOUS
    <3>3. /\ (2 * (-i) - 1) * d = -(2 * u) - d /\ (2 * (-i) + 1) * d = -(2 * u) + d
          /\ (2 * i - 1) * d = 2 * u - d /\ (2 * i + 1) * d = 2 * u + d
      BY <3>2
    <3>4. PICK h \in Int : h = (2 * (-n) + d) \div (2 * d)
      OBVIOUS
    <3>5. IsRounded(op, a, i) <=> (2 * i - 1) * d < 2 * n /\ 2 * n <= (2 * i + 1) * d
      BY <1>1, <1>8, <2>1 DEF IsRounded
    <3>6. Rounded(op, a) = -h
      BY <1>1, <1>8, <2>1, <3>4 DEF Rounded, magnitude
    <3> QED BY <3>1, <3>3, <3>4, <3>5, <3>6
  <2>2. CASE ~(n < 0)
    <3>1. Rounded(op, a) = (2 * n + d) \div (2 * d)
      BY <1>1, <1>8, <2>2 DEF Rounded, magnitude
    <3>2. IsRounded(op, a, i) <=> (2 * i - 1) * d <= 2 * n /\ 2 * n < (2 * i + 1) * d
      BY <1>1, <1>8, <2>2 DEF IsRounded
    <3> QED BY <1>4, <3>1, <3>2
  <2> QED BY <2>1, <2>2
<1> QED BY <1>5, <1>6, <1>7, <1>8 DEF Roundings

LEMMA UnaryOutcome ==
  ASSUME NEW op, NEW a \in Numbers PROVE Outcome(Unary(op, a))
<1>1. a.n \in Int /\ a.d \in Nat \ {0}
  BY NumbersAre
<1>2. a.type \in {"INT", "FLOAT"}
  BY NumbersAre
<1>3. ASSUME NEW n \in Int
      PROVE  Outcome(Yields(IF a.type = "FLOAT" THEN Double(n, a.d) ELSE Integer(Word(n))))
  <2>1. CASE a.type = "FLOAT"
    BY <1>1, <2>1, DoubleYields
  <2>2. CASE a.type # "FLOAT"
    <3>1. Word(n) \in Words
      BY WordOfInt DEF Words
    <3> QED BY <2>2, <3>1, IntegerYields
  <2> QED BY <2>1, <2>2
<1>4. CASE op = "-"
  <2>1. -a.n \in Int
    BY <1>1
  <2>2. Unary(op, a) = Yields(IF a.type = "FLOAT" THEN Double(-a.n, a.d)
                              ELSE Integer(Word(-a.n)))
    BY <1>4 DEF Unary
  <2> QED BY <1>3, <2>1, <2>2
<1>5. CASE op = "abs"
  <2>1. magnitude(a.n) \in Int
    BY <1>1 DEF magnitude
  <2>2. Unary(op, a) = Yields(IF a.type = "FLOAT" THEN Double(magnitude(a.n), a.d)
                              ELSE Integer(Word(magnitude(a.n))))
    BY <1>5 DEF Unary
  <2> QED BY <1>3, <2>1, <2>2
<1>6. CASE op = "\\"
  <2>1. CASE a.type = "FLOAT"
    <3>1. Unary(op, a) = Throw("type_error")
      BY <1>6, <2>1 DEF Unary
    <3> QED BY <3>1, OutcomesAre
  <2>2. CASE a.type # "FLOAT"
    <3>1. Unary(op, a) = Yields(Integer(-a.n - 1))
      BY <1>6, <2>2 DEF Unary
    <3>2. PICK H \in Nat \ {0} : INT_MIN = -H /\ INT_MAX = H - 1
      BY WordLimits
    <3>3. a.n \in Words
      BY <1>2, <2>2, NumbersAre, IntegersAre
    <3>4. -a.n - 1 \in Words
      BY <3>2, <3>3 DEF Words
    <3> QED BY <3>1, <3>4, IntegerYields
  <2> QED BY <2>1, <2>2
<1>7. CASE op \in {"floor", "ceiling", "round", "truncate"}
  <2>1. Unary(op, a) = av_to_int_result(Rounded(op, a))
    BY <1>7 DEF Unary
  <2> QED BY <1>7, <2>1, RoundedIsInteger, RangeChecked
<1>8. CASE op = "float"
  <2>1. Unary(op, a) = Yields(Double(a.n, a.d))
    BY <1>8 DEF Unary
  <2> QED BY <1>1, <2>1, DoubleYields
<1>9. CASE op \notin UnaryOps
  <2>1. Unary(op, a) = Throw("evaluable")
    BY <1>9 DEF Unary, UnaryOps
  <2> QED BY <2>1, OutcomesAre
<1> QED BY <1>4, <1>5, <1>6, <1>7, <1>8, <1>9 DEF UnaryOps

LEMMA BinaryOutcome ==
  ASSUME NEW op \in BinaryOps, NEW a \in Numbers, NEW b \in Numbers
  PROVE  Outcome(Binary(op, a, b))
<1>1. PICK m \in Int, d \in Nat \ {0} : m = a.n /\ d = a.d
  BY NumbersAre
<1>2. PICK n \in Int, e \in Nat \ {0} : n = b.n /\ e = b.d
  BY NumbersAre
<1>3. /\ (a.type = "INT" /\ a \in Ints) \/ (a.type = "FLOAT" /\ a \in Doubles)
      /\ (b.type = "INT" /\ b \in Ints) \/ (b.type = "FLOAT" /\ b \in Doubles)
  BY NumbersAre
<1>4. PICK isf \in BOOLEAN : isf <=> "FLOAT" \in {a.type, b.type}
  <2>1. CASE "FLOAT" \in {a.type, b.type}
    <3>1. TRUE <=> "FLOAT" \in {a.type, b.type}
      BY <2>1
    <3> QED BY <3>1
  <2>2. CASE "FLOAT" \notin {a.type, b.type}
    <3>1. FALSE <=> "FLOAT" \in {a.type, b.type}
      BY <2>2
    <3> QED BY <3>1
  <2> QED BY <2>1, <2>2
<1>5. d * e \in Nat \ {0} /\ m * e \in Int /\ n * d \in Int /\ m * n \in Int
  BY <1>1, <1>2
<1>6. ASSUME NEW k \in Int
      PROVE  Outcome(IF isf THEN Yields(Double(k, d * e)) ELSE av_to_int_result(k))
  BY <1>5, DoubleYields, RangeChecked
<1>7. ASSUME NEW c \in {a, b}
      PROVE  Outcome(Yields(IF isf THEN Double(c.n, c.d) ELSE c))
  <2>1. CASE isf
    <3>1. c.n \in Int /\ c.d \in Nat \ {0}
      BY <1>1, <1>2
    <3> QED BY <2>1, <3>1, DoubleYields
  <2>2. CASE ~ isf
    <3>1. c \in Numbers
      OBVIOUS
    <3> QED BY <2>2, <3>1, OutcomesAre
  <2> QED BY <2>1, <2>2
<1>8. CASE isf /\ op \in IntOps
  <2>1. Binary(op, a, b) = Throw("type_error")
    BY <1>4, <1>8 DEF Binary, IntOps
  <2> QED BY <2>1, OutcomesAre
<1>9. CASE op = "+"
  <2>1. Binary(op, a, b) = IF isf THEN Yields(Double(m * e + n * d, d * e))
                           ELSE av_to_int_result(m * e + n * d)
    BY <1>1, <1>2, <1>4, <1>9 DEF Binary, IntOps
  <2>2. m * e + n * d \in Int
    BY <1>5
  <2> QED BY <1>6, <2>1, <2>2
<1>10. CASE op = "-"
  <2>1. Binary(op, a, b) = IF isf THEN Yields(Double(m * e - n * d, d * e))
                           ELSE av_to_int_result(m * e - n * d)
    BY <1>1, <1>2, <1>4, <1>10 DEF Binary, IntOps
  <2>2. m * e - n * d \in Int
    BY <1>5
  <2> QED BY <1>6, <2>1, <2>2
<1>11. CASE op = "*"
  <2>1. Binary(op, a, b) = IF isf THEN Yields(Double(m * n, d * e))
                           ELSE av_to_int_result(m * n)
    BY <1>1, <1>2, <1>4, <1>11 DEF Binary, IntOps
  <2> QED BY <1>5, <1>6, <2>1
<1>12. CASE isf /\ op = "/"
  <2>1. CASE n = 0
    <3>1. Binary(op, a, b) = Throw("zero_divisor")
      BY <1>2, <1>4, <1>12, <2>1 DEF Binary, IntOps
    <3> QED BY <3>1, OutcomesAre
  <2>2. CASE n < 0
    <3>1. Binary(op, a, b) = Yields(Double(-m * e, d * (-n)))
      <4>1. b.n < 0 /\ b.n # 0
        BY <1>2, <2>2
      <4>2. Binary(op, a, b) = Yields(Double(-a.n * b.d, a.d * (-b.n)))
        BY <1>4, <1>12, <4>1 DEF Binary, IntOps
      <4> QED BY <1>1, <1>2, <4>2
    <3>2. -m * e \in Int /\ d * (-n) \in Nat \ {0}
      <4>1. -n \in Nat \ {0}
        BY <2>2
      <4>2. PICK k \in Nat \ {0} : k = -n
        BY <4>1
      <4>3. d * k \in Nat \ {0}
        OBVIOUS
      <4> QED BY <4>2, <4>3
    <3> QED BY <3>1, <3>2, DoubleYields
  <2>3. CASE n > 0
    <3>1. Binary(op, a, b) = Yields(Double(m * e, d * n))
      <4>1. ~(b.n < 0) /\ b.n # 0
        BY <1>2, <2>3
      <4>2. Binary(op, a, b) = Yields(Double(a.n * b.d, a.d * b.n))
        BY <1>4, <1>12, <4>1 DEF Binary, IntOps
      <4> QED BY <1>1, <1>2, <4>2
    <3>2. m * e \in Int /\ d * n \in Nat \ {0}
      <4>1. PICK k \in Nat \ {0} : k = n
        BY <2>3
      <4>2. d * k \in Nat \ {0}
        OBVIOUS
      <4> QED BY <4>1, <4>2
    <3> QED BY <3>1, <3>2, DoubleYields
  <2> QED BY <2>1, <2>2, <2>3
<1>13. CASE op = "max"
  <2>1. Binary(op, a, b) = LET c == IF less(b, a) THEN a ELSE b
                           IN Yields(IF isf THEN Double(c.n, c.d) ELSE c)
    BY <1>4, <1>13 DEF Binary, IntOps
  <2> QED BY <1>7, <2>1
<1>14. CASE op = "min"
  <2>1. Binary(op, a, b) = LET c == IF less(a, b) THEN a ELSE b
                           IN Yields(IF isf THEN Double(c.n, c.d) ELSE c)
    BY <1>4, <1>14 DEF Binary, IntOps
  <2> QED BY <1>7, <2>1
<1>15. CASE ~ isf /\ op \in IntOps \cup {"/"}
  <2>1. Binary(op, a, b) = arith_int(op, a.n, b.n)
    BY <1>4, <1>15 DEF Binary, IntOps
  <2>2. a.n \in Words /\ b.n \in Words
    BY <1>3, <1>4, <1>15, IntegersAre
  <2> QED BY <1>15, <2>1, <2>2, IntegerOutcome
<1> QED BY <1>8, <1>9, <1>10, <1>11, <1>12, <1>13, <1>14, <1>15 DEF BinaryOps, IntOps

LEMMA ExactFits ==
  ASSUME NEW exact \in Words PROVE IntegerFits(Yields(Integer(exact)), exact)
<1>1. Compare("=:=", Yields(Integer(exact)), Yields(Integer(exact))).ok
  BY DEF Compare, Yields, Integer
<1> QED BY <1>1 DEF IntegerFits, Words

LEMMA CheckedFits == ASSUME NEW i \in Int PROVE IntegerFits(av_to_int_result(i), i)
<1>1. CASE i \in Words
  BY <1>1, RangeChecked, ExactFits
<1>2. CASE i \notin Words
  BY <1>2, RangeChecked DEF IntegerFits, Words
<1> QED BY <1>1, <1>2

LEMMA DivisionAgrees ==
  ASSUME NEW op \in Divides, NEW x \in Words, NEW y \in Words
  PROVE  Agrees(op, x, y, arith_int(op, x, y))
<1>1. CASE y = 0
  <2>1. arith_int(op, x, y) = Throw("zero_divisor")
    BY <1>1 DEF arith_int, Divides
  <2> QED BY <1>1, <2>1 DEF Agrees
<1>2. CASE y # 0 /\ Traps(x, y)
  BY <1>2 DEF Agrees, Unchecked
<1>3. CASE y # 0 /\ ~ Traps(x, y)
  <2>1. x \in Int /\ y \in Int
    <3>1. PICK H \in Nat \ {0} : INT_MIN = -H /\ INT_MAX = H - 1
      BY WordLimits
    <3> QED BY <3>1 DEF Words
  <2>2. CASE op = "mod"
    <3>1. arith_int(op, x, y) = Yields(Integer(arith_mod(x, y)))
      BY <1>3, <2>2 DEF arith_int, Divides
    <3>2. arith_mod(x, y) = Exact(op, x, y)
      BY <1>3, <2>1, <2>2, ModulusRight DEF Exact
    <3>3. arith_mod(x, y) \in Words
      BY <1>3, ModulusStays
    <3> QED BY <1>3, <3>1, <3>2, <3>3, ExactFits DEF Agrees
  <2>3. CASE op \in {"//", "/"}
    <3>1. arith_int(op, x, y) = Yields(Integer(Quotient(x, y)))
      BY <1>3, <2>3 DEF arith_int, Divides
    <3>2. Quotient(x, y) = Exact(op, x, y)
      BY <1>3, <2>1, <2>3, QuotientRight DEF Exact
    <3>3. Quotient(x, y) \in Words
      BY <1>3, QuotientStays
    <3> QED BY <1>3, <3>1, <3>2, <3>3, ExactFits DEF Agrees
  <2> QED BY <2>2, <2>3 DEF Divides
<1> QED BY <1>1, <1>2, <1>3

LEMMA BitsAgree ==
  ASSUME NEW op \in {"/\\", "\\/", "xor"}, NEW x \in Words, NEW y \in Words
  PROVE  Agrees(op, x, y, arith_int(op, x, y))
<1>1. PICK c, o, e : c = And(x, y) /\ o = x + y - c /\ e = x + y - 2 * c
  OBVIOUS
<1>2. /\ c \in Words /\ OfBits(Bits(x) \cap Bits(y)) = c
      /\ o \in Words /\ OfBits(Bits(x) \cup Bits(y)) = o
      /\ e \in Words /\ OfBits((Bits(x) \cup Bits(y)) \ (Bits(x) \cap Bits(y))) = e
  BY <1>1, BitOperators
<1>3. op \notin Divides
  BY DEF Divides
<1>4. CASE op = "/\\"
  <2>1. arith_int(op, x, y) = Yields(Integer(c))
    BY <1>2, <1>4 DEF arith_int, Divides
  <2>2. Exact(op, x, y) = c
    BY <1>1, <1>4 DEF Exact
  <2> QED BY <1>2, <1>3, <2>1, <2>2, ExactFits DEF Agrees
<1>5. CASE op = "\\/"
  <2>1. arith_int(op, x, y) = Yields(Integer(o))
    BY <1>2, <1>5 DEF arith_int, Divides
  <2>2. Exact(op, x, y) = o
    BY <1>1, <1>5 DEF Exact
  <2> QED BY <1>2, <1>3, <2>1, <2>2, ExactFits DEF Agrees
<1>6. CASE op = "xor"
  <2>1. arith_int(op, x, y) = Yields(Integer(e))
    BY <1>2, <1>6 DEF arith_int, Divides
  <2>2. Exact(op, x, y) = e
    BY <1>1, <1>6 DEF Exact
  <2> QED BY <1>2, <1>3, <2>1, <2>2, ExactFits DEF Agrees
<1> QED BY <1>4, <1>5, <1>6

LEMMA ShiftsAgree ==
  ASSUME NEW op \in {">>", "<<"}, NEW x \in Words, NEW y \in Words
  PROVE  Agrees(op, x, y, arith_int(op, x, y))
<1>1. op \notin Divides
  BY DEF Divides
<1>2. CASE Unchecked(op, x, y)
  BY <1>1, <1>2 DEF Agrees
<1>3. CASE ~ Unchecked(op, x, y)
  <2>1. y \in 0 .. Width - 1
    BY <1>3 DEF Unchecked
  <2>2. CASE op = ">>"
    <3>1. arith_int(op, x, y) = Yields(Integer(arith_shr(x, y)))
      BY <2>2 DEF arith_int, Divides
    <3>2. x >= 0
      <4>1. PICK H \in Nat \ {0} : INT_MIN = -H /\ INT_MAX = H - 1
        BY WordLimits
      <4> QED BY <1>3, <2>2, <4>1 DEF Unchecked, Words
    <3>3. arith_shr(x, y) = Exact(op, x, y) /\ arith_shr(x, y) \in Words
      BY <2>1, <2>2, <3>2, ShiftsRight DEF Exact
    <3> QED BY <1>1, <3>1, <3>3, ExactFits DEF Agrees
  <2>3. CASE op = "<<"
    <3>1. arith_int(op, x, y) = Yields(Integer(arith_shl(x, y)))
      BY <2>3 DEF arith_int, Divides
    <3>2. x * Pow2[y] \in Words
      BY <1>3, <2>3 DEF Unchecked, Words
    <3>3. arith_shl(x, y) = Exact(op, x, y) /\ arith_shl(x, y) \in Words
      BY <2>1, <2>3, <3>2, ShiftsRight DEF Exact
    <3> QED BY <1>1, <3>1, <3>3, ExactFits DEF Agrees
  <2> QED BY <2>2, <2>3
<1> QED BY <1>2, <1>3

LEMMA BinaryAgrees ==
  ASSUME NEW op \in BinaryOps, NEW x \in Words, NEW y \in Words
  PROVE  Agrees(op, x, y, Binary(op, Integer(x), Integer(y)))
<1>1. x \in Int /\ y \in Int
  <2>1. PICK H \in Nat \ {0} : INT_MIN = -H /\ INT_MAX = H - 1
    BY WordLimits
  <2> QED BY <2>1 DEF Words
<1>2. /\ Integer(x).n = x /\ Integer(x).d = 1 /\ Integer(x).type = "INT"
      /\ Integer(y).n = y /\ Integer(y).d = 1 /\ Integer(y).type = "INT"
  BY DEF Integer
<1>3. "FLOAT" \notin {Integer(x).type, Integer(y).type}
  BY <1>2
<1>4. CASE op \in IntOps \cup {"/"}
  <2>1. Binary(op, Integer(x), Integer(y)) = arith_int(op, x, y)
    BY <1>2, <1>3, <1>4 DEF Binary, IntOps
  <2> QED BY <1>4, <2>1, DivisionAgrees, BitsAgree, ShiftsAgree DEF IntOps, Divides
<1>5. CASE op = "+"
  <2>1. Binary(op, Integer(x), Integer(y)) = av_to_int_result(x + y)
    <3>1. Binary(op, Integer(x), Integer(y)) = av_to_int_result(x * 1 + y * 1)
      BY <1>2, <1>3, <1>5 DEF Binary, IntOps
    <3>2. x * 1 + y * 1 = x + y
      BY <1>1
    <3> QED BY <3>1, <3>2
  <2>2. Exact(op, x, y) = x + y /\ op \notin Divides /\ x + y \in Int
    BY <1>1, <1>5 DEF Exact, Divides
  <2> QED BY <2>1, <2>2, CheckedFits DEF Agrees
<1>6. CASE op = "-"
  <2>1. Binary(op, Integer(x), Integer(y)) = av_to_int_result(x - y)
    <3>1. Binary(op, Integer(x), Integer(y)) = av_to_int_result(x * 1 - y * 1)
      BY <1>2, <1>3, <1>6 DEF Binary, IntOps
    <3>2. x * 1 - y * 1 = x - y
      BY <1>1
    <3> QED BY <3>1, <3>2
  <2>2. Exact(op, x, y) = x - y /\ op \notin Divides /\ x - y \in Int
    BY <1>1, <1>6 DEF Exact, Divides
  <2> QED BY <2>1, <2>2, CheckedFits DEF Agrees
<1>7. CASE op = "*"
  <2>1. Binary(op, Integer(x), Integer(y)) = av_to_int_result(x * y)
    BY <1>2, <1>3, <1>7 DEF Binary, IntOps
  <2>2. Exact(op, x, y) = x * y /\ op \notin Divides /\ x * y \in Int
    BY <1>1, <1>7 DEF Exact, Divides
  <2> QED BY <2>1, <2>2, CheckedFits DEF Agrees
<1>8. CASE op = "max"
  <2>1. less(Integer(y), Integer(x)) <=> x > y
    BY <1>1, <1>2 DEF less
  <2>2. Binary(op, Integer(x), Integer(y)) = Yields(IF x > y THEN Integer(x) ELSE Integer(y))
    BY <1>3, <1>8, <2>1 DEF Binary, IntOps
  <2>3. Exact(op, x, y) = (IF x > y THEN x ELSE y) /\ op \notin Divides
    BY <1>8 DEF Exact, Divides
  <2> QED BY <2>2, <2>3, ExactFits DEF Agrees
<1>9. CASE op = "min"
  <2>1. less(Integer(x), Integer(y)) <=> x < y
    BY <1>1, <1>2 DEF less
  <2>2. Binary(op, Integer(x), Integer(y)) = Yields(IF x < y THEN Integer(x) ELSE Integer(y))
    BY <1>3, <1>9, <2>1 DEF Binary, IntOps
  <2>3. Exact(op, x, y) = (IF x < y THEN x ELSE y) /\ op \notin Divides
    BY <1>9 DEF Exact, Divides
  <2> QED BY <2>2, <2>3, ExactFits DEF Agrees
<1> QED BY <1>4, <1>5, <1>6, <1>7, <1>8, <1>9 DEF BinaryOps

LEMMA RoundingAgrees ==
  ASSUME NEW op \in Roundings, NEW a \in Numbers
  PROVE  RoundedFits(op, a, Unary(op, a))
<1>1. PICK q \in Int : q = Rounded(op, a)
  BY RoundedIsInteger DEF Roundings
<1>2. Unary(op, a) = av_to_int_result(q)
  BY <1>1 DEF Unary, Roundings
<1>3. \A i \in Int : IsRounded(op, a, i) <=> i = q
  BY <1>1, RoundedIs
<1>4. Words \subseteq Int
  BY WordLimits DEF Words
<1>5. CASE q \in Words
  BY <1>2, <1>3, <1>5, RangeChecked DEF RoundedFits, Words
<1>6. CASE q \notin Words
  <2>1. \A i \in Words : ~ IsRounded(op, a, i)
    BY <1>3, <1>4, <1>6
  <2> QED BY <1>2, <1>6, <2>1, RangeChecked DEF RoundedFits, Words
<1> QED BY <1>5, <1>6

LEMMA UnaryFits ==
  ASSUME NEW op \in UnaryOps, NEW a \in Numbers PROVE UnaryAgrees(op, a, Unary(op, a))
<1>1. op \in Roundings => RoundedFits(op, a, Unary(op, a))
  BY RoundingAgrees
<1>2. ASSUME a.type = "INT"
      PROVE  /\ op \in {"-", "abs"} => Wraps(op, a.n) \/ NegationFits(op, a.n, Unary(op, a))
             /\ op = "\\" => IntegerFits(Unary(op, a), -1 - a.n)
  <2>1. PICK x \in Words : x = a.n
    BY <1>2, NumbersAre, IntegersAre
  <2>2. PICK H \in Nat \ {0} : INT_MIN = -H /\ INT_MAX = H - 1
    BY WordLimits
  <2>3. x \in -H .. H - 1
    BY <2>2 DEF Words
  <2>4. ASSUME op \in {"-", "abs"}, x # INT_MIN PROVE NegationFits(op, x, Unary(op, a))
    <3>1. PICK y \in Words : y = IF op = "abs" /\ x >= 0 THEN x ELSE -x
      BY <2>2, <2>3, <2>4 DEF Words
    <3>2. op = "-" => y = -x
      BY <3>1
    <3>3. op = "abs" => y = magnitude(x)
      <4>1. magnitude(x) = IF x >= 0 THEN x ELSE -x
        BY <2>3 DEF magnitude
      <4> QED BY <3>1, <4>1
    <3>4. Unary(op, a) = Yields(Integer(Word(y)))
      BY <1>2, <2>1, <2>4, <3>2, <3>3 DEF Unary
    <3>5. Word(y) = y
      BY <2>2, WordOfInt DEF Words
    <3> QED BY <3>1, <3>4, <3>5, ExactFits DEF NegationFits
  <2>5. ASSUME op = "\\" PROVE IntegerFits(Unary(op, a), -1 - x)
    <3>1. Unary(op, a) = Yields(Integer(-x - 1))
      BY <1>2, <2>1, <2>5 DEF Unary
    <3>2. -x - 1 = -1 - x /\ -1 - x \in Words
      BY <2>2, <2>3 DEF Words
    <3> QED BY <3>1, <3>2, ExactFits
  <2> QED BY <2>1, <2>4, <2>5 DEF Wraps
<1> QED BY <1>1, <1>2 DEF UnaryAgrees

-----------------------------------------------------------------------------
(* The invariant                                                           *)

\* The last call was of a known operator, on results there are, and its result
\* is what eval_arith makes of them.
Called ==
  LET args == last_eval.args
  IN \/ args = << >>
     \/ /\ \/ last_eval.op \in UnaryOps /\ \E r : Outcome(r) /\ args = << r >>
           \/ /\ last_eval.op \in BinaryOps
              /\ \E l, r : Outcome(l) /\ Outcome(r) /\ args = << l, r >>
        /\ last_eval.result = eval_arith(last_eval.op, args)
ArithInv == (\A r \in results : Outcome(r)) /\ Called

LEMMA EvalOutcome ==
  /\ \A op, r : Outcome(r) => Outcome(eval_arith(op, << r >>))
  /\ \A op \in BinaryOps : \A l, r :
       Outcome(l) /\ Outcome(r) => Outcome(eval_arith(op, << l, r >>))
<1>1. ASSUME NEW op, NEW r, Outcome(r) PROVE Outcome(eval_arith(op, << r >>))
  <2>1. Len(<< r >>) = 1 /\ << r >>[1] = r
    OBVIOUS
  <2>2. CASE ~ r.ok
    BY <1>1, <2>1, <2>2 DEF eval_arith
  <2>3. CASE r.ok
    <3>1. eval_arith(op, << r >>) = Unary(op, r.v)
      BY <2>1, <2>3 DEF eval_arith
    <3> QED BY <1>1, <2>3, <3>1, UnaryOutcome DEF Outcome
  <2> QED BY <2>2, <2>3
<1>2. ASSUME NEW op \in BinaryOps, NEW l, NEW r, Outcome(l), Outcome(r)
      PROVE  Outcome(eval_arith(op, << l, r >>))
  <2>1. Len(<< l, r >>) = 2 /\ << l, r >>[1] = l /\ << l, r >>[2] = r
    OBVIOUS
  <2>2. CASE ~ l.ok
    BY <1>2, <2>1, <2>2 DEF eval_arith
  <2>3. CASE l.ok /\ ~ r.ok
    BY <1>2, <2>1, <2>3 DEF eval_arith
  <2>4. CASE l.ok /\ r.ok
    <3>1. eval_arith(op, << l, r >>) = Binary(op, l.v, r.v)
      BY <2>1, <2>4 DEF eval_arith
    <3> QED BY <1>2, <2>4, <3>1, BinaryOutcome DEF Outcome
  <2> QED BY <2>2, <2>3, <2>4
<1> QED BY <1>1, <1>2

LEMMA ArithStarts == ArithInit => ArithInv
<1> SUFFICES ASSUME ArithInit PROVE ArithInv
  OBVIOUS
<1>1. ASSUME NEW t \in Operands PROVE Outcome(leaf(t))
  <2>1. CASE t.type \in {"INT", "FLOAT"}
    <3>1. t \in Numbers /\ leaf(t) = Yields(t)
      BY <2>1, ArithAssumption DEF Numbers, leaf
    <3> QED BY <3>1, OutcomesAre
  <2>2. CASE t.type = "VAR"
    <3>1. leaf(t) = Throw("instantiation_error")
      BY <2>2 DEF leaf
    <3> QED BY <3>1, OutcomesAre
  <2>3. CASE t.type \notin {"INT", "FLOAT", "VAR"}
    <3>1. leaf(t) = Throw("evaluable")
      BY <2>3 DEF leaf
    <3> QED BY <3>1, OutcomesAre
  <2> QED BY <2>1, <2>2, <2>3
<1>2. \A r \in results : Outcome(r)
  BY <1>1 DEF ArithInit
<1>3. last_eval.args = << >>
  BY DEF ArithInit
<1> QED BY <1>2, <1>3 DEF ArithInv, Called

LEMMA ArithContinues == ArithInv /\ [ArithNext]_arithVars => ArithInv'
<1> SUFFICES ASSUME ArithInv, [ArithNext]_arithVars PROVE ArithInv'
  OBVIOUS
<1>1. ASSUME NEW op \in UnaryOps, NEW r \in results, Evaluate(op, << r >>)
      PROVE  ArithInv'
  <2>1. Outcome(last_eval'.result)
    BY <1>1, EvalOutcome DEF Evaluate, ArithInv
  <2>2. \A s \in results' : Outcome(s)
    BY <1>1, <2>1 DEF Evaluate, ArithInv
  <2>3. /\ last_eval'.op = op /\ last_eval'.args = << r >>
        /\ last_eval'.result = eval_arith(op, << r >>)
    BY <1>1 DEF Evaluate
  <2>4. Outcome(r)
    BY DEF ArithInv
  <2>5. Called'
    BY <2>3, <2>4 DEF Called
  <2> QED BY <2>2, <2>5 DEF ArithInv
<1>2. ASSUME NEW op \in BinaryOps, NEW l \in results, NEW r \in results,
             Evaluate(op, << l, r >>)
      PROVE  ArithInv'
  <2>1. Outcome(l) /\ Outcome(r)
    BY DEF ArithInv
  <2>2. /\ last_eval'.op = op /\ last_eval'.args = << l, r >>
        /\ last_eval'.result = eval_arith(op, << l, r >>)
    BY <1>2 DEF Evaluate
  <2>3. Outcome(last_eval'.result)
    BY <2>1, <2>2, EvalOutcome
  <2>4. \A s \in results' : Outcome(s)
    BY <1>2, <2>3 DEF Evaluate, ArithInv
  <2>6. Called'
    BY <2>1, <2>2 DEF Called
  <2> QED BY <2>4, <2>6 DEF ArithInv
<1>3. CASE UNCHANGED arithVars
  BY <1>3 DEF ArithInv, Called, arithVars
<1> QED BY <1>1, <1>2, <1>3 DEF ArithNext

LEMMA InvIsExact == ArithInv => ExactOrError
<1> SUFFICES ASSUME ArithInv PROVE ExactOrError
  OBVIOUS
<1>1. CASE last_eval.args = << >>
  <2>1. {i \in DOMAIN last_eval.args : ~ last_eval.args[i].ok} = {} /\ Len(last_eval.args) = 0
    BY <1>1
  <2> QED BY <2>1 DEF ExactOrError
<1>2. ASSUME NEW r, Outcome(r), last_eval.args = << r >>, last_eval.op \in UnaryOps,
             last_eval.result = eval_arith(last_eval.op, << r >>)
      PROVE  ExactOrError
  <2>1. last_eval.result = IF ~ r.ok THEN r ELSE Unary(last_eval.op, r.v)
    BY <1>2 DEF eval_arith
  <2>2. DOMAIN last_eval.args = {1} /\ last_eval.args[1] = r /\ Len(last_eval.args) = 1
    BY <1>2
  <2>3. CASE ~ r.ok
    BY <2>1, <2>2, <2>3 DEF ExactOrError
  <2>4. CASE r.ok
    <3>1. {i \in DOMAIN last_eval.args : ~ last_eval.args[i].ok} = {}
      BY <2>2, <2>4
    <3>2. UnaryAgrees(last_eval.op, r.v, last_eval.result)
      BY <1>2, <2>1, <2>4, UnaryFits DEF Outcome
    <3> QED BY <2>2, <3>1, <3>2 DEF ExactOrError
  <2> QED BY <2>3, <2>4
<1>3. ASSUME NEW l, NEW r, Outcome(l), Outcome(r), last_eval.args = << l, r >>,
             last_eval.op \in BinaryOps,
             last_eval.result = eval_arith(last_eval.op, << l, r >>)
      PROVE  ExactOrError
  <2>1. last_eval.result = IF ~ l.ok THEN l ELSE IF ~ r.ok THEN r
                           ELSE Binary(last_eval.op, l.v, r.v)
    BY <1>3 DEF eval_arith
  <2>2. /\ DOMAIN last_eval.args = {1, 2} /\ Len(last_eval.args) = 2
        /\ last_eval.args[1] = l /\ last_eval.args[2] = r
    BY <1>3
  <2>3. CASE ~ l.ok \/ ~ r.ok
    <3>1. {i \in DOMAIN last_eval.args : ~ last_eval.args[i].ok} # {}
      BY <2>2, <2>3
    <3>2. 1 \in {i \in DOMAIN last_eval.args : ~ last_eval.args[i].ok} <=> ~ l.ok
      BY <2>2
    <3> QED BY <2>1, <2>2, <2>3, <3>1, <3>2 DEF ExactOrError
  <2>4. CASE l.ok /\ r.ok
    <3>1. {i \in DOMAIN last_eval.args : ~ last_eval.args[i].ok} = {}
      BY <2>2, <2>4
    <3>2. ASSUME l.v.type = "INT", r.v.type = "INT"
          PROVE  Agrees(last_eval.op, l.v.n, r.v.n, last_eval.result)
      <4>1. l.v \in Ints /\ r.v \in Ints
        BY <1>3, <2>4, <3>2, NumbersAre DEF Outcome
      <4>2. /\ l.v.n \in Words /\ l.v = Integer(l.v.n)
            /\ r.v.n \in Words /\ r.v = Integer(r.v.n)
        BY <4>1, IntegersAre
      <4>3. last_eval.result = Binary(last_eval.op, Integer(l.v.n), Integer(r.v.n))
        BY <2>1, <2>4, <4>2
      <4> QED BY <1>3, <4>2, <4>3, BinaryAgrees
    <3> QED BY <2>2, <3>1, <3>2 DEF ExactOrError
  <2> QED BY <2>3, <2>4
<1> QED BY <1>1, <1>2, <1>3 DEF ArithInv, Called

\* Whatever the width of an int, an operator on integers, and a rounding of any
\* number, gives the integer of mathematics or the error that says why it cannot
\* (eval_arith, arith.c), outside the cases Wraps and Unchecked name, for every
\* expression over every set of operands.
THEOREM ArithmeticIsExact == ArithSpec => []ExactOrError
<1>1. ArithSpec => []ArithInv
  BY ArithStarts, ArithContinues, PTL DEF ArithSpec
<1> QED BY <1>1, InvIsExact, PTL
=============================================================================
