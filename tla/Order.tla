------------------------------- MODULE Order -------------------------------
(***************************************************************************)
(* The standard order of terms, its builtins and the two sorts             *)
(* (builtins.c).  Names are compared by their spelling.                    *)
(***************************************************************************)
EXTENDS Terms

CONSTANTS
  Spelling,     \* the characters of each name, as codes
  Bindings,     \* the trail under which terms are compared
  Samples,      \* the terms that are put into a list
  MAX_LIST_LIT, \* elements of a list that sort/2 and msort/2 take
  MaxSamples    \* bound of the model: elements of the list

ASSUME OrderAssumption ==
  /\ MAX_LIST_LIT \in Nat /\ MaxSamples \in Nat /\ Acyclic(Bindings)
  /\ \A name \in DOMAIN Spelling : Spelling[name] \in Seq(Nat)

VARIABLE elems  \* the list a program builds and then sorts

term_arity(t) == IF t.type = "STR" THEN Len(t.chars) ELSE Arity(t)

\* What t->name points to.
spelled(t) == IF t.type = "STR"
              THEN FlattenSeq([i \in DOMAIN t.chars |-> Spelling[t.chars[i]]])
              ELSE Spelling[t.name]

RECURSIVE terms_identical(_, _)
terms_identical(x, y) ==
  LET a == deref(Bindings, x)
      b == deref(Bindings, y)
  IN /\ a.type = b.type
     /\ CASE a.type = "STR" -> a.chars = b.chars
          [] a.type = "VAR" -> a.id = b.id
          [] is_number(a)   -> a.twice = b.twice
          [] OTHER -> /\ a.name = b.name
                      /\ Arity(a) = Arity(b)
                      /\ \A i \in 1 .. Arity(a) :
                           terms_identical(a.args[i], b.args[i])

rank(t) == CASE t.type = "VAR"   -> 0
             [] is_number(t)     -> 1
             [] t.type = "CONST" -> 2
             [] OTHER            -> 4

sign(m, n) == IF m < n THEN -1 ELSE IF m > n THEN 1 ELSE 0

\* -1, 0 or 1, as s comes before, is or comes after t.
strcmp(s, t) ==
  LET both == 1 .. Min({Len(s), Len(t)})
      i == SelectInSeq([j \in both |-> s[j] # t[j]], LAMBDA differs : differs)
  IN IF i = 0 THEN sign(Len(s), Len(t)) ELSE sign(s[i], t[i])

\* A packed string has no arguments, and two strings with the same characters
\* are compared beyond their cells; the outcome stands for what is read there.
Stray == 2

\* Mutant: equal values are equal, whatever their type.
NumberOrder_ByValue(a, b) == sign(a.twice, b.twice)

\* On equal values the float comes first.
NumberOrder(a, b) ==
  IF a.twice # b.twice THEN sign(a.twice, b.twice)
  ELSE IF a.type = b.type THEN 0 ELSE IF a.type = "FLOAT" THEN -1 ELSE 1

RECURSIVE term_order(_, _)
term_order(x, y) ==
  LET a == deref(Bindings, x)
      b == deref(Bindings, y)
      name == strcmp(spelled(a), spelled(b))
      cmp == [i \in 1 .. Arity(a) |-> term_order(a.args[i], b.args[i])]
      i == SelectInSeq(cmp, LAMBDA c : c # 0)
      Compound == IF term_arity(a) # term_arity(b)
                  THEN sign(term_arity(a), term_arity(b))
                  ELSE IF name # 0 THEN name
                  ELSE IF "STR" \in {a.type, b.type}
                  THEN IF term_arity(a) = 0 THEN 0 ELSE Stray
                  ELSE IF i = 0 THEN 0 ELSE cmp[i]
  IN IF a = b THEN 0
     ELSE IF rank(a) # rank(b) THEN sign(rank(a), rank(b))
     ELSE CASE a.type = "VAR"   -> sign(a.id, b.id)
            [] is_number(a)     -> NumberOrder(a, b)
            [] a.type = "CONST" -> name
            [] OTHER            -> Compound

\* @</2, @>/2, @=</2, @>=/2, ==/2 and \==/2.
Holds(op, a, b) ==
  CASE op = "@<"  -> term_order(a, b) < 0
    [] op = "@>"  -> term_order(a, b) > 0
    [] op = "@=<" -> term_order(a, b) <= 0
    [] op = "@>=" -> term_order(a, b) >= 0
    [] op = "=="  -> terms_identical(a, b)
    [] op = "\\==" -> ~ terms_identical(a, b)

-----------------------------------------------------------------------------
(* Lists                                                                   *)

NotAList == << [type |-> "none"] >>

\* The elements of a proper list of at most MAX_LIST_LIT elements.
RECURSIVE list_to_array(_, _)
list_to_array(list, max) ==
  LET l == deref(Bindings, list)
      rest == list_to_array(list_tail(l, 0), max - 1)
  IN CASE is_cons(l) -> IF max = 0 \/ rest = NotAList THEN NotAList
                        ELSE << deref(Bindings, list_head(l, 0)) >> \o rest
       [] OTHER -> IF is_nil(l) THEN << >> ELSE NotAList

array_to_list(arr) ==
  FoldRight(LAMBDA t, rest : Func(".", << t, rest >>, 0), arr, Const("[]", 0))

\* One round of the insertion sort: elements above the key move up, from the
\* last one on.
Insert(arr, key) ==
  LET n == SelectLastInSeq(arr, LAMBDA t : term_order(t, key) <= 0)
  IN InsertAt(arr, n + 1, key)

Sort(arr) == FoldLeft(Insert, << >>, arr)

\* Mutant: the first of the last two equal elements decides.
Unique_First(arr) ==
  FoldLeft(LAMBDA out, t : IF out # << >> /\ term_order(t, out[1]) = 0
                           THEN out ELSE Append(out, t), << >>, arr)

\* An element equal to the last one kept is dropped.
Unique(arr) ==
  FoldLeft(LAMBDA out, t : IF out # << >> /\ term_order(t, out[Len(out)]) = 0
                           THEN out ELSE Append(out, t), << >>, arr)

builtin_msort(list, sorted) ==
  LET arr == list_to_array(list, MAX_LIST_LIT)
  IN IF arr = NotAList THEN Result(FALSE, Bindings)
     ELSE unify(sorted, array_to_list(Sort(arr)), Bindings,
                [at |-> 0, counter |-> 0])

builtin_sort(list, sorted) ==
  LET arr == list_to_array(list, MAX_LIST_LIT)
  IN IF arr = NotAList THEN Result(FALSE, Bindings)
     ELSE unify(sorted, array_to_list(Unique(Sort(arr))), Bindings,
                [at |-> 0, counter |-> 0])
-----------------------------------------------------------------------------
OrderInit == elems = << >>

\* A program puts one more term in front of its list.
Extend(t) == /\ Len(elems) < MaxSamples
             /\ elems' = << t >> \o elems

OrderNext == \E t \in Samples : Extend(t)

\* Two packed strings of the same characters in different cells, anywhere in
\* the terms, lead term_order() astray.
Astray == \E i, j \in DOMAIN elems : term_order(elems[i], elems[j]) = Stray

\* The comparison is a total order whose equality is ==/2: antisymmetric over
\* every mix of types and representations, transitive over any three terms,
\* and 0 for identical terms only (builtins.c:term_order, terms_identical).
StandardOrder ==
  Astray \/ \A x, y, z \in ToSet(elems) :
    /\ term_order(x, y) = - term_order(y, x)
    /\ Holds("==", x, y) <=> Holds("@=<", x, y) /\ Holds("@>=", x, y)
    /\ Holds("@<", x, y) /\ Holds("@=<", y, z) => Holds("@<", x, z)

CountIn(x, arr) == Cardinality({i \in DOMAIN arr : terms_identical(arr[i], x)})

\* msort/2 returns the elements in ascending order, each as often as given, and
\* sort/2 each of them once; a list longer than MAX_LIST_LIT makes both fail,
\* and so does one that does not end (builtin_msort, builtin_sort).
SortsRight ==
  elems # << >> => \A arr \in {elems, elems \o elems} :
    LET out == Var(0, FALSE, 0)
        m == builtin_msort(array_to_list(arr), out)
        s == builtin_sort(array_to_list(arr), out)
        Answer(r) == list_to_array(r.trail[Len(r.trail)].value, 2 * MaxSamples)
        Ascending(ys, op) ==
          \A i \in 1 .. Len(ys) - 1 : Holds(op, ys[i], ys[i + 1])
    IN /\ m.ok = (Len(arr) <= MAX_LIST_LIT) /\ s.ok = m.ok
       /\ ~ builtin_sort(Func(".", << out, out >>, 0), out).ok
       /\ m.ok /\ ~ Astray =>
            /\ Ascending(Answer(m), "@=<") /\ Ascending(Answer(s), "@<")
            /\ \A x \in ToSet(arr) \cup ToSet(Answer(m)) \cup ToSet(Answer(s)) :
                 /\ CountIn(x, Answer(m)) = CountIn(x, arr)
                 /\ CountIn(x, Answer(s)) = 1 /\ CountIn(x, arr) > 0
=============================================================================
