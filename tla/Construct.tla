----------------------------- MODULE Construct -----------------------------
(***************************************************************************)
(* functor/3, arg/3, =../2 and copy_term/2 (builtins.c), on the lists and  *)
(* terms of Order and under its bindings.                                  *)
(***************************************************************************)
EXTENDS Order

CONSTANTS
  MaxArity,    \* MAX_ARGS
  var_counter  \* the number of the next variable

ASSUME ConstructAssumption ==
  /\ MaxArity \in Nat
  /\ \A i \in DOMAIN Bindings : Bindings[i].var_id < var_counter

Raised(error) == [ok |-> FALSE, error |-> error]
Fails == [ok |-> FALSE, error |-> "none"]

ArityTerm(n) == Number("INT", 2 * n)
int_value(t) == t.twice \div 2

\* Unify the arguments of the goal, given first, with what was built.
UnifyGoal(pairs, fresh) ==
  UnifyAll(pairs, Bindings, [at |-> 0, counter |-> var_counter + fresh])

FreshArgs(n) == [i \in 1 .. n |-> Var(var_counter + i - 1, FALSE, 0)]

builtin_functor(term, name, arity) ==
  LET t == deref(Bindings, term)
      n == deref(Bindings, name)
      a == deref(Bindings, arity)
      Compose(k) == IF k = 0 THEN n ELSE Func(n.name, FreshArgs(k), 0)
  IN CASE t.type = "STR"  -> Fails
       [] t.type = "FUNC" -> UnifyGoal(<< << name, Const(t.name, 0) >>,
                                          << arity, ArityTerm(Arity(t)) >> >>, 0)
       [] is_number(t) \/ t.type = "CONST" ->
            UnifyGoal(<< << name, t >>, << arity, ArityTerm(0) >> >>, 0)
       [] OTHER ->
            IF n.type = "VAR" \/ a.type = "VAR"
            THEN Raised("instantiation_error")
            ELSE IF a.type # "INT" THEN Raised("type_error")
            ELSE IF \/ int_value(a) \notin 0 .. MaxArity
                    \/ int_value(a) > 0 /\ n.type # "CONST"
                    \/ ~ is_number(n) /\ n.type # "CONST"
            THEN Raised("type_error")
            ELSE UnifyGoal(<< << term, Compose(int_value(a)) >> >>, int_value(a))

builtin_arg(index, term, value) ==
  LET n == deref(Bindings, index)
      t == deref(Bindings, term)
  IN IF "VAR" \in {n.type, t.type} THEN Raised("instantiation_error")
     ELSE IF t.type # "FUNC" \/ n.type # "INT" THEN Raised("type_error")
     ELSE IF int_value(n) \notin 1 .. Arity(t) THEN Fails
     ELSE UnifyGoal(<< << value, t.args[int_value(n)] >> >>, 0)

\* Mutant: the arguments come without the name.
Decomposed_NoName(t) ==
  array_to_list(IF t.type = "FUNC" THEN t.args ELSE << t >>)

Decomposed(t) ==
  array_to_list(IF t.type = "FUNC" THEN << Const(t.name, 0) >> \o t.args
                ELSE << t >>)

\* From a list: the head must be an atom, for a number it fails silently.
Composed(term, list) ==
  LET head == deref(Bindings, list_head(list, 0))
      rest == deref(Bindings, list_tail(list, 0))
      args == list_to_array(rest, MaxArity)
      \* the end of the list, after the elements that list_to_array() takes
      RECURSIVE End(_, _)
      End(l, n) == IF is_cons(l) /\ n > 0
                   THEN End(deref(Bindings, list_tail(l, 0)), n - 1) ELSE l
  IN CASE head.type = "VAR" -> Raised("instantiation_error")
       [] is_cons(rest) /\ head.type \notin {"VAR", "CONST"} ->
            Raised("type_error")
       [] ~ is_cons(rest) /\ ~ is_nil(rest) /\ head.type # "VAR" ->
            Raised("type_error")
       [] OTHER ->
            IF head.type # "CONST" \/ is_cons(End(rest, MaxArity)) THEN Fails
            ELSE IF args = NotAList THEN Raised("type_error")
            ELSE UnifyGoal(<< << term, IF args = << >> THEN head
                                       ELSE Func(head.name, args, 0) >> >>, 0)

builtin_univ(term, list) ==
  LET t == deref(Bindings, term)
      l == deref(Bindings, list)
  IN CASE t.type = "STR"   -> Fails
       [] t.type \notin {"STR", "VAR"} ->
            UnifyGoal(<< << list, Decomposed(t) >> >>, 0)
       [] OTHER -> IF l.type = "VAR" THEN Raised("instantiation_error")
                   ELSE IF ~ is_cons(l) THEN Raised("type_error")
                   ELSE Composed(term, l)

\* Mutant: the term is copied as it stands, its bindings not followed.
Copied_NotFollowed(t) ==
  rename_vars_mapped(t, FreshMap(VarIds(t), var_counter), FALSE, 0)

Copied(t) ==
  LET orig == substitute(Bindings, t, 0)
  IN rename_vars_mapped(orig, FreshMap(VarIds(orig), var_counter), FALSE, 0)

builtin_copy_term(term, copy) ==
  UnifyGoal(<< << copy, Copied(term) >> >>, Cardinality(VarIds(term)))

-----------------------------------------------------------------------------
(* What they promise of each other                                         *)

\* Variables of the program that occur nowhere.
X1 == Var(var_counter - 1, FALSE, 0)
X2 == Var(var_counter - 2, FALSE, 0)

Whole(t) == substitute(Bindings, t, 0)
Got(r, x) == substitute(r.trail, x, 0)

Univ(list) == Got(builtin_univ(X1, list), X1)
Parts(t) == Got(builtin_univ(t, X1), X1)

\* The list makes a term, or not; t is the term it should be.
Makes(made, t) == made.ok = ~ is_number(t) /\ (made.ok => Got(made, X1) = t)

\* A term of the same name and arity whose arguments are new variables.
IsBlank(blank, t) ==
  /\ blank.type = t.type /\ Arity(blank) = Arity(t)
  /\ \A i \in 1 .. Arity(t) :
       /\ blank.args[i].id >= var_counter
       /\ \A j \in 1 .. i - 1 : blank.args[j].id < blank.args[i].id

FunctorMakesBlank(t, f) ==
  f.ok /\ IsBlank(Got(builtin_functor(X1, Got(f, X1), Got(f, X2)), X1), t)

\* A term taken apart by =../2, or by functor/3 and arg/3, is put together again
\* from the parts, and a list that makes a term is what the term is taken apart
\* into.  Packed strings are no terms to these predicates, and a number is not
\* put together again (builtin_univ, builtin_functor, builtin_arg).
PartsAndWhole ==
  elems # << >> =>
    /\ \A list \in {array_to_list(elems), array_to_list(elems \o elems)} :
         builtin_univ(X1, list).ok => Parts(Univ(list)) = Whole(list)
    /\ \A t \in {Whole(elems[1])} : t.type \notin {"VAR", "STR"} =>
         /\ builtin_univ(t, X1).ok
         /\ Makes(builtin_univ(X1, Parts(t)), t)
         /\ FunctorMakesBlank(t, builtin_functor(t, X1, X2))
         /\ \A i \in 1 .. Arity(t) :
              Got(builtin_arg(ArityTerm(i), t, X1), X1) = t.args[i]

\* A copy has a new variable for each variable of the term, equal ones for equal
\* ones, and none that was there before: no binding of the one ever shows in the
\* other (builtin_copy_term).
CopyIsFresh ==
  LET t == array_to_list(elems)
      ids == VarIds(Whole(t))
      c == Got(builtin_copy_term(t, X1), X1)
  IN elems # << >> =>
       /\ \A id \in VarIds(c) : id >= var_counter
       /\ \E map \in [ids -> VarIds(c)] :
            /\ IsInjective(map)
            /\ rename_vars_mapped(Whole(t), map, FALSE, 0) = c
=============================================================================
