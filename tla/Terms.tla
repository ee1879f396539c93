------------------------------- MODULE Terms -------------------------------
(***************************************************************************)
(* Terms, the binding trail and the algorithms on them (term.c, env.c,     *)
(* unify.c, and the last-call checks at the top of solve.c).               *)
(*                                                                         *)
(* A term is a value, and its cell in the pool is abstracted to `at', the  *)
(* serial number of the batch it was allocated in; 0 is the permanent half *)
(* of the pool.  A trail is a sequence of bindings; env->count is its      *)
(* length.  A window [from, to) of C indices is from+1 .. to here.         *)
(***************************************************************************)
EXTENDS Integers, Sequences, FiniteSets, SequencesExt

Const(name, at) == [type |-> "CONST", name |-> name, at |-> at]
Var(id, named, at) == [type |-> "VAR", id |-> id, named |-> named, at |-> at]
Func(name, args, at) ==
  [type |-> "FUNC", name |-> name, args |-> args, at |-> at]
Str(chars, at) == [type |-> "STR", chars |-> chars, at |-> at]

\* A number keeps twice its value, so that a float may lie between two integers.
\* (Where the type of an integer plays no role, it is the constant of its name.)
Number(type, twice) == [type |-> type, twice |-> twice]
is_number(t) == t.type \in {"INT", "FLOAT"}

\* The name of an atom, and of an integer, which is its decimal text.
is_named(t) == t.type \in {"CONST", "INT"}
TextOf(t) == IF t.type = "INT" THEN ToString(t.twice \div 2) ELSE t.name

Arity(t) == IF t.type = "FUNC" THEN Len(t.args) ELSE 0

\* A packed string is a list of its characters.
is_cons(t) == \/ t.type = "FUNC" /\ t.name = "." /\ Len(t.args) = 2
              \/ t.type = "STR" /\ t.chars # << >>
is_nil(t) == \/ t.type = "CONST" /\ t.name = "[]"
             \/ t.type = "STR" /\ t.chars = << >>

list_head(t, at) ==
  IF t.type = "STR" THEN Const(Head(t.chars), at) ELSE t.args[1]

\* Mutant: the tail of a packed string is the string itself.
list_tail_Whole(t, at) == IF t.type = "STR" THEN t ELSE t.args[2]

list_tail(t, at) ==
  IF t.type = "STR" THEN Str(Tail(t.chars), at) ELSE t.args[2]

RECURSIVE VarIds(_)
VarIds(t) == CASE t.type = "VAR"  -> {t.id}
               [] t.type = "FUNC" -> UNION {VarIds(t.args[i]) :
                                              i \in DOMAIN t.args}
               [] OTHER           -> {}

RECURSIVE Depth(_)
Depth(t) == IF t.type = "FUNC"
            THEN 1 + Max({Depth(t.args[i]) : i \in DOMAIN t.args}) ELSE 0

-----------------------------------------------------------------------------
(* The trail (env.c)                                                       *)

\* The newest slot that binds the variable, 0 if there is none.
SlotOf(trail, id) ==
  LET S == {i \in DOMAIN trail : trail[i].var_id = id}
  IN IF S = {} THEN 0 ELSE Max(S)

bind(trail, var, value, counter) ==
  Append(trail, [var_id |-> var.id, named |-> var.named, value |-> value,
                 var_ceiling |-> counter])

\* deref() follows bindings to their end.  On a variable bound to itself it
\* never returns; here it stops, and who uses it excludes such trails.
RECURSIVE deref(_, _)
deref(trail, t) ==
  IF t.type # "VAR" THEN t
  ELSE LET slot == SlotOf(trail, t.id)
           value == trail[slot].value
       IN IF slot = 0 \/ (value.type = "VAR" /\ value.id = t.id) THEN t
          ELSE deref(trail, value)

\* substitute(): follow all bindings; a cell that does not change is shared.
RECURSIVE substitute(_, _, _)
substitute(trail, t, at) ==
  LET d == deref(trail, t)
  IN IF d.type # "FUNC" THEN d
     ELSE LET args == [i \in DOMAIN d.args |->
                         substitute(trail, d.args[i], at)]
          IN IF args = d.args THEN d ELSE Func(d.name, args, at)

\* Does t, as it stands, contain a variable bound in [from, to)?
term_refs_range(trail, t, from, to) ==
  \E i \in from + 1 .. to : trail[i].var_id \in VarIds(t)

\* Does a chain of bindings that starts in t pass through [from, to)?
RECURSIVE chain_hits_window(_, _, _, _)
chain_hits_window(trail, t, from, to) ==
  CASE t.type = "VAR" ->
         LET slot == SlotOf(trail, t.id)
         IN slot # 0 /\ (\/ slot \in from + 1 .. to
                         \/ chain_hits_window(trail, trail[slot].value,
                                              from, to))
    [] t.type = "FUNC" ->
         \E i \in DOMAIN t.args :
           chain_hits_window(trail, t.args[i], from, to)
    [] OTHER -> FALSE

\* No variable is, through its binding, a part of itself.
RECURSIVE Reached(_, _)
Reached(trail, ids) ==
  LET more == ids \cup UNION {VarIds(trail[i].value) :
                                i \in {j \in DOMAIN trail :
                                         trail[j].var_id \in ids}}
  IN IF more = ids THEN ids ELSE Reached(trail, more)

Acyclic(trail) ==
  \A i \in DOMAIN trail :
    trail[i].var_id \notin Reached(trail, VarIds(trail[i].value))

-----------------------------------------------------------------------------
(* Unification (unify.c)                                                   *)

Result(ok, trail) == [ok |-> ok, trail |-> trail]

\* Unify the pairs one after the other; a failure leaves the bindings made so
\* far on the trail.  new.at and new.counter: the batch in which cells are
\* allocated, and ctx->var_counter.  There is no occurs check, and X = X binds
\* X to itself: from a cyclic binding on, unify() and deref() may never return.
\* Here unification ends with such a trail; who uses it tests Acyclic.
RECURSIVE UnifyAll(_, _, _)
UnifyAll(pairs, trail, new) ==
  IF pairs = << >> THEN Result(TRUE, trail)
  ELSE LET a == deref(trail, pairs[1][1])
           b == deref(trail, pairs[1][2])
           rest == Tail(pairs)
           AlsoArgs(as, bs) == Zip(as, bs) \o rest
           Unpacked(t) == << list_head(t, new.at), list_tail(t, new.at) >>
           GoOnIf(ok) == IF ok THEN UnifyAll(rest, trail, new)
                         ELSE Result(FALSE, trail)
           Bound(var, t) ==
             LET more == bind(trail, var, t, new.counter)
             IN IF var.id \in Reached(trail, VarIds(t)) THEN Result(TRUE, more)
                ELSE UnifyAll(rest, more, new)
       IN CASE a.type = "VAR" -> Bound(a, b)
            [] a.type # "VAR" /\ b.type = "VAR" -> Bound(b, a)
            [] a.type = "STR" /\ b.type = "STR" -> GoOnIf(a.chars = b.chars)
            [] a.type = "STR" /\ b.type = "CONST" ->
                 GoOnIf(a.chars = << >> /\ is_nil(b))
            [] b.type = "STR" /\ a.type = "CONST" ->
                 GoOnIf(b.chars = << >> /\ is_nil(a))
            [] a.type = "STR" /\ b.type = "FUNC" ->
                 IF a.chars # << >> /\ is_cons(b)
                 THEN UnifyAll(AlsoArgs(Unpacked(a), b.args), trail, new)
                 ELSE Result(FALSE, trail)
            [] b.type = "STR" /\ a.type = "FUNC" ->
                 IF b.chars # << >> /\ is_cons(a)
                 THEN UnifyAll(AlsoArgs(a.args, Unpacked(b)), trail, new)
                 ELSE Result(FALSE, trail)
            [] is_named(a) /\ is_named(b) -> GoOnIf(TextOf(a) = TextOf(b))
            [] a.type = "FLOAT" /\ b.type = "FLOAT" -> GoOnIf(a.twice = b.twice)
            [] a.type = "FUNC" /\ b.type = "FUNC" ->
                 IF a.name = b.name /\ Arity(a) = Arity(b)
                 THEN UnifyAll(AlsoArgs(a.args, b.args), trail, new)
                 ELSE Result(FALSE, trail)
            [] OTHER -> Result(FALSE, trail)

unify(a, b, trail, new) == UnifyAll(<< <<a, b>> >>, trail, new)

-----------------------------------------------------------------------------
(* Renaming (term.c)                                                       *)

\* The map of old to new variable numbers: the first `n' variables of a clause,
\* or those of a term, get the next n values of var_counter.
RECURSIVE rename_vars_mapped(_, _, _, _)
rename_vars_mapped(t, map, keep_names, at) ==
  CASE t.type = "VAR"  -> Var(map[t.id], keep_names /\ t.named, at)
    [] t.type = "FUNC" -> Func(t.name,
                               [i \in DOMAIN t.args |->
                                  rename_vars_mapped(t.args[i], map,
                                                     keep_names, at)], at)
    [] OTHER           -> t

FreshMap(ids, counter) ==
  [id \in ids |-> counter + Cardinality({j \in ids : j < id})]

-----------------------------------------------------------------------------
(* What a term stands for                                                  *)

\* The term with every binding followed; cells play no role.
RECURSIVE Value(_, _)
Value(trail, t) ==
  LET d == deref(trail, t)
  IN CASE d.type = "VAR"   -> <<"VAR", d.id>>
       [] d.type = "CONST" -> <<"CONST", d.name>>
       [] d.type = "STR"   -> <<"STR", d.chars>>
       [] is_number(d)     -> <<d.type, d.twice>>
       [] d.type = "FUNC"  -> <<"FUNC", d.name,
                                [i \in DOMAIN d.args |->
                                   Value(trail, d.args[i])]>>
=============================================================================
