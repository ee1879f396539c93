----------------------------- MODULE TrailIndex -----------------------------
(***************************************************************************)
(* The trail without its terms: which variables are bound, in which slots, *)
(* and what the index and the ceilings say of it.  Of a binding's value    *)
(* only the variables are known, VarsOf(value); what unification binds and *)
(* what substitute() returns is any value that keeps to the conditions     *)
(* given here.  Trail is this with terms and shares the variables and the  *)
(* operations that touch no term; TLC checks that each of its steps is one *)
(* of IndexNext.                                                           *)
(***************************************************************************)
EXTENDS Integers, Sequences, FiniteSets, SequencesExt

CONSTANTS
  QueryVars,    \* the variables 1 .. QueryVars are the query's: they are named
  MaxVars,      \* MAX_VARS: bound of var_counter (an assert guards it)
  MaxBindings,  \* MAX_BINDINGS: bound of the trail (an assert guards it)
  MaxChoices,   \* bound of the model: choice points at any time
  VarsOf(_)     \* the variables of a term

ASSUME TrailAssumption ==
  /\ QueryVars \in Nat /\ MaxVars \in Nat /\ QueryVars <= MaxVars
  /\ MaxBindings \in Nat /\ MaxChoices \in Nat

VARIABLES
  bindings,        \* ctx->bindings[0 .. bind_count - 1]
  var_bind_index,  \* slot + 1 where a variable was last bound, 0 if never
  var_counter,     \* the next variable
  choices          \* the trail lengths at which choice points were pushed

vars == <<bindings, var_bind_index, var_counter, choices>>

Known == 1 .. var_counter - 1
Ids(trail) == {trail[i].var_id : i \in DOMAIN trail}

Init ==
  /\ bindings = << >>
  /\ var_bind_index = [id \in 1 .. MaxVars |-> 0]
  /\ var_counter = QueryVars + 1
  /\ choices = << >>

-----------------------------------------------------------------------------
(* lookup() goes through var_bind_index, which nothing ever cuts back.     *)

\* Mutant: the slot is not checked to be the variable's.
lookup_slot_Unchecked(id) ==
  IF var_bind_index[id] <= Len(bindings) THEN var_bind_index[id] ELSE 0

lookup_slot(id) ==
  LET slot == var_bind_index[id]
  IN IF slot # 0 /\ slot <= Len(bindings) /\ bindings[slot].var_id = id
     THEN slot ELSE 0

\* bind() enters every new slot; a failed unification leaves its entries.
EnterSlots(old, new) ==
  var_bind_index' =
    [id \in DOMAIN var_bind_index |->
       LET S == {i \in Len(old) + 1 .. Len(new) : new[i].var_id = id}
       IN IF S = {} THEN var_bind_index[id] ELSE Max(S)]

NewVar ==
  /\ var_counter <= MaxVars
  /\ var_counter' = var_counter + 1
  /\ UNCHANGED <<bindings, var_bind_index, choices>>

\* unify() follows bindings before it binds: a variable gets at most one.
Binds(b) ==
  /\ b.var_id \in Known \ Ids(bindings)
  /\ b.var_ceiling = var_counter /\ VarsOf(b.value) \subseteq Known

IndexUnify ==
  /\ bindings' \in Seq(Range(bindings')) /\ IsPrefix(bindings, bindings')
  /\ \A i \in Len(bindings) + 1 .. Len(bindings') :
       /\ Binds(bindings'[i])
       /\ \A j \in Len(bindings) + 1 .. i - 1 :
            bindings'[j].var_id # bindings'[i].var_id
  /\ EnterSlots(bindings, bindings')
  /\ UNCHANGED <<var_counter, choices>>

\* The entries of an attempt that failed are for slots above the trail.
IndexUnifyFails ==
  /\ var_bind_index' \in [DOMAIN var_bind_index -> Nat]
  /\ \A id \in DOMAIN var_bind_index :
       \/ var_bind_index'[id] = var_bind_index[id]
       \/ id \notin Ids(bindings) /\ var_bind_index'[id] > Len(bindings)
  /\ UNCHANGED <<bindings, var_counter, choices>>

Push ==
  /\ Len(choices) < MaxChoices
  /\ choices' = Append(choices, Len(bindings))
  /\ UNCHANGED <<bindings, var_bind_index, var_counter>>

\* var_counter is not cut back.
Backtrack ==
  /\ choices # << >>
  /\ bindings' = SubSeq(bindings, 1, Last(choices))
  /\ choices' = Front(choices)
  /\ UNCHANGED <<var_bind_index, var_counter>>

-----------------------------------------------------------------------------
(* Last-call reclaiming                                                    *)

lco_safe(from, to) == \A i \in from + 1 .. to : ~bindings[i].named

\* Mutant: the newest binding of the window is not looked at.
window_min_var_id_NotNewest(from) ==
  Min({bindings[i].var_id :
         i \in from + 1 .. Max({from + 1, Len(bindings) - 1})})

window_min_var_id(from) ==
  Min({bindings[i].var_id : i \in from + 1 .. Len(bindings)})

newest_mark == IF choices = << >> THEN 0 ELSE Last(choices)

\* The window lies above the newest choice point.
MayReclaim(from) ==
  /\ from < Len(bindings)
  /\ from >= newest_mark
  /\ lco_safe(from, Len(bindings))

\* An older binding that refers to the window is rewritten, unless its
\* var_ceiling shows that it cannot.
Affected(b, from) ==
  /\ b.var_ceiling > window_min_var_id(from)
  /\ \E i \in from + 1 .. Len(bindings) : bindings[i].var_id \in VarsOf(b.value)

\* substitute() leaves none of the bound variables.
IndexPatch(b, new) ==
  /\ new.var_id = b.var_id /\ new.named = b.named /\ new.var_ceiling = var_counter
  /\ VarsOf(new.value) \subseteq Known \ Ids(bindings)

IndexReclaim(from) ==
  /\ MayReclaim(from)
  /\ bindings' \in Seq(Range(bindings')) /\ Len(bindings') = from
  /\ \A i \in 1 .. from :
       IF Affected(bindings[i], from) THEN IndexPatch(bindings[i], bindings'[i])
       ELSE bindings'[i] = bindings[i]
  /\ UNCHANGED <<var_bind_index, var_counter, choices>>

IndexNext ==
  \/ NewVar \/ IndexUnify \/ IndexUnifyFails \/ Push \/ Backtrack
  \/ \E from \in 0 .. MaxBindings : IndexReclaim(from)

IndexSpec == Init /\ [][IndexNext]_vars

-----------------------------------------------------------------------------
(* Correctness                                                             *)

\* lookup()'s shortcut through var_bind_index finds what a search of the whole
\* trail finds, although backtracking and reclaiming cut the trail without
\* touching the index and slots are used again (env.c:3-19).
IndexAgrees ==
  \A id \in DOMAIN var_bind_index :
    LET S == {i \in DOMAIN bindings : bindings[i].var_id = id}
    IN lookup_slot(id) = IF S = {} THEN 0 ELSE Max(S)

\* The ceiling that lets last-call reclaiming skip a binding is above every
\* variable in the binding's value, also after the value was rewritten
\* (trilog.h:230-237, solve.c:634-648).
CeilingSound ==
  \A i \in DOMAIN bindings :
    \A id \in VarsOf(bindings[i].value) : id < bindings[i].var_ceiling

Reclaiming == choices' = choices /\ Len(bindings') < Len(bindings)
Dropped == {bindings[i].var_id : i \in Len(bindings') + 1 .. Len(bindings)}

\* No binding that is kept still refers to a variable that was dropped with the
\* window, those that the ceiling let pass included (solve.c:628-649).
WindowGone ==
  [][Reclaiming =>
       \A i \in DOMAIN bindings' : VarsOf(bindings'[i].value) \cap Dropped = {}]_vars
=============================================================================
