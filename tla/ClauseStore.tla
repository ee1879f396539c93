---------------------------- MODULE ClauseStore ----------------------------
(***************************************************************************)
(* What the clause database and the operator table promise: a sequence of  *)
(* facts, each owned by the file it was loaded from, or by none if a       *)
(* program asserted it, and a set of names.  Only the operations below     *)
(* change them; the end of a query, the pools it gives back and compaction *)
(* do not.                                                                 *)
(***************************************************************************)
EXTENDS Naturals, SequencesExt, Removal

CONSTANT None    \* the owner of an asserted clause

VARIABLES store, operators

Init == store = << >> /\ operators = {}

Add(fact, owner) == store' = Append(store, [fact |-> fact, owner |-> owner])

AddFirst(fact) == store' = <<[fact |-> fact, owner |-> None]>> \o store

Drop(i) == store' = RemoveAt(store, i)

\* retractall/1 and abolish/1: every clause that matches a pattern
DropAll(pattern) ==
  store' = Without(store, {c \in Range(store) : IsPrefix(pattern, c.fact)})

\* unconsult/1, and consult/1 of a file that changed
Unload(file) == store' = Without(store, {c \in Range(store) : c.owner = file})

\* make/0: everything since the first file was loaded goes
Reset(size) == store' = SubSeq(store, 1, size)

\* op/3
Define(name) == operators' = operators \cup {name}

Next ==
  \/ /\ UNCHANGED operators
     /\ \/ store' # << >> /\ Add(Last(store').fact, Last(store').owner)
        \/ store' # << >> /\ AddFirst(Head(store').fact)
        \/ \E i \in DOMAIN store : Drop(i)
        \/ \E c \in Range(store) :
             \E n \in 0 .. Len(c.fact) : DropAll(SubSeq(c.fact, 1, n))
        \/ \E c \in Range(store) : c.owner # None /\ Unload(c.owner)
        \/ \E size \in 0 .. Len(store) : Reset(size)
  \/ UNCHANGED store /\ \E name \in operators' : Define(name)

Spec == Init /\ [][Next]_<<store, operators>>
=============================================================================
