------------------------------ MODULE TermPool ------------------------------
(***************************************************************************)
(* The term pool (term.c): temporary terms from below, clauses from above, *)
(* and what is done to give back the place of retracted clauses.           *)
(*                                                                         *)
(* Memory is counted in units: a leaf takes one, a compound term and an    *)
(* array of goals one for each pointer and a compound term one more.       *)
(* Terms are cells that refer to each other by address: renaming and       *)
(* assert share the atoms of other clauses.                                *)
(***************************************************************************)
EXTENDS Integers, Sequences, SequencesExt

CONSTANTS
  PoolTerms,      \* what is loaded and asserted: facts, and :-(head, goal)
  pool_size,
  PoolClauses     \* bound of the model: clauses of the database

ASSUME PoolAssumption == pool_size \in Nat /\ PoolClauses \in Nat

VARIABLES
  pool,      \* cells by address, term_pool_offset, term_pool_perm
  database,  \* slots: addresses of head and body, number of goals
  db_count,  \* how many of the slots are clauses
  held,      \* the term a query has built, NULL between queries
  meant,     \* history: the terms of the clauses, and of what is held
  gave_up    \* a compaction returned half-way

poolVars == << pool, database, db_count, held, meant, gave_up >>

NULL == -1
ClauseSlots == 1 .. PoolClauses
clauses == SubSeq(database, 1, db_count)

\* A term as a value and as a cell.
Leaf(type, name) == [type |-> type, name |-> name, args |-> << >>]
Compound(name, args) == [type |-> "FUNC", name |-> name, args |-> args]
Goals(addresses) == [type |-> "GOALS", name |-> "", args |-> addresses]

Clause(head, body, body_count) ==
  [head |-> head, body |-> body, body_count |-> body_count]

SizeOf(cell) == Len(cell.args) + (IF cell.type = "GOALS" THEN 0 ELSE 1)

-----------------------------------------------------------------------------
(* Allocation; an operator on a pool returns the pool and an address       *)

Made(p, a) == [pool |-> p, at |-> a]

\* The cells that are not overwritten, and the new one.
Written(cells, a, cell) ==
  LET kept == {b \in DOMAIN cells : \/ b + SizeOf(cells[b]) <= a
                                    \/ a + SizeOf(cell) <= b}
  IN [b \in kept \cup {a} |-> IF b = a THEN cell ELSE cells[b]]

term_alloc(p, permanent, cell) ==
  LET size == SizeOf(cell)
      a == IF permanent THEN p.perm - size ELSE p.offset
      filled == [p EXCEPT !.cells = Written(p.cells, a, cell)]
  IN IF p.perm - size < p.offset THEN Made(p, NULL)
     ELSE IF permanent THEN Made([filled EXCEPT !.perm = a], a)
     ELSE Made([filled EXCEPT !.offset = a + size], a)

\* A compound cell, unless one of its arguments could not be made.
make_func(p, permanent, name, ats) ==
  IF NULL \in Range(ats) THEN Made(p, NULL)
  ELSE term_alloc(p, permanent, Compound(name, ats))

\* op(p, a) for the addresses one after the other.
RECURSIVE Each(_, _, _)
Each(op(_, _), p, as) ==
  IF as = << >> THEN [pool |-> p, ats |-> << >>]
  ELSE LET first == op(p, Head(as))
           rest == Each(op, first.pool, Tail(as))
       IN IF first.at = NULL THEN [pool |-> first.pool, ats |-> << NULL >>]
          ELSE [pool |-> rest.pool, ats |-> << first.at >> \o rest.ats]

RECURSIVE parsed_into(_, _, _)
parsed_into(p, permanent, t) ==
  IF t.type # "FUNC" THEN term_alloc(p, permanent, t)
  ELSE LET args == Each(LAMBDA q, u : parsed_into(q, permanent, u), p, t.args)
       IN make_func(args.pool, permanent, t.name, args.ats)

RECURSIVE copy_term(_, _)
copy_term(p, a) ==
  LET t == p.cells[a]
  IN IF t.type # "FUNC" THEN term_alloc(p, TRUE, t)
     ELSE LET args == Each(copy_term, p, t.args)
          IN make_func(args.pool, TRUE, t.name, args.ats)

\* Renaming makes compound terms and variables anew and shares the rest.
RECURSIVE rename_vars(_, _)
rename_vars(p, a) ==
  LET t == p.cells[a]
  IN CASE t.type = "VAR"  -> term_alloc(p, FALSE, t)
       [] t.type = "FUNC" -> LET args == Each(rename_vars, p, t.args)
                             IN make_func(args.pool, FALSE, t.name, args.ats)
       [] OTHER           -> Made(p, a)

\* A cell that may stay a part of a clause, or a copy.
term_is_temp(p, a) == a < p.perm

\* Mutant: what did not change is taken to be permanent.
lasting_Unchanged(p, a) == Made(p, a)

lasting(p, a) == IF term_is_temp(p, a) THEN copy_term(p, a) ELSE Made(p, a)

\* substitute() into the permanent half: a compound term none of whose
\* arguments was replaced is copied with them.
RECURSIVE substitute_permanent(_, _)
substitute_permanent(p, a) ==
  LET t == p.cells[a]
      args == Each(substitute_permanent, p, t.args)
  IN IF args.ats = t.args THEN lasting(args.pool, a)
     ELSE make_func(args.pool, TRUE, t.name, args.ats)

-----------------------------------------------------------------------------
(* Giving back                                                             *)

RECURSIVE min_perm_offset(_, _)
min_perm_offset(p, a) ==
  IF a < p.perm THEN pool_size
  ELSE LET args == p.cells[a].args
       IN Min({a} \cup {min_perm_offset(p, args[i]) : i \in DOMAIN args})

\* The lowest address of a clause: of its head, its goals and its array, or of
\* the array that an earlier clause left in the slot of a fact.
lowest(p, c) ==
  LET goals == IF c.body_count = 0 THEN {} ELSE Range(p.cells[c.body].args)
  IN Min({min_perm_offset(p, a) : a \in {c.head} \cup goals}
         \cup {a \in {c.body} : a >= p.perm})

\* The dead space below that of all clauses.
trim_perm_pool(p, db) ==
  [p EXCEPT !.perm = Min({pool_size} \cup {lowest(p, c) : c \in Range(db)})]

\* The permanent half moved to the bottom, with its pointers.
Staged(p) ==
  LET moved == {a \in DOMAIN p.cells : a >= p.perm}
      Moved(a) == [p.cells[a] EXCEPT !.args = [i \in DOMAIN @ |-> @[i] - p.perm]]
  IN [offset |-> pool_size - p.perm, perm |-> pool_size,
      cells |-> [b \in {a - p.perm : a \in moved} |-> Moved(b + p.perm)]]
Rebased(p, c) ==
  [c EXCEPT !.head = @ - p.perm,
            !.body = IF @ = NULL THEN NULL ELSE @ - p.perm]

Failed(p) == [pool |-> p, ok |-> FALSE]

\* Head, array and goals of a clause; an array only if there are goals.  It is
\* filled after they are copied.
GoalsRecopied(head, goals) ==
  LET array == term_alloc(head.pool, TRUE, Goals([i \in DOMAIN goals |-> NULL]))
      body == Each(copy_term, array.pool, goals)
  IN IF array.at = NULL \/ NULL \in Range(body.ats) THEN Failed(head.pool)
     ELSE [pool |-> [body.pool EXCEPT !.cells[array.at] = Goals(body.ats)],
           ok |-> TRUE, clause |-> Clause(head.at, array.at, Len(goals))]

Recopied(p, c) ==
  LET head == copy_term(p, c.head)
  IN IF head.at = NULL THEN Failed(p)
     ELSE IF c.body_count > 0 THEN GoalsRecopied(head, p.cells[c.body].args)
     ELSE [pool |-> head.pool, ok |-> TRUE, clause |-> Clause(head.at, NULL, 0)]

\* The clauses are copied back one after the other; each needs the ones before.
Defragmented(p, db) ==
  FoldLeft(LAMBDA s, c :
             LET r == Recopied(s.pool, c)
             IN IF s.ok /\ r.ok
                THEN [s EXCEPT !.pool = r.pool, !.db = Append(@, r.clause)]
                ELSE [s EXCEPT !.ok = FALSE, !.db = Append(@, c)],
           [pool |-> p, ok |-> TRUE, db |-> << >>], db)

\* Mutant: a quarter of the pool is left alone.
has_room_Quarter(used) == used * 4 > pool_size /\ used * 2 <= pool_size

\* Staging needs as much room again.
has_room(used) == used > 0 /\ used * 2 <= pool_size

compact_perm_pool(p, db) ==
  LET q == trim_perm_pool(p, db)
  IN IF has_room(pool_size - q.perm)
     THEN Defragmented(Staged(q), [i \in DOMAIN db |-> Rebased(q, db[i])])
     ELSE [pool |-> q, db |-> db, ok |-> TRUE]

-----------------------------------------------------------------------------
(* What is done with the pool.  Where term_alloc fails in the midst of     *)
(* Assert, or for the array of Load, NULL is dereferenced and the process  *)
(* ends: these steps need room.                                            *)

PoolInit ==
  /\ pool = [cells |-> << >>, offset |-> 0, perm |-> pool_size]
  /\ database = [i \in ClauseSlots |-> Clause(NULL, NULL, 0)] /\ db_count = 0
  /\ held = NULL /\ meant = << >> /\ gave_up = FALSE

\* A slot is filled; the body of a fact is what is given for it.
Split(p, a, array, no_goals) ==
  LET t == p.cells[a]
  IN IF t.name = ":-" THEN Clause(t.args[1], array, 1) ELSE Clause(a, no_goals, 0)

\* A clause is parsed where it stays; the node :- is left behind, and so is
\* the whole of a clause in which a syntax error is found at the end.
Load(t) ==
  LET whole == parsed_into(pool, TRUE, t)
      rule == t.name = ":-" /\ whole.at # NULL
      array == IF rule
               THEN term_alloc(whole.pool, TRUE,
                               Goals(<< whole.pool.cells[whole.at].args[2] >>))
               ELSE whole
  IN /\ db_count < PoolClauses
     /\ rule => array.at # NULL
     /\ pool' = array.pool
     /\ \/ /\ whole.at # NULL
           /\ database' = [database EXCEPT ![db_count + 1] =
                             Split(array.pool, whole.at, array.at, NULL)]
           /\ db_count' = db_count + 1 /\ meant' = Append(meant, t)
        \/ /\ database' = IF whole.at = NULL THEN database
                          ELSE [database EXCEPT ![db_count + 1].body =
                                  IF rule THEN array.at ELSE NULL]
           /\ UNCHANGED << db_count, meant >>
     /\ UNCHANGED << held, gave_up >>

\* A query builds a term: from its text, or by renaming the head of a clause.
Hold(r) ==
  /\ held = NULL /\ r.at # NULL
  /\ pool' = r.pool /\ held' = r.at
  /\ UNCHANGED << database, db_count, meant, gave_up >>

Ask(t) == Hold(parsed_into(pool, FALSE, t))
CallClause(i) == Hold(rename_vars(pool, clauses[i].head))

\* The term as it reads from an address; freed and overwritten cells are lost.
RECURSIVE Reads(_, _)
Reads(p, a) ==
  IF a \in DOMAIN p.cells /\ (a < p.offset \/ a >= p.perm)
  THEN [p.cells[a] EXCEPT !.args = [i \in DOMAIN @ |-> Reads(p, @[i])]]
  ELSE Leaf("LOST", "")

\* The clauses from slot i on move up, or from i + 1 on down.  Of what stays
\* behind the last one, only the body is ever looked at.
MovedUp(i) ==
  [k \in ClauseSlots |->
     IF k \in i + 1 .. db_count + 1 THEN database[k - 1] ELSE database[k]]
MovedDown(i) ==
  [k \in ClauseSlots |->
     IF k \in i .. db_count - 1 THEN database[k + 1]
     ELSE IF k = db_count THEN Clause(NULL, database[k].body, 0) ELSE database[k]]

\* A fact keeps the body pointer of the clause that was in its slot.  (The
\* array has room for MAX_GOALS goals, here for those there are.)
AssertAt(i) ==
  LET arg == substitute_permanent(pool, held)
      rule == arg.pool.cells[arg.at].name = ":-"
      array == IF rule
               THEN term_alloc(arg.pool, TRUE,
                               Goals(<< arg.pool.cells[arg.at].args[2] >>))
               ELSE arg
  IN /\ held # NULL /\ db_count < PoolClauses
     /\ arg.at # NULL /\ array.at # NULL
     /\ pool' = array.pool
     /\ database' = [MovedUp(i) EXCEPT ![i] =
                       Split(array.pool, arg.at, array.at, @.body)]
     /\ db_count' = db_count + 1
     /\ meant' = InsertAt(meant, i, Reads(pool, held))
     /\ UNCHANGED << held, gave_up >>

Assertz == AssertAt(db_count + 1)
Asserta == AssertAt(1)

Retract(i) ==
  /\ held # NULL
  /\ database' = MovedDown(i) /\ db_count' = db_count - 1
  /\ meant' = RemoveAt(meant, i)
  /\ UNCHANGED << pool, held, gave_up >>

\* The end of a query at the toplevel.
EndQuery ==
  \E r \in {compact_perm_pool([pool EXCEPT !.offset = 0], clauses)} :
    LET kept == {a \in DOMAIN r.pool.cells : a >= r.pool.perm}
    IN /\ pool' = [r.pool EXCEPT !.offset = 0, !.cells = Restrict(@, kept)]
       /\ database' = [i \in ClauseSlots |-> IF i <= db_count THEN r.db[i] ELSE database[i]]
       /\ gave_up' = ~r.ok
       /\ held' = NULL /\ UNCHANGED << db_count, meant >>

PoolNext ==
  /\ ~gave_up
  /\ \/ \E t \in PoolTerms : Load(t) \/ Ask(t)
     \/ \E i \in DOMAIN clauses : CallClause(i) \/ Retract(i)
     \/ Assertz \/ Asserta
     \/ EndQuery

PoolSpec == PoolInit /\ [][PoolNext]_poolVars

-----------------------------------------------------------------------------

\* Whatever is loaded, asserted, retracted and moved, every clause reads as it
\* was written.
ClausesRead ==
  /\ db_count = Len(meant)
  /\ \A i \in DOMAIN clauses :
       LET c == clauses[i]  t == meant[i]
       IN IF t.name = ":-"
          THEN /\ c.body_count = 1 /\ Reads(pool, c.head) = t.args[1]
               /\ Reads(pool, c.body).args = << t.args[2] >>
          ELSE c.body_count = 0 /\ Reads(pool, c.head) = t

\* So it is until a compaction runs out of room half-way, which sharing of atoms
\* makes possible: the copies do not share.
ClausesIntact == ~gave_up => ClausesRead

RECURSIVE Units(_)
Units(t) ==
  SizeOf(t) + FoldLeft(LAMBDA n, u : n + Units(u), 0, t.args)

\* What a clause takes: its node :- is replaced by an array of one goal.
ClauseUnits(t) == Units(t) - (IF t.name = ":-" THEN 2 ELSE 0)

\* After a query at the toplevel a pool that is at least half free holds the
\* clauses and nothing else: retracted clauses, failed loads and sharing leave
\* no dead space that would add up in a long session.  (Half free as the code
\* counts it, dead space that could not be trimmed included.)
RoomComesBack ==
  [][EndQuery /\ ~gave_up' =>
       LET used == pool_size - pool'.perm
       IN used * 2 <= pool_size =>
            used = FoldLeft(LAMBDA n, t : n + ClauseUnits(t), 0, meant')]_poolVars
=============================================================================
