------------------------------- MODULE Store -------------------------------
(***************************************************************************)
(* The clause database and what changes it: assert and retract, files and  *)
(* the directives in them, make/0, and the queries around all of these,    *)
(* which end by giving back the names they interned if nothing seems to    *)
(* have changed (parse.c, builtins.c, term.c).                             *)
(*                                                                         *)
(* Clauses are facts pred(arg): the names of the two, as pointers into the *)
(* string pool.  The pool has one cell per name; a name written below the  *)
(* offset replaces whatever was left there.  A goal has a name and reads   *)
(* its arguments from the pool too; variables and unification are in       *)
(* Solver.  A query iterates over clauses with an index, as son() does.    *)
(***************************************************************************)
EXTENDS Naturals, FiniteSets, SequencesExt, FiniteSetsExt, Removal

CONSTANTS
  Versions,    \* Versions[f]: what the file f holds, before and after edits
  Core,        \* the library that main() loads first
  Queries,     \* what may be asked
  Names,       \* of predicates, arguments and operators
  None,
  MaxFiles, MaxClauses, MaxDynamic,   \* MAX_MAKE_FILES and so on
  MaxOpen      \* how many files can be open at a time

Files == DOMAIN Versions

\* Goals, lines of files, and files as they are on disk.
Ops == {"call", "assertz", "asserta", "retract", "retractall", "abolish", "dynamic",
        "op", "consult", "include", "reload", "make", "unconsult"}
Named == {"call", "assertz", "asserta", "abolish", "dynamic", "op"}
Goals == {g \in [op : Ops, names : Seq(Names), files : Seq(Files)] :
            g.op \in Named => g.names # << >>}
Items == [is : {"clause"}, names : Seq(Names) \ {<< >>}]
         \cup [is : {"directive"}, goals : Seq(Goals)] \cup [is : {"bad"}]

ASSUME StoreAssumption ==
  /\ {MaxFiles, MaxClauses, MaxDynamic, MaxOpen} \subseteq Nat \ {0}
  /\ Versions \in [Files -> Seq([there : BOOLEAN, items : Seq(Items)]) \ {<< >>}]
  /\ Core \in Files /\ None \notin Files /\ Queries \subseteq Seq(Goals)

VARIABLES
  database,             \* clauses [at, source_file]; at: pointers of its names
  pool,                 \* string_pool: [cells, offset]
  ops,                  \* pointers to the names of the operators defined
  dynamic_preds,
  make_files, mark,     \* [path, mtime] of each; make_db_mark, make_string_mark
  disk,                 \* which version of each file is there
  current_source_file,  \* index in make_files, 0 for none
  include_depth,
  db_dirty, ops_dirty, parse_error,
  acts,                 \* the running query and loads, innermost last
  complete              \* history: files whose last load reported no error

loading == <<make_files, mark, current_source_file, include_depth, complete>>
flags == <<db_dirty, ops_dirty, parse_error>>
vars == <<database, pool, ops, dynamic_preds, loading, disk, flags, acts>>

-----------------------------------------------------------------------------
(* Names                                                                   *)

\* intern_name() of a text: the first cell that has it, else a new one.
intern_name(p, text) ==
  LET known == {i \in 1 .. p.offset : p.cells[i] = text}
      new == p.offset + 1
  IN IF known # {} THEN [pool |-> p, at |-> Min(known)]
     ELSE [pool |-> [cells |-> IF new \in DOMAIN p.cells
                               THEN [p.cells EXCEPT ![new] = text]
                               ELSE Append(p.cells, text),
                     offset |-> new],
           at |-> new]

\* intern_name() of a pointer into the pool.
intern_again(p, at) ==
  IF at <= p.offset THEN [pool |-> p, at |-> at] ELSE intern_name(p, p.cells[at])

\* Several names, one after the other: of texts, and of pointers.
InternNames(p, names) ==
  LET done[k \in 0 .. Len(names)] ==
        IF k = 0 THEN [pool |-> p, at |-> << >>]
        ELSE LET before == done[k - 1]
                 one == intern_name(before.pool, names[k])
             IN [pool |-> one.pool, at |-> Append(before.at, one.at)]
  IN done[Len(names)]

InternPointers(p, at) ==
  LET done[k \in 0 .. Len(at)] ==
        IF k = 0 THEN [pool |-> p, at |-> << >>]
        ELSE LET before == done[k - 1]
                 one == intern_again(before.pool, at[k])
             IN [pool |-> one.pool, at |-> Append(before.at, one.at)]
  IN done[Len(at)]

Read(at) == [i \in DOMAIN at |-> pool.cells[at[i]]]
NameOf(c) == pool.cells[c.at[1]]

\* The parser interns the names of every goal.
parse_goals(goals) ==
  LET done[k \in 0 .. Len(goals)] ==
        IF k = 0 THEN [pool |-> pool, goals |-> << >>]
        ELSE LET before == done[k - 1]
                 g == goals[k]
                 names == InternNames(before.pool, g.names)
                 asked == [op |-> g.op, names |-> g.names, files |-> g.files,
                           at |-> names.at]
             IN [pool |-> names.pool, goals |-> Append(before.goals, asked)]
  IN done[Len(goals)]

\* Phase 2 of compact_perm_pool() copies every clause, in order.
Compacted(p) ==
  LET done[k \in 0 .. Len(database)] ==
        IF k = 0 THEN [pool |-> p, database |-> << >>]
        ELSE LET before == done[k - 1]
                 c == database[k]
                 names == InternPointers(before.pool, c.at)
             IN [pool |-> names.pool,
                 database |-> Append(before.database, [c EXCEPT !.at = names.at])]
  IN done[Len(database)]

Clauses == Range(database)

-----------------------------------------------------------------------------
(* Queries.  next is the goal to run, from the clause or file it starts at. *)

Act == Last(acts)
Callers == Front(acts)
Continue(act) == acts' = Append(Callers, act)
Succeed == Continue([Act EXCEPT !.next = @ + 1, !.from = 1])
Fail == Continue([Act EXCEPT !.run = "back"])
Error == Continue([Act EXCEPT !.run = "end"])

EnterQuery(goals, callers) ==
  LET parsed == parse_goals(goals)
  IN /\ acts' = Append(callers,
                  [kind |-> "query", goals |-> parsed.goals, next |-> 1,
                   from |-> 1, alternatives |-> << >>, run |-> "go",
                   string_mark |-> pool.offset, db_mark |-> Len(database)])
     /\ pool' = parsed.pool
     /\ db_dirty' = FALSE /\ parse_error' = FALSE
     /\ UNCHANGED <<database, ops, dynamic_preds, loading, disk, ops_dirty>>

Query(goals) == acts = << >> /\ EnterQuery(goals, << >>)

InQuery(run) == acts # << >> /\ Act.kind = "query" /\ Act.run = run
Goal == Act.goals[Act.next]
Running(op) == InQuery("go") /\ Act.next <= Len(Act.goals) /\ Goal.op = op
texts == Read(Goal.at)

\* The toplevel may ask for more; a directive has one solution.
Solution ==
  /\ InQuery("go") /\ Act.next > Len(Act.goals)
  /\ Error \/ (Len(acts) = 1 /\ Fail)
  /\ UNCHANGED <<database, pool, ops, dynamic_preds, loading, disk, flags>>

Backtrack ==
  /\ InQuery("back")
  /\ IF Act.alternatives = << >> THEN Error
     ELSE LET frame == Last(Act.alternatives)
          IN Continue([Act EXCEPT !.next = frame.next, !.from = frame.from,
                                  !.alternatives = Front(@), !.run = "go"])
  /\ UNCHANGED <<database, pool, ops, dynamic_preds, loading, disk, flags>>

\* Mutants: the roll-back does not look at ops_dirty; it goes back to where
\* the outermost query began.
EndQueryTo(kept, string_mark) ==
  LET rolled_back == IF kept THEN pool
                     ELSE [pool EXCEPT !.offset = string_mark]
  IN /\ InQuery("end")
     /\ pool' = rolled_back
     /\ db_dirty' = FALSE /\ ops_dirty' = FALSE
     /\ acts' = IF Callers = << >> THEN << >>
                ELSE Append(Front(Callers),
                            [Last(Callers) EXCEPT !.stop = parse_error])
     /\ UNCHANGED <<database, ops, dynamic_preds, loading, disk, parse_error>>
EndQuery_NoOpsDirty ==
  EndQueryTo(db_dirty \/ Len(database) # Act.db_mark, Act.string_mark)
EndQuery_Outermost ==
  EndQueryTo(db_dirty \/ ops_dirty \/ Len(database) # Act.db_mark,
             acts[1].string_mark)

\* Mutant: assert and retract are not looked at, only the number of clauses.
seems_unchanged_BySize == ~ops_dirty /\ Len(database) = Act.db_mark

\* What is taken for "the query changed nothing".
seems_unchanged == ~db_dirty /\ ~ops_dirty /\ Len(database) = Act.db_mark

\* trilog_exec_query_multi() after solve_all(), and toplevel_query(), which
\* compacts; phase 2 only when less than half of the pool is permanent.
EndQuery ==
  LET rolled_back ==
        IF seems_unchanged
        THEN [pool EXCEPT !.offset = Act.string_mark] ELSE pool
      compacted == Compacted(rolled_back)
  IN /\ InQuery("end")
     /\ \/ pool' = rolled_back /\ UNCHANGED database
        \/ /\ Len(acts) = 1
           /\ pool' = compacted.pool /\ database' = compacted.database
     /\ db_dirty' = FALSE /\ ops_dirty' = FALSE
     /\ acts' = IF Callers = << >> THEN << >>
                ELSE Append(Front(Callers),
                            [Last(Callers) EXCEPT !.stop = parse_error])
     /\ UNCHANGED <<ops, dynamic_preds, loading, disk, parse_error>>

-----------------------------------------------------------------------------
(* Goals that use or change clauses                                        *)

is_declared_dynamic(name) == name \in dynamic_preds

\* Mutant: only the newest clause is looked at.
is_static_procedure_Newest(name) ==
  /\ ~is_declared_dynamic(name)
  /\ database # << >> /\ Last(database).source_file # 0
  /\ NameOf(Last(database)) = name

is_static_procedure(name) ==
  /\ ~is_declared_dynamic(name)
  /\ \E c \in Clauses : c.source_file # 0 /\ NameOf(c) = name

\* Mutant: the table is taken for full one entry too early.
ensure_dynamic_Early(name) ==
  dynamic_preds' = IF Cardinality(dynamic_preds) < MaxDynamic - 1
                   THEN dynamic_preds \cup {name} ELSE dynamic_preds

ensure_dynamic(name) ==
  dynamic_preds' = IF Cardinality(dynamic_preds) < MaxDynamic
                   THEN dynamic_preds \cup {name} ELSE dynamic_preds

\* A head unifies with the goal's pattern; what is missing is a variable.
Matches(c) == IsPrefix(texts, Read(c.at))

\* Mutant: backtracking tries the same clause again.
Call_SameAgain ==
  LET found == {i \in Act.from .. Len(database) :
                  database[i].at[1] = Goal.at[1]}
  IN /\ Running("call")
     /\ IF found = {} THEN Fail
        ELSE Continue([Act EXCEPT !.next = @ + 1, !.from = 1,
               !.alternatives =
                 Append(@, [next |-> Act.next, from |-> Min(found)])])
     /\ UNCHANGED <<database, pool, ops, dynamic_preds, loading, disk, flags>>

\* son(): the next clause from an index on; names are compared as pointers.
Call ==
  LET found == {i \in Act.from .. Len(database) :
                  database[i].at[1] = Goal.at[1]}
  IN /\ Running("call")
     /\ IF found # {}
        THEN Continue([Act EXCEPT !.next = @ + 1, !.from = 1,
               !.alternatives =
                  Append(@, [next |-> Act.next, from |-> Min(found) + 1])])
        ELSE IF /\ Act.from = 1 /\ ~is_declared_dynamic(texts[1])
                /\ \A c \in Clauses : NameOf(c) # texts[1]
             THEN Error ELSE Fail
     /\ UNCHANGED <<database, pool, ops, dynamic_preds, loading, disk, flags>>

AssertClause(op) ==
  LET copy == InternPointers(pool, Goal.at)
      clause == [at |-> copy.at, source_file |-> 0]
  IN /\ Running(op)
     /\ IF Len(database) >= MaxClauses \/ is_static_procedure(texts[1])
        THEN /\ IF Len(database) >= MaxClauses THEN Fail ELSE Error
             /\ UNCHANGED <<database, pool, dynamic_preds, db_dirty>>
        ELSE /\ ensure_dynamic(texts[1])
             /\ database' = IF op = "assertz" THEN Append(database, clause)
                            ELSE <<clause>> \o database
             /\ pool' = copy.pool
             /\ db_dirty' = TRUE
             /\ Succeed
     /\ UNCHANGED <<ops, loading, disk, ops_dirty, parse_error>>

Assertz == AssertClause("assertz")
Asserta == AssertClause("asserta")

Retract ==
  LET found == {i \in DOMAIN database : Matches(database[i])}
  IN /\ Running("retract")
     /\ IF texts # << >> /\ is_static_procedure(texts[1])
        THEN Error /\ UNCHANGED <<database, db_dirty>>
        ELSE IF found = {} THEN Fail /\ UNCHANGED <<database, db_dirty>>
        ELSE Succeed /\ database' = RemoveAt(database, Min(found))
             /\ db_dirty' = TRUE
     /\ UNCHANGED <<pool, ops, dynamic_preds, loading, disk, ops_dirty,
                    parse_error>>

Retractall ==
  /\ Running("retractall")
  /\ IF texts # << >> /\ is_static_procedure(texts[1])
     THEN Error /\ UNCHANGED <<database, db_dirty>>
     ELSE /\ Succeed
          /\ database' = Without(database, {c \in Clauses : Matches(c)})
          /\ db_dirty' = (db_dirty \/ database' # database)
  /\ UNCHANGED <<pool, ops, dynamic_preds, loading, disk, ops_dirty,
                 parse_error>>

\* abolish/1 neither asks whether the predicate is static nor sets db_dirty.
Abolish ==
  /\ Running("abolish")
  /\ Succeed
  /\ database' = Without(database, {c \in Clauses : NameOf(c) = texts[1]})
  /\ UNCHANGED <<pool, ops, dynamic_preds, loading, disk, flags>>

Dynamic ==
  /\ Running("dynamic")
  /\ Succeed
  /\ ensure_dynamic(texts[1])
  /\ UNCHANGED <<database, pool, ops, loading, disk, flags>>

\* do_op(): an entry of that name is updated, otherwise one is added.
Op ==
  LET copy == intern_again(pool, Goal.at[1])
  IN /\ Running("op")
     /\ Succeed
     /\ ops_dirty' = TRUE
     /\ IF \E at \in Range(ops) : pool.cells[at] = texts[1]
        THEN UNCHANGED <<ops, pool>>
        ELSE ops' = Append(ops, copy.at) /\ pool' = copy.pool
     /\ UNCHANGED <<database, dynamic_preds, loading, disk, db_dirty,
                    parse_error>>

-----------------------------------------------------------------------------
(* Files                                                                   *)

Text(file) == Versions[file][disk[file]]
CanOpen(file) == Text(file).there /\ include_depth < MaxOpen
IndexOf(file) == {i \in DOMAIN make_files : make_files[i].path = file}

\* A load comes back to the query that asked for it; make/0 does not look at
\* the result.
Return(callers, ok) ==
  IF callers = << >> THEN << >>
  ELSE LET query == Last(callers)
       IN IF ok \/ query.goals[query.next].op = "reload" THEN callers
          ELSE Append(Front(callers), [query EXCEPT !.run = "back"])

\* Mutant: a file that changed is loaded on top of its old clauses.
load_file_OnTop(file, callers) ==
  LET known == IndexOf(file)
      unchanged == \E i \in known : make_files[i].mtime = disk[file]
      entry == [path |-> file, mtime |-> disk[file]]
  IN IF ~CanOpen(file) \/ (include_depth = 0 /\ unchanged)
     THEN acts' = Return(callers, CanOpen(file)) /\ UNCHANGED <<database, loading>>
     ELSE /\ acts' = Append(callers,
                       [kind |-> "load", file |-> file,
                        items |-> Text(file).items, stop |-> FALSE])
          /\ include_depth' = include_depth + 1
          /\ IF include_depth > 0
             THEN UNCHANGED <<make_files, current_source_file>>
             ELSE /\ make_files' = IF known = {} THEN Append(make_files, entry)
                                   ELSE [make_files EXCEPT ![Min(known)] = entry]
                  /\ current_source_file' = IF known = {} THEN Len(make_files')
                                            ELSE Min(known)
          /\ UNCHANGED <<database, mark, complete>>

\* trilog_load_file() up to the first line.
load_file(file, callers) ==
  LET known == IndexOf(file)
      unchanged == /\ include_depth = 0
                   /\ \E i \in known : make_files[i].mtime = disk[file]
      entry == [path |-> file, mtime |-> disk[file]]
  IN IF ~CanOpen(file) \/ unchanged
     THEN acts' = Return(callers, CanOpen(file)) /\ UNCHANGED <<database, loading>>
     ELSE /\ acts' = Append(callers,
                       [kind |-> "load", file |-> file,
                        items |-> Text(file).items, stop |-> FALSE])
          /\ include_depth' = include_depth + 1
          /\ IF include_depth > 0
             THEN UNCHANGED <<database, make_files, mark, current_source_file>>
             ELSE IF known # {}
             THEN LET i == Min(known)
                  IN /\ database' = Without(database, {c \in Clauses : c.source_file = i})
                     /\ make_files' = [make_files EXCEPT ![i] = entry]
                     /\ current_source_file' = i
                     /\ UNCHANGED mark
             ELSE /\ mark' = IF make_files # << >> THEN mark
                             ELSE [db |-> Len(database), string |-> pool.offset]
                  /\ IF Len(make_files) < MaxFiles
                     THEN /\ make_files' = Append(make_files, entry)
                          /\ current_source_file' = Len(make_files')
                     ELSE UNCHANGED <<make_files, current_source_file>>
                  /\ UNCHANGED database
          /\ UNCHANGED complete

\* consult/1 and [F1, F2, ...], include/1, and what make/0 does again.
LoadNext ==
  /\ \E op \in {"consult", "include", "reload"} : Running(op)
  /\ IF Goal.op = "include" /\ include_depth = 0
     THEN Fail /\ UNCHANGED <<database, loading>>
     ELSE IF Act.from > Len(Goal.files)
     THEN Succeed /\ UNCHANGED <<database, loading>>
     ELSE load_file(Goal.files[Act.from],
                    Append(Callers, [Act EXCEPT !.from = @ + 1]))
  /\ UNCHANGED <<pool, ops, dynamic_preds, disk, flags>>

InLoad == acts # << >> /\ Act.kind = "load" /\ ~Act.stop
Item == Head(Act.items)
NextItem(stop) ==
  Continue([Act EXCEPT !.items = Tail(@), !.stop = stop])

\* Mutant: a clause there is no room for is skipped.
LoadClause_Skip ==
  LET names == InternNames(pool, Item.names)
  IN /\ InLoad /\ Act.items # << >> /\ Item.is = "clause"
     /\ NextItem(FALSE)
     /\ parse_error' = FALSE
     /\ pool' = names.pool
     /\ database' = IF Len(database) >= MaxClauses THEN database
                    ELSE Append(database, [at |-> names.at,
                                  source_file |-> current_source_file])
     /\ UNCHANGED <<ops, dynamic_preds, loading, disk, db_dirty, ops_dirty>>

\* parse_clause(): a clause, or an error, which ends the load.
LoadClause ==
  LET names == InternNames(pool, Item.names)
      room == Len(database) < MaxClauses
  IN /\ InLoad /\ Act.items # << >> /\ Item.is \in {"clause", "bad"}
     /\ IF Item.is = "clause" /\ room
        THEN /\ NextItem(FALSE)
             /\ parse_error' = FALSE
             /\ pool' = names.pool
             /\ database' = Append(database,
                  [at |-> names.at, source_file |-> current_source_file])
        ELSE /\ NextItem(TRUE)
             /\ parse_error' = TRUE
             /\ UNCHANGED <<pool, database>>
     /\ UNCHANGED <<ops, dynamic_preds, loading, disk, db_dirty, ops_dirty>>

LoadDirective ==
  /\ InLoad /\ Act.items # << >> /\ Item.is = "directive"
  /\ EnterQuery(Item.goals,
                Append(Callers, [Act EXCEPT !.items = Tail(@)]))

\* Mutant: an error leaves without counting the depth down.
EndLoad_EarlyReturn ==
  /\ acts # << >> /\ Act.kind = "load" /\ (Act.items = << >> \/ Act.stop)
  /\ acts' = Return(Callers, ~Act.stop)
  /\ include_depth' = IF Act.stop THEN include_depth ELSE include_depth - 1
  /\ current_source_file' = 0
  /\ UNCHANGED <<complete, database, pool, ops, dynamic_preds, make_files, mark,
                 disk, flags>>

\* The end of trilog_load_file(), after the last line or an error.
EndLoad ==
  /\ acts # << >> /\ Act.kind = "load" /\ (Act.items = << >> \/ Act.stop)
  /\ acts' = Return(Callers, ~Act.stop)
  /\ include_depth' = include_depth - 1
  /\ current_source_file' = 0
  /\ complete' = IF include_depth > 1 THEN complete
                 ELSE IF Act.stop THEN complete \ {Act.file}
                 ELSE complete \cup {Act.file}
  /\ UNCHANGED <<database, pool, ops, dynamic_preds, make_files, mark, disk,
                 flags>>

\* make/0: back to the state before the first file, and load all again.  An
\* array shorter than the mark would get old entries back; not modelled.
Make ==
  LET Changed(f) == ~Text(f.path).there \/ disk[f.path] # f.mtime
  IN /\ Running("make")
     /\ IF \A f \in Range(make_files) : ~Changed(f)
        THEN Succeed /\ UNCHANGED <<database, pool, make_files>>
        ELSE /\ mark.db <= Len(database)
             /\ database' = SubSeq(database, 1, mark.db)
             /\ pool' = [pool EXCEPT !.offset = mark.string]
             /\ make_files' = << >>
             /\ Continue([Act EXCEPT !.goals[Act.next] =
                  [op |-> "reload", at |-> << >>, names |-> << >>,
                   files |-> [i \in DOMAIN make_files |-> make_files[i].path]],
                  !.from = 1])
     /\ UNCHANGED <<ops, dynamic_preds, mark, current_source_file,
                    include_depth, complete, disk, flags>>

\* Mutant: the files after it keep their numbers.
Unconsult_NotShifted ==
  LET known == IndexOf(Goal.files[1])
      i == Min(known)
  IN /\ Running("unconsult")
     /\ IF known = {}
        THEN Fail /\ UNCHANGED <<database, make_files, db_dirty>>
        ELSE /\ Succeed
             /\ database' = Without(database, {c \in Clauses : c.source_file = i})
             /\ make_files' = RemoveAt(make_files, i)
             /\ db_dirty' = TRUE
     /\ UNCHANGED <<pool, ops, dynamic_preds, mark, current_source_file,
                    include_depth, complete, disk, ops_dirty, parse_error>>

\* unconsult/1: the file's clauses go, and the files after it move up.
Unconsult ==
  LET known == IndexOf(Goal.files[1])
      i == Min(known)
      kept == Without(database, {c \in Clauses : c.source_file = i})
  IN /\ Running("unconsult")
     /\ IF known = {}
        THEN Fail /\ UNCHANGED <<database, make_files, db_dirty>>
        ELSE /\ Succeed
             /\ database' = [k \in DOMAIN kept |->
                  IF kept[k].source_file > i
                  THEN [kept[k] EXCEPT !.source_file = @ - 1] ELSE kept[k]]
             /\ make_files' = RemoveAt(make_files, i)
             /\ db_dirty' = TRUE
     /\ UNCHANGED <<pool, ops, dynamic_preds, mark, current_source_file,
                    include_depth, complete, disk, ops_dirty, parse_error>>

\* Somebody saves another version of a file, or removes it.
Edit(file) ==
  /\ disk[file] < Len(Versions[file])
  /\ disk' = [disk EXCEPT ![file] = @ + 1]
  /\ UNCHANGED <<database, pool, ops, dynamic_preds, loading, flags, acts>>

-----------------------------------------------------------------------------
\* main() has begun to load the core library.
Init ==
  /\ database = << >> /\ ops = << >> /\ dynamic_preds = {}
  /\ pool = [cells |-> << >>, offset |-> 0]
  /\ disk = [f \in Files |-> 1]
  /\ make_files = <<[path |-> Core, mtime |-> 1]>>
  /\ mark = [db |-> 0, string |-> 0]
  /\ current_source_file = 1 /\ include_depth = 1
  /\ db_dirty = FALSE /\ ops_dirty = FALSE /\ parse_error = FALSE
  /\ acts = <<[kind |-> "load", file |-> Core, items |-> Text(Core).items,
               stop |-> FALSE]>>
  /\ complete = {}

\* What the program does by itself, once a query was asked.
Step ==
  \/ Solution \/ Backtrack \/ EndQuery
  \/ Call \/ Assertz \/ Asserta \/ Retract \/ Retractall \/ Abolish
  \/ Dynamic \/ Op
  \/ LoadNext \/ LoadClause \/ LoadDirective \/ EndLoad \/ Make \/ Unconsult

Next ==
  \/ Step
  \/ \E goals \in Queries : Query(goals)
  \/ \E f \in Files : Edit(f)

Spec == Init /\ [][Next]_vars
FairSpec == Spec /\ WF_vars(Step)

-----------------------------------------------------------------------------
(* Properties                                                              *)

Owner(c) ==
  IF c.source_file = 0 THEN None ELSE make_files[c.source_file].path

\* The store as a program sees it, through the pool.
Contents ==
  [i \in DOMAIN database |->
     [fact |-> Read(database[i].at), owner |-> Owner(database[i])]]

\* With pointers into the first n cells of the pool.
Clause(n) == [at : Seq(1 .. n), source_file : Nat]
Asked(n) ==
  {g \in [op : Ops, names : Seq(Names), files : Seq(Files), at : Seq(1 .. n)] :
     Len(g.at) = Len(g.names) /\ (g.op \in Named => g.at # << >>)}
Alternatives == [next : Nat \ {0}, from : Nat \ {0}]
QueryActs(n) ==
  [kind : {"query"}, goals : Seq(Asked(n)), next : Nat \ {0}, from : Nat \ {0},
   alternatives : Seq(Alternatives), run : {"go", "back", "end"},
   string_mark : 0 .. n, db_mark : Nat]
LoadActs == [kind : {"load"}, file : Files, items : Seq(Items), stop : BOOLEAN]
Loads(calls) == {i \in DOMAIN calls : calls[i].kind = "load"}

\* Every pointer and every mark is one into the pool, no table is over its
\* limit, and the depth counts the loads that are running.
TypeOK ==
  LET n == Len(pool.cells)
  IN /\ pool \in [cells : Seq(Names), offset : 0 .. n]
     /\ database \in Seq(Clause(n)) /\ Len(database) <= MaxClauses
     /\ ops \in Seq(1 .. n)
     /\ dynamic_preds \subseteq Names /\ IsFiniteSet(dynamic_preds)
     /\ Cardinality(dynamic_preds) <= MaxDynamic
     /\ make_files \in Seq([path : Files, mtime : Nat])
     /\ Len(make_files) <= MaxFiles
     /\ mark \in [db : Nat, string : 0 .. n]
     /\ disk \in [Files -> Nat] /\ current_source_file \in Nat
     /\ \A f \in Files : disk[f] \in DOMAIN Versions[f]
     /\ acts \in Seq(QueryActs(n) \cup LoadActs)
     /\ include_depth = Cardinality(Loads(acts)) /\ include_depth <= MaxOpen
     /\ {db_dirty, ops_dirty, parse_error} \subseteq BOOLEAN

\* A clause that came from a file belongs to one that is tracked, also after the
\* files before it were taken out (unconsult/1) or all were loaded again.
OwnersKnown ==
  /\ current_source_file \in 0 .. Len(make_files)
  /\ \A c \in Clauses : c.source_file \in 0 .. Len(make_files)

\* The facts of a version of a file, those of the files it includes put in
\* their place; n bounds how deep.
Texts == {v.items : v \in UNION {Range(Versions[f]) : f \in Files}}

Listing[n \in 0 .. MaxOpen, items \in Texts] ==
  FlattenSeq([k \in DOMAIN items |->
    IF n = 0 THEN << >>
    ELSE IF items[k].is = "clause" THEN <<items[k].names>>
    ELSE IF items[k].is = "directive" /\ items[k].goals[1].op = "include"
    THEN Listing[n - 1, Text(items[k].goals[1].files[1]).items]
    ELSE << >>])

\* Between queries, a file that is consulted has exactly the clauses of the
\* version that was read, in its order and readable, whatever was loaded,
\* edited, removed or made since; of one whose load reported an error, those
\* before the error.  Predicates declared dynamic may differ; no query may have
\* given back names in use (GivesBackUnused), and no goal have taken clauses
\* without being asked for permission (UncheckedGoal).
FilesFaithful ==
  acts = << >> =>
    \A i \in DOMAIN make_files :
      LET file == make_files[i]
          Fixed(facts) == SelectSeq(facts, LAMBDA t : t[1] \notin dynamic_preds)
          owned == SelectSeq(database, LAMBDA c : c.source_file = i)
          have == Fixed([k \in DOMAIN owned |-> Read(owned[k].at)])
          want == Fixed(Listing[MaxOpen,
                                Versions[file.path][file.mtime].items])
      IN IF file.path \in complete THEN have = want ELSE IsPrefix(have, want)

\* A clause belongs to a file or to a predicate that may be changed: nothing
\* that came from a file is left without an owner (include/1: "clauses are
\* owned by the including file").
NoOrphans ==
  \A c \in Clauses : c.source_file = 0 => NameOf(c) \in dynamic_preds

\* A query that seems to have changed nothing gives back the names interned
\* since it began; no clause and no operator has one of them (ops_dirty
\* "prevents string pool rollback", trilog.h:325).  But every directive that ends
\* sets the flags to FALSE, and beyond them only the number of clauses is
\* compared (parse.c:1062): a file of operators, or one consulted again with as
\* many clauses as before, seems to change nothing.
NamedBelow(n) ==
  /\ \A c \in Clauses : \A i \in DOMAIN c.at : c.at[i] <= n
  /\ \A at \in Range(ops) : at <= n
GivesBackUnused ==
  InQuery("end") /\ seems_unchanged => NamedBelow(Act.string_mark)

\* No file is edited, make/0 is not asked for, and whatever loads files only
\* adds: it takes no clause away and defines no operator.
Loading(goals) == \E i \in DOMAIN goals : goals[i].op \in {"consult", "include", "reload"}
NoMake(goals) == \A i \in DOMAIN goals : goals[i].op # "make"
Adds(goals) ==
  \A i \in DOMAIN goals :
    goals[i].op \in {"call", "assertz", "asserta", "dynamic", "consult", "include"}
AddsOnly(items) ==
  \A i \in DOMAIN items : items[i].is = "directive" => Adds(items[i].goals)
LoadsAdd ==
  /\ \A f \in Files : Len(Versions[f]) = 1
  /\ \A f \in Files : \A v \in DOMAIN Versions[f] : AddsOnly(Versions[f][v].items)
  /\ \A goals \in Queries : NoMake(goals) /\ (Loading(goals) => Adds(goals))

\* Then a query that seems to have changed nothing has changed nothing, however
\* files and directives are nested in it and whatever the other queries do.
UsedNamesKept == LoadsAdd => GivesBackUnused

\* What a query still has to run reads as it was asked, whatever files it
\* loaded and whatever their directives gave back.
QueryIntact ==
  \A act \in Range(acts) :
    act.kind = "query" =>
      \A i \in act.next .. Len(act.goals) :
        Read(act.goals[i].at) = act.goals[i].names

\* The clauses of files whose predicates are not dynamic.
Static ==
  Without(Contents, {c \in Range(Contents) : \/ c.owner = None
                                             \/ c.fact[1] \in dynamic_preds})
FileStep ==
  acts # << >> /\ \/ Act.kind = "load"
                  \/ Running("dynamic") \/ Running("unconsult")
                  \/ Running("make") \/ Running("consult") \/ Running("reload")

\* Clauses of a file whose predicate is not dynamic come and go with files only
\* (README.md:75: "file-loaded predicates without a `dynamic` declaration are
\* protected from modification"), but for the goals that ask for no permission:
\* abolish/1 (where test/iso_quad.pl:1187 wants an error), and retract/1 and
\* retractall/1 of a head that is a variable.
UncheckedGoal ==
  \/ Running("abolish")
  \/ (Running("retract") \/ Running("retractall")) /\ texts = << >>
StaticProtected == [][FileStep \/ UncheckedGoal \/ Static' = Static]_vars

\* An operator, once defined, stays (ops_dirty "prevents string pool
\* rollback", trilog.h:325-326).
OperatorNames == {pool.cells[at] : at \in Range(ops)}
OperatorsStay == [][OperatorNames \subseteq OperatorNames']_vars

\* The store behind the pool, the indices and the marks is a ClauseStore.
Abstract == INSTANCE ClauseStore WITH
  store <- Contents, operators <- OperatorNames
ImplementsStore == Abstract!Spec

\* A query ends: an iteration over clauses that its own goals add to, files
\* that include themselves, and errors in the middle of them all come to an
\* end.  (The queries have no recursion through clauses.)
QueryEnds == (acts # << >>) ~> (acts = << >>)
=============================================================================
