# A TLA+ model of Trilog

Trilog is a small Prolog engine in C (`src/src/*.c`, about 7,900 lines) with a
library in Prolog (`src/lib`). It is meant for little memory: every table has a
fixed size, all terms live in one pool, and what a deterministic computation no
longer needs is given back while it runs. This directory models the engine's
core in TLA+, checks it with TLC on small instances, and proves with TLAPS what
should hold for every size.

## 1. Inventory

The engine is one C structure, `trilog_ctx_t` (trilog.h:290-398), and functions
that take it. It is single-threaded. Components call each other directly; what
makes them hard is that they call each other *back* (a builtin starts a nested
`solve_all`, a directive starts a query inside a query) and share three stacks:
the binding trail, the temporary half of the term pool and the C stack.

| component | state | operations | what makes it correct |
|---|---|---|---|
| solver (solve.c) | frame stack, `cut_point`, `reclaim_mark`, goal list per activation; `bind_floor`, `nest_depth`, `term_pool_floor` | labels A (next goal), B (resolve), C (backtrack); inline `!`, `call`, `,`, `;`, `->`, `catch`; last-call reclaiming | the answers of SLD resolution, in order; no mark above what it marks; nothing reclaimed that is still used |
| trail (env.c) | `bindings`, `var_bind_index` | `bind`, `lookup`, `deref`, `substitute`, cutting back | a variable's value is its newest live binding |
| unification (unify.c) | none | `unify` | most general unifier, for both representations of lists |
| terms (term.c) | `term_pool`'s temporary half | allocate, rename, copy | no cell reused while referred to |
| control builtins (builtins.c, streams.c) | `protect_template`, collected answers, output hooks | `once`, `\+`, `findall`, `bagof`, `setof`, `throw`, `with_output_to` | floors and hooks put back on every way out |
| term pool's permanent half (term.c) | `term_pool_perm`, the cells of clauses | parse, assert, trim, compact | a clause reads as it was written; dead space comes back |
| names (term.c) | `string_pool` | intern, roll back | one address per name; a name stays while someone refers to it |
| terms as data (builtins.c) | none | `functor`, `arg`, `=..`, `copy_term`, `==`, `@<`, `sort`, `msort`, `atom_concat`, `sub_atom`, `atom_chars`, `atom_number` | taking apart and building agree; the order is total; equal texts are equal atoms |
| database (builtins.c) | `database`, `db_dirty`, dynamic predicates | `assert*`, `retract*`, `abolish` | an iteration over clauses that move under it ends; protected predicates stay |
| files (parse.c, builtins.c) | `make_files`, `current_source_file`, `include_depth` | `consult`, `include`, `make`, `unconsult` | every clause belongs to the file it came from |
| queries (parse.c, io.c) | pool marks, `has_runtime_error`, `thrown_ball` | parse, solve, report, roll back | nothing of one query reaches the next |
| operator table, parser (parse.c) | `op_table` | `op/3`, parsing | one definition per class and name |
| streams (streams.c) | `open_streams`, `io_hooks` | open, close, write, read a line, capture | slots given back, hooks put back, every text where it was meant to go |
| arithmetic (arith.c) | none | evaluation on `int` and `double` | defined results at the limits |
| printing, toplevel, CLI, ffi, debug | flags | input and output | none of their own |

How they interact: the toplevel calls `trilog_exec_query_multi`, which parses
goals into the temporary pool and calls `solve_all` with a callback for answers.
`solve_all` calls `son`, which tries a builtin or the clauses with `unify`, which
calls `bind`. Builtins and inline constructs call `solve_all` again on the same
trail and pool. Errors are a flag and a ball, and pass outwards by `return
false`. Every so many steps the solver calls the yield callback, which can abort.

The hard behaviours are therefore not races but *nesting and reuse*: a stack cut
below a mark that someone still holds, a saved value not put back on one of five
ways out, a window of bindings dropped while something refers to it, state left
over from an earlier query, and half-finished work when a table is full.
And behind them *names and places that move*: clauses, operators and goals refer
to names by an address in a pool that is rolled back, to clauses by an index that
shifts, and to files by a slot that is removed. `PROJECT.json` lists each of
these hazards at its line.

## 2. Modules

| module | models | checked in |
|---|---|---|
| `SolveMarks` | the control of `solve_all` for *every* program: terms are abstracted to the length of the trail and the pool offset | `MCSolveMarks` |
| `SolveMarksProof` | its theorems | |
| `Terms` | terms, the trail, `deref`, `substitute`, `unify`, renaming, the checks of last-call reclaiming, as operators | |
| `TrailIndex` | the trail and its index for every program: values are abstracted to the variables in them | `MCTrail` |
| `Trail` | unification, choice points, backtracking and last-call reclaiming on terms, interleaved in any order; its steps are `TrailIndex`'s | `MCTrail` |
| `TrailProof` | theorems about `TrailIndex` | |
| `SLD` | what a query means: an interpreter with substitutions, no trail and no stack | |
| `Solver` | `solve_all` on real terms; composes `Terms`, is compared with `SLD`, implements `SolveMarks` | `MCSolver` |
| `ClauseStore` | what the database and the operator table promise | |
| `Store` | database, files, directives, `make/0`, queries around them, and the rollback of names; implements `ClauseStore` | `MCStore` |
| `Removal` | a sequence without some of its elements, as `retractall/1` and `unconsult/1` leave it; for both of the above | |
| `StoreProof` | theorems about `Store`: pointers and limits; names in use, owners of clauses | |
| `ClauseStoreProof` | that `Store` implements `ClauseStore`, and what that rests on | |
| `Unification` | sequences of unifications against the solutions of their equations | `MCData` |
| `Order`, `Construct` | the standard order and the two sorts; `functor`, `arg`, `=..`, `copy_term` | `MCData` |
| `OpTable` | the operator table: `op/3` and the lookups of the parser | `MCData` |
| `Reader` | the precedence parser, composes `OpTable` | `MCData` |
| `Arith` | evaluation and comparison of arithmetic | `MCData` |
| `OperatorsProof` | the theorems of `OpTable` and `Arith` | |
| `Atoms` | interning by address, and the builtins that make atoms of atoms | `MCData` |
| `AtomsProof` | its theorem | |
| `TermPool` | allocation at both ends of the pool, the slots of the clauses, assert, retract, trim and compaction | `MCData` |
| `Streams` | nested captures of output; the table of streams | `MCData` |
| `StreamsProof` | its theorems | |
| `InductionLemmas` | induction over the naturals and over recursive functions, for the proofs | |

Each lower-case definition has the name of the function it translates;
`PROJECT.json` maps every definition to its lines.

**SolveMarks.** One activation of `solve_all` is `stack`, `cut_point`,
`reclaim_mark`, `clause_idx`, `env_mark` and `found_any`; the suspended ones
are in `callers` with the C locals their construct keeps (`emark`, the saved
floors). `pc` is the label, or "return" while an activation returns. There is an
action for each branch under a label: at A a solution, `!`, `call` and `,`
(Rewrite), `;`, the nested constructs (NestInline), the step to B; at B a
builtin's three results, an error, no clause, and the five ways to go on after a
match (choice point pushed, window reclaimed, given up, tail call reset, nothing
to do); at C exhaustion and backtracking; and one action for each way a nested
solve comes back. Which goal comes next, how many bindings a unification makes
and how many cells a step allocates are nondeterministic, and a pool that is
full makes the step fail with an error, so what holds here holds for every
program.

**Terms, Trail, Unification.** A term's cell is abstracted to the serial number
of the batch (the step) that allocated it. An integer and an atom of the same text
unify, as in unify.c:57-63; a float is only equal to itself. The trail is a sequence of
`binding_t`. `lookup` is `SlotOf`, a search; `TrailIndex` models the real one
through `var_bind_index` and shows that they agree. Unification has no occurs check and
binds `X = X` to itself, after which `deref` does not return; `Trail` and
`Unification` leave such unifications out, and `Solver` stops in the action
`Hang`. In `Trail` a window may start at any place above the newest choice
point, not only at `reclaim_mark`. `TrailIndex` keeps the variables, the bindings
with their ceilings, the index entries and the choice points, and of a value only
which variables occur in it (`VarsOf`, an arbitrary function that the model of
`Trail` gives its meaning); binding, substitution and reclaiming choose any values
that satisfy what the code has established about them there. `IndexSpec`, checked
in trail_reclaim, says that every step of `Trail` is a step of `TrailIndex`, so
what is proved of one holds of the other.

**Solver.** The state of `SolveMarks` with goals and bindings instead of sizes,
plus the pool as the sequence of batches it holds: a term whose batch is not in
`pool` is a dangling pointer. `program` is a library of thirteen clauses and what
the script adds; a script's query runs, and answers are recorded in `answers` as
the toplevel would show them. The history variable `anomalies` notes when one of
four known defects strikes (section 6), so that everything else can be checked
in the presence of them. Goals carry a ghost, `bar`: the stack height a cut in
them should restore. Not in `Solver`: `call/N` with arguments to add, a full
pool and the yield callback (they are in `SolveMarks`), `bagof`/`setof`.

**SLD.** The specification of the answers, written without looking at marks:
depth-first, left-to-right resolution over substitutions (README.md:183-185 of
the repository). `catch/3`, `once/1`, `with_output_to/2` and conditions commit to
their first solution, which is what the engine documents by its implementation.

**Store, ClauseStore.** Clauses are facts `pred(arg)`, each name an address in
the string pool, which has one cell per name; a name written below the offset
replaces what was left there. `acts` is the stack of running queries and loads:
`consult/1` inside a directive inside a load inside a query is four of them.
A goal iterates over clauses with an index, as `son` does, while other goals
move them; what it iterates over is asserted, retracted, unloaded. A file is a
sequence of clauses, syntax errors and directives, and somebody edits or removes
it at any time (`Edit`). The end of a query gives the names back if nothing
seems to have changed (`parse.c:1062`), `make/0` resets and replays, compaction
interns names again. In whether compaction finds room, `Store` is
nondeterministic (`TermPool` has it). `ClauseStore` is a sequence of facts with
their owners and a set of operator names that only its operations change;
`ImplementsStore` maps `store` to the clauses *as read through the pool* and
`operators` to the names read there, so that a rollback that overwrites a name
in use would be a step `ClauseStore` does not have.

**OpTable, Reader.** `op/3` with its three outcomes, a table that fills up, lists
of names that fail half-way. `SameClass` is the comparison of the code: an entry
is reused if both types are infix or both are not, or both prefix or both not, so
that a postfix type passes for either. A text is a sequence of tokens; the parser
with its bounds reads it by the table. `Text` is the reference: ISO's minimal
notation of a term, and what is written must be read as that term. The scanning
of characters and number tokens is left out. Postfix operators are in the table;
the parser does not look for them.

**Order, Construct, Arith.** Pure builtins on the terms of `Terms`, under a
trail with a bound variable. Where the code's comparison reads beyond a packed
string (two strings of the same characters), `Stray` stands for what it finds.
`Arith` works on a word of `Width` bits and fractions for doubles; what C leaves
undefined is what the build does (wrapping, shift counts modulo the width, a
trap for `INT_MIN // -1`). An expression is evaluated from the inside: `results`
are the results of the expressions there are so far, errors among them, and a step
is the call of `eval_arith` for one more operator, whose recursive calls gave two
of these. The order of those calls shows only in which error is the result: the
left one.

**Atoms.** A pointer is a position in the string pool, also in the middle of a
name, since that is what `sub_atom` and `atom_concat` pass to `make_const`; a name
ends with a NUL, and `text` reads up to it. Names of `MAX_NAME` characters or more
are not put together: they fail, as the buffers of the code make them.

**TermPool.** Cells refer to each other by address, in units: the size of a cell
is one for each pointer and one more for a term. `database` is the array with its
unused slots, of which the body pointer outlives the clause: a fact that is
asserted takes over what the slot has. Parsing puts a clause where it stays;
assert copies what is temporary and shares the rest; compaction stages the
permanent half below and copies it back clause by clause, which can run out of
room half-way (`gave_up`, where the model ends): the copies do not share.

**Streams.** The output hooks point to the terminal or to the buffer of the
innermost running `with_output_to/2`; a capture ends by success, failure or
error. Streams are slots that hold a handle of the C library, whose buffering is
external and modelled from its use: what is written is in the file when it is
closed.

**MCData** puts the parts below the solver side by side. They
share no state; `topic` picks one of them for the whole behaviour.

## 3. Runs

| run | shows | bounds |
|---|---|---|
| marks | cut never loses the sentinel or revives a frame; frames stay in order; the asserts on `env_mark` hold; no resumable frame or collected answer lies in what is given back; a nested activation stays above its base; floors and depth are put back on every way out | 3 frames, 2 bindings, 2 cells, all seven constructs, one level |
| trail_reclaim | the trail's index agrees with the trail; ceilings are sound; a dropped window leaves no reference behind; reclaiming changes no kept value; every step is one of `TrailIndex` | 3 variables, 3 bindings, 1 choice point |
| solver | right answers and balls in the right order; nothing dangles; every step is one of `SolveMarks` | 63 goals; queries of one and two, direct and as the body of a clause alone or with a second clause, there with at most one nesting goal |
| store_files | every pointer, mark and counter is within its table; every clause's owner is a file that is tracked; a consulted file has exactly the clauses of the version that was read; no clause loses its owner; goals still to run read as asked; protected predicates stay; the whole implements `ClauseStore` | core and three files, one edited and removed, one that declares and includes; seven queries in any order; 3 files tracked, 9 clauses, 2 dynamic predicates, 2 loads open |
| store_limits | loading stops cleanly where the database, the table of files or the nesting is full; no query gives back a name that a clause or an operator has (no file is edited here and loading only adds); every query ends | 2 files tracked, 4 clauses, 2 loads open; a file that includes itself, one too many, iterations that add to what they iterate over, a clause taken and another put in its place |
| data | unification finds exactly the solutions; the order is total and the sorts sort; `=..`, `functor` and `arg` agree; copies are fresh; `op/3` defines what it says and a term is read back as it was written; arithmetic is exact or an error; texts of atoms are right; asserting, calling, retracting, moving and compaction change no clause, and compaction leaves no dead space in a pool that is half free; captured and written texts arrive; a slot in use is not used again | 2 variables and 2 equations over 21 terms, an atom, an integer and a float of the same text among them; lists of 3 of 21 terms; 2 of 15 calls of `op/3`, one of them for a postfix operator, then any of about 200 terms; every integer of 4 bits, halves; 3 names or calls, names of fewer than 3 characters put together; a pool of 12 units, 2 clauses of 3 (two facts and a rule); 3 captures of 4 characters; 2 streams |

The runs that expect a violation are in section 6. Three things that store_files
does not ask are known defects, and its properties would fail with them. Its edits
change the number of clauses of a file, and no file defines an operator: otherwise a
query gives back names in use, and `FilesFaithful` and `ImplementsStore` are not so
(store_names shows it for a file of operators). An `include/1` is the last item of
its file (store_owner is the other case). And no session asks for `abolish/1` or for a
`retract/1` or `retractall/1` of an unbound head, which take static clauses without
asking; `StaticProtected` leaves them out by name (`UncheckedGoal`) and says
nothing of them.

Why these bounds are enough to be interesting. *marks*: a mark goes wrong when a
frame, something allocated or bound after it, and something that cuts come
together; two frames above the sentinel, two bindings and one nested level
suffice for each pair of steps, and the proofs remove the bounds (that of one
nested level included). *trail*: a binding with a stale ceiling takes three
variables (the binding, what it refers to, what that is bound to later).
*solver*: pairs of goals put every construct before and after every other;
lists of length two make the recursive clause of `a/3` (append) run its last
call twice. *store*: a rollback that goes wrong takes a name interned, the mark
put back, and another name interned over it: two queries and two files; each
limit is one below what the files need. *data*: three terms are what
transitivity speaks of; two calls of `op/3` are one that defines and one that
redefines, removes or fails; four bits have all limits of 32; *pool*: two clauses make a
hole when the first is retracted, and 12 units are full with both and a term that
is held; no compaction runs out of room half-way in it, and `ClausesIntact` would not
speak of that. *store_limits* asks `UsedNamesKept`: one clause taken and another put
in its place leave the size as it was, so that only `db_dirty` tells.

`MaxNest`, `MaxChoices`, `MaxDepth`, `MaxEquations`, `MaxSamples`, `MaxOpCalls`,
`MaxOperators`, `MaxCalls`, `PoolClauses`, `MaxCaptures`, `MaxText` and
`MaxOpen` bound the models only (`MaxOpen` stands for the C library's limit on
open files); the other constants are limits of the code. `MCStore` bounds two
more things: a query that asserts is asked only while no asserted clause is
there, so that in store_files the database is never full, and `make/0` is not
called after `op/3`, which is store_names.

Deadlock is checked everywhere but in data and data_atoms, where a behaviour ends
at the bound of its topic. In `Solver` a step that reaches no successor
would be a deadlock, so that no goal, ball or way of returning is forgotten.

Each property has a mutant in `PROJECT.json`: a plausible slip in the code
(a floor not raised, an alternative skipped, a mark not put back, a copy not
made) that makes TLC report exactly that property.

## 4. Fairness and liveness

`Store` has the one liveness property, `QueryEnds`: a query that was asked ends.
It is checked under `WF_vars(Step)`. `Step` is the disjunction of what the
program does by itself; the engine is one sequential loop that is never without
a next step while a query runs (an action of `Step` is enabled whenever `acts`
is not empty), so weak fairness of the whole says only that the process goes on
running. Queries and edits of files are the user's and are not fair. The
property is not a triviality: iterations over clauses that their goals assert
(`q(X), assertz(r(Y))` with `q` growing, `asserta` in front of the index), files
that include themselves, and retries at each limit are what could go round for
ever. Queries here do not recurse through clauses: a Prolog query as such need
not end, so nothing of the kind is claimed of `Solver`, whose libraries
terminate, as TLC shows by exhausting the states.

## 5. Proofs

TLC checks small instances; the theorems below hold for every value of the
constants. What each establishes is in a comment before it and in `PROJECT.json`.
Unless a hypothesis is named, the only assumptions are those on the constants in
the module that declares them: bounds are natural numbers, files hold lines, and
so on, as the program's tables and headers have it.

| module | theorem | states |
|---|---|---|
| `SolveMarksProof` | `TypeCorrect`, `CutSafe`, `MarksStayOrdered`, `TrailSafe`, `PoolSafe`, `NestingSafe`, `BaseSafe` | all seven properties of the run marks |
| `TrailProof` | `TrailInvariance`, `IndexRight`, `CeilingsHold`, `NoneLeftBehind` | `IndexAgrees`, `CeilingSound`, `WindowGone` of trail_reclaim |
| `StoreProof` | `PointersAndLimits` | `Store!TypeOK` |
| `StoreProof` | `GoalsKeepTheirNames`, `ClausesHaveOwners` | `QueryIntact`, `OwnersKnown` of store_files |
| `ClauseStoreProof` | `StoreIsAClauseStore`, `OperatorsAreNotLost`, `GoalsLeaveStaticClauses`, `ClausesAreOwned` | `ImplementsStore`, `StaticProtected`, `NoOrphans` of store_files; `OperatorsStay`, which store_names violates; all given that no name in use is given back |
| `ClauseStoreProof` | `NothingUsedIsGivenBack`, `WhereLoadsAdd` | `UsedNamesKept` of store_limits, that is, `GivesBackUnused` where loading only adds; all of the above without that condition |
| `AtomsProof` | `AtomTextsRight` | `TextsRight` of data |
| `OperatorsProof` | `OpDefinesOnly`, `ArithmeticIsExact` | `DefinesOnly`, `ExactOrError` of data |
| `StreamsProof` | `TextsRightPlace`, `HandlesStay` | `TextsArrive`, `StreamsStay` of data |

The arguments, one component at a time:

**SolveMarks.** None of the invariants is inductive alone: that a frame's marks
lie below the trail *after backtracking* needs that older frames lie below newer
ones, and that a caller's frames survive needs that the nested activation never
goes below its sentinel. `IInv` is therefore made of `ActivationOK` (frames
ordered, cut points below their own frame, all marks below the trail, the pool
and `reclaim_mark`) for the active activation, `Suspended` (the same for each
caller, with respect to the place where the activation it waits for began), the
type invariant and `NestingBalanced`. Lemmas show that `ActivationOK` is kept by
the few things the code does to a stack: push, cut, pop, raise the newest term
mark, grow. Each action falls to one or two of them. `BaseKept` is an action
property and follows from the same invariant.

**Trail.** The code never clears `var_bind_index`: an entry may point beyond the
trail, or to a slot that another variable has taken since. `TrailInv` says why it
does no harm: *every* binding sits at the slot of its variable's entry, so that a
variable is bound once and whatever the entry of an unbound variable points to
belongs to another. For the ceilings it adds that every value is made of variables
older than its binding's ceiling, and for backtracking that the choice points are
marked in order, inside the trail and below `var_counter`. That a dropped window
leaves no reference (`WindowGone`, an action property) is then what "skip a
binding whose ceiling is below the window" amounts to. `TrailIndex` needs nothing
of unification but what the code has checked when it binds, so the theorems do not
depend on terms; `IndexSpec`, a property of the run trail_reclaim, says that
`Trail` is such a system.

**Store.** `StoreInv` is the type invariant with the shape of `acts` added:
queries and loads alternate, and a query that waits for a load has a goal to come
back to (without which `Return` would look at a goal that is not there), and
`include_depth` is the number of loads. For the names, `NamesInv` adds that the
mark a query goes back to lies at or above every pointer of the queries *around*
it, and that the pointers of every running query's goals lie below the offset and
read as they were asked; interning only ever writes above the offset. The
hypothesis is `MakeAlone`: `make/0` goes back below the pointers of whatever else
is running, so it is asked for alone, at the toplevel. For the owners, `OwnersInv`
adds that the core library is the first tracked file or the next one to be read,
that the mark of `make/0` is the empty database, and that a load outside of any
has left `current_source_file` at 0. The hypothesis is `CoreStays`: the core
library can be read and is not unconsulted, and directives ask neither for
`make/0` nor for `unconsult/1`. Both are satisfied by store_files, and both are
needed: section 6 has what happens without them.

**Store implements ClauseStore.** What a program sees of the store is `Contents`,
the clauses as read through the pool and the table of files, and
`OperatorNames`. It changes as `ClauseStore` says if two things hold, which
`ReadInv` adds to `OwnersInv`: every clause has a name and every pointer of a
clause or an operator lies below the offset of the pool, where interning does not
write; and the tracked files have different paths (so that removing the clauses of
a slot is removing those of a file). Interning, rollback and compaction
then change nothing that is read (`View`), and each operation on clauses by index
is one on facts: the lemmas about `Without`, `RemoveAt` and `SubSeq` under a
mapping say so. Two things the code does not ensure are hypotheses *about the
behaviour*, and each is a known disagreement: `GivesBackUnused`, that the end of a
query gives back no name in use (parse.c:1062 judges by the size of the database),
and `NoOpsLost`, that `make/0` is not asked for when there are operators
(builtins.c:1800). So `OperatorsAreNotLost` says that these are the *only* two
ways in which an operator gets lost.

From the same invariant come `GoalsLeaveStaticClauses`, where the goals that ask for
no permission are named by the property itself (`UncheckedGoal`), and
`ClausesAreOwned`, which needs what section 6 says of it: that there is room for all
files and all dynamic predicates (`RoomForAll`) and that a directive that loads is
the last item of its file (`NothingAfterLoads`). The invariant of the latter, `TidyInv`, says of
the stack of calls that a load whose owner was taken away has nothing left to
read.

The hypothesis about the behaviour is then discharged for a class of programs:
`LoadsAdd` says of the *constants* that files are not edited, that their
directives only add clauses, declare, call and load, and that a query that loads
only adds, too, and none asks for `make/0`; what else a query does (retract,
abolish, define operators, call what it changes) is free. `UsedNamesKept` is
`GivesBackUnused` under it, and `NothingUsedIsGivenBack` proves it. Its invariant,
`KeepInv`, says what the database tells of each running query (`Judged`). The flags cannot be trusted by a query that
loads: every directive's end clears them (parse.c:1067-1068), also for the query
around it. For such a query it is the *size* that tells: it has never become
smaller than at the query's start, and if it is the same, every clause lies below
the mark; no operator ever lies above it. A query that does not load is never left
waiting (`Proper`), so nobody clears its flags, and they tell: while `db_dirty`
is false every clause lies below the mark, and while `ops_dirty` is, every
operator. `WhereLoadsAdd` collects what follows. The instance of store_limits is such a program.

**Atoms.** Two names never have the same text at their start (`Distinct`), the
pool only grows at its end, and every pointer the program holds is into it; so the
text at a pointer, also one into the middle of a name, stays. The builtins search
by length: the lemma `SearchWorks` says what the search of `sub_atom/5` has tried
at each step and that none of that fitted, so that it fails only if there is no
answer.

**OpTable.** A table has one entry for a name and a class, and `do_op` keeps it
so; the calls of a list that fails half-way have been done up to there and no
further. The hypothesis `PostfixAlone`, that no name is a postfix operator and
also another, is needed because of `SameClass` (section 6).

**Arith.** For every `Width`, all operands and expressions of any depth. The
invariant, `ArithInv`, is the type of the results (an integer in the word, a
fraction with a positive denominator, or an error) and that the last one is what
`eval_arith` makes of its operands; the property is then one of each operator. For the four roundings `RoundedIs` and
`RoundingAgrees` show that what arith.c computes is *the* integer with the defining
property of a floor, a ceiling, a truncation or a rounding, if it fits.
For `//` and `mod` the lemma `Divided` relates C's quotient and remainder to
signs and magnitudes, and `QuotientRight` and `ModulusRight` show that the
reference, which is given by what a quotient or a modulus must satisfy, has no
other solution. For `/\`, `\/` and `xor` the reference recurs on halves, the code
works bit by bit: `AndJoins` is the induction on the number of bits that relates
them, and `BitsTell`, that an integer of the word is known by its bits. A shift
and the range checks of `+`, `-` and `*` come down to `WordOfInt`. The exceptions
are `Wraps` and the disjuncts of `Unchecked`, what arith.c leaves to C.

**Streams.** The hooks point to the innermost capture and each capture holds as
much of what was written as there is room for, ended by a NUL (`OutputInv`); a
slot that is held is open with the handle it was opened with, and no slot is both
held and lost (`SlotsInv`).

**InductionLemmas.** The induction theorems of the library take an operator as a
parameter, which the provers cannot instantiate; here they are stated with *sets*
in the place of predicates and proved from the smallest element of a set of
naturals. `RecursionExists` and `RecursionStays` do the same for functions
defined by recursion on a natural number (interning a list of names, copying the
clauses one by one): there is such a function, and it stays within what each step
keeps.

Only model-checked, and why:

- what is recursive over terms, which is induction over data: `AnswersRight`,
  `NoDangling` and `MarksImplemented` of `Solver`, `MostGeneral`, `StandardOrder`
  and `SortsRight`, `PartsAndWhole` and `CopyIsFresh`, `ReadsBack`,
  `ClausesIntact`, `RoomComesBack`, `ReclaimInvisible`, and `IndexSpec`, which is
  about `Trail`'s terms;
- `QueryEnds`: liveness under fairness;
- `FilesFaithful` of `Store`: what a file's text comes to, with what it consults
  and includes, is defined by recursion over the text (`FlattenSeq`), and that the
  clauses are that is an induction over it;
- for files that are edited while queries load them, or define operators, nothing is
  said of the names a query gives back: `GivesBackUnused` is not so in general
  (section 6).

Through the refinement the proved invariants of `SolveMarks` hold of `Solver`
wherever `MarksImplemented` does. The refinement is also what keeps the
abstraction honest: a way through the code that `SolveMarks` does not allow (an
error at label A that allocates its ball, for instance) is a violation of it.

## 6. Disagreements found

| run | what |
|---|---|
| trail_choice | last-call reclaiming rewrites bindings older than a choice point, and backtracking does not undo it (solve.c:645); "patch" in `anomalies` |
| solver_cut | a cut in `call/1`, or after a goal that left a choice point, prunes to the wrong height (solve.c:332); "cut" |
| solver_nested | reclaiming in a nested activation drops a binding its caller's goals need (solve.c:602); "dropped" |
| store_names | a query that consults a file which only defines operators gives their names back at its end, since the end of each directive clears `ops_dirty` (parse.c:1062, 1068); `make/0` gives the names of operators back, too (builtins.c:1800) |
| store_owner | the clauses after an `include/1` belong to no file (parse.c:1199) |
| data_atoms | an address within a name is taken for an atom, which equals no other of the same text (builtins.c:980) |

The fourth member of `anomalies`, "stale", is a ball of an earlier query that
`catch/3` takes for a failure's (solve.c:433). `AnswersRight` and `NoDangling`
speak of the executions in which none of the four struck: more than nine in ten
of the direct queries, and most of those asked through a clause.

Met while modelling, too, without a run of its own. The first six contradict a text
of the repository, which is quoted; each is a step of its model, or named by the
predicate that excludes it, and the properties are not claims about it:

- backtracking, or a tail call of a nested activation, gives back cells that an older
  binding was patched with: the choice point's mark is raised only if the patching
  itself allocated, not if it brought in a variable of the clause just renamed
  (solve.c:649, 678; solve.c:628 says "patched binding values must survive
  backtracking"). With `q(A) :- e(A).` the query `main(A,B)` of
  `main(A,B) :- m(A), q(B).` loses its second answer. It is "patch" in `anomalies`;
- a file consulted again with as many clauses as before seems unchanged, and the
  names of its new clauses are given back (parse.c:1062; parse.c:1153 says "file
  changed: remove old clauses and reload", test/core_quad.pl:400 "consulting it
  again should replace, not duplicate"). `LoadsAdd` and the edits of store_files leave
  it out, `GivesBackUnused` is false of it;
- `abolish/1` removes the clauses of a file without asking whether they are protected
  (builtins.c:1844; README.md:75 says "file-loaded predicates without a `dynamic`
  declaration are protected from modification", test/iso_quad.pl:1187-1188 expects
  permission_error), and so do `retract/1` and `retractall/1` of an unbound head (where
  test/iso_quad.pl:1143-1144 expects instantiation_error); `UncheckedGoal`;
- a fact that is asserted keeps the body pointer of the clause that was in its slot
  (builtins.c:1541), and trimming follows it, so that the dead array of a retracted
  clause holds up what lies above it until the next compaction (term.c:286-288 speaks
  of "the lowest address still referenced by a live clause"); `AssertAt` and `lowest`;
- compaction returns half-way when the copies, which do not share atoms, have no room,
  and leaves clauses that point into the staging area (term.c:381;
  test/dynamic_quad.pl:119 says "compaction: assert/retract cycle stays correct");
  `gave_up`;
- `-` and `abs` of the least integer wrap, its quotient by -1 ends the process, and
  shifts are not checked (arith.c:93, 15; README.md:63 says "ISO overflow and
  zero-divisor errors are raised"); `Wraps` and `Unchecked`.

And, where no text was found that promises otherwise:

- the yield callback's abort in a nested solve only fails the nested goal
  (solve.c:300; `YieldAbort`);
- `retract/1` in a scan makes the scan skip the clause that moves into its place;
- `make/0` does not see changes of included files;
- an entry of the operator table is "same class" for a postfix type whether it is
  prefix or infix, so `op(300,fy,#)` and then `op(200,xf,#)` leaves no prefix
  operator, where builtins.c:1998 speaks of "infix vs prefix vs postfix"
  (`PostfixAlone`; the parser reads no postfix operators anyway);
- `make/0` in a conjunction gives back the names of the goals after it, unless
  something interns them again (`MakeAlone`);
- `unconsult/1` in a directive of a file moves the files up under the load that is
  running, which goes on with the old number, and with no file left the next
  one puts the mark of `make/0` above the clauses asserted: when one of them is
  retracted, a clause of the file moves below the mark, and `make/0` keeps it when
  it forgets the file (`CoreStays`; TLC finds both without it);
- packed strings are compared by their length first (`"ab" @< "b"` fails where
  `[a,b] @< [b]` holds), and with equal characters the comparison reads beyond
  their cells (`Astray`);
- `open/3` whose last argument is bound leaves its slot open for good
  (streams.c:598; `streams.lost`).

## 7. Not modelled, and the plan

Left out for good: the scanning of characters and number tokens, the wording of
messages, formatting of answers and numbers, the toplevel's terminal handling,
the command line, the foreign interface and its demo (sequential text processing
whose tests compare output), and the Prolog libraries (programs, not engine).

Left out because C gives them no meaning: writing to the array that
`goals_alloc` did not return (builtins.c:310), the NULL that `substitute` returns
in a full pool (solve.c:645), and `deref` after `X = X`, which does not return.
The models make a full pool an error of the step.

Partly: `bagof`/`setof`, which share `findall`'s collecting; builtins that
convert between texts and terms (`term_to_atom`, `read_from_chars`); the trail
under a directive that runs inside a query, where parse.c:1037 sets `bind_count`
to 0 (`Store` has the nesting, but no bindings).

Planned:

1. `TermPool` with its copies as recursive functions on the number of cells, so
   that `ClausesIntact` can be proved: nothing that a clause reaches is given back.
2. `bagof`/`setof` in `Solver`, with the free variables as templates.
