------------------------------ MODULE OpTable ------------------------------
(***************************************************************************)
(* The operator table: op/3 (builtins.c) and the lookups of the parser     *)
(* (parse.c).                                                              *)
(***************************************************************************)
EXTENDS Integers, Sequences, FiniteSets, SequencesExt

CONSTANTS
  default_ops,  \* the table of a new context
  OpCalls,      \* the calls of op/3: [prio, assoc, names]
  MAX_OPS,      \* entries of the table
  MaxOpCalls    \* bound of the model: calls of op/3

VARIABLES
  op_table,  \* ctx->op_table: name, priority (0: not in use), assoc
  op_calls   \* history: what op/3 was asked to define, and its answer

opVars == << op_table, op_calls >>

Entry(name, priority, assoc) ==
  [name |-> name, priority |-> priority, assoc |-> assoc]

InfixAssoc == {"xfx", "xfy", "yfx"}
PrefixAssoc == {"fx", "fy"}
PostfixAssoc == {"xf", "yf"}
Assocs == InfixAssoc \cup PrefixAssoc \cup PostfixAssoc

\* The table of a new context defines no name twice in a class, and has no
\* postfix operators.
ASSUME OpTableAssumption ==
  /\ MAX_OPS \in Nat /\ MaxOpCalls \in Nat /\ Len(default_ops) <= MAX_OPS
  /\ default_ops \in Seq([name : {e.name : e \in Range(default_ops)},
                          priority : Nat, assoc : InfixAssoc \cup PrefixAssoc])
  /\ \A i, j \in DOMAIN default_ops :
       /\ default_ops[i].name = default_ops[j].name
       /\ (default_ops[i].assoc \in InfixAssoc) = (default_ops[j].assoc \in InfixAssoc)
       => i = j
  /\ \A call \in OpCalls : call.names \in Seq(Range(call.names))

-----------------------------------------------------------------------------
(* op/3                                                                    *)

Answer(result, table) == [result |-> result, table |-> table]

\* Mutant: one entry per name.
SameClass_Any(e, assoc) == TRUE

\* The entry is taken for one of the same class.  A postfix operator is neither
\* infix nor prefix, and passes for either.
SameClass(e, assoc) ==
  \/ (e.assoc \in InfixAssoc) = (assoc \in InfixAssoc)
  \/ (e.assoc \in PrefixAssoc) = (assoc \in PrefixAssoc)

do_op(prio, assoc, name, table) ==
  LET i == SelectInSeq(table, LAMBDA e : e.name = name /\ SameClass(e, assoc))
      barred == /\ name = "|" /\ prio # 0
                /\ assoc \notin InfixAssoc \/ prio < 1001
  IN CASE barred -> Answer("permission_error", table)
       [] ~ barred /\ i # 0 -> Answer("ok", [table EXCEPT ![i] =
                                 IF prio = 0 THEN [@ EXCEPT !.priority = 0]
                                 ELSE Entry(name, prio, assoc)])
       [] ~ barred /\ i = 0 /\ prio = 0 -> Answer("ok", table)
       [] ~ barred /\ i = 0 /\ prio # 0 ->
            IF Len(table) >= MAX_OPS THEN Answer("full", table)
            ELSE Answer("ok", Append(table, Entry(name, prio, assoc)))

op_name_valid(name) == name \notin {"{}", "[]"}

\* A list of names is defined one by one; those before a bad one stay defined.
builtin_op(call) ==
  LET done[k \in 0 .. Len(call.names)] ==
        IF k = 0 THEN Answer("ok", op_table)
        ELSE IF done[k - 1].result # "ok" THEN done[k - 1]
        ELSE IF op_name_valid(call.names[k])
             THEN do_op(call.prio, call.assoc, call.names[k], done[k - 1].table)
             ELSE Answer("permission_error", done[k - 1].table)
  IN IF call.prio \notin 0 .. 1200 \/ call.assoc \notin Assocs
     THEN Answer("error", op_table) ELSE done[Len(call.names)]

\* The first entry in use decides; 0 if there is none.
Lookup(table, name, assocs) ==
  SelectInSeq(table, LAMBDA e : /\ e.priority # 0 /\ e.name = name
                                /\ e.assoc \in assocs)

-----------------------------------------------------------------------------
OpInit == op_table = default_ops /\ op_calls = << >>

Op(call) ==
  LET a == builtin_op(call)
  IN /\ Len(op_calls) < MaxOpCalls
     /\ op_table' = a.table
     /\ op_calls' = Append(op_calls, [call |-> call, result |-> a.result])

OpNext == \E call \in OpCalls : Op(call)

OpSpec == OpInit /\ [][OpNext]_opVars

-----------------------------------------------------------------------------
(* What op/3 promises                                                      *)

Class(assoc) == CASE assoc \in InfixAssoc -> InfixAssoc
                  [] assoc \in PrefixAssoc -> PrefixAssoc
                  [] OTHER -> PostfixAssoc
Definition(table, name, class) ==
  LET i == Lookup(table, name, class)
  IN IF i = 0 THEN << 0 >> ELSE << table[i].priority, table[i].assoc >>

\* The names a call defines in its class have the new definition.
DefinesIts(call, table) ==
  \A name \in Range(call.names) :
    Definition(table, name, Class(call.assoc)) =
      IF call.prio = 0 THEN << 0 >> ELSE << call.prio, call.assoc >>

\* What a call says of its names is so, and no other definition is touched.
CallRight ==
  LET last == op_calls'[Len(op_calls')]
      call == last.call
      known == {e.name : e \in Range(op_table) \cup Range(op_table')}
  IN /\ last.result = "ok" /\ call.assoc \notin PostfixAssoc
          => DefinesIts(call, op_table')
     /\ \A class \in {InfixAssoc, PrefixAssoc}, name \in known :
          \/ name \in Range(call.names) /\ class = Class(call.assoc)
          \/ Definition(op_table', name, class) = Definition(op_table, name, class)

\* A call of op/3 that succeeds gives its names their new definition in the
\* class of its type, and neither it nor a call that fails half-way touches
\* another name or the other class (builtins.c:do_op).  Of postfix operators,
\* which the parser does not know, nothing is said.
DefinesOnly == [][op_calls' # op_calls => CallRight]_opVars
=============================================================================
