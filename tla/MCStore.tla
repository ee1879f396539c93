------------------------------ MODULE MCStore ------------------------------
(* Small instances of Store for TLC: the files and what is asked.          *)
EXTENDS Store

\* names, goals, lines of files, files
MCNames == {"l", "o", "p", "q", "r", "v", "w", "x", "y", "z"}
Do(op, names) == [op |-> op, names |-> names, files |-> << >>]
With(op, files) == [op |-> op, names |-> << >>, files |-> files]
Fact(name, arg) == [is |-> "clause", names |-> <<name, arg>>]
Bad == [is |-> "bad"]
Colon(goal) == [is |-> "directive", goals |-> <<goal>>]
There(items) == [there |-> TRUE, items |-> items]
Gone == [there |-> FALSE, items |-> << >>]

\* a is edited and removed, b declares and includes; every edit changes
\* the number of clauses
Edited == [
  core |-> <<There(<<Fact("l", "x")>>)>>,
  a |-> <<There(<<Fact("p", "x"), Fact("p", "y")>>),
          There(<<Fact("p", "z"), Bad, Fact("p", "x")>>),
          Gone>>,
  b |-> <<There(<<Colon(Do("dynamic", <<"q">>)), Fact("q", "x"), Fact("r", "x"),
                  Colon(With("include", <<"c">>))>>)>>,
  c |-> <<There(<<Fact("p", "w")>>)>>]

\* a asserts and includes itself; b is one file too many, and more than there is
\* room for; nothing is edited
Large == [
  core |-> <<There(<<Fact("q", "x")>>)>>,
  a |-> <<There(<<Colon(Do("assertz", <<"r", "y">>)), Fact("p", "x"),
                  Colon(With("include", <<"a">>))>>)>>,
  b |-> <<There(<<Fact("p", "y"), Fact("p", "x"), Fact("p", "y")>>)>>]

\* iterations that add to what they iterate over; errors and failures; goals that
\* leave the number of clauses as it was
Loops == {
  <<Do("call", <<"q">>), Do("assertz", <<"r", "x">>)>>,
  <<Do("call", <<"r">>), Do("asserta", <<"r", "x">>)>>,
  <<Do("call", <<"r">>), Do("retract", <<"r">>), Do("assertz", <<"r", "w">>)>>,
  <<Do("retractall", <<"p">>)>>, <<Do("abolish", <<"r">>)>>,
  <<With("consult", <<"a", "b">>)>>, <<With("include", <<"a">>)>>,
  <<With("unconsult", <<"a">>)>> }

\* a clause after an include; a file of operators, and one asked for
Small == [
  core |-> <<There(<<Fact("l", "x")>>)>>,
  a |-> <<There(<<Fact("p", "x")>>), There(<<Fact("p", "x"), Fact("p", "y")>>)>>]
IncludeFirst == [Small EXCEPT
  !.core = <<There(<<Colon(With("include", <<"a">>)), Fact("p", "z")>>)>>]
ConsultOnly == {<<With("consult", <<"a">>)>>}
Operators == [Small EXCEPT !.a = <<There(<<Colon(Do("op", <<"o">>))>>)>>]
WithOperators == ConsultOnly \cup
  {<<Do("op", <<"v">>)>>, <<With("make", << >>)>>, <<Do("call", <<"q">>)>>}

Sessions == {
  <<With("consult", <<"a">>)>>,
  <<With("consult", <<"b", "a">>), Do("call", <<"p">>)>>,
  <<With("make", << >>)>>, <<With("unconsult", <<"a">>)>>,
  <<Do("call", <<"q">>), Do("retract", <<"q">>)>>,
  <<Do("assertz", <<"q", "v">>), Do("asserta", <<"p", "v">>)>>,
  <<Do("op", <<"o">>)>> }

\* make/0 gives back the names of operators defined since the first file was
\* loaded (StoreNames): it is not asked for after op/3.  At most MaxAsserted
\* clauses are asserted, so that the database is never full.
MaxAsserted == 1

Ask(goals) ==
  /\ goals[1].op = "make" => ops = << >>
  /\ goals[1].op = "assertz" =>
       Cardinality({i \in DOMAIN database : database[i].source_file = 0})
         < MaxAsserted
  /\ Query(goals)

MCNext ==
  \/ Step
  \/ \E goals \in Queries : Ask(goals)
  \/ \E f \in Files : Edit(f)

MCSpec == Init /\ [][MCNext]_vars /\ WF_vars(Step)
=============================================================================
