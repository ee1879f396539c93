------------------------------- MODULE MCData -------------------------------
(* Terms, texts, numbers, names, the pool and the streams: small instances *)
(* of the modules about them for TLC.  They share no state; each behaviour *)
(* exercises one.                                                          *)
EXTENDS Unification, Construct, Reader, Arith, Atoms, TermPool, Streams

VARIABLE topic

A == Const("a", 0)
V1 == Var(1, TRUE, 0)
V2 == Var(2, TRUE, 0)
F(name, args) == Func(name, args, 0)

\* For Order and Construct: _3 is free, and X2 is f(X1).  Three lists of the
\* same characters, strings that differ, numbers that compare equal.
MCSpelling == [name \in {"a", "b", "f", ".", "[]", "aa"} |->
  CASE name = "." -> <<1>>  [] name = "a" -> <<2>>    [] name = "b"  -> <<3>>
    [] name = "f" -> <<4>>  [] name = "[]" -> <<5, 6>> [] name = "aa" -> <<2, 2>>]
MCBindings == << [var_id |-> 2, named |-> FALSE, value |-> F("f", <<V1>>),
                  var_ceiling |-> 3] >>
MCSamples ==
  {V1, V2, Var(3, FALSE, 0), Number("INT", 2), Number("FLOAT", 2),
   Number("FLOAT", 3), Number("INT", 4), A, Const("aa", 0), Const("[]", 0),
   F("f", <<V1>>), F("f", <<A>>), F("f", <<A, Number("INT", 2)>>),
   F("b", <<A, V1>>), F("f", <<V1, V2, V1>>), F(".", <<A, Const("[]", 0)>>),
   F(".", <<Const("b", 0), Str(<<"a">>, 1)>>)}
  \cup {Str(s, 1) : s \in {<< >>, <<"a">>, <<"b", "a">>, <<"a", "b">>}}

\* For OpTable and Reader: an operator of each kind, one name in two classes;
\* calls that define, redefine, remove and fail, the last ones half-way.
MCOps == << Entry(",", 1000, "xfy"), Entry("=", 700, "xfx"),
            Entry("-", 500, "yfx"), Entry("^", 200, "xfy"), Entry("-", 200, "fy") >>
OpCall(prio, assoc, names) == [prio |-> prio, assoc |-> assoc, names |-> names]
MCOpCalls ==
  {OpCall(700, assoc, <<"-">>) : assoc \in InfixAssoc \cup PrefixAssoc}
  \cup {OpCall(0, assoc, <<"-">>) : assoc \in {"xfx", "fy"}}
  \cup {OpCall(700, "yfx", <<"#">>), OpCall(200, "fx", <<"#">>),
        OpCall(200, "xf", <<"!">>), OpCall(1201, "xfx", <<"#">>),
        OpCall(1100, "xfy", <<"|">>), OpCall(1000, "xfy", <<"|">>),
        OpCall(300, "yfx", <<"=", "[]", "-">>), OpCall(300, "fy", <<"#", "-">>)}

InfixNames == {",", "=", "-", "^", "#"}
Flat == {F(n, <<A, A>>) : n \in InfixNames}
  \cup {F(n, <<A>>) : n \in {"-", "#", "f"}}
  \cup {F("f", <<Const("-", 0), V1>>), F(".", <<A, Const("[]", 0)>>),
        F(".", <<A, V1>>), Const("-", 0), Str(<<"a">>, 0)}
MCTrees == Flat
  \cup {F(n, <<t, A>>) : n \in InfixNames, t \in Flat}
  \cup {F(n, <<A, t>>) : n \in InfixNames \cup {"."}, t \in Flat}
  \cup {F(n, <<t>>) : n \in {"-", "#", "f", "{}"}, t \in Flat}
  \cup {F(n, <<F("-", <<A>>), F("-", <<A>>)>>) : n \in InfixNames}
  \cup {F("-", <<F("-", <<F("^", <<A, A>>)>>)>>), F("=", <<V1, F("-", <<V2, V1>>)>>)}
MCVarNames == <<"X", "Y">>

\* For Arith: every integer of four bits, halves on both sides of zero, a float
\* beyond the integers.
MCOperands == {Integer(i) : i \in INT_MIN .. INT_MAX}
  \cup {Double(1, 2), Double(-5, 2), Double(17, 2)}
  \cup {[type |-> "VAR"], [type |-> "CONST"]}

\* For Atoms: a name with leading zeros, names made of others.
MCLiterals == {<<"a">>, <<"b", "a">>, <<"0", "1">>, <<"a", "a", "b">>}

\* For TermPool: an atom, a compound term that will share it, and a rule.
AtomCell == Leaf("CONST", "a")
MCPoolTerms ==
  {AtomCell, Compound("f", << AtomCell, Leaf("VAR", "X") >>),
   Compound(":-", << AtomCell, Compound("g", << AtomCell >>) >>)}

\* For Streams.
MCWords == {<< "a", NL >>}

DataInit ==
  /\ Init /\ OrderInit /\ ReaderInit /\ ArithInit /\ AtomsInit /\ PoolInit /\ StreamsInit
  /\ topic \in {"unify", "terms", "operators", "arithmetic", "atoms", "pool",
                "output", "streams"}

DataNext ==
  /\ UNCHANGED topic
  /\ \/ /\ topic = "unify" /\ Next
        /\ UNCHANGED << elems, readerVars, arithVars, atomsVars, poolVars, streamsVars >>
     \/ /\ topic = "terms" /\ OrderNext
        /\ UNCHANGED << vars, readerVars, arithVars, atomsVars, poolVars, streamsVars >>
     \/ /\ topic = "operators" /\ ReaderNext
        /\ UNCHANGED << vars, elems, arithVars, atomsVars, poolVars, streamsVars >>
     \/ /\ topic = "arithmetic" /\ ArithNext
        /\ UNCHANGED << vars, elems, readerVars, atomsVars, poolVars, streamsVars >>
     \/ /\ topic = "atoms" /\ AtomsNext
        /\ UNCHANGED << vars, elems, readerVars, arithVars, poolVars, streamsVars >>
     \/ /\ topic = "pool" /\ PoolNext
        /\ UNCHANGED << vars, elems, readerVars, arithVars, atomsVars, streamsVars >>
     \/ /\ topic = "output" /\ OutputNext
        /\ UNCHANGED << vars, elems, readerVars, arithVars, atomsVars, poolVars >>
     \/ /\ topic = "streams" /\ SlotsNext
        /\ UNCHANGED << vars, elems, readerVars, arithVars, atomsVars, poolVars >>

DataSpec ==
  DataInit /\ [][DataNext]_<< topic, vars, elems, readerVars, arithVars, atomsVars,
                              poolVars, streamsVars >>
=============================================================================
