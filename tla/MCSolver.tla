------------------------------ MODULE MCSolver ------------------------------
(* Small programs and queries for Solver.                                  *)
EXTENDS Solver

\* The variables of a query are X and Y; a clause numbers its own from 1.
X == Var(1, TRUE, 0)
Y == Var(2, TRUE, 0)
A1 == Var(1, FALSE, 0)
A2 == Var(2, FALSE, 0)

P(name, args) == Func(name, args, 0)
Clause(head, body) == [head |-> head, body |-> body]
Script(clauses, goals) == [clauses |-> clauses, goals |-> goals]

\* m(1). m(2).  e(1).  q(A) :- e(A).  w(A) :- m(A), !.  w(7).
\* p(1) :- !.  p(A) :- e(A).  r(1, A) :- q(A).  d :- e(1).  k(A) :- d, q(A).
\* a([], A, A).  a([A|B], C, [A|D]) :- a(B, C, D).
A3 == Var(3, FALSE, 0)
A4 == Var(4, FALSE, 0)
Pair(h, t) == P(".", << h, t >>)
SmallLibrary ==
  << Clause(P("m", << Atom("1") >>), << >>),
     Clause(P("m", << Atom("2") >>), << >>),
     Clause(P("e", << Atom("1") >>), << >>),
     Clause(P("q", << A1 >>), << P("e", << A1 >>) >>),
     Clause(P("w", << A1 >>), << P("m", << A1 >>), Atom("!") >>),
     Clause(P("w", << Atom("7") >>), << >>),
     Clause(P("p", << Atom("1") >>), << Atom("!") >>),
     Clause(P("p", << A1 >>), << P("e", << A1 >>) >>),
     Clause(P("r", << Atom("1"), A1 >>), << P("q", << A1 >>) >>),
     Clause(Atom("d"), << P("e", << Atom("1") >>) >>),
     Clause(P("k", << A1 >>), << Atom("d"), P("q", << A1 >>) >>),
     Clause(P("a", << Atom("[]"), A1, A1 >>), << >>),
     Clause(P("a", << Pair(A1, A2), A3, Pair(A1, A4) >>),
            << P("a", << A2, A3, A4 >>) >>) >>

And(a, b) == P(",", << a, b >>)
Or2(a, b) == P(";", << a, b >>)
If(c, t) == P("->", << c, t >>)

Simple == {P("m", <<X>>), P("q", <<Y>>), P("=", <<X, P("f", <<Y>>)>>),
           P("=", <<Y, Atom("2")>>), P("k", <<Y>>), P("w", <<X>>),
           P("p", <<Y>>), P("r", <<X, Y>>), Atom("!"), Atom("fail"),
           P("throw", << P("b", <<Y>>) >>), P("u", <<X>>),
           P("a", << X, Y, ListOf(<< Atom("1") >>) >>),
           Atom("d"), P("call", <<Y>>), P("once", << Atom("d") >>),
           P("a", << ListOf(<< Atom("1"), Y >>), Atom("t"), X >>)}
Inner == {P("m", <<Y>>), P("k", <<Y>>), P("throw", <<Y>>),
          And(P("m", <<X>>), P("q", <<Y>>)), And(P("m", <<X>>), Atom("!"))}
Meta == {P("once", <<g>>) : g \in Inner} \cup {P("\\+", <<g>>) : g \in Inner}
   \cup {P("call", <<g>>) : g \in Inner}
   \cup {P("with_output_to", << P("atom", <<X>>), g >>) : g \in Inner}
   \cup {P("findall", << Y, g, X >>) : g \in Inner}
   \cup {P("catch", << g, P("b", <<X>>), P("=", <<Y, Atom("3")>>) >>) :
           g \in Inner \cup {P("throw", << P("b", <<Y>>) >>)}}
   \cup {Or2(If(g, P("m", <<X>>)), P("=", <<X, Atom("2")>>)) : g \in Inner}
   \cup {If(g, P("m", <<X>>)) : g \in Inner}
   \cup {Or2(g, P("=", <<X, Atom("2")>>)) : g \in Inner}
Goals1 == Simple \cup Meta

\* Queries of one or two goals.
Bodies == {<< a >> : a \in Goals1} \cup {<< a, b >> : a, b \in Goals1}
Direct == {Script(<< >>, b) : b \in Bodies}

\* The same goals, at most one of them a construct that nests, as the body of a
\* clause main(X, Y), whose variables have no names and may be reclaimed.
ClauseBodies == {b \in Bodies : \E i \in DOMAIN b : b[i] \in Simple}
                \cup {<< a >> : a \in Meta}

Main == P("main", <<X, Y>>)
Called(bodies) == {Script(<< Clause(Main, b) >>, << Main >>) : b \in bodies}
DirectAndCalled == Direct \cup Called(ClauseBodies)

\* The same, with a second clause for main.
Called2 ==
  {Script(<< Clause(Main, b),
             Clause(P("main", <<Atom("8"), Atom("9")>>), << >>) >>,
          << Main >>) : b \in ClauseBodies}

DirectOrCalled == DirectAndCalled \cup Called2

\* ?- (call(!), fail ; true).   and   ?- w(X).
CutScripts ==
  {Script(<< >>, << Or2(And(P("call", << Atom("!") >>), Atom("fail")),
                        Atom("true")) >>),
   Script(<< >>, << P("w", <<X>>) >>)}

\* ?- main(X, Y).   with   main(A, B) :- once(k(B)), A = f(B).
NestedScripts ==
  Called({<< P("once", << P("k", <<Y>>) >>), P("=", <<X, P("f", <<Y>>)>>) >>})
=============================================================================
