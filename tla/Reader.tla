------------------------------- MODULE Reader -------------------------------
(***************************************************************************)
(* The parser (parse.c), on the operators that op/3 has defined.           *)
(*                                                                         *)
(* A text is a sequence of tokens: names, variables, quoted names and      *)
(* packed strings, as scanning and the longest-match search of the table   *)
(* delimit them; the end of the sequence is the end of the clause.  Number *)
(* tokens are left out.                                                    *)
(***************************************************************************)
EXTENDS Terms, OpTable

CONSTANTS
  Trees,        \* the terms that are written and read back, the variables in
                \* them numbered as they occur
  VarNames,     \* and their names
  MAX_ARGS,     \* arguments of a term
  MAX_ELEMENTS  \* elements of a list in a text (MAX_LIST_LIT)

ASSUME ReaderAssumption == MAX_ARGS \in Nat /\ MAX_ELEMENTS \in Nat

VARIABLE last_read  \* the term whose text was read last, and what came of it

readerVars == << op_table, op_calls, last_read >>

-----------------------------------------------------------------------------
(* The operators a token may be                                            *)

op_infix_priority(name) ==
  LET i == Lookup(op_table, name, InfixAssoc)
  IN IF i = 0 THEN 0 ELSE op_table[i].priority
op_prefix_priority(name) ==
  LET i == Lookup(op_table, name, PrefixAssoc)
  IN IF i = 0 THEN 0 ELSE op_table[i].priority
infix_assoc(name) == op_table[Lookup(op_table, name, InfixAssoc)].assoc
prefix_assoc(name) == op_table[Lookup(op_table, name, PrefixAssoc)].assoc

-----------------------------------------------------------------------------
(* Tokens and the state of the parser: what is left of the text, the named *)
(* variables of the clause and ctx->var_counter                            *)

Name(n) == [kind |-> "name", name |-> n]
Quoted(n) == [kind |-> "quoted", name |-> n]
Variable(n) == [kind |-> "var", name |-> n]
Chars(cs) == [kind |-> "string", name |-> cs]

Parser(text) == [text |-> text, clause_vars |-> << >>, counter |-> 1]
Skip(p) == [p EXCEPT !.text = Tail(@)]
At(p, names) == /\ p.text # << >>
                /\ Head(p.text).kind = "name" /\ Head(p.text).name \in names

Parsed(t, p) == [ok |-> TRUE, term |-> t, p |-> p]
Error == [ok |-> FALSE]

\* Mutant: a right-associative operator takes no operand of its own priority.
right_max_Strict(assoc, prec) == prec - 1

right_max(assoc, prec) == IF assoc \in {"xfy", "fy"} THEN prec ELSE prec - 1

\* `_' is new each time, a named variable is one and the same in a clause.
ParseVar(name, p) ==
  LET known == SelectInSeq(p.clause_vars, LAMBDA v : v.name = name)
      new == [p EXCEPT !.counter = @ + 1]
  IN CASE name = "_" -> Parsed(Var(p.counter, FALSE, 0), new)
       [] name # "_" /\ known # 0 ->
            Parsed(Var(p.clause_vars[known].id, TRUE, 0), p)
       [] OTHER -> Parsed(Var(p.counter, TRUE, 0),
                          [new EXCEPT !.clause_vars =
                             Append(@, [name |-> name, id |-> p.counter])])

at_term_boundary(p) == p.text = << >> \/ At(p, {")", "]", ",", "|"})

\* A primary and the infix operators up to a priority.
RECURSIVE operand(_, _), ParseArgs(_, _), ParseElements(_, _), parse_infix(_, _, _)

parse_arg(p) == operand(p, 999)
parse_term(p) == operand(p, 1200)

\* The arguments behind the opening parenthesis; `)' ends them.
ParseArgs(p, args) ==
  LET arg == parse_arg(p)
      all == Append(args, arg.term)
  IN CASE Len(args) >= MAX_ARGS \/ ~ arg.ok -> Error
       [] OTHER -> CASE At(arg.p, {","}) -> ParseArgs(Skip(arg.p), all)
                     [] At(arg.p, {")"}) -> Parsed(all, Skip(arg.p))
                     [] OTHER -> Error

ParseCall(name, p) ==
  LET r == IF At(p, {")"}) THEN Parsed(<< >>, Skip(p)) ELSE ParseArgs(p, << >>)
  IN IF r.ok THEN Parsed(Func(name, r.term, 0), r.p) ELSE Error

\* The elements behind the bracket, as the list they begin.
ParseElements(p, count) ==
  LET elem == parse_arg(p)
      tail == CASE At(elem.p, {","}) -> ParseElements(Skip(elem.p), count + 1)
                [] At(elem.p, {"|"}) -> parse_arg(Skip(elem.p))
                [] OTHER -> Parsed(Const("[]", 0), elem.p)
  IN IF count >= MAX_ELEMENTS \/ ~ elem.ok THEN Error
     ELSE IF ~ tail.ok THEN Error
     ELSE Parsed(Func(".", << elem.term, tail.term >>, 0), tail.p)

parse_list(p) ==
  LET r == ParseElements(p, 0)
  IN CASE At(p, {"]"}) -> Parsed(Const("[]", 0), Skip(p))
       [] OTHER -> IF r.ok THEN IF At(r.p, {"]"}) THEN Parsed(r.term, Skip(r.p))
                                ELSE Error
                   ELSE Error

\* A term between a bracket and its partner.
Bracketed(p, close, Build(_)) ==
  LET inner == parse_term(p)
  IN IF inner.ok THEN IF At(inner.p, {close})
                      THEN Parsed(Build(inner.term), Skip(inner.p)) ELSE Error
     ELSE Error

\* A name that is a prefix operator takes an operand, unless the term ends here.
ParseName(name, p) ==
  LET prec == op_prefix_priority(name)
      inner == operand(p, right_max(prefix_assoc(name), prec))
  IN IF at_term_boundary(p) \/ prec = 0 THEN Parsed(Const(name, 0), p)
     ELSE IF inner.ok THEN Parsed(Func(name, << inner.term >>, 0), inner.p)
     ELSE Error

\* A name in front of `(' is a functor, whatever it is and whatever lies between.
parse_primary(p) ==
  LET token == Head(p.text)
      rest == Skip(p)
  IN CASE p.text = << >> -> Error
       [] At(p, {"("}) -> Bracketed(rest, ")", LAMBDA t : t)
       [] At(p, {"["}) -> parse_list(rest)
       [] At(p, {"{"}) -> Bracketed(rest, "}", LAMBDA t : Func("{}", << t >>, 0))
       [] At(p, {"{}"}) -> Parsed(Const("{}", 0), rest)
       [] At(p, {")", "]", "}", ","}) -> Error
       [] token.kind = "string" -> Parsed(Str(token.name, 0), rest)
       [] OTHER -> IF At(rest, {"("}) THEN ParseCall(token.name, Skip(rest))
                   ELSE CASE token.kind = "var" -> ParseVar(token.name, rest)
                          [] token.kind = "quoted" ->
                               Parsed(Const(token.name, 0), rest)
                          [] OTHER -> ParseName(token.name, rest)

\* Operators of a priority up to max_prec and their right operands.  The
\* priority of the left operand is not looked at.
parse_infix(p, left, max_prec) ==
  LET op == Head(p.text).name
      prec == op_infix_priority(op)
      right == operand(Skip(p), right_max(infix_assoc(op), prec))
  IN IF p.text = << >> THEN Parsed(left, p)
     ELSE IF \/ Head(p.text).kind # "name"
             \/ prec = 0 \/ prec > max_prec THEN Parsed(left, p)
     ELSE IF ~ right.ok THEN Error
     ELSE parse_infix(right.p, Func(op, << left, right.term >>, 0), max_prec)

operand(p, max_prec) ==
  LET left == parse_primary(p)
  IN IF left.ok THEN parse_infix(left.p, left.term, max_prec) ELSE Error

-----------------------------------------------------------------------------
(* The text of a term                                                      *)

\* ISO's minimal notation of a term, as an operand of at most priority max.  A
\* prefix operator is written as a functor when its operand starts with `('.
RECURSIVE Text(_, _)
Text(t, max) ==
  LET IsOp(assocs) == Lookup(op_table, t.name, assocs) # 0
      Paren(ts) == << Name("(") >> \o ts \o << Name(")") >>
      Upto(prec, ts) == IF prec > max THEN Paren(ts) ELSE ts
      Operand(a, open, prec) == Text(a, IF open THEN prec ELSE prec - 1)
      RECURSIVE Separated(_)
      Separated(args) ==
        IF Len(args) = 1 THEN Text(args[1], 999)
        ELSE Text(args[1], 999) \o << Name(",") >> \o Separated(Tail(args))
      Functional == << Name(t.name) >> \o Paren(Separated(t.args))
      ip == op_infix_priority(t.name)
      pp == op_prefix_priority(t.name)
      behind == Operand(t.args[1], prefix_assoc(t.name) = "fy", pp)
      RECURSIVE Elements(_)
      Elements(l) ==
        Text(l.args[1], 999) \o
          CASE l.args[2].type = "FUNC" /\ is_cons(l.args[2]) ->
                 << Name(",") >> \o Elements(l.args[2])
            [] l.args[2].type = "CONST" /\ is_nil(l.args[2]) -> << >>
            [] OTHER -> << Name("|") >> \o Text(l.args[2], 999)
  IN CASE t.type = "VAR" -> << Variable(VarNames[t.id]) >>
       [] t.type = "STR" -> << Chars(t.chars) >>
       [] t.type = "CONST" ->
            IF t.name = "[]" THEN << Name("["), Name("]") >>
            ELSE IF IsOp(Assocs) THEN Paren(<< Name(t.name) >>)
            ELSE << Name(t.name) >>
       [] is_cons(t) -> << Name("[") >> \o Elements(t) \o << Name("]") >>
       [] OTHER ->
            CASE t.name = "{}" /\ Len(t.args) = 1 ->
                   << Name("{") >> \o Text(t.args[1], 1200) \o << Name("}") >>
              [] Len(t.args) = 2 /\ ip > 0 ->
                   Upto(ip, Operand(t.args[1], infix_assoc(t.name) = "yfx", ip)
                              \o << Name(t.name) >> \o
                            Operand(t.args[2], infix_assoc(t.name) = "xfy", ip))
              [] Len(t.args) = 1 /\ pp > 0 ->
                   IF Head(behind) = Name("(") THEN Functional
                   ELSE Upto(pp, << Name(t.name) >> \o behind)
              [] OTHER -> Functional

-----------------------------------------------------------------------------
ReaderInit == OpInit /\ last_read = << >>

Read(t) == /\ last_read' = << t, parse_term(Parser(Text(t, 1200))) >>
           /\ UNCHANGED opVars

\* A text is read after the last call of op/3.
ReaderNext == /\ last_read = << >>
              /\ \/ OpNext /\ UNCHANGED last_read
                 \/ \E t \in Trees : Read(t)

-----------------------------------------------------------------------------
(* What the parser promises                                                *)

\* The standard leaves open how `a ++ b + c' is read when ++ opens to the right,
\* + to the left and both have one priority.
Ambiguous ==
  \E i, j \in DOMAIN op_table :
    /\ op_table[i].priority = op_table[j].priority /\ op_table[i].priority # 0
    /\ op_table[i].assoc \in {"xfy", "fy"} /\ op_table[j].assoc = "yfx"

\* Whatever operators a program has defined, a term written with the fewest
\* parentheses the standard allows is read as that term (parse.c:parse_infix,
\* parse_primary), variables of one name being one variable.
ReadsBack ==
  last_read = << >> \/ Ambiguous \/
    LET r == last_read[2]
    IN IF r.ok THEN r.term = last_read[1] /\ r.p.text = << >> ELSE FALSE
=============================================================================
