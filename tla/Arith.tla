------------------------------- MODULE Arith -------------------------------
(***************************************************************************)
(* Arithmetic (arith.c).  An integer has Width bits; a double is exact     *)
(* here, a fraction n / d with d > 0.  What C leaves undefined is what the *)
(* build for x86 does: signed results wrap, a shift uses its count modulo  *)
(* the width, and a quotient that is no integer of the width is a trap     *)
(* that ends the process.                                                  *)
(***************************************************************************)
EXTENDS Integers, Sequences

CONSTANTS
  Width,        \* bits of an int
  Operands,     \* numbers, variables and atoms expressions are made of
  MaxOperators  \* bound of the model: operators that are evaluated

Pow2[k \in 0 .. Width] == IF k = 0 THEN 1 ELSE 2 * Pow2[k - 1]
INT_MIN == -Pow2[Width - 1]
INT_MAX == Pow2[Width - 1] - 1

Ints == [type : {"INT"}, n : INT_MIN .. INT_MAX, d : {1}]
Doubles == [type : {"FLOAT"}, n : Int, d : Nat \ {0}]

ASSUME ArithAssumption ==
  /\ Width \in Nat \ {0} /\ MaxOperators \in Nat
  /\ \A t \in Operands : t.type \in {"INT", "FLOAT"} => t \in Ints \cup Doubles

VARIABLES
  results,   \* of the expressions that were evaluated so far
  last_eval  \* the last one of them: its operator, the results of its operands, its own

arithVars == << results, last_eval >>

Integer(i) == [type |-> "INT", n |-> i, d |-> 1]
Double(n, d) == [type |-> "FLOAT", n |-> n, d |-> d]

\* What is left of an integer in a word.
Word(i) == ((i - INT_MIN) % Pow2[Width]) + INT_MIN
Bits(i) == {k \in 0 .. Width - 1 : ((i \div Pow2[k]) % 2) = 1}
OfBits(S) == CHOOSE i \in INT_MIN .. INT_MAX : Bits(i) = S

Throw(error) == [ok |-> FALSE, error |-> error]
Yields(v) == [ok |-> TRUE, v |-> v]

-----------------------------------------------------------------------------
(* The integer operators                                                   *)

magnitude(i) == IF i < 0 THEN -i ELSE i
\* C's division rounds towards zero.
Quotient(a, b) == LET q == magnitude(a) \div magnitude(b)
                  IN IF (a < 0) = (b < 0) THEN q ELSE -q

Traps(a, b) == a = INT_MIN /\ b = -1

\* The result has the sign of the divisor.
arith_mod(a, b) ==
  LET r == a - b * Quotient(a, b)
  IN IF r # 0 /\ (r < 0) # (b < 0) THEN r + b ELSE r

arith_shr(a, b) == Word((a % Pow2[Width]) \div Pow2[b % Width])
arith_shl(a, b) == Word(a * Pow2[b % Width])

IntOps == {"mod", "//", "\\/", "/\\", "xor", ">>", "<<"}

Divides == {"mod", "//", "/"}

arith_int(op, a, b) ==
  CASE op \in Divides /\ b = 0 -> Throw("zero_divisor")
    [] op \in Divides /\ b # 0 /\ Traps(a, b) -> Throw("SIGFPE")
    [] op = "mod" /\ b # 0 /\ ~ Traps(a, b) -> Yields(Integer(arith_mod(a, b)))
    [] op \in {"//", "/"} /\ b # 0 /\ ~ Traps(a, b) -> Yields(Integer(Quotient(a, b)))
    [] op = "\\/" -> Yields(Integer(OfBits(Bits(a) \cup Bits(b))))
    [] op = "/\\" -> Yields(Integer(OfBits(Bits(a) \cap Bits(b))))
    [] op = "xor" -> Yields(Integer(OfBits((Bits(a) \cup Bits(b))
                                         \ (Bits(a) \cap Bits(b)))))
    [] op = ">>"  -> Yields(Integer(arith_shr(a, b)))
    [] op = "<<"  -> Yields(Integer(arith_shl(a, b)))

-----------------------------------------------------------------------------
(* The evaluator                                                           *)

less(a, b) == a.n * b.d < b.n * a.d

\* Mutant: the bound itself passes the range check.
av_to_int_result_OffByOne(i) ==
  IF i < INT_MIN \/ i > INT_MAX + 1 THEN Throw("int_overflow")
  ELSE Yields(Integer(Word(i)))

av_to_int_result(i) ==
  IF i < INT_MIN \/ i > INT_MAX THEN Throw("int_overflow") ELSE Yields(Integer(i))

\* floor, ceiling, truncate and round, halves away from zero.
Rounded(op, a) ==
  LET floor == a.n \div a.d
      ceiling == -((-a.n) \div a.d)
      half == (2 * magnitude(a.n) + a.d) \div (2 * a.d)
  IN CASE op = "floor"    -> floor
       [] op = "ceiling"  -> ceiling
       [] op = "truncate" -> IF a.n < 0 THEN ceiling ELSE floor
       [] op = "round"    -> IF a.n < 0 THEN -half ELSE half

Unary(op, a) ==
  LET isf == a.type = "FLOAT"
      Wrapped(n) == Yields(IF isf THEN Double(n, a.d) ELSE Integer(Word(n)))
  IN CASE op = "-"   -> Wrapped(-a.n)
       [] op = "abs" -> Wrapped(magnitude(a.n))
       [] op = "\\"  -> IF isf THEN Throw("type_error") ELSE Yields(Integer(-a.n - 1))
       [] op \in {"floor", "ceiling", "round", "truncate"} ->
            av_to_int_result(Rounded(op, a))
       [] op = "float" -> Yields(Double(a.n, a.d))
       [] OTHER -> Throw("evaluable")

\* + - and * on integers are checked for overflow as they are carried out.
Binary(op, a, b) ==
  LET isf == "FLOAT" \in {a.type, b.type}
      Result(n, d) == IF isf THEN Yields(Double(n, d)) ELSE av_to_int_result(n)
      Pick(first) == Yields(IF isf THEN Double(first.n, first.d) ELSE first)
  IN CASE isf /\ op \in IntOps -> Throw("type_error")
       [] op = "+" -> Result(a.n * b.d + b.n * a.d, a.d * b.d)
       [] op = "-" -> Result(a.n * b.d - b.n * a.d, a.d * b.d)
       [] op = "*" -> Result(a.n * b.n, a.d * b.d)
       [] isf /\ op = "/" ->
            IF b.n = 0 THEN Throw("zero_divisor")
            ELSE Yields(IF b.n < 0 THEN Double(-a.n * b.d, a.d * (-b.n))
                        ELSE Double(a.n * b.d, a.d * b.n))
       [] op = "max" -> Pick(IF less(b, a) THEN a ELSE b)
       [] op = "min" -> Pick(IF less(a, b) THEN a ELSE b)
       [] ~ isf /\ op \in IntOps \cup {"/"} -> arith_int(op, a.n, b.n)
       [] OTHER -> Throw("evaluable")

\* An operand that is no compound term, or one of more than two arguments.
leaf(t) == CASE t.type \in {"INT", "FLOAT"} -> Yields(t)
             [] t.type = "VAR" -> Throw("instantiation_error")
             [] OTHER -> Throw("evaluable")

\* The operands are evaluated from left to right before the operator is looked
\* at, and the first error is the result.
eval_arith(op, args) ==
  IF ~ args[1].ok THEN args[1]
  ELSE IF Len(args) = 1 THEN Unary(op, args[1].v)
  ELSE IF ~ args[2].ok THEN args[2]
  ELSE Binary(op, args[1].v, args[2].v)

\* =:=, <, =< and the others compare as doubles.
Compare(op, a, b) ==
  LET Test == CASE op = "<" -> less(a.v, b.v)    [] op = ">"  -> less(b.v, a.v)
                [] op = "=<" -> ~ less(b.v, a.v) [] op = ">=" -> ~ less(a.v, b.v)
                [] op = "=:=" -> a.v.n * b.v.d = b.v.n * a.v.d
                [] op = "=\\=" -> a.v.n * b.v.d # b.v.n * a.v.d
  IN IF ~ a.ok THEN a ELSE IF ~ b.ok THEN b ELSE [ok |-> Test]

UnaryOps == {"-", "abs", "\\", "floor", "ceiling", "round", "truncate", "float"}
BinaryOps == IntOps \cup {"+", "-", "*", "/", "max", "min"}

ArithInit == /\ results = {leaf(t) : t \in Operands}
             /\ last_eval = [op |-> "", args |-> << >>, result |-> Throw("none"),
                             count |-> 0]

\* One call of eval_arith, for an operator whose operands have been evaluated.
Evaluate(op, args) ==
  /\ last_eval.count < MaxOperators
  /\ last_eval' = [op |-> op, args |-> args, result |-> eval_arith(op, args),
                   count |-> last_eval.count + 1]
  /\ results' = results \cup {last_eval'.result}

ArithNext == \/ \E op \in UnaryOps, r \in results : Evaluate(op, << r >>)
             \/ \E op \in BinaryOps, l \in results, r \in results :
                  Evaluate(op, << l, r >>)

ArithSpec == ArithInit /\ [][ArithNext]_arithVars

-----------------------------------------------------------------------------
(* Unbounded integers                                                      *)

\* Of two numbers that fit into n bits and a sign.
BitAnd[n \in 0 .. Width] ==
  [x \in Int |-> [y \in Int |->
     IF n = 0 THEN IF x = -1 /\ y = -1 THEN -1 ELSE 0
     ELSE 2 * BitAnd[n - 1][x \div 2][y \div 2] + (x % 2) * (y % 2)]]
And(x, y) == BitAnd[Width - 1][x][y]

Exact(op, x, y) ==
  CASE op = "+" -> x + y  [] op = "-" -> x - y  [] op = "*" -> x * y
    [] op = "max" -> IF x > y THEN x ELSE y
    [] op = "min" -> IF x < y THEN x ELSE y
    [] op \in {"//", "/"} ->
         CHOOSE q \in -magnitude(x) .. magnitude(x) :
           /\ magnitude(x - q * y) < magnitude(y)
           /\ (x - q * y) * x >= 0
    [] op = "mod" -> CHOOSE r \in -magnitude(y) .. magnitude(y) :
                       /\ magnitude(r) < magnitude(y) /\ r * y >= 0
                       /\ \E q \in -magnitude(x) - 1 .. magnitude(x) + 1 :
                            x = q * y + r
    [] op = "/\\" -> And(x, y)
    [] op = "\\/" -> x + y - And(x, y)
    [] op = "xor" -> x + y - 2 * And(x, y)
    [] op = ">>"  -> x \div Pow2[y]
    [] op = "<<"  -> x * Pow2[y]

\* The number rounded to i: down, up, towards zero, or to the nearest and, in
\* the middle, away from zero.
Roundings == {"floor", "ceiling", "truncate", "round"}
IsRounded(op, a, i) ==
  LET down == i * a.d <= a.n /\ a.n < (i + 1) * a.d
      up == (i - 1) * a.d < a.n /\ a.n <= i * a.d
  IN CASE op = "floor"    -> down
       [] op = "ceiling"  -> up
       [] op = "truncate" -> IF a.n < 0 THEN up ELSE down
       [] op = "round" ->
            IF a.n < 0 THEN (2 * i - 1) * a.d < 2 * a.n /\ 2 * a.n <= (2 * i + 1) * a.d
            ELSE (2 * i - 1) * a.d <= 2 * a.n /\ 2 * a.n < (2 * i + 1) * a.d

\* What arith.c leaves to C at the ends of the range: the negation of the least
\* integer, its quotient by -1, and shifts.
Wraps(op, x) == op \in {"-", "abs"} /\ x = INT_MIN
Unchecked(op, x, y) == \/ op \in Divides /\ Traps(x, y)
                       \/ op \in {">>", "<<"} /\ y \notin 0 .. Width - 1
                       \/ op = ">>" /\ x < 0
                       \/ op = "<<" /\ x * Pow2[y] \notin INT_MIN .. INT_MAX

\* The integer of mathematics, or int_overflow exactly if it does not fit; the
\* result compares equal to the expression.
IntegerFits(result, exact) ==
  IF exact \in INT_MIN .. INT_MAX
  THEN /\ result = Yields(Integer(exact))
       /\ Compare("=:=", result, Yields(Integer(exact))).ok
  ELSE result = Throw("int_overflow")

NegationFits(op, x, result) ==
  IntegerFits(result, IF op = "abs" /\ x >= 0 THEN x ELSE -x)

RoundedFits(op, a, result) ==
  \/ \E i \in INT_MIN .. INT_MAX : IsRounded(op, a, i) /\ result = Yields(Integer(i))
  \/ /\ \A i \in INT_MIN .. INT_MAX : ~ IsRounded(op, a, i)
     /\ result = Throw("int_overflow")

UnaryAgrees(op, a, result) ==
  /\ op \in Roundings => RoundedFits(op, a, result)
  /\ a.type = "INT" =>
       /\ op \in {"-", "abs"} => Wraps(op, a.n) \/ NegationFits(op, a.n, result)
       /\ op = "\\" => IntegerFits(result, -1 - a.n)

Agrees(op, x, y, result) ==
  IF op \in Divides /\ y = 0 THEN result = Throw("zero_divisor")
  ELSE Unchecked(op, x, y) \/ IntegerFits(result, Exact(op, x, y))

\* An operator on integers, and a rounding of any number, gives the integer of
\* mathematics, or the error that says why it cannot: zero_divisor, or
\* int_overflow exactly if the integer does not fit (README: "ISO overflow and
\* zero-divisor errors are raised").  Wraps and Unchecked name the exceptions.
ExactOrError ==
  LET op == last_eval.op
      result == last_eval.result
      arg(i) == last_eval.args[i]
      failed == {i \in DOMAIN last_eval.args : ~ arg(i).ok}
  IN IF failed # {} THEN result = arg(IF 1 \in failed THEN 1 ELSE 2)
     ELSE /\ Len(last_eval.args) = 1 => UnaryAgrees(op, arg(1).v, result)
          /\ Len(last_eval.args) = 2 =>
               (arg(1).v.type = "INT" /\ arg(2).v.type = "INT" =>
                  Agrees(op, arg(1).v.n, arg(2).v.n, result))
=============================================================================
