------------------------------ MODULE Symbolic ------------------------------
(***************************************************************************)
(* symboliks/value.rs and reducer.rs: symbolic values, the number the code *)
(* solves them to, the equality it builds on that number, and reduce.      *)
(*                                                                         *)
(* A u64 has Bits bits, a byte Bits \div 8 of them.  A name stands for     *)
(* itself; the hash the code computes of it is the constant Hash.          *)
(***************************************************************************)
EXTENDS Integers, Sequences
B == INSTANCE Bitwise

CONSTANTS
  Bits,     \* bits of a u64, a multiple of 8
  Hash,     \* varsolve: the number each name hashes to
  Stride    \* the odd number that spreads addresses when a dereference is solved

Modulus == 2^Bits
Words == 0 .. Modulus - 1
ByteBits == Bits \div 8
WidthModulus(w) == IF w >= 8 THEN Modulus ELSE 2^(w * ByteBits)
Signed(v) == IF v >= Modulus \div 2 THEN v - Modulus ELSE v
Wrap(v) == v % Modulus

Const(v, w) == [k |-> "const", v |-> v, w |-> w]
Var(n, w) == [k |-> "var", n |-> n, w |-> w]
Arg(n, w) == [k |-> "arg", n |-> n, w |-> w]
Mem(a, w) == [k |-> "mem", a |-> a, w |-> w]
Oper(op, l, r) == [k |-> "oper", op |-> op, l |-> l, r |-> r]
Call(t, args, w) == [k |-> "call", t |-> t, args |-> args, w |-> w]
Constraint(op, l, r) == [k |-> "cons", op |-> op, l |-> l, r |-> r]
None0 == Const(0, 0)  \* the right operand of a unary operation

IsConst(e) == e.k = "const"
IsValue(e, v) == IsConst(e) /\ e.v = v

RECURSIVE Width(_), IsDiscrete(_), Power(_, _)
Width(e) == CASE e.k = "oper" -> Width(e.l) [] e.k = "cons" -> 1 [] OTHER -> e.w
IsDiscrete(e) ==
  \/ IsConst(e)
  \/ e.k \in {"oper", "cons"} /\ IsDiscrete(e.l) /\ IsDiscrete(e.r)
Power(b, n) == IF n = 0 THEN 1 ELSE Wrap(b * Power(b, n - 1))

\* solve_op: shifts take their count modulo the width, a division by zero is
\* zero, and the extensions leave their operand alone.
SolveOp(op, l, r) ==
  CASE op = "add" -> Wrap(l + r)
    [] op = "sub" -> Wrap(l - r)
    [] op = "mul" -> Wrap(l * r)
    [] op = "div" -> IF r = 0 THEN 0 ELSE l \div r
    [] op = "mod" -> IF r = 0 THEN 0 ELSE l % r
    [] op = "and" -> B!&(l, r)
    [] op = "or"  -> B!|(l, r)
    [] op = "xor" -> B!^^(l, r)
    [] op = "shl" -> Wrap(l * 2^(r % Bits))
    [] op = "shr" -> l \div 2^(r % Bits)
    [] op = "sar" -> Wrap(Signed(l) \div 2^(r % Bits))
    [] op = "not" -> Modulus - 1 - l
    [] op = "neg" -> Wrap(-l)
    [] op \in {"sext", "zext"} -> l
    [] op = "pow" -> Power(l, r)

Holds(op, l, r) ==
  CASE op = "eq" -> l = r
    [] op = "ne" -> l /= r
    [] op = "lt" -> Signed(l) < Signed(r)
    [] op = "le" -> Signed(l) <= Signed(r)
    [] op = "gt" -> Signed(l) > Signed(r)
    [] op = "ge" -> Signed(l) >= Signed(r)
    [] op = "ult" -> l < r
    [] op = "ugt" -> l > r

\* Mutant: of an ordering its mirror image.
InverseMirror(op) ==
  [eq |-> "ne", ne |-> "eq", lt |-> "gt", gt |-> "lt", le |-> "ge", ge |-> "le",
   ult |-> "ugt", ugt |-> "ult"][op]

InverseOf(op) ==
  [eq |-> "ne", ne |-> "eq", lt |-> "ge", ge |-> "lt", le |-> "gt", gt |-> "le",
   ult |-> "ugt", ugt |-> "ult"][op]

(***************************************************************************)
(* solve, with the number of each name a parameter: with Hash it is the    *)
(* code's, with the values the names have at entry it is what the          *)
(* expression computes.                                                    *)
(***************************************************************************)
RECURSIVE Eval(_, _), SumOf(_, _)
Eval(e, env) ==
  CASE e.k = "const" -> e.v
    [] e.k \in {"var", "arg"} -> env[e.n] % WidthModulus(e.w)
    [] e.k = "mem" -> Wrap(Eval(e.a, env) * Stride)
    [] e.k = "oper" -> SolveOp(e.op, Eval(e.l, env), Eval(e.r, env))
    [] e.k = "call" -> Wrap(env[e.t] + SumOf(e.args, env))
    [] e.k = "cons" -> IF Holds(e.op, Eval(e.l, env), Eval(e.r, env)) THEN 1 ELSE 0
SumOf(args, env) ==
  IF args = <<>> THEN 0 ELSE Wrap(Eval(Head(args), env) + SumOf(Tail(args), env))

Solve(e) == Eval(e, Hash)

\* PartialEq: two leaves of a kind are compared part by part, everything else
\* by the number it solves to.
SameValue(a, b) ==
  IF a.k = b.k /\ a.k \in {"const", "var", "arg"} THEN a = b ELSE Solve(a) = Solve(b)

RECURSIVE Substitute(_, _, _), Names(_)
Substitute(e, n, v) ==
  CASE e.k = "var" /\ e.n = n -> v
    [] e.k = "mem" -> [e EXCEPT !.a = Substitute(@, n, v)]
    [] e.k \in {"oper", "cons"} -> [e EXCEPT !.l = Substitute(@, n, v), !.r = Substitute(@, n, v)]
    [] e.k = "call" -> [e EXCEPT !.args = [i \in DOMAIN @ |-> Substitute(@[i], n, v)]]
    [] OTHER -> e

\* collect_variables
Names(e) ==
  CASE e.k = "var" -> {e.n}
    [] e.k = "mem" -> Names(e.a)
    [] e.k \in {"oper", "cons"} -> Names(e.l) \cup Names(e.r)
    [] e.k = "call" -> UNION {Names(e.args[i]) : i \in DOMAIN e.args}
    [] OTHER -> {}

(***************************************************************************)
(* reducer.rs                                                              *)
(***************************************************************************)
\* fold_constants: the width of the left operand cuts the result; a shift by
\* the width or more empties it; there is no quotient by zero.
Fold(op, l, r, w) ==
  (CASE op = "shl" -> IF r >= 2 * Bits THEN 0 ELSE l * 2^r
     [] op = "shr" -> IF r >= Bits THEN 0 ELSE l \div 2^r
     [] op = "sar" -> Signed(l) \div 2^(IF r >= Bits THEN Bits ELSE r)
     [] OTHER -> SolveOp(op, l, r)) % WidthModulus(w)

\* The constant operands that leave the other as it is, and those that decide.
RightUnit == [add |-> 0, sub |-> 0, or |-> 0, xor |-> 0, shl |-> 0, shr |-> 0, sar |-> 0,
              mul |-> 1, div |-> 1, pow |-> 1]
LeftUnit == [add |-> 0, or |-> 0, mul |-> 1]
RightZero == [mul |-> 0, and |-> 0, mod |-> 1]
LeftZero == [mul |-> 0, and |-> 0]
Rule(table, op, e) == op \in DOMAIN table /\ IsValue(e, table[op])

Logarithm(v) == {n \in 1 .. Bits - 1 : 2^n = v}

\* Mutant: the constants of a difference are subtracted from one another.
AssociateSub(op, l, r) ==
  LET c == (IF op = "add" THEN Wrap(l.r.v + r.v) ELSE Wrap(l.r.v - r.v)) % WidthModulus(r.w) IN
  IF op = "add" /\ c = 0 THEN l.l ELSE Oper(op, l.l, Const(c, r.w))

\* (x + c1) + c2 is x + (c1 + c2), and the same for the difference; the sum is
\* cut to the width of c2, and nothing is left of a sum of 0.
Associate(op, l, r) ==
  LET c == Wrap(l.r.v + r.v) % WidthModulus(r.w) IN
  IF op = "add" /\ c = 0 THEN l.l ELSE Oper(op, l.l, Const(c, r.w))

\* What reduce makes of an operation on reduced operands: the rules in their
\* order, the first that applies.
ReduceOper(op, l, r) ==
  IF IsConst(l) /\ IsConst(r) /\ ~(op \in {"div", "mod"} /\ r.v = 0)
    THEN Const(Fold(op, l.v, r.v, Width(l)), Width(l))
  ELSE IF Rule(RightUnit, op, r) THEN l
  ELSE IF Rule(LeftUnit, op, l) THEN r
  ELSE IF Rule(RightZero, op, r) THEN Const(0, Width(l))
  ELSE IF Rule(LeftZero, op, l) THEN Const(0, Width(r))
  ELSE IF op = "pow" /\ IsValue(r, 0) THEN Const(1, Width(l))
  ELSE IF op = "mul" /\ IsConst(r) /\ Logarithm(r.v) /= {}
    THEN Oper("shl", l, Const(CHOOSE n \in Logarithm(r.v) : TRUE, Width(r)))
  ELSE IF op \in {"sub", "xor"} /\ SameValue(l, r) THEN Const(0, Width(l))
  ELSE IF op \in {"and", "or"} /\ SameValue(l, r) THEN l
  ELSE IF op \in {"not", "neg"} /\ l.k = "oper" /\ l.op = op THEN l.l
  ELSE IF op \in {"add", "sub"} /\ IsConst(r) /\ l.k = "oper" /\ l.op = op /\ IsConst(l.r)
    THEN Associate(op, l, r)
  ELSE Oper(op, l, r)

\* Mutant: of two equal values only == holds.
ReduceConstraintEq(op, l, r) ==
  IF IsConst(l) /\ IsConst(r) THEN Const(IF Holds(op, l.v, r.v) THEN 1 ELSE 0, 1)
  ELSE IF SameValue(l, r) THEN Const(IF op = "eq" THEN 1 ELSE 0, 1)
  ELSE Constraint(op, l, r)

\* Two constants are compared; of two equal values only ==, <= and >= hold.
ReduceConstraint(op, l, r) ==
  IF IsConst(l) /\ IsConst(r) THEN Const(IF Holds(op, l.v, r.v) THEN 1 ELSE 0, 1)
  ELSE IF SameValue(l, r) THEN Const(IF op \in {"eq", "le", "ge"} THEN 1 ELSE 0, 1)
  ELSE Constraint(op, l, r)

RECURSIVE Reduce(_)
Reduce(e) ==
  CASE e.k = "oper" -> ReduceOper(e.op, Reduce(e.l), Reduce(e.r))
    [] e.k = "cons" -> ReduceConstraint(e.op, Reduce(e.l), Reduce(e.r))
    [] e.k = "mem" -> [e EXCEPT !.a = Reduce(@)]
    [] e.k = "call" -> [e EXCEPT !.args = [i \in DOMAIN @ |-> Reduce(@[i])]]
    [] OTHER -> e
=============================================================================
