------------------------------- MODULE Solver -------------------------------
(***************************************************************************)
(* symboliks/solver.rs: bounds on one variable, and the values between     *)
(* them.  Every comparison bounds the variable as an unsigned number,      *)
(* whether it compares signed or not.                                      *)
(***************************************************************************)
EXTENDS Symbolic, FiniteSetsExt

Top == Modulus - 1
Everything == [lower |-> 0, upper |-> Top]

\* The bounds var op c puts on var; none for /=.  Subtraction and addition
\* stop at the ends of the range.
Bound(op, c) ==
  CASE op = "eq" -> [lower |-> c, upper |-> c]
    [] op = "ne" -> Everything
    [] op \in {"lt", "ult"} -> [lower |-> 0, upper |-> IF c = 0 THEN 0 ELSE c - 1]
    [] op = "le" -> [lower |-> 0, upper |-> c]
    [] op \in {"gt", "ugt"} -> [lower |-> IF c = Top THEN Top ELSE c + 1, upper |-> Top]
    [] op = "ge" -> [lower |-> c, upper |-> Top]

Flipped(op) ==
  [eq |-> "eq", ne |-> "ne", lt |-> "gt", le |-> "ge", gt |-> "lt", ge |-> "le",
   ult |-> "ugt", ugt |-> "ult"][op]

Named(e, n) == e.k = "var" /\ e.n = n

\* extract_single_bound: var op c, c op var, (var + d) op c, (var - d) op c;
\* anything else says nothing.
SingleBound(n, e) ==
  IF e.k /= "cons" THEN Everything
  ELSE IF Named(e.l, n) /\ IsConst(e.r) THEN Bound(e.op, e.r.v)
  ELSE IF Named(e.r, n) /\ IsConst(e.l) THEN Bound(Flipped(e.op), e.l.v)
  ELSE IF /\ e.l.k = "oper" /\ e.l.op \in {"add", "sub"}
          /\ Named(e.l.l, n) /\ IsConst(e.l.r) /\ IsConst(e.r)
    THEN Bound(e.op, IF e.l.op = "add" THEN Wrap(e.r.v - e.l.r.v) ELSE Wrap(e.r.v + e.l.r.v))
  ELSE Everything

\* extract_bounds: the intersection.
Bounds(n, cons) ==
  [lower |-> Max({SingleBound(n, cons[i]).lower : i \in DOMAIN cons} \cup {0}),
   upper |-> Min({SingleBound(n, cons[i]).upper : i \in DOMAIN cons} \cup {Top})]

IsEmpty(b) == b.lower > b.upper

\* eval_with_subst: a value with n replaced by v; nothing for what reads
\* another name, memory or a call.  The extensions and the power come out 0.
Unknown == -1
RECURSIVE EvalWith(_, _, _)
EvalWith(e, n, v) ==
  CASE e.k = "const" -> e.v
    [] e.k = "var" /\ e.n = n -> v
    [] e.k \in {"oper", "cons"} ->
         LET l == EvalWith(e.l, n, v)  r == EvalWith(e.r, n, v) IN
         IF Unknown \in {l, r} THEN Unknown
         ELSE IF e.k = "cons" THEN IF Holds(e.op, l, r) THEN 1 ELSE 0
         ELSE IF e.op \in {"sext", "zext", "pow"} THEN 0
         ELSE SolveOp(e.op, l, r)
    [] OTHER -> Unknown

\* verify_constraints: what cannot be evaluated is taken to hold.
Verify(n, v, cons) ==
  \A i \in DOMAIN cons :
    cons[i].k = "cons" =>
      LET l == EvalWith(cons[i].l, n, v)  r == EvalWith(cons[i].r, n, v)
      IN  Unknown \in {l, r} \/ Holds(cons[i].op, l, r)

\* enumerate_values of a range it walks value by value: those that verify,
\* the first max of them.
EnumerateValues(n, w, cons, max) ==
  LET b == Bounds(n, cons)
      masked == [i \in 1 .. b.upper - b.lower + 1 |-> (b.lower + i - 1) % WidthModulus(w)]
      good == SelectSeq(masked, LAMBDA v : Verify(n, v, cons))
  IN  SubSeq(good, 1, Min({max, Len(good)}))
=============================================================================
