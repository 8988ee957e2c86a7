----------------------------- MODULE Translator -----------------------------
(***************************************************************************)
(* symboliks/translator.rs: what each instruction makes of the registers   *)
(* the translator has so far, the effects it logs, and the constraints it  *)
(* puts on where control goes next.                                        *)
(*                                                                         *)
(* An operand is an immediate, a register, a dereference or a target.  The *)
(* text of a dereference, with its size in front, is what the code looks   *)
(* its base register up by.                                                *)
(***************************************************************************)
EXTENDS SymbolicEmulator

CONSTANTS
  Stack, Result, High,  \* the registers named sp, ax and dx
  FrameBase,            \* bp
  Arguments,            \* the argument registers in their order; <<>> when on the stack
  CmpLhs, CmpRhs        \* __cmp_lhs and __cmp_rhs

NoBase == "no base"
Immediate(v, w) == [k |-> "imm", v |-> v, w |-> w]
Register(n) == [k |-> "reg", n |-> n]
Deref(base, disp, w) == [k |-> "deref", base |-> base, disp |-> disp, w |-> w]
Target(va) == [k |-> "imm", v |-> va, w |-> PointerSize]
Callee(n) == [k |-> "callee", n |-> n]  \* the target of a call, by its text
Op(mnem, va, opers) == [mnem |-> mnem, va |-> va, opers |-> opers]

NewTranslator == [regs |-> <<>>, effects |-> <<>>, cons |-> <<>>]

\* clear_effects: the registers stay.
ClearEffects(tr) == [tr EXCEPT !.effects = <<>>, !.cons = <<>>]

RegObj(tr, n) == RegisterIn(tr.regs, n)
SetRegObj(tr, n, v) == [tr EXCEPT !.regs = Put(@, n, v)]
EffSet(tr, va, n, v) ==
  [SetRegObj(tr, n, v) EXCEPT !.effects = Append(@, SetVariable(va, n, v))]
EffWrite(tr, va, a, w, v) == [tr EXCEPT !.effects = Append(@, WriteMemory(va, a, w, v))]
EffCall(tr, va, t, args) == [tr EXCEPT !.effects = Append(@, CallFunction(va, t, args))]
EffConstrain(tr, target, c) == [tr EXCEPT !.cons = Append(@, [target |-> target, c |-> c])]

OperAddr(tr, o) ==
  IF o.base = NoBase THEN Const(Wrap(o.disp), PointerSize)
  ELSE IF o.disp = 0 THEN RegObj(tr, o.base)
  ELSE IF o.disp > 0 THEN Oper("add", RegObj(tr, o.base), Const(o.disp, PointerSize))
  ELSE Oper("sub", RegObj(tr, o.base), Const(-o.disp, PointerSize))

OperObj(tr, op, i) ==
  LET o == op.opers[i] IN
  IF i > Len(op.opers) THEN Const(0, PointerSize)
  ELSE CASE o.k = "imm" -> Const(o.v, o.w)
         [] o.k = "reg" -> RegObj(tr, o.n)
         [] o.k = "deref" -> Mem(OperAddr(tr, o), o.w)

\* There is nothing to set in an immediate, nor beyond the last operand.
SetOper(tr, op, i, v) ==
  LET o == op.opers[i] IN
  IF i > Len(op.opers) THEN tr
  ELSE CASE o.k = "imm" -> tr
         [] o.k = "reg" -> EffSet(tr, op.va, o.n, v)
         [] o.k = "deref" -> EffWrite(tr, op.va, OperAddr(tr, o), o.w, v)

\* The operation of each two-operand instruction, and of each unary one.
Binary == [add |-> "add", sub |-> "sub", and |-> "and", or |-> "or", xor |-> "xor",
           shl |-> "shl", shr |-> "shr", sar |-> "sar"]
Unary == [neg |-> "neg", not |-> "not"]
ByOne == [inc |-> "add", dec |-> "sub"]

\* The comparison of each condition code.  Below-or-equal and above-or-equal
\* compare signed; there is none for the sign, overflow and parity jumps.
Jumps == [je |-> "eq", jne |-> "ne", jl |-> "lt", jle |-> "le", jg |-> "gt", jge |-> "ge",
          jb |-> "ult", ja |-> "ugt", jbe |-> "le", jae |-> "ge"]
Moves == [cmove |-> "eq", cmovne |-> "ne", cmovl |-> "lt", cmovg |-> "gt", cmovle |-> "le",
          cmovge |-> "ge", cmovb |-> "ult", cmova |-> "ugt", cmovbe |-> "le", cmovae |-> "ge",
          cmovs |-> "ne", cmovns |-> "ne"]
\* What a sign extension reads and writes; the width does not change.
Extensions == [cdq |-> <<"eax", "edx">>, cqo |-> <<"rax", "rdx">>, cdqe |-> <<"eax", "rax">>,
               cbw |-> <<"al", "ax">>, cwde |-> <<"ax", "eax">>]

Slot == Const(PointerSize, PointerSize)

Push(tr, va, v) ==
  LET new == Oper("sub", RegObj(tr, Stack), Slot)
  IN  EffWrite(EffSet(tr, va, Stack, new), va, new, PointerSize, v)
\* The slot below the stack pointer is read from memory as it was at entry.
Popped(tr) == Mem(RegObj(tr, Stack), PointerSize)
Pop(tr, va) == EffSet(tr, va, Stack, Oper("add", RegObj(tr, Stack), Slot))

\* The flags are kept as constraints of their own, and the two sides for the
\* conditional jump or move that follows, however far.
Compare(tr, va, l, r, flags) ==
  FoldLeft(LAMBDA t, f : EffSet(t, va, f[1], f[2]),
           SetRegObj(SetRegObj(tr, CmpLhs, l), CmpRhs, r), flags)
CmpFlags(l, r) ==
  << <<"cf", Constraint("ugt", r, l)>>, <<"gt", Constraint("gt", l, r)>>,
     <<"lt", Constraint("lt", l, r)>>, <<"sf", Constraint("lt", l, r)>>,
     <<"eq", Constraint("eq", l, r)>> >>
TestFlags(l, r) ==
  LET both == Oper("and", l, r)  zero == Const(0, PointerSize) IN
  << <<"gt", Constraint("gt", l, r)>>, <<"lt", Constraint("lt", both, zero)>>,
     <<"sf", Constraint("lt", both, zero)>>, <<"eq", Constraint("eq", both, zero)>>,
     <<"of", zero>>, <<"cf", zero>>,
     <<"pf", Oper("xor", Oper("xor", l, r), Const(Modulus - 1, PointerSize))>> >>

\* The call's arguments, and a result that is the call's and nothing more.
CallOut(tr, op) ==
  LET t == op.opers[1].n
      sp == RegObj(tr, Stack)
      args == IF Arguments /= <<>> THEN [i \in DOMAIN Arguments |-> RegObj(tr, Arguments[i])]
              ELSE << Mem(sp, 4), Mem(Oper("add", sp, Const(4, 4)), 4) >>
  IN  EffSet(EffCall(tr, op.va, t, args), op.va, Result, Call(t, <<>>, PointerSize))

\* The target under the comparison, the next instruction under its inverse.
Branch(tr, op, c) ==
  LET l == RegObj(tr, CmpLhs)  r == RegObj(tr, CmpRhs) IN
  EffConstrain(EffConstrain(tr, op.opers[1].v, Constraint(c, l, r)),
               op.va + 1, Constraint(InverseOf(c), l, r))

Multiply(tr, op) ==
  CASE Len(op.opers) >= 3 -> SetOper(tr, op, 1, Oper("mul", OperObj(tr, op, 2), OperObj(tr, op, 3)))
    [] Len(op.opers) = 2 -> SetOper(tr, op, 1, Oper("mul", OperObj(tr, op, 1), OperObj(tr, op, 2)))
    [] OTHER -> EffSet(tr, op.va, Result, Oper("mul", RegObj(tr, Result), OperObj(tr, op, 1)))

Divide(tr, op) ==
  LET ax == RegObj(tr, Result)  d == OperObj(tr, op, 1) IN
  EffSet(EffSet(tr, op.va, Result, Oper("div", ax, d)), op.va, High, Oper("mod", ax, d))

\* The stack pointer takes the frame's base, and what it then points at is
\* popped into the base.
Leave(tr, va) ==
  LET down == EffSet(tr, va, Stack, RegObj(tr, FrameBase))
  IN  EffSet(Pop(down, va), va, FrameBase, Popped(down))

(***************************************************************************)
(* translate_opcode.  jmp, nop, the rotations, the string instructions and *)
(* whatever is not named log no effect; a conditional move constrains its  *)
(* own address and moves nothing.                                          *)
(***************************************************************************)
Translate(tr0, op) ==
  LET tr == [tr0 EXCEPT !.cons = <<>>]
      x == OperObj(tr, op, 1)
      y == IF Len(op.opers) > 1 THEN OperObj(tr, op, 2) ELSE Const(1, 1)
      m == op.mnem
  IN  CASE m = "mov" -> SetOper(tr, op, 1, OperObj(tr, op, 2))
        [] m = "lea" -> SetOper(tr, op, 1, OperAddr(tr, op.opers[2]))
        [] m = "xchg" -> SetOper(SetOper(tr, op, 1, y), op, 2, x)
        [] m \in DOMAIN Binary -> SetOper(tr, op, 1, Oper(Binary[m], x, y))
        [] m \in DOMAIN Unary -> SetOper(tr, op, 1, Oper(Unary[m], x, None0))
        [] m \in DOMAIN ByOne -> SetOper(tr, op, 1, Oper(ByOne[m], x, Const(1, Width(x))))
        [] m = "mul" -> Multiply(tr, op)
        [] m = "div" -> Divide(tr, op)
        [] m = "push" -> Push(tr, op.va, x)
        [] m = "pop" -> SetOper(Pop(tr, op.va), op, 1, Popped(tr))
        [] m = "leave" -> Leave(tr, op.va)
        [] m = "ret" -> Pop(tr, op.va)
        [] m = "call" -> CallOut(tr, op)
        [] m = "cmp" -> Compare(tr, op.va, x, y, CmpFlags(x, y))
        [] m = "test" -> Compare(tr, op.va, Oper("and", x, y), Const(0, PointerSize), TestFlags(x, y))
        [] m \in DOMAIN Jumps -> Branch(tr, op, Jumps[m])
        [] m \in DOMAIN Moves ->
             EffConstrain(tr, op.va, Constraint(Moves[m], RegObj(tr, CmpLhs), RegObj(tr, CmpRhs)))
        [] m \in DOMAIN Extensions ->
             EffSet(tr, op.va, Extensions[m][2], Oper("sext", RegObj(tr, Extensions[m][1]), None0))
        [] OTHER -> tr
=============================================================================
