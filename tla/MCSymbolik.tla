----------------------------- MODULE MCSymbolik -----------------------------
EXTENDS Symbolik

CONSTANTS Guards, Ns

MCRegisters == {"rax", "rbx", "rcx", "rdx", "rsp", "rbp", "rdi", "rsi"}
MCIndexes == <<"rax", "rcx", "rdx", "rbx", "rdi", "rsi">>
MCArguments == <<"rdi", "rsi", "rdx", "rcx">>
MCNames == MCRegisters \cup {"cmp lhs", "cmp rhs", "qword ptr [rbp", "f"}
MCHash == [n \in MCNames |->
  CASE n = "rax" -> 173 [] n = "rbx" -> 58 [] n = "rcx" -> 207 [] n = "rdx" -> 31
    [] n = "rsp" -> 244 [] n = "rbp" -> 99 [] n = "rdi" -> 142 [] n = "rsi" -> 16
    [] n = "cmp lhs" -> 85 [] n = "cmp rhs" -> 121 [] n = "f" -> 190 [] OTHER -> 67]

Base == [n \in MCNames |-> 7]
MCEnvs == {[Base EXCEPT !["rax"] = a, !["rbx"] = b] : a \in {0, 1, 2, 5, 127, 128, 255}, b \in {0, 2, 200}}
MCInputs == {[Base EXCEPT !["rax"] = a] : a \in Words}

A == Register("rax")
C == Register("rbx")
I(v) == Immediate(v, 8)

\* A list of [m, o], an instruction a unit from va on.
Code(va, list) == [i \in DOMAIN list |-> Op(list[i][1], va + i - 1, list[i][2])]
Block(va, list, succs) == [va |-> va, ops |-> Code(va, list), succs |-> succs]
Function(blocks, jump, table) ==
  [blocks |-> blocks, jump |-> jump, table |-> table, code |-> {70, 80, 90}, known |-> {80}]

Arithmetic == {
  << <<"mov", <<C, I(5)>>>> >>,
  << <<"mov", <<A, C>>>>, <<"inc", <<A>>>> >>,
  << <<"sub", <<C, I(3)>>>>, <<"sub", <<C, I(4)>>>> >>,
  << <<"add", <<C, I(3)>>>>, <<"add", <<C, I(253)>>>> >>,
  << <<"xor", <<A, A>>>>, <<"or", <<A, C>>>> >>,
  << <<"not", <<A>>>>, <<"neg", <<C>>>>, <<"not", <<A>>>> >>,
  << <<"shl", <<C>>>>, <<"and", <<C, A>>>> >> }

Memory ==
  << <<"push", <<A>>>>, <<"call", <<Callee("f")>>>>, <<"mul", <<C, I(4)>>>>, <<"div", <<C>>>>,
     <<"xchg", <<A, C>>>>, <<"cqo", <<>>>>, <<"lea", <<A, Deref("qword ptr [rbp", 2, 8)>>>>,
     <<"mov", <<Deref(NoBase, 9, 8), A>>>>, <<"mov", <<C, Deref("qword ptr [rbp", -3, 8)>>>>,
     <<"cmovb", <<A, C>>>>, <<"pop", <<A>>>>, <<"leave", <<>>>>, <<"ret", <<>>>> >>

\* A comparison that skips a block; the block after it may go back to the
\* entry.
Branching(g, n, o1, o2, back) ==
  LET one == Block(0, o1 \o << <<"cmp", <<A, n>>>>, <<g, <<Target(30)>>>> >>, <<30, 10>>)
      b == [one EXCEPT !.succs = <<30, Len(one.ops)>>]
      two == Block(Len(one.ops), o2, <<30>>)
  IN  IF back
      THEN << b, two, Block(30, << <<"cmp", <<C, I(7)>>>>, <<"je", <<Target(0)>>>> >>, <<0, 32>>),
              Block(32, << <<"ret", <<>>>> >>, <<>>) >>
      ELSE << b, two, Block(30, << <<"dec", <<A>>>>, <<"ret", <<>>>> >>, <<>>) >>

\* A comparison, then the default, then the jump; or the jump before the
\* default.
Switching(g, n) ==
  LET first == Block(0, << <<"cmp", <<A, I(n)>>>>, <<g, <<Target(30)>>>> >>, <<30, 2>>)
      jump == << <<"jmp", <<>>>> >>
      leave == << <<"mov", <<A, I(1)>>>>, <<"ret", <<>>>> >>
  IN  IF g \in {"jb", "jbe", "je"} THEN Function(<<first, Block(2, leave, <<>>), Block(30, jump, <<>>)>>, 30, <<70, 80, 70, 90, 5>>)
      ELSE Function(<<first, Block(2, jump, <<>>), Block(30, leave, <<>>)>>, 2, <<70, 80, 70, 90, 5>>)

\* Two branches in a row and a way back: more paths than are walked.
Long ==
  << Block(0, << <<"cmp", <<A, I(5)>>>>, <<"jg", <<Target(30)>>>> >>, <<30, 2>>),
     Block(2, << <<"inc", <<A>>>> >>, <<30>>),
     Block(30, << <<"cmp", <<C, I(7)>>>>, <<"je", <<Target(40)>>>> >>, <<40, 32>>),
     Block(32, << <<"dec", <<C>>>> >>, <<40>>),
     Block(40, << <<"cmp", <<A, C>>>>, <<"jl", <<Target(0)>>>> >>, <<0, 42>>),
     Block(42, << <<"ret", <<>>>> >>, <<>>) >>

Branchings ==
  {Function(Branching(g, n, o1, o2, back), 99, <<>>) :
     g \in {"je", "jg"}, n \in {I(5), A, C}, o1 \in Arithmetic, o2 \in Arithmetic, back \in BOOLEAN}
Others ==
  {Function(Long, 99, <<>>),
   Function(<<Block(0, Memory, <<>>)>>, 99, <<>>),
   Function(<<Block(0, << <<"jmp", <<>>>> >>, <<>>)>>, 0, <<70, 80, 70, 90, 5>>)}

MCFunctions == Branchings \cup Others \cup {Switching(g, n) : g \in Guards, n \in Ns}
SwitchFunctions == {Switching(g, n) : g \in Guards, n \in Ns}
=============================================================================
