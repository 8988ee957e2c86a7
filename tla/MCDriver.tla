------------------------------ MODULE MCDriver ------------------------------
(* Code of three addresses with loops, calls, returns and faults; a stack  *)
(* of two cells that can be unmapped, and another region behind it.        *)
EXTENDS Driver

Whole4 == [parent |-> Whole, offset |-> 0, size |-> 4]
MCLayout ==
  [pc |-> Whole4, sp |-> Whole4, ax |-> Whole4,
   al |-> [parent |-> "ax", offset |-> 0, size |-> 2],
   ah |-> [parent |-> "ax", offset |-> 2, size |-> 2]]

Op(op, arg) == [op |-> op, arg |-> arg]
MCPrograms ==
  {<<Op("call", 3), Op("ret", 0), Op("loop", 3)>>,
   <<Op("loop", 1), Op("call", 3), Op("ret", 0)>>,
   <<Op("nop", 0), Op("jmp", 1), Op("bad", 0)>>,
   <<Op("nop", 0), Op("loop", 1), Op("syscall", 0)>>,
   <<Op("ret", 0), Op("nop", 0), Op("nop", 0)>>}

MCMaps == {[base |-> 7, data |-> <<1>>]}
MCInitial ==
  {[values |-> [r \in Regs |-> CASE r = "sp" -> 7 [] r = "pc" -> 1 [] r = "ax" -> x [] OTHER -> 0],
    mem |-> [b \in {5} |-> Region(<<2, 0>>, "rw")]] : x \in {2, 9}}

\* Sub-registers against bits, for every value of four bits.
ASSUME AliasesAgree ==
  \A x \in 0 .. 15, y \in 0 .. 15, r \in Regs :
    LET before == [q \in Regs |-> IF Layout[q].parent = Whole THEN x ELSE 0]
    IN  AliasesAfter(before, SetRegister(before, r, y), r, y)
=============================================================================
