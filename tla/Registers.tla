----------------------------- MODULE Registers -----------------------------
(***************************************************************************)
(* abstractions/registers.rs: BasicRegisterContext.  Every register has a  *)
(* value of its own; a sub-register leaves its own unused and is a range   *)
(* of bits of its parent's.                                                *)
(***************************************************************************)
EXTENDS Integers

CONSTANTS
  Layout,  \* [parent, offset, size] of each register, parent Whole for none
  Whole

Regs == DOMAIN Layout

\* A sub-register of a sub-register would read its parent's unused value; no
\* context of the repository has one.
ASSUME RegistersAssumption ==
  \A r \in Regs :
    /\ Layout[r].size \in Nat \ {0} /\ Layout[r].offset \in Nat
    /\ Layout[r].parent = Whole \/ Layout[Layout[r].parent].parent = Whole

Mask(v, size) == v % 2^size
BitsOf(v, offset, size) == Mask(v \div 2^offset, size)

GetRegister(values, r) ==
  LET i == Layout[r] IN
  IF i.parent = Whole THEN values[r] ELSE BitsOf(values[i.parent], i.offset, i.size)

\* The value is masked to the size of the register, and its bits replace the
\* parent's.
SetRegister(values, r, v) ==
  LET i == Layout[r] IN
  IF i.parent = Whole THEN [values EXCEPT ![r] = Mask(v, i.size)]
  ELSE [values EXCEPT ![i.parent] =
          @ - BitsOf(@, i.offset, i.size) * 2^i.offset + Mask(v, i.size) * 2^i.offset]

\* What bits of a whole register r stands for.
Bits(r) ==
  LET i == Layout[r]
  IN  (IF i.parent = Whole THEN {r} ELSE {i.parent}) \X (i.offset .. i.offset + i.size - 1)

(***************************************************************************)
(* A register that was set reads as what was put, cut to its size; every   *)
(* register that shares no bit with it reads as before.                    *)
(***************************************************************************)
AliasesAfter(before, after, r, v) ==
  /\ GetRegister(after, r) = Mask(v, Layout[r].size)
  /\ \A q \in Regs : Bits(q) \cap Bits(r) = {} => GetRegister(after, q) = GetRegister(before, q)
=============================================================================
