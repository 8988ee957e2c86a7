------------------------------ MODULE Program ------------------------------
(***************************************************************************)
(* The program under analysis, as Opcode and the x86 decoder present it to *)
(* codeflow.rs: what is mapped, what decodes, and how each instruction     *)
(* transfers control.  Operands, encodings and mnemonics are left out.     *)
(***************************************************************************)
EXTENDS Integers, Sequences

CONSTANTS
  VA,       \* addresses an operand may name
  Mapped,   \* those is_valid_pointer accepts
  None      \* Option::None

ASSUME ProgramAssumption ==
  /\ VA \subseteq Nat /\ Mapped \subseteq VA
  /\ None \notin VA

\* The decoder's iflags: "jmp", "stop" (ret, ud2) do not fall through, "jcc"
\* is a conditional branch, "call" falls through.
Kinds == {"plain", "stop", "jmp", "jcc", "call"}

(***************************************************************************)
(* decodes is false also where fewer than the 16 bytes every reader asks   *)
(* for are mapped.  target is operand 0 of a branch or call: the address   *)
(* of the pointer when deref, None when only the run knows it.  table is   *)
(* what try_resolve_jump_table reads.  refs is get_memory_references.      *)
(***************************************************************************)
Insn == [decodes : BOOLEAN, size : Nat \ {0}, kind : Kinds,
         target : VA \cup {None}, deref : BOOLEAN,
         table : Seq(VA), refs : SUBSET VA]

Falls(i) == i.kind \notin {"jmp", "stop"}

\* get_branches without the fall-through, and the part of it that names code.
Named(i) == IF i.kind \in {"jmp", "jcc", "call"} THEN {i.target} \ {None} ELSE {}
Direct(i) == IF i.deref THEN {} ELSE Named(i)

\* A call, direct or through a pointer, to an address known not to return.
NeverReturns(i, noreturn) == i.kind = "call" /\ Named(i) \cap noreturn # {}

=============================================================================
