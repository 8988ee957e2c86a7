-------------------------- MODULE SymbolicEmulator --------------------------
(***************************************************************************)
(* symboliks/emulator.rs and effect.rs: the registers, the memory and the  *)
(* path constraints of a symbolic run, as a record, and the effects that   *)
(* change it.  Memory maps an address to the value last written there,     *)
(* whatever its size; a write to an address that is not a constant leaves  *)
(* no trace but its effect.  ReadMemory and Debug effects, which change    *)
(* nothing, are left out.                                                  *)
(***************************************************************************)
EXTENDS Symbolic, SequencesExt

CONSTANT PointerSize  \* bytes, 4 or 8

SetVariable(va, n, v) == [k |-> "set", va |-> va, n |-> n, v |-> v]
WriteMemory(va, a, size, v) == [k |-> "write", va |-> va, a |-> a, size |-> size, v |-> v]
CallFunction(va, t, args) == [k |-> "callfn", va |-> va, t |-> t, args |-> args]

\* effect.reduced
Reduced(f) ==
  CASE f.k = "set" -> [f EXCEPT !.v = Reduce(@)]
    [] f.k = "write" -> [f EXCEPT !.a = Reduce(@), !.v = Reduce(@)]
    [] f.k = "callfn" -> [f EXCEPT !.args = [i \in DOMAIN @ |-> Reduce(@[i])]]

NewEmulator(names) ==
  [regs |-> [n \in names |-> Var(n, PointerSize)], mem |-> <<>>, cons |-> <<>>]

\* get_register: a name never set stands for itself.
RegisterIn(regs, n) == IF n \in DOMAIN regs THEN regs[n] ELSE Var(n, PointerSize)
Put(f, x, y) == (x :> y) @@ f

\* apply_effect: the state takes the values of the effect, reduced; a name in
\* them keeps the meaning it had when the effect was made.
ApplyEffect(emu, f) ==
  LET r == Reduced(f) IN
  CASE r.k = "set" -> [emu EXCEPT !.regs = Put(@, r.n, r.v)]
    [] r.k = "write" -> [emu EXCEPT !.mem = IF IsConst(r.a) THEN Put(@, r.a.v, r.v) ELSE @]
    [] OTHER -> emu
ApplyEffects(emu, fs) == FoldLeft(ApplyEffect, emu, fs)
AppliedEffects(fs) == [i \in DOMAIN fs |-> Reduced(fs[i])]

\* snapshot keeps the registers and the memory; restore puts them back and
\* leaves effects and constraints.
Snapshot(emu) == [regs |-> emu.regs, mem |-> emu.mem]
Restore(emu, snap) == [emu EXCEPT !.regs = snap.regs, !.mem = snap.mem]

\* path_satisfiable: no constraint reduces to a constant that is false.
PathSatisfiable(cons) ==
  \A i \in DOMAIN cons :
    LET c == Reduce(cons[i]) IN IsDiscrete(c) => Solve(c) /= 0
=============================================================================
