------------------------------- MODULE Driver -------------------------------
(***************************************************************************)
(* abstractions/driver.rs and emulator.rs: the loops of the Emulator trait *)
(* (run_to, run), of EmulatorDriver (run, run_to, run_function) and of     *)
(* DebuggerDriver (run), over one emulator.  What one instruction does is  *)
(* external: the trait leaves step to its implementation.  Addresses and   *)
(* values are words; a pointer takes one cell.                             *)
(*                                                                         *)
(* None of the loops calls handle_call, run_prehooks or run_posthooks, so  *)
(* hooks and monitors see nothing and the call stack of the driver stays   *)
(* empty: they have no state here.                                         *)
(***************************************************************************)
EXTENDS Memory, Registers

CONSTANTS
  Programs,   \* families of code: addresses to instructions
  Maps,       \* regions that may be mapped: [base, data]
  Initial,    \* the registers and regions at the start
  Values,     \* what is written to registers
  Sentinel,   \* 0xDEADBEEFCAFEBABE
  Half,       \* 2^32: what a push of four bytes keeps is modulo this
  MaxInsns,   \* max_instructions and max_steps
  MaxHit,     \* max_hit
  MaxCalls    \* bound on the calls of the environment

Ops == {"bad", "syscall", "nop", "jmp", "loop", "call", "ret"}
Reasons == {"limit", "target", "returned", "breakpoint", "error", "memory", "instruction", "other"}

ASSUME DriverAssumption ==
  /\ Sentinel \in Addrs /\ Half \in 1 .. Space
  /\ MaxInsns \in Nat /\ MaxHit \in Nat /\ MaxCalls \in Nat
  /\ None \notin Reasons
  /\ \A p \in Programs : \A a \in DOMAIN p : p[a].op \in Ops
  /\ \A c \in Initial :
       /\ DOMAIN c.mem \subseteq Addrs
       /\ c \in [values : [Regs -> Nat], mem : [DOMAIN c.mem -> [data : Seq(Nat), perms : STRING]]]

VARIABLES
  code,      \* the instructions, which no loop changes
  wide,      \* pointer_size is 8, not 4
  cpu,       \* [values, mem]: the registers and the memory
  bps,       \* breakpoints
  saved,     \* the last snapshot_state
  call,      \* the loop that runs and its target
  steps,     \* steps, instructions_executed
  hits,      \* hit_counts
  result,    \* what the last loop returned, until something else is done
  path,      \* history: the emulator when the loop began and after each instruction
  began,     \* history: the hits when the loop began
  calls      \* history: calls so far

vars == <<code, wide, cpu, bps, saved, call, steps, hits, result, path, began, calls>>

Targeted == {"emu.run_to", "run_to", "run_function"}
Untargeted == {"emu.run", "run", "debug"}
PC(c) == GetRegister(c.values, "pc")
SP(c) == GetRegister(c.values, "sp")
WithPC(c, v) == [c EXCEPT !.values = SetRegister(@, "pc", v)]
WithSP(c, v) == [c EXCEPT !.values = SetRegister(@, "sp", v)]

----------------------------------------------------------------------------
\* write_u32_le or write_u64_le, read likewise.
Stored(v) == IF wide THEN v ELSE v % Half
CanAccess(c, a) == InOneRegion(c.mem, a, 1)
Poke(c, a, v) == [c EXCEPT !.mem = Written(@, a, <<Stored(v)>>)]

\* Emulator::push: the stack pointer has moved when the write fails.
Below(c) == (SP(c) - 1) % Space
Pushed(c, v) ==
  LET moved == WithSP(c, Below(c)) IN IF CanAccess(c, Below(c)) THEN Poke(moved, Below(c), v) ELSE moved

Going(c) == [fault |-> None, at |-> 0, cpu |-> c]
Fault(c, kind, a) == [fault |-> kind, at |-> a, cpu |-> c]

\* External: step, which does nothing if it fails.
Executed(c) ==
  LET pc == PC(c)
      i == code[pc]
      next == WithPC(c, (pc + 1) % Space)
  IN  IF pc \notin DOMAIN code THEN Fault(c, "memory", pc) ELSE
      CASE i.op = "bad" -> Fault(c, "instruction", pc)
        [] i.op = "syscall" -> Fault(c, "other", pc)
        [] i.op = "nop" -> Going(next)
        [] i.op = "jmp" -> Going(WithPC(c, i.arg))
        [] i.op = "loop" ->
             LET less == [c EXCEPT !.values = SetRegister(@, "al", GetRegister(@, "al") + 3)]
             IN  Going(IF GetRegister(less.values, "al") = 0 THEN WithPC(less, (pc + 1) % Space)
                                                           ELSE WithPC(less, i.arg))
        [] i.op = "call" ->
             IF CanAccess(c, Below(c)) THEN Going(WithPC(Pushed(c, pc + 1), i.arg))
                                       ELSE Fault(c, "memory", Below(c))
        [] i.op = "ret" ->
             IF CanAccess(c, SP(c))
             THEN Going(WithPC(WithSP(c, (SP(c) + 1) % Space), Byte(c.mem, SP(c))))
             ELSE Fault(c, "memory", SP(c))

----------------------------------------------------------------------------
Init ==
  /\ code \in Programs /\ wide \in BOOLEAN
  /\ cpu \in Initial
  /\ bps = {} /\ saved = None /\ call = None /\ steps = 0 /\ hits = [a \in {} |-> 0]
  /\ result = None /\ path = <<>> /\ began = hits /\ calls = 0

\* The caller of the emulator, between two loops.
Between ==
  /\ call = None /\ calls < MaxCalls /\ calls' = calls + 1 /\ result' = None
  /\ UNCHANGED <<code, wide, call, steps, path, began>>

AddBreakpoint(a) == Between /\ a \notin bps /\ bps' = bps \cup {a} /\ UNCHANGED <<cpu, saved, hits>>
RemoveBreakpoint(a) == Between /\ a \in bps /\ bps' = bps \ {a} /\ UNCHANGED <<cpu, saved, hits>>
SetRegisterTo(r, v) ==
  /\ Between /\ cpu' = [cpu EXCEPT !.values = SetRegister(@, r, v)]
  /\ UNCHANGED <<bps, saved, hits>>
MapRegion(r) ==
  /\ Between /\ CanMap(cpu.mem, r.base, Len(r.data))
  /\ cpu' = [cpu EXCEPT !.mem = MapVerbatim(@, r.base, r.data, "rw")]
  /\ UNCHANGED <<bps, saved, hits>>
UnmapRegion(b) ==
  /\ Between /\ b \in DOMAIN cpu.mem
  /\ cpu' = [cpu EXCEPT !.mem = RemoveMap(@, b)]
  /\ UNCHANGED <<bps, saved, hits>>
ResetHits ==
  /\ Between /\ hits' = [a \in {} |-> 0]
  /\ UNCHANGED <<cpu, bps, saved>>

SnapshotState ==
  /\ Between
  /\ saved' = [pc |-> PC(cpu), sp |-> SP(cpu), values |-> cpu.values, mem |-> SnapshotMemory(cpu.mem), was |-> cpu]
  /\ UNCHANGED <<cpu, bps, hits>>

\* pc and sp first, then every register, then the memory.
RestoreState ==
  /\ Between /\ saved # None
  /\ LET first == WithSP(WithPC(cpu, saved.pc), saved.sp)
     IN  cpu' = [values |-> [r \in Regs |-> saved.values[r]], mem |-> RestoreMemory(first.mem, saved.mem)]
  /\ UNCHANGED <<bps, saved, hits>>

----------------------------------------------------------------------------
Finish(reason, at) ==
  /\ call' = None
  /\ result' = [call |-> call, reason |-> reason, at |-> at, steps |-> steps]

Begin(loop, target) ==
  /\ call = None /\ calls < MaxCalls /\ calls' = calls + 1 /\ result' = None
  /\ call' = [loop |-> loop, target |-> target]
  /\ steps' = 0
  /\ IF loop # "run_function" THEN UNCHANGED cpu
     ELSE /\ cpu' = Pushed(WithPC(cpu, target), Sentinel)
          /\ CanAccess(cpu, Below(cpu))
  /\ path' = <<cpu'>> /\ began' = hits
  /\ UNCHANGED <<code, wide, bps, saved, hits>>

\* The push of the sentinel fails: pc and sp have moved, and it is an error.
BeginFails(target) ==
  /\ Between /\ ~CanAccess(cpu, Below(cpu))
  /\ cpu' = Pushed(WithPC(cpu, target), Sentinel)
  /\ UNCHANGED <<bps, saved, hits>>

Hits(a) == IF a \in DOMAIN hits THEN hits[a] ELSE 0

\* What the tests before the next instruction make of the present state, in
\* their order.  The first instruction of a loop may be at a breakpoint.
AtLimit == steps >= MaxInsns
AtBreakpoint == PC(cpu) \in bps /\ steps > 0

\* Mutant: the breakpoint of the first instruction stops too.
VerdictAtOnce ==
  LET pc == PC(cpu) IN
  IF AtLimit THEN "limit"
  ELSE IF call.loop \in {"run_to", "emu.run_to"} /\ pc = call.target THEN "target"
  ELSE IF call.loop = "run_function" /\ pc = Sentinel THEN "returned"
  ELSE IF call.loop = "debug" /\ Hits(pc) >= MaxHit THEN "limit"
  ELSE IF call.loop # "debug" /\ pc \in bps THEN "breakpoint" ELSE None

Verdict ==
  LET pc == PC(cpu) IN
  IF AtLimit THEN "limit"
  ELSE IF call.loop \in {"run_to", "emu.run_to"} /\ pc = call.target THEN "target"
  ELSE IF call.loop = "run_function" /\ pc = Sentinel THEN "returned"
  ELSE IF call.loop = "debug" /\ Hits(pc) >= MaxHit THEN "limit"
  ELSE IF call.loop # "debug" /\ AtBreakpoint THEN "breakpoint" ELSE None

\* DebuggerDriver counts a hit before it looks at the limit.
Counted == call.loop = "debug" /\ ~AtLimit
CountHit == hits' = IF Counted THEN Put(hits, PC(cpu), Hits(PC(cpu)) + 1) ELSE hits

Stop ==
  /\ call # None /\ Verdict # None
  /\ Finish(Verdict, PC(cpu)) /\ CountHit
  /\ UNCHANGED <<code, wide, cpu, bps, saved, steps, path, began, calls>>

Step ==
  /\ call # None /\ Verdict = None
  /\ Executed(cpu).fault = None
  /\ cpu' = Executed(cpu).cpu /\ steps' = steps + 1 /\ path' = Append(path, cpu')
  /\ CountHit
  /\ UNCHANGED <<code, wide, bps, saved, call, result, began, calls>>

\* Emulator::run_to and the debugger return every error of step as one.
Reason(o) ==
  CASE call.loop = "run_function" /\ o.fault # "other" /\ o.at = Sentinel -> "returned"
    [] call.loop \in {"emu.run_to", "debug"} \/ o.fault = "other" -> "error"
    [] OTHER -> o.fault

Fails ==
  /\ call # None /\ Verdict = None
  /\ LET o == Executed(cpu) IN o.fault # None /\ Finish(Reason(o), o.at)
  /\ CountHit
  /\ UNCHANGED <<code, wide, cpu, bps, saved, steps, path, began, calls>>

LoopStep == Stop \/ Step \/ Fails

Next ==
  \/ \E a \in DOMAIN code : AddBreakpoint(a) \/ RemoveBreakpoint(a)
  \/ \E r \in Regs \ {"pc"}, v \in Values : SetRegisterTo(r, v)
  \/ \E r \in Maps : MapRegion(r)
  \/ \E b \in Addrs : UnmapRegion(b)
  \/ ResetHits \/ SnapshotState \/ RestoreState
  \/ \E a \in DOMAIN code : (\E l \in Targeted : Begin(l, a)) \/ BeginFails(a)
  \/ \E l \in Untargeted : Begin(l, None)
  \/ LoopStep

Spec == Init /\ [][Next]_vars

----------------------------------------------------------------------------
\* The instructions before the one that is k-th to be executed, and where.
At(k) == PC(path[k + 1])
HitsBefore(a, k) ==
  (IF a \in DOMAIN began THEN began[a] ELSE 0) + Cardinality({i \in 0 .. k - 1 : At(i) = a})

StopsAt(c, k) ==
  \/ k >= MaxInsns
  \/ c.loop \in {"run_to", "emu.run_to"} /\ At(k) = c.target
  \/ c.loop = "run_function" /\ At(k) = Sentinel
  \/ c.loop # "debug" /\ k > 0 /\ At(k) \in bps
  \/ c.loop = "debug" /\ HitsBefore(At(k), k) >= MaxHit

\* The path is what step makes of the emulator that the loop was given.
Executes == \A k \in 1 .. Len(path) - 1 : Executed(path[k]) = Going(path[k + 1])

(***************************************************************************)
(* Each loop leaves the emulator where its first stop condition holds, or  *)
(* before the instruction that fails, after the number of instructions it  *)
(* returns, and the reason it gives is true of that state.                 *)
(***************************************************************************)
StopsWhereFirst ==
  result # None =>
    LET n == result.steps
        r == result.reason
    IN  /\ Len(path) = n + 1 /\ path[n + 1] = cpu /\ Executes
        /\ \A k \in 0 .. n - 1 : ~StopsAt(result.call, k)
        /\ IF StopsAt(result.call, n) THEN r \in {"limit", "target", "returned", "breakpoint"}
           ELSE Executed(cpu).fault # None /\ r \in {"error", "memory", "instruction", "returned"}
        /\ r = "target" => PC(cpu) = result.call.target
        /\ r = "breakpoint" => PC(cpu) \in bps
        /\ r = "returned" => Sentinel \in {PC(cpu), result.at}
        /\ r = "limit" => n = MaxInsns \/ result.call.loop = "debug"

(***************************************************************************)
(* Whatever was mapped, unmapped, written or executed since the snapshot,  *)
(* restoring it brings back the registers and the memory, and no more.     *)
(***************************************************************************)
RestoreExact == [][RestoreState => cpu' = saved.was]_vars
=============================================================================
