----------------------------- MODULE DriverProofs -----------------------------
(***************************************************************************)
(* Theorems about Driver: the run loops and the snapshots, for any code,   *)
(* registers, regions and limits, and any calls between the loops.         *)
(***************************************************************************)
EXTENDS Driver, FiniteSetTheorems, TLAPS

----------------------------------------------------------------------------
(* An emulator is a record of two functions, and stays one.                *)

IsEmulator(c) ==
  /\ c = [values |-> c.values, mem |-> c.mem]
  /\ c.values = [r \in Regs |-> c.values[r]]
  /\ c.mem = [b \in DOMAIN c.mem |-> c.mem[b]]

LEMMA EmulatorKept ==
  ASSUME NEW c, IsEmulator(c)
  PROVE  /\ \A r, v : IsEmulator([c EXCEPT !.values = SetRegister(@, r, v)])
         /\ \A v : IsEmulator(WithPC(c, v)) /\ IsEmulator(WithSP(c, v))
         /\ \A a, v : IsEmulator(Poke(c, a, v))
         /\ \A v : IsEmulator(Pushed(c, v))
<1>1. ASSUME NEW d, IsEmulator(d), NEW r, NEW v
      PROVE  IsEmulator([d EXCEPT !.values = SetRegister(@, r, v)])
  <2> DEFINE e == [d EXCEPT !.values = SetRegister(@, r, v)]
             w == SetRegister(d.values, r, v)
  <2>1. w = [q \in Regs |-> w[q]]  BY <1>1 DEF IsEmulator, SetRegister
  <2>2. e = [values |-> w, mem |-> d.mem]  BY <1>1 DEF IsEmulator
  <2> HIDE DEF w, e
  <2>3. IsEmulator(e)  BY <1>1, <2>1, <2>2 DEF IsEmulator
  <2>4. QED BY <2>3 DEF e
<1>2. \A d, v : IsEmulator(d) => IsEmulator(WithPC(d, v)) /\ IsEmulator(WithSP(d, v))
  BY <1>1 DEF WithPC, WithSP
<1>3. ASSUME NEW d, IsEmulator(d), NEW a, NEW v PROVE IsEmulator(Poke(d, a, v))
  <2> DEFINE m == Written(d.mem, a, <<Stored(v)>>)
  <2>1. m = [b \in DOMAIN m |-> m[b]]  BY <1>3 DEF IsEmulator, Written
  <2>2. Poke(d, a, v) = [values |-> d.values, mem |-> m]  BY <1>3 DEF IsEmulator, Poke
  <2> HIDE DEF m
  <2>3. QED BY <1>3, <2>1, <2>2 DEF IsEmulator
<1>4. \A v : IsEmulator(Pushed(c, v))  BY <1>2, <1>3 DEF Pushed
<1>5. QED BY <1>1, <1>2, <1>3, <1>4

\* What step does, seen from the loops: the next emulator, or a fault.
LEMMA ExecutedShape ==
  ASSUME NEW c, PC(c) \in DOMAIN code => code[PC(c)].op \in Ops
  PROVE  \/ Executed(c) = Going(Executed(c).cpu) /\ Executed(c).fault = None
         \/ Executed(c).fault \in {"memory", "instruction", "other"}
<1> DEFINE pc == PC(c)
           op == code[pc].op
<1>1. \A d : Going(d).cpu = d /\ Going(d).fault = None  BY DEF Going
<1>2. \A k, a : Fault(c, k, a).fault = k  BY DEF Fault
<1>3. CASE pc \notin DOMAIN code \/ op \in {"bad", "syscall"}
  <2>1. CASE pc \notin DOMAIN code
    <3>1. Executed(c) = Fault(c, "memory", pc)  BY <2>1 DEF Executed
    <3>2. QED BY <1>2, <3>1
  <2>2. CASE pc \in DOMAIN code /\ op = "bad"
    <3>1. Executed(c) = Fault(c, "instruction", pc)  BY <2>2 DEF Executed
    <3>2. QED BY <1>2, <3>1
  <2>3. CASE pc \in DOMAIN code /\ op = "syscall"
    <3>1. Executed(c) = Fault(c, "other", pc)  BY <2>3 DEF Executed
    <3>2. QED BY <1>2, <3>1
  <2>4. QED BY <1>3, <2>1, <2>2, <2>3
<1>4. CASE pc \in DOMAIN code /\ op \in {"nop", "jmp", "loop"}
  BY <1>1, <1>4 DEF Executed
<1>5. CASE pc \in DOMAIN code /\ op \in {"call", "ret"}
  BY <1>1, <1>2, <1>5 DEF Executed
<1>6. QED BY <1>3, <1>4, <1>5 DEF Ops

LEMMA ExecutedKeeps ==
  ASSUME NEW c, IsEmulator(c), PC(c) \in DOMAIN code => code[PC(c)].op \in Ops
  PROVE  IsEmulator(Executed(c).cpu)
<1> DEFINE pc == PC(c)
           i == code[pc]
           next == WithPC(c, (pc + 1) % Space)
           less == [c EXCEPT !.values = SetRegister(@, "al", GetRegister(@, "al") + 3)]
<1>1. \A k, a : Fault(c, k, a).cpu = c /\ \A d : Going(d).cpu = d
  BY DEF Fault, Going
<1>2. IsEmulator(next) /\ IsEmulator(less)  BY EmulatorKept
<1>3. \A v : IsEmulator(WithPC(less, v)) /\ IsEmulator(WithPC(c, v))
  BY <1>2, EmulatorKept
<1>4. \A v, u : IsEmulator(WithPC(Pushed(c, v), u)) /\ IsEmulator(WithPC(WithSP(c, v), u))
  <2>1. \A v : IsEmulator(Pushed(c, v)) /\ IsEmulator(WithSP(c, v))  BY EmulatorKept
  <2>2. \A d, u : IsEmulator(d) => IsEmulator(WithPC(d, u))  BY EmulatorKept
  <2>3. QED BY <2>1, <2>2
<1> HIDE DEF less, next
<1>5. QED BY <1>1, <1>2, <1>3, <1>4 DEF Executed, Ops, less, next

----------------------------------------------------------------------------
(* Snapshots.                                                              *)

\* What was copied region by region comes back, whatever is there by then.
LEMMA RestoresMemory ==
  ASSUME NEW x, x = [b \in DOMAIN x |-> x[b]], NEW m
  PROVE  RestoreMemory(m, SnapshotMemory(x)) = x
<1> DEFINE snap == SnapshotMemory(x)
<1>1. {s.base : s \in snap} = DOMAIN x
  <2>1. \A s \in snap : s.base \in DOMAIN x  BY DEF SnapshotMemory
  <2>2. ASSUME NEW b \in DOMAIN x PROVE \E s \in snap : s.base = b
    <3>1. [base |-> b, region |-> x[b]] \in snap  BY DEF SnapshotMemory
    <3> HIDE DEF snap
    <3>2. QED BY <3>1
  <2> HIDE DEF snap
  <2>3. QED BY <2>1, <2>2
<1>2. ASSUME NEW b \in DOMAIN x
      PROVE  (CHOOSE s \in snap : s.base = b).region = x[b]
  <2>1. [base |-> b, region |-> x[b]] \in snap  BY DEF SnapshotMemory
  <2>2. \A s \in snap : s.base = b => s.region = x[b]  BY DEF SnapshotMemory
  <2> HIDE DEF snap
  <2>3. \E s \in snap : s.base = b  BY <2>1
  <2>4. QED BY <2>2, <2>3
<1>3. QED BY <1>1, <1>2 DEF RestoreMemory

\* A snapshot says of each part what the emulator was.
SnapshotInv ==
  /\ code \in Programs
  /\ IsEmulator(cpu)
  /\ saved # None =>
       /\ IsEmulator(saved.was)
       /\ saved.values = saved.was.values
       /\ saved.mem = SnapshotMemory(saved.was.mem)

Calls ==
  \/ \E a \in DOMAIN code : AddBreakpoint(a) \/ RemoveBreakpoint(a)
  \/ ResetHits \/ Stop \/ Fails

LEMMA SnapshotInvStep == SnapshotInv /\ [Next]_vars => SnapshotInv'
<1> SUFFICES ASSUME SnapshotInv, [Next]_vars PROVE SnapshotInv'  OBVIOUS
<1> USE DEF SnapshotInv
<1>1. CASE Calls
  BY <1>1 DEF Calls, AddBreakpoint, RemoveBreakpoint, ResetHits, Stop, Fails, Between
<1>2. ASSUME NEW r, NEW v, SetRegisterTo(r, v) PROVE SnapshotInv'
  BY <1>2, EmulatorKept DEF SetRegisterTo, Between
<1>3. ASSUME NEW r, MapRegion(r) PROVE SnapshotInv'
  <2> DEFINE m == MapVerbatim(cpu.mem, r.base, r.data, "rw")
  <2>1. m = [b \in DOMAIN m |-> m[b]]  BY DEF IsEmulator, MapVerbatim, Put
  <2>2. cpu' = [values |-> cpu.values, mem |-> m] /\ UNCHANGED <<saved, code>>
    BY <1>3 DEF MapRegion, IsEmulator, Between
  <2> HIDE DEF m
  <2>3. QED BY <2>1, <2>2 DEF IsEmulator
<1>4. ASSUME NEW b, UnmapRegion(b) PROVE SnapshotInv'
  <2> DEFINE m == RemoveMap(cpu.mem, b)
  <2>1. m = [x \in DOMAIN m |-> m[x]]  BY DEF RemoveMap
  <2>2. cpu' = [values |-> cpu.values, mem |-> m] /\ UNCHANGED <<saved, code>>
    BY <1>4 DEF UnmapRegion, IsEmulator, Between
  <2> HIDE DEF m
  <2>3. QED BY <2>1, <2>2 DEF IsEmulator
<1>5. CASE SnapshotState
  <2>1. /\ saved'.was = cpu /\ saved'.values = cpu.values
        /\ saved'.mem = SnapshotMemory(cpu.mem) /\ UNCHANGED <<cpu, code>>
    BY <1>5 DEF SnapshotState, Between
  <2>2. QED BY <2>1
<1>6. CASE RestoreState
  <2> DEFINE first == WithSP(WithPC(cpu, saved.pc), saved.sp)
  <2>1. /\ saved # None /\ UNCHANGED <<saved, code>>
        /\ cpu' = [values |-> [r \in Regs |-> saved.values[r]],
                   mem |-> RestoreMemory(first.mem, saved.mem)]
    BY <1>6 DEF RestoreState, Between
  <2>2. RestoreMemory(first.mem, saved.mem) = saved.was.mem
    BY <2>1, RestoresMemory DEF IsEmulator
  <2>3. cpu' = saved.was  BY <2>1, <2>2 DEF IsEmulator
  <2>4. QED BY <2>1, <2>3
<1>7. ASSUME NEW l, NEW a, Begin(l, a) PROVE SnapshotInv'
  <2>1. IsEmulator(cpu')  BY <1>7, EmulatorKept DEF Begin
  <2>2. QED BY <1>7, <2>1 DEF Begin
<1>8. ASSUME NEW a, BeginFails(a) PROVE SnapshotInv'
  <2>1. IsEmulator(cpu')  BY <1>8, EmulatorKept DEF BeginFails
  <2>2. QED BY <1>8, <2>1 DEF BeginFails, Between
<1>9. CASE Step
  <2>1. IsEmulator(cpu')  BY <1>9, ExecutedKeeps, DriverAssumption DEF Step
  <2>2. QED BY <1>9, <2>1 DEF Step
<1>10. CASE UNCHANGED vars
  BY <1>10 DEF vars
<1>11. QED
  BY <1>1, <1>2, <1>3, <1>4, <1>5, <1>6, <1>7, <1>8, <1>9, <1>10 DEF Next, Calls, LoopStep

LEMMA RestoredWas ==
  ASSUME SnapshotInv, RestoreState PROVE cpu' = saved.was
<1> DEFINE first == WithSP(WithPC(cpu, saved.pc), saved.sp)
<1>1. /\ saved # None
      /\ cpu' = [values |-> [r \in Regs |-> saved.values[r]],
                 mem |-> RestoreMemory(first.mem, saved.mem)]
  BY DEF RestoreState
<1>2. RestoreMemory(first.mem, saved.mem) = saved.was.mem
  BY <1>1, RestoresMemory DEF IsEmulator, SnapshotInv
<1>3. QED BY <1>1, <1>2 DEF IsEmulator, SnapshotInv

LEMMA SnapshotInvInit == Init => SnapshotInv
BY DriverAssumption DEF Init, SnapshotInv, IsEmulator

(***************************************************************************)
(* Whatever was mapped, unmapped, written or executed since the snapshot,  *)
(* restoring it brings back the registers and the memory, and no more.     *)
(***************************************************************************)
THEOREM SnapshotsAreExact == Spec => RestoreExact
<1>1. SnapshotInv /\ [Next]_vars => [RestoreState => cpu' = saved.was]_vars
  BY RestoredWas
<1>2. QED
  BY <1>1, SnapshotInvInit, SnapshotInvStep, PTL DEF Spec, RestoreExact

----------------------------------------------------------------------------
(***************************************************************************)
(* The loops.  While one runs, its path is what step makes of the first    *)
(* emulator, none of the stop conditions held at an earlier instruction,   *)
(* and the debugger's count of an address is what it was and the number of *)
(* times that the path came by it.                                         *)
(***************************************************************************)
Counts(h) == \A a \in DOMAIN h : h[a] \in Nat

Ran(c, n) ==
  /\ n \in Nat /\ n <= MaxInsns
  /\ Len(path) = n + 1 /\ path[n + 1] = cpu /\ Executes
  /\ \A k \in 0 .. n - 1 : ~StopsAt(c, k)

LoopInv ==
  /\ code \in Programs
  /\ \E S : path \in Seq(S)
  /\ Counts(hits) /\ Counts(began)
  /\ call # None =>
       /\ result = None
       /\ Ran(call, steps)
       /\ call.loop = "debug" => \A a : Hits(a) = HitsBefore(a, steps)
  /\ StopsWhereFirst

LEMMA CountLast ==
  ASSUME NEW n \in Nat, NEW S \in SUBSET (0 .. n)
  PROVE  /\ Cardinality(S) \in Nat /\ Cardinality(S \ {n}) \in Nat
         /\ Cardinality(S) = Cardinality(S \ {n}) + (IF n \in S THEN 1 ELSE 0)
<1>1. IsFiniteSet(0 .. n)  BY FS_Interval
<1>2. IsFiniteSet(S) /\ IsFiniteSet(S \ {n})  BY <1>1, FS_Subset
<1>3. Cardinality(S) \in Nat /\ Cardinality(S \ {n}) \in Nat  BY <1>2, FS_CardinalityType
<1>4. CASE n \in S
  <2>1. Cardinality(S \ {n}) = Cardinality(S) - 1  BY <1>2, <1>4, FS_RemoveElement
  <2>2. QED BY <1>3, <1>4, <2>1
<1>5. CASE n \notin S
  <2>1. S \ {n} = S  BY <1>5
  <2>2. QED BY <1>3, <1>5, <2>1
<1>6. QED BY <1>4, <1>5

\* The tests before an instruction find a stop condition when there is one,
\* and name one that is met.
LEMMA VerdictIsStop ==
  ASSUME LoopInv, call # None
  PROVE  /\ Verdict # None <=> StopsAt(call, steps)
         /\ Verdict \in {None, "limit", "target", "returned", "breakpoint"}
         /\ Verdict = "limit" => steps = MaxInsns \/ call.loop = "debug"
         /\ Verdict = "target" => PC(cpu) = call.target
         /\ Verdict = "returned" => PC(cpu) = Sentinel
         /\ Verdict = "breakpoint" => PC(cpu) \in bps
<1>1. At(steps) = PC(cpu)  BY DEF LoopInv, Ran, At
<1>2. call.loop = "debug" => Hits(PC(cpu)) = HitsBefore(PC(cpu), steps)
  BY DEF LoopInv
<1>3. steps \in Nat /\ steps <= MaxInsns /\ MaxInsns \in Nat
  BY DriverAssumption DEF LoopInv, Ran
<1>4. None \notin {"limit", "target", "returned", "breakpoint"}
  BY DriverAssumption DEF Reasons
<1>5. QED
  BY <1>1, <1>2, <1>3, <1>4 DEF Verdict, StopsAt, AtLimit, AtBreakpoint

\* What step does depends on the code and the width of a pointer only.
LEMMA ExecutedFrozen ==
  ASSUME UNCHANGED <<code, wide>> PROVE \A c : Executed(c)' = Executed(c)
BY DEF Executed, Pushed, Poke, Stored, CanAccess, Below, PC, SP, WithPC, WithSP, Going, Fault

\* Nor do the stop conditions depend on more than the path, the hits at its
\* beginning and the breakpoints.
LEMMA RanFrozen ==
  ASSUME UNCHANGED <<code, wide, cpu, bps, path, began>>
  PROVE  /\ \A c, k : StopsAt(c, k)' <=> StopsAt(c, k)
         /\ \A a, k : HitsBefore(a, k)' = HitsBefore(a, k)
         /\ Executes' <=> Executes
         /\ \A c, n : Ran(c, n)' <=> Ran(c, n)
<1>1. \A a, k : HitsBefore(a, k)' = HitsBefore(a, k)  BY DEF HitsBefore, At, PC
<1>2. \A c, k : StopsAt(c, k)' <=> StopsAt(c, k)  BY <1>1 DEF StopsAt, At, PC
<1>3. Executes' <=> Executes  BY ExecutedFrozen DEF Executes, Going
<1>4. QED BY <1>1, <1>2, <1>3 DEF Ran

LEMMA HitsCounted == ASSUME Counts(hits), CountHit PROVE Counts(hits)'
<1>1. \A a : Hits(a) \in Nat  BY DEF Counts, Hits
<1>2. QED BY <1>1 DEF Counts, CountHit, Put

LEMMA LoopStops == ASSUME LoopInv, Stop PROVE LoopInv'
<1>1. /\ call # None /\ call' = None /\ Verdict # None
      /\ result' = [call |-> call, reason |-> Verdict, at |-> PC(cpu), steps |-> steps]
      /\ UNCHANGED <<code, wide, cpu, bps, steps, path, began>> /\ CountHit
  BY DEF Stop, Finish
<1>2. Ran(call, steps) /\ StopsAt(call, steps)
  BY <1>1, VerdictIsStop DEF LoopInv
<1>3. PICK c : c = call  OBVIOUS
<1>a. /\ \A k : StopsAt(c, k)' <=> StopsAt(call, k)
      /\ Executes'
  BY <1>1, <1>2, <1>3, RanFrozen DEF Ran
<1>4. StopsWhereFirst'
  <2>1. /\ Verdict \in {"limit", "target", "returned", "breakpoint"}
        /\ Verdict = "limit" => steps = MaxInsns \/ call.loop = "debug"
        /\ Verdict = "target" => PC(cpu) = call.target
        /\ Verdict = "returned" => PC(cpu) = Sentinel
        /\ Verdict = "breakpoint" => PC(cpu) \in bps
    BY <1>1, VerdictIsStop
  <2>2. Len(path') = steps + 1 /\ path'[steps + 1] = cpu'
        /\ \A k \in 0 .. steps - 1 : ~StopsAt(c, k)'
    BY <1>1, <1>2, <1>a DEF Ran
  <2>3. StopsAt(c, steps)'  BY <1>1, <1>2, <1>a
  <2>4. /\ result'.call = call /\ result'.reason = Verdict
        /\ result'.at = PC(cpu) /\ result'.steps = steps
    BY <1>1
  <2>5. PC(cpu)' = PC(cpu)  BY <1>1 DEF PC
  <2> HIDE DEF Ran
  <2>6. QED BY <1>1, <1>3, <1>a, <2>1, <2>2, <2>3, <2>4, <2>5 DEF StopsWhereFirst
<1>5. QED BY <1>1, <1>4, HitsCounted DEF LoopInv, Counts

LEMMA LoopFails == ASSUME LoopInv, Fails PROVE LoopInv'
<1> DEFINE o == Executed(cpu)
<1>1. /\ call # None /\ call' = None /\ Verdict = None /\ o.fault # None
      /\ result' = [call |-> call, reason |-> Reason(o), at |-> o.at, steps |-> steps]
      /\ UNCHANGED <<code, wide, cpu, bps, steps, path, began>> /\ CountHit
  BY DEF Fails, Finish
<1>2. Ran(call, steps) /\ ~StopsAt(call, steps)
  BY <1>1, VerdictIsStop DEF LoopInv
<1>3. PICK c : c = call  OBVIOUS
<1>a. /\ \A k : StopsAt(c, k)' <=> StopsAt(call, k)
      /\ Executes'
  BY <1>1, <1>2, <1>3, RanFrozen DEF Ran
<1>4. o.fault \in {"memory", "instruction", "other"}
  BY <1>1, ExecutedShape, DriverAssumption DEF LoopInv
<1>5. Executed(cpu)' = o  BY <1>1, ExecutedFrozen
<1> HIDE DEF o
<1>6. /\ Reason(o) \in {"error", "memory", "instruction", "returned"}
      /\ Reason(o) = "returned" => o.at = Sentinel
  BY <1>4 DEF Reason
<1>7. StopsWhereFirst'
  <2>1. /\ result'.call = call /\ result'.reason = Reason(o)
        /\ result'.at = o.at /\ result'.steps = steps
    BY <1>1
  <2>2. /\ Len(path') = steps + 1 /\ path'[steps + 1] = cpu'
        /\ \A k \in 0 .. steps - 1 : ~StopsAt(c, k)'
        /\ ~StopsAt(c, steps)'
    BY <1>1, <1>2, <1>a DEF Ran
  <2>3. QED BY <1>1, <1>3, <1>a, <1>5, <1>6, <2>1, <2>2 DEF StopsWhereFirst
<1>8. QED BY <1>1, <1>7, HitsCounted DEF LoopInv, Counts

LEMMA LoopSteps == ASSUME LoopInv, Step PROVE LoopInv'
<1>1. /\ call # None /\ Verdict = None /\ Executed(cpu).fault = None
      /\ cpu' = Executed(cpu).cpu /\ steps' = steps + 1 /\ path' = Append(path, cpu')
      /\ UNCHANGED <<code, wide, bps, call, result, began>> /\ CountHit
  BY DEF Step
<1>2. Ran(call, steps) /\ ~StopsAt(call, steps) /\ result = None
  BY <1>1, VerdictIsStop DEF LoopInv
<1>3. steps \in Nat /\ steps < MaxInsns /\ MaxInsns \in Nat
  BY <1>2, DriverAssumption DEF Ran, StopsAt
<1>4. PICK S : path \in Seq(S)  BY DEF LoopInv
<1>5. /\ path' \in Seq(S \cup {cpu'}) /\ Len(path') = steps + 2
      /\ path'[steps + 2] = cpu' /\ \A k \in 1 .. steps + 1 : path'[k] = path[k]
  <2>1. path \in Seq(S \cup {cpu'})  BY <1>4
  <2>2. QED BY <1>1, <1>2, <1>3, <2>1 DEF Ran
<1>6. \A k \in 0 .. steps : At(k)' = At(k)
  BY <1>3, <1>5 DEF At, PC
<1>7. ASSUME NEW k \in 0 .. steps, NEW a PROVE HitsBefore(a, k)' = HitsBefore(a, k)
  <2>1. {i \in 0 .. k - 1 : At(i)' = a} = {i \in 0 .. k - 1 : At(i) = a}
    BY <1>3, <1>6
  <2>2. QED BY <1>1, <2>1 DEF HitsBefore
<1>8. \A k \in 0 .. steps : ~StopsAt(call, k)'
  <2>1. ASSUME NEW k \in 0 .. steps PROVE StopsAt(call, k)' <=> StopsAt(call, k)
    BY <1>1, <1>6, <1>7 DEF StopsAt
  <2>2. \A k \in 0 .. steps : ~StopsAt(call, k)  BY <1>2, <1>3 DEF Ran
  <2>3. QED BY <2>1, <2>2
<1>9. Executes'
  <2>1. Executed(cpu) = Going(cpu')
    BY <1>1, ExecutedShape, DriverAssumption DEF LoopInv, Reasons
  <2>2. ASSUME NEW k \in 1 .. steps + 1 PROVE Executed(path'[k]) = Going(path'[k + 1])
    <3>1. CASE k = steps + 1  BY <1>2, <1>3, <1>5, <2>1, <3>1 DEF Ran
    <3>2. CASE k # steps + 1
      <4>1. k \in 1 .. Len(path) - 1 /\ k + 1 \in 1 .. steps + 1  BY <1>2, <1>3, <3>2 DEF Ran
      <4>2. QED BY <1>2, <1>5, <4>1 DEF Ran, Executes
    <3>3. QED BY <3>1, <3>2
  <2>3. Len(path') - 1 = steps + 1  BY <1>3, <1>5
  <2>4. \A c : Executed(c)' = Executed(c) /\ Going(c)' = Going(c)
    BY <1>1, ExecutedFrozen DEF Going
  <2>5. QED BY <2>2, <2>3, <2>4 DEF Executes
<1>10. Ran(call, steps)'
  <2>1. steps' \in Nat /\ steps' <= MaxInsns /\ steps' - 1 = steps  BY <1>1, <1>3
  <2>2. QED BY <1>1, <1>3, <1>5, <1>8, <1>9, <2>1 DEF Ran
<1>11. ASSUME call.loop = "debug", NEW a PROVE Hits(a)' = HitsBefore(a, steps)'
  <2>1. Hits(a) = HitsBefore(a, steps) /\ At(steps) = PC(cpu)
    BY <1>1, <1>2, <1>11 DEF LoopInv, Ran, At
  <2>2. Hits(a)' = Hits(a) + (IF a = PC(cpu) THEN 1 ELSE 0)
    <3>1. Hits(a) \in Nat  BY DEF LoopInv, Counts, Hits
    <3>2. hits' = Put(hits, PC(cpu), Hits(PC(cpu)) + 1)
      BY <1>1, <1>3, <1>11 DEF CountHit, Counted, AtLimit
    <3>3. QED BY <3>1, <3>2 DEF Hits, Put
  <2> DEFINE came == {i \in 0 .. steps : At(i) = a}
             b == IF a \in DOMAIN began THEN began[a] ELSE 0
  <2>3. came \ {steps} = {i \in 0 .. steps - 1 : At(i) = a}  BY <1>3
  <2>4. HitsBefore(a, steps) = b + Cardinality(came \ {steps})
    BY <2>3 DEF HitsBefore
  <2>5. HitsBefore(a, steps)' = b + Cardinality(came)
    <3>1. {i \in 0 .. steps' - 1 : At(i)' = a} = came  BY <1>1, <1>3, <1>6
    <3>2. QED BY <1>1, <3>1 DEF HitsBefore
  <2>6. /\ Cardinality(came) = Cardinality(came \ {steps}) + (IF At(steps) = a THEN 1 ELSE 0)
        /\ Cardinality(came \ {steps}) \in Nat
    <3>1. steps \in came <=> At(steps) = a  BY <1>3
    <3>2. came \in SUBSET (0 .. steps)  OBVIOUS
    <3> HIDE DEF came
    <3>3. QED BY <1>3, <3>1, <3>2, CountLast
  <2>7. b \in Nat  BY DEF LoopInv, Counts
  <2> HIDE DEF b, came
  <2>8. QED BY <2>1, <2>2, <2>4, <2>5, <2>6, <2>7
<1>12. QED
  BY <1>1, <1>2, <1>5, <1>10, <1>11, HitsCounted DEF LoopInv, StopsWhereFirst, Counts

LEMMA LoopInvStep == LoopInv /\ [Next]_vars => LoopInv'
<1> SUFFICES ASSUME LoopInv, [Next]_vars PROVE LoopInv'  OBVIOUS
<1>1. CASE Stop  BY <1>1, LoopStops
<1>2. CASE Fails  BY <1>2, LoopFails
<1>3. CASE Step  BY <1>3, LoopSteps
<1>4. ASSUME Between, hits' = hits \/ DOMAIN hits' = {} PROVE LoopInv'
  BY <1>4 DEF LoopInv, Between, StopsWhereFirst, Counts
<1>5. ASSUME NEW l, NEW a, Begin(l, a) PROVE LoopInv'
  <2>1. /\ result' = None /\ steps' = 0 /\ path' = <<cpu'>> /\ began' = hits
        /\ UNCHANGED <<code, wide, bps, hits>>
    BY <1>5 DEF Begin
  <2>2. path' \in Seq({cpu'}) /\ Len(path') = 1 /\ path'[1] = cpu'  BY <2>1
  <2>3. Executes'  BY <2>2 DEF Executes
  <2>4. Ran(call, steps)'  BY <2>1, <2>2, <2>3, DriverAssumption DEF Ran
  <2>5. \A b : Hits(b)' = HitsBefore(b, steps)'
    <3>1. \A b : {i \in 0 .. steps' - 1 : At(i)' = b} = {}  BY <2>1
    <3>2. \A b : Hits(b) \in Nat  BY DEF LoopInv, Counts, Hits
    <3>3. QED BY <2>1, <3>1, <3>2, FS_EmptySet DEF Hits, HitsBefore
  <2>6. QED BY <2>1, <2>2, <2>4, <2>5 DEF LoopInv, Counts, StopsWhereFirst
<1>6. CASE UNCHANGED vars
  <2>1. UNCHANGED <<code, wide, cpu, bps, path, began, call, steps, hits, result>>
    BY <1>6 DEF vars
  <2>2. /\ \A c, k : StopsAt(c, k)' <=> StopsAt(c, k)
        /\ \A a, k : HitsBefore(a, k)' = HitsBefore(a, k)
        /\ Executes' <=> Executes
        /\ \A c, n : Ran(c, n)' <=> Ran(c, n)
    BY <2>1, RanFrozen
  <2>3. \A a : Hits(a)' = Hits(a)  BY <2>1 DEF Hits
  <2>4. Executed(cpu)' = Executed(cpu) /\ PC(cpu)' = PC(cpu)
    BY <2>1, ExecutedFrozen DEF PC
  <2>5. StopsWhereFirst'  BY <2>1, <2>2, <2>4 DEF LoopInv, StopsWhereFirst
  <2>6. QED BY <2>1, <2>2, <2>3, <2>5 DEF LoopInv, Counts
<1>7. QED
  BY <1>1, <1>2, <1>3, <1>4, <1>5, <1>6
     DEF Next, LoopStep, AddBreakpoint, RemoveBreakpoint, SetRegisterTo, MapRegion, UnmapRegion,
         ResetHits, SnapshotState, RestoreState, BeginFails

(***************************************************************************)
(* Each of the six loops leaves the emulator where its first stop          *)
(* condition holds, or before the instruction that fails, after as many    *)
(* instructions as it returns, with a reason that is true of that state.   *)
(***************************************************************************)
THEOREM LoopsStopWhereFirst == Spec => []StopsWhereFirst
<1>1. Init => LoopInv
  <2> SUFFICES ASSUME Init PROVE LoopInv  OBVIOUS
  <2>1. path \in Seq({}) /\ DOMAIN hits = {} /\ began = hits  BY DEF Init
  <2>2. QED BY <2>1 DEF Init, LoopInv, Counts, StopsWhereFirst
<1>2. LoopInv => StopsWhereFirst  BY DEF LoopInv
<1>3. QED BY <1>1, <1>2, LoopInvStep, PTL DEF Spec

=============================================================================
