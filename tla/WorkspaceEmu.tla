---------------------------- MODULE WorkspaceEmu ----------------------------
(***************************************************************************)
(* impemu/workspace_emu.rs and monitor.rs: the emulation of one function   *)
(* of an analysed workspace, by the decoder alone.  It has no registers    *)
(* and no memory: a call is stepped over, whether it has a stub or not,    *)
(* and a conditional branch is always taken.                               *)
(***************************************************************************)
EXTENDS Passes

CONSTANTS
  MaxSteps,  \* max_insns
  Stubs,     \* api_stubs: what to do for a name
  Monitors   \* what may be attached, and its state before it saw anything

ASSUME WorkspaceEmuAssumption ==
  /\ MaxSteps \in Nat /\ None \notin Monitors
  /\ \A m \in Monitors : "kind" \in DOMAIN m

VARIABLES
  emu,  \* [func, pc, count, calls, cleanup, end] of run_function, and as
        \* history in past the instructions that it went on from
  mon   \* the monitor

emuVars == <<emu, mon>>

EmuInit == Init /\ emu = None /\ mon = None

----------------------------------------------------------------------------
(* Monitors.  A hook has the monitor after it, and what it answers.        *)

Answer(m, action) == [mon |-> m, action |-> action]

\* prehook.  A monitor of one's own may answer Skip.
Prehook(m, va) ==
  CASE m.kind = "path" ->
         LET seen == Append(m.visited, va)
         IN  Answer([m EXCEPT !.visited = seen], IF Len(seen) >= m.max THEN "stop" ELSE "continue")
    [] m.kind = "breakpoint" /\ va \in m.at -> Answer([m EXCEPT !.hit = va], "stop")
    [] m.kind = "own" /\ va \in m.at -> Answer(m, "skip")
    [] OTHER -> Answer(m, "continue")

\* on_call, with the whole name of the target.
OnCall(m, va, target, name) ==
  CASE m.kind = "path" -> Answer([m EXCEPT !.calls = Append(@, <<va, target>>)], "continue")
    [] m.kind = "call" /\ name \in m.names -> Answer([m EXCEPT !.hit = <<va, target, name>>], "stop")
    [] m.kind = "own" /\ target \in m.at -> Answer(m, "skip")
    [] OTHER -> Answer(m, "continue")

NameOf(va) == IF va \in DOMAIN w.names THEN w.names[va] ELSE None

\* The stub for a name: its library is cut off, but not what a pass put in
\* front of it, as in thunk_exit.
Given == {im.imports[va] : va \in DOMAIN im.imports} \cup {im.symbols[va] : va \in DOMAIN im.symbols}
StubAction(name) ==
  IF name \in Given /\ Last(name) \in DOMAIN Stubs THEN Stubs[Last(name)] ELSE None

----------------------------------------------------------------------------
\* Each of run_function's turns decodes at pc and is one of these.
Turn == emu # None /\ emu.end = None /\ emu.count < MaxSteps /\ Decodes(im, emu.pc)
Insn == im.insn[emu.pc]
Pre == Prehook(mon, emu.pc)
Runs1 == Turn /\ Pre.action = "continue"
CallTarget == Direct(Insn) \ {0}
Called(t) == OnCall(Pre.mon, emu.pc, t, NameOf(t))

Finish(why) == emu' = [emu EXCEPT !.end = why]
Past(e, va) == [e EXCEPT !.pc = va, !.count = @ + 1, !.past = @ \cup {emu.pc}]
GoTo(va) == emu' = Past(emu, va)
Keep == UNCHANGED vars

RunFunction(f) ==
  /\ next > Len(Pipeline) /\ w.pend = <<>> /\ emu = None /\ IsX86
  /\ emu' = [func |-> f, pc |-> f, count |-> 0, calls |-> <<>>, cleanup |-> 0, end |-> None,
             past |-> {}]
  /\ mon' \in Monitors
  /\ Keep

OutOfInsns ==
  /\ emu # None /\ emu.end = None
  /\ emu.count >= MaxSteps
  /\ Finish("limit") /\ Keep /\ UNCHANGED mon

\* (The return address that run_function compares with is never reached: it
\* is not pushed, and a branch goes only to what is mapped.)
NotDecoded ==
  /\ emu # None /\ emu.end = None
  /\ emu.count < MaxSteps /\ ~Decodes(im, emu.pc)
  /\ Finish("lost") /\ Keep /\ UNCHANGED mon

Stopped == Turn /\ Pre.action = "stop" /\ mon' = Pre.mon /\ Finish("monitor") /\ Keep
Skipped == Turn /\ Pre.action = "skip" /\ mon' = Pre.mon /\ GoTo(After(im, emu.pc)) /\ Keep

Return ==
  /\ Runs1 /\ Insn.kind = "ret"
  /\ emu' = [emu EXCEPT !.cleanup = Insn.pops, !.end = "returned"]
  /\ mon' = Pre.mon /\ Keep

\* A call whose target is known: the monitor first, then the stub.
StepOverCall ==
  /\ Runs1 /\ Insn.kind = "call"
  /\ \E t \in CallTarget :
       LET recorded == [emu EXCEPT !.calls = Append(@, <<emu.pc, t>>)]
           after == After(im, emu.pc)
       IN  /\ mon' = Called(t).mon
           /\ CASE Called(t).action = "stop" -> Finish("monitor")
                [] Called(t).action = "skip" -> GoTo(after)
                [] StubAction(NameOf(t)) = "stop" -> emu' = [recorded EXCEPT !.end = "stub"]
                [] OTHER -> emu' = Past(recorded, after)
  /\ Keep

\* Mutant: a branch that goes nowhere known is passed over.
BranchOrPass ==
  /\ Runs1 /\ Insn.kind \in {"jmp", "jcc"}
  /\ LET known == {t \in Direct(Insn) : IsValidPointer(im, t)}
     IN  \/ \E t \in known : GoTo(t)
         \/ known = {} /\ GoTo(After(im, emu.pc))
  /\ mon' = Pre.mon /\ Keep

Branch ==
  /\ Runs1 /\ Insn.kind \in {"jmp", "jcc"}
  /\ LET known == {t \in Direct(Insn) : IsValidPointer(im, t)}
     IN  \/ \E t \in known : GoTo(t)
         \/ known = {} /\ Finish("lost")
  /\ mon' = Pre.mon /\ Keep

\* Anything else, a call through a pointer too: nothing is called or recorded.
Advance ==
  /\ Runs1
  /\ Insn.kind = "plain" \/ (Insn.kind = "call" /\ CallTarget = {})
  /\ GoTo(After(im, emu.pc))
  /\ mon' = Pre.mon /\ Keep

EmuNext ==
  \/ Next /\ UNCHANGED emuVars
  \/ \E f \in Elements(w.funcs) : RunFunction(f)
  \/ OutOfInsns \/ NotDecoded \/ Stopped \/ Skipped \/ Return \/ StepOverCall \/ Branch \/ Advance

EmuSpec == EmuInit /\ [][EmuNext]_<<vars, emuVars>>

----------------------------------------------------------------------------
(***************************************************************************)
(* Emulation and analysis read the same code in their own ways.  An        *)
(* emulation that starts in code which the passes located, and whose       *)
(* monitor skips nothing, stays in located code until it steps over a call *)
(* that the passes know not to return.  Each target that it records for a  *)
(* call until then is a function, or begins with a call through an import, *)
(* unless it is no address.                                                *)
(***************************************************************************)
EmulationInCode ==
  /\ emu # None /\ mon.kind # "own" /\ TypeAt(w, emu.func) = "Op"
  /\ \A a \in emu.past : ~NeverReturns(w, im.insn[a])
  =>
    /\ Decodes(im, emu.pc) => TypeAt(w, emu.pc) = "Op"
    /\ \A i \in DOMAIN emu.calls : Callable(emu.calls[i][2])
=============================================================================
