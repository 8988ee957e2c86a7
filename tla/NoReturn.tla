------------------------------ MODULE NoReturn ------------------------------
(***************************************************************************)
(* Thunks and functions that do not return: analysis/thunks.rs and         *)
(* analysis/noret.rs, the two workspace modules that run when code flow is *)
(* over and every function has its blocks.  Names are left out: what a     *)
(* name decides is in ExitNames.                                           *)
(***************************************************************************)
EXTENDS CodeQueries

CONSTANTS
  ExitNames,  \* addresses whose import or function has a name in NORETURN_APIS
  Traps       \* addresses at which a "stop" is an exception and not a return

ASSUME NoReturnAssumption == ExitNames \subseteq VA /\ Traps \subseteq VA

VARIABLES
  thunks,  \* functions with "Thunk" in their metadata
  stage,   \* the module that is next
  left,    \* functions the present pass has yet to look at
  newly,   \* newly_marked > 0
  known    \* history: the no-return set when the propagation began

noretVars == <<thunks, stage, left, newly, known>>
everything == <<allVars, noretVars>>

NoReturnInit ==
  /\ BlocksInit
  /\ thunks = {} /\ stage = "blocks" /\ left = {} /\ newly = FALSE /\ known = {}

----------------------------------------------------------------------------
Branches(i) == i.kind \in {"jmp", "jcc", "call"}
ThroughImport(va) ==
  prog[va].decodes /\ Branches(prog[va]) /\ prog[va].deref /\ prog[va].target \in Imports \ ops

\* BasicBlockAnalysis and then ThunkFuncAnalysis of the same function.
FunctionDone ==
  /\ stage = "blocks" /\ Commit
  /\ thunks' = thunks \cup {f \in {func} : ThroughImport(f)}
  /\ UNCHANGED <<stage, left, newly, known>>

(***************************************************************************)
(* scan_thunks: the only block of the function ends in a branch through an *)
(* import, or in one to another known function.  (A pointer that is no     *)
(* import is compared with the functions by its own address.)              *)
(***************************************************************************)
ForwardsTo(f, last) ==
  \/ ThroughImport(last)
  \/ Branches(prog[last]) /\ Named(prog[last]) \cap (functions \ {f}) # {}
IsThunk(f) ==
  \E b \in OwnedBy(f) : OwnedBy(f) = {b} /\ ForwardsTo(f, LastOf(b))

\* The modules run in the order of create_default_orchestrator: code flow is
\* over, and the cascade has analysed all functions.
ScanThunks ==
  /\ stage = "blocks" /\ phase = "idle" /\ ~running
  /\ runs = MaxRuns /\ analysed = functions
  /\ thunks' = thunks \cup {f \in functions : IsThunk(f)}
  /\ stage' = "init"
  /\ UNCHANGED <<allVars, left, newly, known>>

----------------------------------------------------------------------------
Marking(va) == noreturn' = noreturn \cup va
Unmarked == UNCHANGED <<prog, functions, xrefs, ops, runVars, runs, entries, cut, blockVars>>

InitNoReturnApis ==
  /\ stage = "init"
  /\ Marking(ExitNames \cap (functions \cup (Imports \ ops)))
  /\ known' = noreturn'
  /\ stage' = "pass" /\ left' = functions /\ newly' = FALSE
  /\ Unmarked /\ UNCHANGED thunks

\* Mutant: a block is a leaf if it may leave the function.
IsLeafIfLeaving(b) == ~(BlockSuccessors(b) \subseteq {c.start : c \in OwnedBy(b.func)})

IsLeaf(b) == BlockSuccessors(b) \cap {c.start : c \in OwnedBy(b.func)} = {}

\* What the match on the last instruction of a leaf lets pass.  Control that
\* just runs on into the next instruction passes too.
EndsForGood(va, nr) ==
  \/ va \in nr
  \/ Branches(prog[va]) /\ Named(prog[va]) \cap nr # {}
  \/ ~Branches(prog[va]) /\ ~(prog[va].kind = "stop" /\ va \notin Traps)

\* analyze_function_noret: is f to be marked when nr is known?
NeverComesBack(f, nr) ==
  IF f \in thunks THEN RefsFrom({f}) \cap (Imports \ ops) \cap nr # {}
  ELSE LET leaves == {b \in OwnedBy(f) : IsLeaf(b)}
       IN  leaves # {} /\ \A b \in leaves : EndsForGood(LastOf(b), nr)

Visit(f) ==
  /\ stage = "pass" /\ f \in left
  /\ left' = left \ {f}
  /\ LET marks == f \notin noreturn /\ NeverComesBack(f, noreturn)
     IN  /\ Marking(IF marks THEN {f} ELSE {})
         /\ newly' = (newly \/ marks)
  /\ Unmarked /\ UNCHANGED <<thunks, stage, known>>

\* Mutant: one pass is enough.
OnePassOnly ==
  /\ stage = "pass" /\ left = {} /\ stage' = "done"
  /\ UNCHANGED <<allVars, thunks, left, newly, known>>

PassOver ==
  /\ stage = "pass" /\ left = {}
  /\ IF newly THEN left' = functions /\ newly' = FALSE /\ UNCHANGED stage
              ELSE stage' = "done" /\ UNCHANGED <<left, newly>>
  /\ UNCHANGED <<allVars, thunks, known>>

AnalyseStep ==
  \/ /\ stage = "blocks" /\ UNCHANGED noretVars
     /\ \/ \E s \in todo : Pop(s)
        \/ WalkMeetsData \/ WalkFails \/ WalkGoesOn \/ WalkEndsBlock
  \/ FunctionDone
  \/ ScanThunks \/ InitNoReturnApis \/ PassOver
  \/ \E f \in left : Visit(f)

NoReturnNext ==
  \/ /\ stage = "blocks" /\ UNCHANGED noretVars
     /\ \/ phase = "idle" /\ Next /\ UNCHANGED blockVars
        \/ \E va \in DataVAs : DefineData(va)
        \/ \E f \in VA : Analyse(f)
  \/ AnalyseStep
  \/ stage = "done" /\ UNCHANGED everything

NoReturnSpec == NoReturnInit /\ [][NoReturnNext]_everything

\* Modules are sequential calls: what has begun goes on.
NoReturnFairSpec == NoReturnSpec /\ WF_everything(AnalyseStep)

----------------------------------------------------------------------------
\* The rule marks no function outside S; and what is in every such set that
\* contains what was known.
ClosedUnderRule(S) == \A f \in functions : NeverComesBack(f, S) => f \in S
Least ==
  known \cup {f \in functions :
                \A F \in SUBSET functions : ClosedUnderRule(known \cup F) => f \in known \cup F}

(***************************************************************************)
(* Whatever the order in which the passes look at the functions, and       *)
(* whatever cycles of calls there are, the result is the least fixed point *)
(* of the rule: nothing is marked for a reason that depends on itself, and *)
(* no caller is forgotten because it was looked at before its callee.      *)
(***************************************************************************)
NoReturnLeast ==
  stage \in {"pass", "done"} => noreturn \subseteq Least /\ (stage = "done" => noreturn = Least)

(***************************************************************************)
(* Addresses from which the activation running there may return to its     *)
(* caller, given that the functions in known do not.                       *)
(***************************************************************************)
CalleeReturns(i, S) ==
  IF i.target = None \/ i.deref THEN i.target \notin known ELSE i.target \in S
ReturnsVia(va, S) ==
  LET i == prog[va] IN
  CASE i.kind = "stop" -> va \notin Traps
    [] i.kind = "plain" -> After(va) \in S
    [] i.kind = "call" -> CalleeReturns(i, S) /\ After(va) \in S
    [] i.kind = "jcc" -> CalleeReturns(i, S) \/ After(va) \in S
    [] i.kind = "jmp" -> IF i.table # <<>> THEN Elements(i.table) \cap S # {} ELSE CalleeReturns(i, S)
ClosedUnderReturn(S) ==
  \A va \in Mapped \ known : prog[va].decodes /\ ReturnsVia(va, S) => va \in S
MayReturn ==
  {va \in Mapped \ known : \A S \in SUBSET Mapped : ClosedUnderReturn(S) => va \in S}

\* The function owns whatever control reaches from its blocks, and there is
\* no code in them but theirs.
OwnsItsFlow(f) ==
  /\ \E b \in OwnedBy(f) : b.start = f
  /\ \A b \in OwnedBy(f) :
       LET last == LastOf(b)
           jumps == IF prog[last].kind = "call" THEN {}
                    ELSE Direct(prog[last]) \cup Elements(prog[last].table)
           onward == jumps \cup (IF Continues(last) THEN {After(last)} ELSE {})
       IN  /\ \A t \in onward \cap VA :
                prog[t].decodes => t \in noreturn \/ \E c \in OwnedBy(f) : c.start = t
           /\ \A x \in CodeRefs : x.from \in TailOf(b) => x.from \in Elements(b.insns)

\* The pointers that are called or jumped through are not themselves code.
Slots == Imports \cup {prog[va].target : va \in {w \in VA : prog[w].deref}}
SlotsHoldNoCode ==
  /\ Slots \cap (functions \cup Starts) = {}
  /\ \A va \in VA : Slots \cap (Direct(prog[va]) \cup Elements(prog[va].table)) = {}

(***************************************************************************)
(* If the functions marked by the analysis own their flow, and pointers    *)
(* are not code, none of them can return.  (A block that another function  *)
(* took over, or into which the last block runs on, is not looked at: see  *)
(* NoReturnProved.)                                                        *)
(***************************************************************************)
Marked == noreturn \ known
NoReturnSound ==
  stage = "done" /\ SlotsHoldNoCode /\ (\A f \in Marked \ thunks : OwnsItsFlow(f))
    => Marked \cap MayReturn = {}

(***************************************************************************)
(* A function is marked only if it cannot return: the analysis is to       *)
(* "assume return unless we can prove otherwise".                          *)
(***************************************************************************)
NoReturnProved == stage = "done" => Marked \cap MayReturn = {}

=============================================================================
