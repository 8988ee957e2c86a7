---------------------------- MODULE NoReturnProofs ----------------------------
(***************************************************************************)
(* Theorems about NoReturn: the no-return propagation over what code flow  *)
(* and the block analysis left, for any program, any number of functions   *)
(* and any order in which a pass looks at them.                            *)
(***************************************************************************)
EXTENDS NoReturn, CodeFlowProofs

----------------------------------------------------------------------------
\* What does not return keeps marking when more is known not to return.
LEMMA RuleMonotone ==
  ASSUME NEW S, NEW T, S \subseteq T, NEW f, NeverComesBack(f, S)
  PROVE  NeverComesBack(f, T)
<1>1. \A va : EndsForGood(va, S) => EndsForGood(va, T)
  BY DEF EndsForGood
<1>2. CASE f \in thunks
  BY <1>2 DEF NeverComesBack
<1>3. CASE f \notin thunks
  <2> DEFINE leaves == {b \in OwnedBy(f) : IsLeaf(b)}
  <2>1. leaves # {} /\ \A b \in leaves : EndsForGood(LastOf(b), S)
    BY <1>3 DEF NeverComesBack
  <2>2. \A b \in leaves : EndsForGood(LastOf(b), T)  BY <1>1, <2>1
  <2>3. QED BY <1>3, <2>1, <2>2 DEF NeverComesBack
<1>4. QED BY <1>2, <1>3

\* The rule reads the no-return set it is given and nothing else that the
\* propagation changes.
LEMMA RuleFrozen ==
  ASSUME UNCHANGED <<prog, xrefs, ops, codeblocks, thunks>>
  PROVE  \A f, S : NeverComesBack(f, S)' <=> NeverComesBack(f, S)
<1>1. /\ AllBlocks' = AllBlocks /\ CodeRefs' = CodeRefs
      /\ \A b : LastOf(b)' = LastOf(b)
  BY DEF AllBlocks, CodeRefs, LastOf
<1>2. /\ Starts' = Starts /\ \A f : OwnedBy(f)' = OwnedBy(f)
      /\ \A A : RefsFrom(A)' = RefsFrom(A)
      /\ \A b : BlockFallsThrough(b)' <=> BlockFallsThrough(b)
  BY <1>1 DEF Starts, OwnedBy, RefsFrom, BlockFallsThrough
<1>3. \A b : BlockSuccessors(b)' = BlockSuccessors(b)
  BY <1>2 DEF BlockSuccessors, TailOf, Bytes
<1>4. \A b : IsLeaf(b)' <=> IsLeaf(b)
  BY <1>2, <1>3 DEF IsLeaf
<1>5. \A va, S : EndsForGood(va, S)' <=> EndsForGood(va, S)
  BY DEF EndsForGood
<1>6. QED BY <1>1, <1>2, <1>4, <1>5 DEF NeverComesBack

(***************************************************************************)
(* The propagation.  Nothing outside the least fixed point is marked, and  *)
(* each function is marked for a reason other than itself; as long as a    *)
(* pass has marked nothing, the rule holds nothing against the functions   *)
(* that the pass has looked at.                                            *)
(***************************************************************************)
Looked == functions \ left

PassInv ==
  stage \in {"pass", "done"} =>
    /\ known \subseteq noreturn /\ noreturn \subseteq known \cup functions
    /\ left \subseteq functions
    /\ \A f \in Marked : NeverComesBack(f, noreturn \ {f})
    /\ \A F \in SUBSET functions :
         ClosedUnderRule(known \cup F) => noreturn \subseteq known \cup F
    /\ ~newly => \A f \in Looked : NeverComesBack(f, noreturn) => f \in noreturn
    /\ stage = "done" => ClosedUnderRule(noreturn)

LEMMA PassInvStep == PassInv /\ [NoReturnNext]_everything => PassInv'
<1> SUFFICES ASSUME PassInv, [NoReturnNext]_everything PROVE PassInv'  OBVIOUS
<1>1. CASE stage' \notin {"pass", "done"}
  BY <1>1 DEF PassInv
<1>2. CASE InitNoReturnApis
  <2>1. /\ stage' = "pass" /\ left' = functions /\ functions' = functions
        /\ known' = noreturn'
    BY <1>2 DEF InitNoReturnApis, Unmarked
  <2>2. QED BY <2>1 DEF PassInv, Looked, Marked
<1>3. ASSUME NEW f \in left, Visit(f) PROVE PassInv'
  <2>1. /\ stage = "pass" /\ stage' = "pass" /\ left' = left \ {f}
        /\ UNCHANGED <<prog, functions, xrefs, ops, codeblocks, thunks, known>>
    BY <1>3 DEF Visit, Unmarked, blockVars
  <2>2. /\ \A g, S : NeverComesBack(g, S)' <=> NeverComesBack(g, S)
        /\ \A S : ClosedUnderRule(S)' <=> ClosedUnderRule(S)
    BY <2>1, RuleFrozen DEF ClosedUnderRule
  <2>3. CASE f \notin noreturn /\ NeverComesBack(f, noreturn)
    <3>1. noreturn' = noreturn \cup {f} /\ newly'
      BY <1>3, <2>3 DEF Visit, Marking
    <3>2. f \in functions  BY <2>1 DEF PassInv
    <3>3. ASSUME NEW F \in SUBSET functions, ClosedUnderRule(known \cup F)
          PROVE  f \in known \cup F
      <4>1. noreturn \subseteq known \cup F  BY <2>1, <3>3 DEF PassInv
      <4>2. NeverComesBack(f, known \cup F)  BY <2>3, <4>1, RuleMonotone
      <4>3. QED BY <3>2, <3>3, <4>2 DEF ClosedUnderRule
    <3>4. ASSUME NEW g \in noreturn' \ known PROVE NeverComesBack(g, noreturn' \ {g})
      <4>1. CASE g = f  BY <2>3, <3>1, <4>1, RuleMonotone
      <4>2. CASE g # f
        <5>1. NeverComesBack(g, noreturn \ {g})  BY <2>1, <3>1, <3>4, <4>2 DEF PassInv, Marked
        <5>2. noreturn \ {g} \subseteq noreturn' \ {g}  BY <3>1
        <5>3. QED BY <5>1, <5>2, RuleMonotone
      <4>3. QED BY <4>1, <4>2
    <3>5. QED BY <2>1, <2>2, <3>1, <3>2, <3>3, <3>4 DEF PassInv, Marked
  <2>4. CASE ~(f \notin noreturn /\ NeverComesBack(f, noreturn))
    <3>1. noreturn' = noreturn /\ (newly' <=> newly)
      BY <1>3, <2>4, Zenon DEF Visit, Marking
    <3>2. \A g \in Looked' : g = f \/ g \in Looked
      BY <2>1 DEF Looked
    <3>3. QED BY <2>1, <2>2, <2>4, <3>1, <3>2 DEF PassInv, Marked
  <2>5. QED BY <2>3, <2>4
<1>4. CASE PassOver
  <2>1. /\ stage = "pass" /\ left = {} /\ UNCHANGED <<thunks, known>>
        /\ UNCHANGED <<noreturn, prog, functions, xrefs, ops, codeblocks>>
    BY <1>4 DEF PassOver, allVars, vars, wsVars, blockVars
  <2>2. /\ \A g, S : NeverComesBack(g, S)' <=> NeverComesBack(g, S)
        /\ \A S : ClosedUnderRule(S)' <=> ClosedUnderRule(S)
    BY <2>1, RuleFrozen DEF ClosedUnderRule
  <2>3. CASE newly
    <3>1. stage' = "pass" /\ left' = functions  BY <1>4, <2>1, <2>3 DEF PassOver
    <3>2. QED BY <2>1, <2>2, <3>1 DEF PassInv, Looked, Marked
  <2>4. CASE ~newly
    <3>1. stage' = "done" /\ UNCHANGED <<left, newly>>  BY <1>4, <2>4 DEF PassOver
    <3>2. ClosedUnderRule(noreturn)
      BY <2>1, <2>4 DEF PassInv, Looked, ClosedUnderRule
    <3>3. QED BY <2>1, <2>2, <3>1, <3>2 DEF PassInv, Looked, Marked
  <2>5. QED BY <2>3, <2>4
<1>5. CASE UNCHANGED everything
  <2>1. UNCHANGED <<stage, left, newly, known, noreturn, functions, prog, xrefs, ops,
                    codeblocks, thunks>>
    BY <1>5 DEF everything, noretVars, allVars, vars, wsVars, blockVars
  <2>2. /\ \A g, S : NeverComesBack(g, S)' <=> NeverComesBack(g, S)
        /\ \A S : ClosedUnderRule(S)' <=> ClosedUnderRule(S)
    BY <2>1, RuleFrozen DEF ClosedUnderRule
  <2>3. QED BY <2>1, <2>2 DEF PassInv, Looked, Marked
<1>6. stage' \in {"pass", "done"} =>
        \/ InitNoReturnApis \/ PassOver \/ UNCHANGED everything
        \/ \E f \in left : Visit(f)
  BY DEF NoReturnNext, AnalyseStep, FunctionDone, ScanThunks, noretVars
<1>7. QED BY <1>1, <1>2, <1>3, <1>4, <1>5, <1>6

(***************************************************************************)
(* Whatever the order in which the passes look at the functions, and       *)
(* whatever cycles of calls there are, what is marked is the least fixed   *)
(* point of the rule.                                                      *)
(***************************************************************************)
THEOREM LeastFixedPoint == NoReturnSpec => []NoReturnLeast
<1>1. NoReturnInit => PassInv  BY DEF NoReturnInit, PassInv
<1>2. PassInv => NoReturnLeast
  <2> SUFFICES ASSUME PassInv, stage \in {"pass", "done"}
               PROVE  noreturn \subseteq Least /\ (stage = "done" => noreturn = Least)
    BY DEF NoReturnLeast
  <2>1. noreturn \subseteq Least  BY DEF PassInv, Least
  <2>2. ASSUME stage = "done" PROVE Least \subseteq noreturn
    <3> DEFINE F == noreturn \cap functions
    <3>1. known \cup F = noreturn  BY DEF PassInv
    <3>2. ClosedUnderRule(known \cup F)  BY <2>2, <3>1 DEF PassInv
    <3>3. \A f \in Least : f \in known \cup F  BY <3>2 DEF Least
    <3>4. QED BY <3>1, <3>3
  <2>3. QED BY <2>1, <2>2
<1>3. QED BY <1>1, <1>2, PassInvStep, PTL DEF NoReturnSpec

----------------------------------------------------------------------------
(***************************************************************************)
(* What the earlier analyses established outlives the propagation: once it *)
(* has begun, the analyses are at rest, and the set of functions that do   *)
(* not return is all that changes.                                         *)
(***************************************************************************)
AtRest == phase = "idle" /\ ~running
Settled == stage # "blocks" => AtRest

Analysed ==
  /\ BlockTypeOK /\ WalkInv /\ OverlapsEndTogether /\ FlowInv
  /\ StoredReferenced /\ StoredWalked /\ RefsNamed

\* The propagation, seen from the analyses before it.
MarksMore ==
  /\ AtRest
  /\ noreturn \subseteq noreturn' /\ noreturn' \subseteq VA
  /\ UNCHANGED <<prog, functions, xrefs, ops, runVars, runs, entries, cut, blockVars>>

LEMMA StepsOfAnalyses ==
  ASSUME BlockTypeOK, Settled, PassInv, [NoReturnNext]_everything
  PROVE  ([BlocksNext]_allVars \/ MarksMore) /\ Settled'
<1>0. functions \subseteq VA /\ noreturn \subseteq VA /\ ExitNames \subseteq VA
  BY NoReturnAssumption DEF BlockTypeOK, TypeOK
<1>1. CASE /\ stage = "blocks" /\ UNCHANGED noretVars
           /\ \/ phase = "idle" /\ Next /\ UNCHANGED blockVars
              \/ \E va \in DataVAs : DefineData(va)
              \/ \E f \in VA : Analyse(f)
              \/ \E s \in todo : Pop(s)
              \/ WalkMeetsData \/ WalkFails \/ WalkGoesOn \/ WalkEndsBlock
  BY <1>1 DEF BlocksNext, BlockStep, Settled, noretVars
<1>2. CASE FunctionDone
  BY <1>2 DEF FunctionDone, BlocksNext, BlockStep, Settled
<1>3. CASE ScanThunks
  BY <1>3 DEF ScanThunks, Settled, AtRest, allVars, blockVars, vars, runVars
<1>4. CASE InitNoReturnApis
  BY <1>0, <1>4 DEF InitNoReturnApis, Marking, Unmarked, MarksMore, Settled, AtRest,
                    blockVars, runVars
<1>5. CASE PassOver \/ UNCHANGED everything
  BY <1>5 DEF PassOver, Settled, AtRest, everything, noretVars, allVars, blockVars, vars, runVars
<1>6. ASSUME NEW f \in left, Visit(f) PROVE MarksMore /\ Settled'
  <2>1. f \in functions  BY <1>6 DEF Visit, PassInv
  <2>2. QED BY <1>0, <1>6, <2>1 DEF Visit, Marking, Unmarked, MarksMore, Settled, AtRest,
                                    blockVars, runVars
<1>7. QED BY <1>1, <1>2, <1>3, <1>4, <1>5, <1>6 DEF NoReturnNext, AnalyseStep

LEMMA MarkingKeeps == Analysed /\ MarksMore => Analysed'
<1> SUFFICES ASSUME Analysed, MarksMore PROVE Analysed'  OBVIOUS
<1> USE DEF MarksMore, AtRest, blockVars, runVars
<1>1. BlockTypeOK'  BY DEF Analysed, BlockTypeOK, TypeOK
<1>2. WalkInv'  BY DEF WalkInv
<1>3. OverlapsEndTogether'  BY DEF Analysed, OverlapsEndTogether
<1>4. StoredReferenced'
  <2>1. UNCHANGED <<codeblocks, xrefs, prog>>  OBVIOUS
  <2>2. ASSUME NEW va \in VA, codeblocks[va] # None
        PROVE  Referred({codeblocks[va]})' \subseteq xrefs
    <3>1. Referred({codeblocks[va]})' = Referred({codeblocks[va]})
      BY <2>1 DEF Referred
    <3>2. QED BY <2>2, <3>1 DEF Analysed, StoredReferenced
  <2>3. QED BY <2>1, <2>2 DEF StoredReferenced
<1>5. \A va : Flow(va)' \subseteq Flow(va)  BY DEF Flow, NeverReturns
<1>6. FlowKept'  BY <1>5 DEF Analysed, FlowInv, FlowKept
<1>7. CallsKept' /\ VisitedReachable'
  BY DEF Analysed, FlowInv, CallsKept, VisitedReachable
<1>8. StoredWalked'  BY StoredShapeFrozen DEF Analysed, StoredWalked
<1>9. RefsNamed'  BY DEF Analysed, RefsNamed, CodeRefs
<1>10. QED BY <1>1, <1>2, <1>3, <1>4, <1>6, <1>7, <1>8, <1>9 DEF Analysed, FlowInv

(***************************************************************************)
(* All that is known of the analyses holds through the three modules, and  *)
(* the propagation starts only when the analyses are at rest.              *)
(***************************************************************************)
THEOREM AnalysesKept == NoReturnSpec => [](Analysed /\ Settled /\ PassInv)
<1>1. NoReturnInit => Analysed /\ Settled /\ PassInv
  <2> SUFFICES ASSUME NoReturnInit PROVE Analysed /\ Settled /\ PassInv  OBVIOUS
  <2>1. BlocksInit /\ Init /\ stage = "blocks"  BY DEF NoReturnInit, BlocksInit
  <2>2. BlockTypeOK  BY <2>1, BlockTypeInit
  <2>3. /\ WalkInv /\ OverlapsEndTogether
        /\ StoredReferenced /\ StoredWalked /\ RefsNamed
    BY <2>1 DEF BlocksInit, Init, WalkInv, OverlapsEndTogether, StoredReferenced, StoredWalked,
                RefsNamed, CodeRefs
  <2>4. FlowInv
    BY <2>1 DEF Init, FlowInv, CallsKept, FlowKept, VisitedReachable
  <2>5. QED BY <2>1, <2>2, <2>3, <2>4 DEF Analysed, Settled, PassInv
<1>2. BlockTypeOK /\ Settled /\ PassInv /\ [NoReturnNext]_everything
        => ([BlocksNext]_allVars \/ MarksMore) /\ Settled'
  BY StepsOfAnalyses
<1>3. Analysed /\ [BlocksNext]_allVars => Analysed'
  <2>1. Analysed /\ [BlocksNext]_allVars
          => BlockTypeOK' /\ WalkInv' /\ FlowInv' /\ StoredReferenced' /\ StoredWalked' /\ RefsNamed'
    BY BlockTypeStep, WalkInvStep, FlowInvStep, StoredReferencedStep, StoredWalkedStep,
       RefsNamedStep DEF Analysed
  <2>2. QED BY <2>1, OverlapsStep DEF Analysed
<1>4. Analysed => BlockTypeOK  BY DEF Analysed
<1> HIDE DEF Analysed
<1>5. QED
  BY <1>1, <1>2, <1>3, <1>4, MarkingKeeps, PassInvStep, PTL DEF NoReturnSpec

(***************************************************************************)
(* The blocks are closed, overlap only to run on together and have their   *)
(* references, code flow is closed and knows its call targets, and the     *)
(* graphs agree, before, during and after the propagation: what it marks   *)
(* takes nothing back.                                                     *)
(***************************************************************************)
THEOREM MarkingDisturbsNothing ==
  NoReturnSpec => [](/\ BlocksClosed /\ OverlapsEndTogether /\ StoredCallsReferenced
                     /\ FlowClosed /\ CallTargetsAreFunctions /\ GraphsAgree)
<1>1. Analysed => /\ BlocksClosed /\ OverlapsEndTogether /\ StoredCallsReferenced
                  /\ FlowClosed /\ CallTargetsAreFunctions /\ GraphsAgree
  <2>1. WalkInv => BlocksClosed  BY WalkedClosed
  <2>2. StoredReferenced => StoredCallsReferenced
    BY DEF StoredReferenced, StoredCallsReferenced
  <2>3. FlowInv => FlowClosed /\ CallTargetsAreFunctions  BY FlowKnown
  <2>4. BlockTypeOK /\ StoredWalked /\ StoredReferenced => GraphsAgree  BY StoredAgree
  <2>5. QED BY <2>1, <2>2, <2>3, <2>4 DEF Analysed
<1>2. QED BY <1>1, AnalysesKept, PTL

----------------------------------------------------------------------------
(***************************************************************************)
(* That a marked function does not return.  MayReturn is the least set     *)
(* closed under the semantics of return, so it is enough to find a closed  *)
(* set that holds no marked function.  It is all code outside Trapped: the *)
(* marked functions, and the instructions in the blocks of those that are  *)
(* no thunks, up to the first call in a block that leads into a block of   *)
(* the same function.  (What follows such a call may return, and is not    *)
(* looked at when a block has no other way out; it is not reached.)        *)
(***************************************************************************)
OwnStarts(f) == {c.start : c \in OwnedBy(f)}
CallsInto(va, starts) == prog[va].kind = "call" /\ Direct(prog[va]) \cap starts # {}

Reaches(b, va, starts) ==
  va \in Elements(b.insns) /\ \A w \in Elements(b.insns) : w < va => ~CallsInto(w, starts)

Kept(f) == {va \in VA : \E b \in OwnedBy(f) : Reaches(b, va, OwnStarts(f))}
Trapped == Marked \cup UNION {Kept(f) : f \in Marked \ thunks}
Free == {va \in Mapped \ known : prog[va].decodes} \ Trapped

Done ==
  /\ Analysed /\ PassInv /\ stage = "done"
  /\ SlotsHoldNoCode /\ \A f \in Marked \ thunks : OwnsItsFlow(f)

\* Where control goes from va, but for the callee of a call.
FlowsTo(va) ==
  (IF prog[va].kind = "call" THEN {} ELSE Direct(prog[va]) \cup Elements(prog[va].table))
    \cup (IF Continues(va) THEN {After(va)} ELSE {})

\* An instruction, by its kind.
LEMMA InsnKinds ==
  ASSUME BlockTypeOK, NEW va \in VA
  PROVE  /\ prog[va] \in Insn /\ prog[va].kind \in Kinds /\ prog[va].target \in VA \cup {None}
         /\ prog[va].table # <<>> => prog[va].kind = "jmp" /\ prog[va].target = None
         /\ prog[va].kind = "jcc" =>
              Direct(prog[va]) = {prog[va].target} /\ Named(prog[va]) = {prog[va].target}
         /\ Direct(prog[va]) \subseteq {prog[va].target} /\ Named(prog[va]) \subseteq {prog[va].target}
         /\ Named(prog[va]) # {} => prog[va].kind \in {"jmp", "jcc", "call"} /\ prog[va].target \in VA
         /\ Direct(prog[va]) # {} => ~prog[va].deref /\ Named(prog[va]) # {}
         /\ ~prog[va].deref => Direct(prog[va]) = Named(prog[va])
<1>1. prog[va] \in Insn /\ prog \in Programs  BY InsnFacts, CodeFlowAssumption DEF BlockTypeOK, TypeOK
<1>2. /\ prog[va].table # <<>> => prog[va].kind = "jmp" /\ prog[va].target = None
      /\ prog[va].kind = "jcc" => prog[va].target # None /\ ~prog[va].deref
  BY <1>1, CodeFlowAssumption
<1>3. prog[va].kind \in Kinds /\ prog[va].target \in VA \cup {None}  BY <1>1 DEF Insn
<1>4. QED BY <1>1, <1>2, <1>3 DEF Direct, Named

LEMMA ReturnsByKind ==
  ASSUME BlockTypeOK, NEW va \in VA, NEW S, ReturnsVia(va, S)
  PROVE  \/ prog[va].kind = "stop" /\ va \notin Traps
         \/ prog[va].kind = "plain" /\ After(va) \in S
         \/ prog[va].kind = "call" /\ CalleeReturns(prog[va], S) /\ After(va) \in S
         \/ prog[va].kind = "jcc" /\ (CalleeReturns(prog[va], S) \/ After(va) \in S)
         \/ prog[va].kind = "jmp" /\ prog[va].table # <<>> /\ Elements(prog[va].table) \cap S # {}
         \/ prog[va].kind = "jmp" /\ prog[va].table = <<>> /\ CalleeReturns(prog[va], S)
<1>1. prog[va].kind \in Kinds  BY InsnKinds
<1>2. QED BY <1>1 DEF ReturnsVia, Kinds

\* The first instruction of a block is reached; so nothing that starts a
\* block of a marked function is free, and nothing marked or known is.
LEMMA StartsTrapped ==
  ASSUME Done
  PROVE  /\ \A t \in noreturn : t \notin Free
         /\ \A f \in Marked \ thunks : \A b \in OwnedBy(f) :
              b.start \notin Free /\ Reaches(b, b.start, OwnStarts(f))
<1>1. noreturn = known \cup Marked  BY DEF Done, PassInv, Marked
<1>2. ASSUME NEW f \in Marked \ thunks, NEW b \in OwnedBy(f)
      PROVE  b.start \notin Free /\ Reaches(b, b.start, OwnStarts(f))
  <2>1. /\ b \in StoredBlock /\ StoredShape(b) /\ Elements(b.insns) \subseteq VA
    BY BlockOf DEF OwnedBy, Done, Analysed
  <2>2. /\ b.start \in Elements(b.insns) /\ \A w \in Elements(b.insns) : b.start <= w
        /\ b.start \in VA /\ VA \subseteq Nat
    BY <2>1, ProgramAssumption DEF StoredShape, StoredBlock
  <2>3. ASSUME NEW w \in Elements(b.insns) PROVE ~(w < b.start)
    <3>1. w \in Nat /\ b.start \in Nat /\ b.start <= w  BY <2>1, <2>2
    <3>2. QED BY <3>1
  <2>4. Reaches(b, b.start, OwnStarts(f))  BY <2>2, <2>3 DEF Reaches
  <2>5. b.start \in Trapped  BY <2>2, <2>4 DEF Kept, Trapped
  <2>6. QED BY <2>4, <2>5 DEF Free
<1>3. QED BY <1>1, <1>2 DEF Free, Trapped

LEMMA FlowTrapped ==
  ASSUME Done, NEW f \in Marked \ thunks, NEW b \in OwnedBy(f), NEW t \in FlowsTo(LastOf(b))
  PROVE  t \notin Free
<1>1. Mapped \subseteq VA  BY ProgramAssumption
<1>2. CASE t \notin VA \/ ~prog[t].decodes  BY <1>1, <1>2 DEF Free
<1>3. CASE t \in VA /\ prog[t].decodes
  <2>1. t \in noreturn \/ \E c \in OwnedBy(f) : c.start = t
    BY <1>3 DEF Done, OwnsItsFlow, FlowsTo
  <2>2. QED BY <2>1, StartsTrapped
<1>4. QED BY <1>2, <1>3

\* A callee that is known not to return, or was found not to.
LEMMA CalleeTrapped ==
  ASSUME Done, NEW va \in VA, prog[va].target \in noreturn
  PROVE  ~CalleeReturns(prog[va], Free)
<1>1. noreturn \subseteq VA /\ None \notin VA
  BY ProgramAssumption DEF Done, Analysed, BlockTypeOK, TypeOK
<1>2. CASE prog[va].deref
  <2>1. prog[va].target \notin functions  BY <1>2 DEF Done, SlotsHoldNoCode, Slots
  <2>2. prog[va].target \in known  BY <2>1 DEF Done, PassInv
  <2>3. QED BY <1>2, <2>2 DEF CalleeReturns
<1>3. CASE ~prog[va].deref
  BY <1>1, <1>3, StartsTrapped DEF CalleeReturns
<1>4. QED BY <1>2, <1>3

\* A thunk is marked because it names an import that does not return.
LEMMA ThunkTrapped ==
  ASSUME Done, NEW f \in Marked \cap thunks
  PROVE  ~ReturnsVia(f, Free)
<1>1. BlockTypeOK /\ f \in VA /\ NeverComesBack(f, noreturn \ {f})
  BY DEF Done, PassInv, Analysed, Marked, BlockTypeOK, TypeOK
<1>2. PICK t \in RefsFrom({f}) : t \in Imports /\ t \in noreturn
  BY <1>1 DEF NeverComesBack
<1>3. t \in Named(prog[f]) \cup Elements(prog[f].table)
  BY <1>2 DEF RefsFrom, Done, Analysed, RefsNamed
<1>4. t \notin Direct(prog[f]) /\ t \notin Elements(prog[f].table)
  BY <1>1, <1>2 DEF Done, SlotsHoldNoCode, Slots
<1>5. /\ prog[f].target = t /\ prog[f].kind \in {"jmp", "call"} /\ prog[f].table = <<>>
  <2>1. t \in Named(prog[f])  BY <1>3, <1>4
  <2>2. prog[f].target = t /\ prog[f].kind \in {"jmp", "jcc", "call"} /\ t \in VA
    BY <1>1, <2>1, InsnKinds
  <2>3. prog[f].kind # "jcc"  BY <1>1, <1>4, <2>2, InsnKinds
  <2>4. t # None  BY <2>2, ProgramAssumption
  <2>5. prog[f].table = <<>>  BY <1>1, <2>2, <2>4, InsnKinds
  <2>6. QED BY <2>2, <2>3, <2>5
<1>6. ~CalleeReturns(prog[f], Free)  BY <1>1, <1>2, <1>5, CalleeTrapped
<1>7. QED BY <1>1, <1>5, <1>6, ReturnsByKind

\* A block that has another block of its function for a successor, and whose
\* last instruction is reached, gets there from its last instruction.
LEMMA InnerExit ==
  ASSUME Done, NEW f \in Marked \ thunks, NEW b \in OwnedBy(f), ~IsLeaf(b),
         Reaches(b, LastOf(b), OwnStarts(f))
  PROVE  \/ Falls(prog[LastOf(b)])
         \/ \E t \in OwnStarts(f) : t \in Named(prog[LastOf(b)]) \cup Elements(prog[LastOf(b)].table)
<1> DEFINE last == LastOf(b)
<1>1. /\ BlockTypeOK /\ StoredWalked /\ RefsNamed /\ b \in AllBlocks /\ b.func = f
  BY DEF Done, Analysed, OwnedBy
<1>2. /\ StoredShape(b) /\ Elements(b.insns) \subseteq VA /\ last \in Elements(b.insns)
  BY <1>1, BlockOf
<1>3. PICK t \in OwnStarts(f) : t \in BlockSuccessors(b)
  BY <1>1 DEF IsLeaf, OwnStarts
<1>4. CASE BlockFallsThrough(b)
  BY <1>4 DEF BlockFallsThrough
<1>5. CASE ~BlockFallsThrough(b)
  <2>1. PICK x \in CodeRefs : x.from \in TailOf(b) /\ x.to = t
    BY <1>3, <1>5 DEF BlockSuccessors, RefsFrom
  <2>2. x.from \in Elements(b.insns)
    BY <2>1 DEF Done, OwnsItsFlow
  <2>3. t \in Named(prog[x.from]) \cup Elements(prog[x.from].table)
    BY <1>1, <2>1 DEF RefsNamed
  <2>4. CASE x.from = last  BY <2>3, <2>4
  <2>5. CASE x.from # last
    <3> DEFINE w == x.from
    <3>1. w \in VA /\ PassesOn(w)  BY <1>2, <2>2, <2>5 DEF StoredShape
    <3>2. w < last
      <4>1. w \in Nat /\ last \in Nat /\ w < b.end /\ b.end = After(last)
        BY <1>2, <2>2, ProgramAssumption DEF StoredShape
      <4>2. last < w => b.end <= w  BY <1>2, <2>2, <4>1 DEF StoredShape, Apart
      <4>3. b.end \in Nat  BY <1>1, BlockOf DEF StoredBlock
      <4>4. QED BY <2>5, <4>1, <4>2, <4>3
    <3>3. prog[w].kind \notin {"jmp", "stop"} /\ (prog[w].kind = "call" \/ Direct(prog[w]) = {})
      BY <3>1 DEF PassesOn, Falls
    <3>4. Elements(<<>>) = {}  BY DEF Elements
    <3>5. t \in Named(prog[w])  BY <1>1, <2>3, <3>1, <3>3, <3>4, InsnKinds
    <3>6. prog[w].kind = "call" /\ prog[w].target = t  BY <1>1, <3>1, <3>3, <3>5, InsnKinds
    <3>7. ~prog[w].deref
      <4>1. t \in Starts  BY DEF OwnStarts, OwnedBy, Starts
      <4>2. QED BY <3>1, <3>6, <4>1 DEF Done, SlotsHoldNoCode, Slots
    <3>8. t \in Direct(prog[w])  BY <3>5, <3>7 DEF Direct
    <3>9. CallsInto(w, OwnStarts(f))  BY <3>6, <3>8 DEF CallsInto
    <3>10. QED BY <2>2, <3>2, <3>9 DEF Reaches
  <2>6. QED BY <2>4, <2>5
<1>6. QED BY <1>4, <1>5

LEMMA LastTrapped ==
  ASSUME Done, NEW f \in Marked \ thunks, NEW b \in OwnedBy(f),
         Reaches(b, LastOf(b), OwnStarts(f)), LastOf(b) \notin noreturn \ {f}
  PROVE  ~ReturnsVia(LastOf(b), Free)
<1> DEFINE va == LastOf(b)
<1>1. /\ BlockTypeOK /\ StoredWalked /\ b \in AllBlocks /\ NeverComesBack(f, noreturn \ {f})
      /\ None \notin VA
  BY ProgramAssumption DEF Done, Analysed, OwnedBy, PassInv
<1>2. va \in VA  BY <1>1, BlockOf
<1>3. \A t \in FlowsTo(va) : t \notin Free  BY FlowTrapped
<1>4. Continues(va) => After(va) \notin Free  BY <1>3 DEF FlowsTo
<1>5. prog[va].target \in noreturn => ~CalleeReturns(prog[va], Free)
  BY <1>2, CalleeTrapped
<1>6. CASE prog[va].kind = "plain" \/ prog[va].kind = "jcc"
  <2>1. Continues(va)  BY <1>6 DEF Continues, Falls, NeverReturns
  <2>2. CASE prog[va].kind = "plain"  BY <1>1, <1>2, <1>4, <2>1, <2>2, ReturnsByKind
  <2>3. CASE prog[va].kind = "jcc"
    <3>1. Direct(prog[va]) = {prog[va].target}  BY <1>1, <1>2, <2>3, InsnKinds
    <3>2. prog[va].target \notin Free /\ prog[va].target # None /\ ~prog[va].deref
      BY <1>1, <1>2, <1>3, <2>3, <3>1, InsnKinds DEF FlowsTo
    <3>3. ~CalleeReturns(prog[va], Free)  BY <3>2 DEF CalleeReturns
    <3>4. QED BY <1>1, <1>2, <1>4, <2>1, <2>3, <3>3, ReturnsByKind
  <2>4. QED BY <1>6, <2>2, <2>3
<1>7. CASE prog[va].kind = "call"
  <2>1. CASE Continues(va)  BY <1>1, <1>2, <1>4, <1>7, <2>1, ReturnsByKind
  <2>2. CASE ~Continues(va)
    <3>1. Named(prog[va]) \cap noreturn # {}  BY <1>7, <2>2 DEF Continues, Falls, NeverReturns
    <3>2. prog[va].target \in noreturn  BY <1>1, <1>2, <3>1, InsnKinds
    <3>3. QED BY <1>1, <1>2, <1>5, <1>7, <3>2, ReturnsByKind
  <2>3. QED BY <2>1, <2>2
<1>8. CASE prog[va].kind = "jmp" \/ prog[va].kind = "stop"
  <2>1. CASE IsLeaf(b)
    <3>1. EndsForGood(va, noreturn \ {f})  BY <1>1, <2>1 DEF NeverComesBack
    <3>2. CASE prog[va].kind = "jmp"
      <4>1. Named(prog[va]) \cap noreturn # {}  BY <3>1, <3>2 DEF EndsForGood, Branches
      <4>2. prog[va].target \in noreturn /\ prog[va].target # None
        BY <1>1, <1>2, <4>1, InsnKinds
      <4>3. prog[va].table = <<>>  BY <1>1, <1>2, <4>2, InsnKinds
      <4>4. QED BY <1>1, <1>2, <1>5, <3>2, <4>2, <4>3, ReturnsByKind
    <3>3. CASE prog[va].kind = "stop"
      <4>1. va \in Traps  BY <3>1, <3>3 DEF EndsForGood, Branches
      <4>2. QED BY <1>1, <1>2, <3>3, <4>1, ReturnsByKind
    <3>4. QED BY <1>8, <3>2, <3>3
  <2>2. CASE ~IsLeaf(b)
    <3>1. PICK t \in OwnStarts(f) : t \in Named(prog[va]) \cup Elements(prog[va].table)
      BY <1>8, <2>2, InnerExit DEF Falls
    <3>2. Elements(<<>>) = {}  BY DEF Elements
    <3>3. prog[va].kind = "jmp"
      BY <1>1, <1>2, <1>8, <3>1, <3>2, InsnKinds
    <3>4. CASE prog[va].table # <<>>
      <4>1. Elements(prog[va].table) \cap Free = {}  BY <1>3, <3>3 DEF FlowsTo
      <4>2. QED BY <1>1, <1>2, <3>3, <3>4, <4>1, ReturnsByKind
    <3>5. CASE prog[va].table = <<>>
      <4>1. t \in Named(prog[va]) /\ prog[va].target = t /\ t # None
        BY <1>1, <1>2, <3>1, <3>2, <3>5, InsnKinds
      <4>2. t \in Starts  BY DEF OwnStarts, OwnedBy, Starts
      <4>3. ~prog[va].deref  BY <1>2, <4>1, <4>2 DEF Done, SlotsHoldNoCode, Slots
      <4>4. t \in Direct(prog[va])  BY <4>1, <4>3 DEF Direct
      <4>5. t \notin Free  BY <1>3, <3>3, <4>4 DEF FlowsTo
      <4>6. ~CalleeReturns(prog[va], Free)  BY <4>1, <4>3, <4>5 DEF CalleeReturns
      <4>7. QED BY <1>1, <1>2, <3>3, <3>5, <4>6, ReturnsByKind
    <3>6. QED BY <3>4, <3>5
  <2>3. QED BY <2>1, <2>2
<1>9. prog[va].kind \in Kinds  BY <1>1, <1>2, InsnKinds
<1>10. QED BY <1>6, <1>7, <1>8, <1>9 DEF Kinds

LEMMA InsideTrapped ==
  ASSUME Done, NEW f \in Marked \ thunks, NEW b \in OwnedBy(f), NEW va,
         Reaches(b, va, OwnStarts(f)), va # LastOf(b)
  PROVE  ~ReturnsVia(va, Free)
<1> DEFINE next == After(va)
<1>1. BlockTypeOK /\ StoredWalked /\ b \in AllBlocks  BY DEF Done, Analysed, OwnedBy
<1>2. /\ StoredShape(b) /\ Elements(b.insns) \subseteq VA /\ va \in Elements(b.insns)
  BY <1>1, BlockOf DEF Reaches
<1>3. va \in VA /\ PassesOn(va) /\ next \in Elements(b.insns)  BY <1>2 DEF StoredShape
<1>4. ASSUME ~CallsInto(va, OwnStarts(f)) PROVE next \notin Free
  <2>1. ASSUME NEW w \in Elements(b.insns), w < next PROVE ~CallsInto(w, OwnStarts(f))
    <3>1. va < w => next <= w  BY <1>2 DEF StoredShape, Apart
    <3>2. w \in Nat /\ va \in Nat /\ next \in Nat  BY <1>2, <1>3, ProgramAssumption
    <3>3. w < va \/ w = va  BY <2>1, <3>1, <3>2
    <3>4. QED BY <1>4, <3>3 DEF Reaches
  <2>2. next \in Trapped  BY <1>2, <1>3, <2>1 DEF Reaches, Kept, Trapped
  <2>3. QED BY <2>2 DEF Free
<1>5. CASE CallsInto(va, OwnStarts(f))
  <2>1. PICK t \in OwnStarts(f) : t \in Direct(prog[va])  BY <1>5 DEF CallsInto
  <2>2. prog[va].target = t /\ ~prog[va].deref /\ t # None
    BY <1>1, <1>3, <2>1, InsnKinds DEF Direct, Named
  <2>3. t \notin Free  BY StartsTrapped DEF OwnStarts
  <2>4. ~CalleeReturns(prog[va], Free)  BY <2>2, <2>3 DEF CalleeReturns
  <2>5. QED BY <1>1, <1>3, <1>5, <2>4, ReturnsByKind DEF CallsInto
<1>6. CASE ~CallsInto(va, OwnStarts(f))
  <2>1. next \notin Free  BY <1>4, <1>6
  <2>2. prog[va].kind \notin {"stop", "jmp"}  BY <1>3 DEF PassesOn, Falls
  <2>3. prog[va].kind # "jcc"  BY <1>1, <1>3, InsnKinds DEF PassesOn
  <2>4. QED BY <1>1, <1>3, <2>1, <2>2, <2>3, ReturnsByKind
<1>7. QED BY <1>5, <1>6

(***************************************************************************)
(* Whatever the program, if the functions that the analysis marked own     *)
(* their flow and pointers are not code, no function marked can return.    *)
(***************************************************************************)
THEOREM MarkedNeverReturn == NoReturnSpec => []NoReturnSound
<1>1. ASSUME Done PROVE Marked \cap MayReturn = {}
  <2>1. ASSUME NEW va \in Trapped \ known PROVE ~ReturnsVia(va, Free)
    <3>1. CASE va \in Marked \cap thunks
      BY <1>1, <3>1, ThunkTrapped
    <3>2. CASE va \in Marked \ thunks
      <4>1. PICK b \in OwnedBy(va) : b.start = va  BY <1>1, <3>2 DEF Done, OwnsItsFlow
      <4>2. Reaches(b, va, OwnStarts(va))  BY <1>1, <3>2, <4>1, StartsTrapped
      <4>3. QED BY <1>1, <3>2, <4>2, LastTrapped, InsideTrapped
    <3>3. CASE va \notin Marked
      <4>1. PICK f \in Marked \ thunks : va \in Kept(f)  BY <3>3 DEF Trapped
      <4>2. PICK b \in OwnedBy(f) : Reaches(b, va, OwnStarts(f))  BY <4>1 DEF Kept
      <4>3. va \notin noreturn  BY <3>3 DEF Marked
      <4>4. QED BY <1>1, <4>2, <4>3, LastTrapped, InsideTrapped
    <3>4. QED BY <3>1, <3>2, <3>3
  <2>2. ClosedUnderReturn(Free)  BY <2>1 DEF ClosedUnderReturn, Free
  <2>3. MayReturn \subseteq Free  BY <2>2 DEF MayReturn, Free
  <2>4. QED BY <2>3 DEF Free, Trapped
<1>2. Analysed /\ PassInv => NoReturnSound  BY <1>1 DEF Done, NoReturnSound
<1>3. QED BY <1>2, AnalysesKept, PTL

=============================================================================
