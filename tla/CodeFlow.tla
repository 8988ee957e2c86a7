------------------------------ MODULE CodeFlow ------------------------------
(***************************************************************************)
(* CodeFlowAnalyzer of analysis/codeflow.rs, and the four callers that     *)
(* create one, give it entry points, run it and turn what it discovered    *)
(* into functions (CodeFlowAnalysis, PrologueScanAnalysis,                 *)
(* scan_function_entries, analyze_import_calls).  One action is one turn   *)
(* of the worklist loop.  Every run starts from empty sets of its own, but *)
(* reads and writes the cross-references of the runs before it.            *)
(***************************************************************************)
EXTENDS Program, FiniteSets

CONSTANTS
  Programs,   \* the programs analysed: a subset of [VA -> Insn]
  Queues,     \* what callers pass to add_entry_point, in order
  Caps,       \* the values of max_instructions
  Given,      \* functions that loaders and earlier modules created
  NoReturns,  \* addresses another module may find not to return
  MaxRuns     \* bound: analyzers created in a behaviour

ASSUME CodeFlowAssumption ==
  /\ Programs \subseteq [VA -> Insn]
  /\ Queues \subseteq Seq(VA)
  /\ Caps \subseteq Nat
  /\ Given \subseteq VA /\ NoReturns \subseteq VA /\ MaxRuns \in Nat
  /\ \A p \in Programs, va \in VA :
       /\ p[va].table # <<>> => p[va].kind = "jmp" /\ p[va].target = None
       /\ p[va].kind = "jcc" => p[va].target # None /\ ~p[va].deref  \* as in x86

VARIABLES
  prog,         \* the memory image
  functions,    \* workspace.functions
  noreturn,     \* workspace.noreturn_vas
  xrefs,        \* workspace.xrefs
  ops,          \* addresses with a location of type Op
  running,      \* an analyzer is in its loop
  pending,      \* analyzer.pending
  visited,      \* analyzer.visited
  procs,        \* analyzer.functions
  blockStarts,  \* analyzer.block_starts
  discovered,   \* functions_discovered
  count, cap,   \* instruction_count and max_instructions
  runs,         \* analyzers created so far
  entries,      \* history: the entry points of every run
  cut           \* history: some run reached its cap

wsVars == <<prog, functions, noreturn, xrefs, ops>>
runVars == <<running, pending, visited, procs, blockStarts, discovered, count, cap>>
vars == <<wsVars, runVars, runs, entries, cut>>

Elements(q) == {q[i] : i \in DOMAIN q}
XRef == [from : VA, to : VA, type : {"code", "data"}]
XRefs(va, S, type) == {[from |-> va, to |-> t, type |-> type] : t \in S}

TypeOK ==
  /\ prog \in Programs
  /\ functions \in SUBSET VA /\ noreturn \in SUBSET VA
  /\ xrefs \in SUBSET XRef
  /\ ops \in SUBSET VA
  /\ running \in BOOLEAN
  /\ pending \in Seq(VA)
  /\ visited \in SUBSET VA /\ procs \in SUBSET VA
  /\ blockStarts \in SUBSET Nat
  /\ discovered \in SUBSET VA
  /\ count \in Nat /\ cap \in Nat /\ count <= cap
  /\ runs \in 0 .. MaxRuns
  /\ entries \in SUBSET VA /\ cut \in BOOLEAN

Init ==
  /\ prog \in Programs
  /\ functions = Given /\ noreturn = {} /\ xrefs = {} /\ ops = {}
  /\ running = FALSE /\ pending = <<>>
  /\ visited = {} /\ procs = {} /\ blockStarts = {} /\ discovered = {}
  /\ count = 0 /\ cap = 0
  /\ runs = 0 /\ entries = {} /\ cut = FALSE

----------------------------------------------------------------------------
\* NoReturnAnalysis or init_noreturn_apis, between two runs.
MarkNoReturn(va) ==
  /\ ~running /\ va \notin noreturn
  /\ noreturn' = noreturn \cup {va}
  /\ UNCHANGED <<prog, functions, xrefs, ops, runVars, runs, entries, cut>>

\* CodeFlowAnalyzer::new, add_entry_point for each of q, then analyze().
Begin(q, max) ==
  /\ ~running /\ runs < MaxRuns
  /\ running' = TRUE /\ runs' = runs + 1
  /\ pending' = q
  /\ procs' = Elements(q) /\ blockStarts' = Elements(q)
  /\ visited' = {} /\ discovered' = {}
  /\ count' = 0 /\ cap' = max
  /\ entries' = entries \cup Elements(q)
  /\ UNCHANGED <<wsVars, cut>>

UnderCap == count < cap

\* The loop pops an address it visited, or cannot read or decode.
Passed(va) == va \in visited \/ (UnderCap /\ ~prog[va].decodes)

\* Mutant: an address that does not decode yet is tried again later.
SkipRetries ==
  /\ running /\ pending # <<>> /\ Passed(Head(pending))
  /\ pending' = IF Head(pending) \in visited THEN Tail(pending)
                ELSE Append(Tail(pending), Head(pending))
  /\ UNCHANGED <<wsVars, running, visited, procs, blockStarts, discovered, count, cap,
                 runs, entries, cut>>

Skip ==
  /\ running /\ pending # <<>> /\ Passed(Head(pending))
  /\ pending' = Tail(pending)
  /\ UNCHANGED <<wsVars, running, visited, procs, blockStarts, discovered, count, cap,
                 runs, entries, cut>>

----------------------------------------------------------------------------
(***************************************************************************)
(* The effect of decoding va.  Targets of calls, jumps and table entries   *)
(* go to the back of the worklist (a call target twice: as a function and  *)
(* as a block), the fall-through to the front.                             *)
(***************************************************************************)
\* Mutant: a call through a pointer is thought to return.
SuppressedDirectOnly(i) == i.kind = "call" /\ Direct(i) \cap noreturn # {}

Suppressed(i) == NeverReturns(i, noreturn)

FallThrough(va, seen) ==
  LET i == prog[va]
      next == va + i.size
  IN  IF Falls(i) /\ ~Suppressed(i) /\ next \in Mapped \ seen THEN <<next>> ELSE <<>>

Targets(va, seen) ==
  LET i == prog[va] IN
  IF Direct(i) \cap (Mapped \ seen) = {} THEN <<>>
  ELSE IF i.kind = "call" THEN <<i.target, i.target>> ELSE <<i.target>>

Referenced(va) == \E x \in xrefs : x.from = va

\* Mutant: the last entry of a table is not read.
TableShort(va) ==
  IF Referenced(va) \/ prog[va].table = <<>> THEN <<>>
  ELSE SubSeq(prog[va].table, 1, Len(prog[va].table) - 1)

\* A table is read only for a jump that has no cross-reference yet.
Table(va) == IF Referenced(va) THEN <<>> ELSE prog[va].table

\* The entries of q outside seen, in order (SelectSeq, without its recursion).
Nth(S, j) == CHOOSE k \in S : Cardinality({l \in S : l <= k}) = j
Outside(q, seen) ==
  LET kept == {k \in DOMAIN q : q[k] \notin seen}
  IN  [j \in 1 .. Cardinality(kept) |-> q[Nth(kept, j)]]

NewProcs(i) == IF i.kind = "call" THEN (Direct(i) \cap Mapped) \ procs ELSE {}

NewBlocks(va) ==
  LET i == prog[va] IN
  (Direct(i) \cap Mapped) \cup Elements(Table(va))
    \cup (IF i.kind = "jcc" THEN {va + i.size} ELSE {})

\* Operands of instructions that transfer control are not looked at.
DataRefs(i) ==
  IF i.kind \in {"jmp", "jcc", "call"} THEN {}
  ELSE (i.refs \cap Mapped) \ (procs \cup blockStarts)

Decode ==
  /\ running /\ pending # <<>>
  /\ LET va == Head(pending)
         i == prog[va]
         seen == visited \cup {va}
     IN  /\ va \notin visited /\ UnderCap /\ i.decodes
         /\ visited' = seen /\ count' = count + 1
         /\ ops' = ops \cup {va}
         /\ xrefs' = xrefs \cup XRefs(va, Named(i) \cup Elements(Table(va)), "code")
                           \cup XRefs(va, DataRefs(i), "data")
         /\ procs' = procs \cup NewProcs(i)
         /\ discovered' = discovered \cup NewProcs(i)
         /\ blockStarts' = blockStarts \cup NewBlocks(va)
         /\ pending' = FallThrough(va, seen) \o Tail(pending) \o Targets(va, seen)
                         \o Outside(Table(va), seen)
  /\ UNCHANGED <<prog, functions, noreturn, running, cap, runs, entries, cut>>

----------------------------------------------------------------------------
\* Mutant: what a truncated run discovered is thrown away.
CapReachedForgets ==
  /\ running /\ pending # <<>> /\ Head(pending) \notin visited /\ ~UnderCap
  /\ running' = FALSE /\ pending' = <<>>
  /\ cut' = TRUE
  /\ UNCHANGED <<wsVars, visited, procs, blockStarts, discovered, count, cap, runs, entries>>

\* The cap is looked at after the pop; the rest of the worklist is dropped
\* with the analyzer, and the caller adds the functions it discovered.
CapReached ==
  /\ running /\ pending # <<>> /\ Head(pending) \notin visited /\ ~UnderCap
  /\ running' = FALSE /\ pending' = <<>>
  /\ functions' = functions \cup discovered
  /\ cut' = TRUE
  /\ UNCHANGED <<prog, noreturn, xrefs, ops, visited, procs, blockStarts, discovered, count, cap,
                 runs, entries>>

WorklistEmpty ==
  /\ running /\ pending = <<>>
  /\ running' = FALSE
  /\ functions' = functions \cup discovered
  /\ UNCHANGED <<prog, noreturn, xrefs, ops, pending, visited, procs, blockStarts, discovered,
                 count, cap, runs, entries, cut>>

Step == Skip \/ Decode \/ CapReached \/ WorklistEmpty

\* Every run the behaviour has room for is over.
Finished == ~running /\ runs = MaxRuns /\ UNCHANGED vars

Next ==
  \/ Step
  \/ \E q \in Queues, max \in Caps : Begin(q, max)
  \/ \E va \in NoReturns : MarkNoReturn(va)
  \/ Finished

Spec == Init /\ [][Next]_vars

\* analyze() is a sequential call: the loop goes on.
FairSpec == Spec /\ WF_vars(Step)

----------------------------------------------------------------------------
\* Where control goes from va, as far as the analyzer can know.
Flow(va) ==
  LET i == prog[va]
      next == IF Falls(i) /\ ~NeverReturns(i, noreturn) THEN {va + i.size} ELSE {}
  IN  ((Direct(i) \cup next) \cap Mapped) \cup Elements(i.table)

(***************************************************************************)
(* Nothing is taken for code that control cannot reach from the entry      *)
(* points of the run: what a run visits, or will, is in every set that     *)
(* holds its entry points and is closed under flow.                        *)
(***************************************************************************)
Roots == procs \ discovered
ClosedUnderFlow(S) == \A va \in S : Flow(va) \subseteq S
VisitedReachable ==
  running => \A S \in SUBSET VA :
    (Roots \subseteq S /\ ClosedUnderFlow(S)) => visited \cup Elements(pending) \subseteq S

(***************************************************************************)
(* If no run hit its cap, every instruction that control can reach from a  *)
(* located one is located, jump tables included.  A later run does not     *)
(* follow a table again, since the first one left cross-references, so     *)
(* this rests on the first run having followed them to the end.            *)
(***************************************************************************)
FlowClosed ==
  (~running /\ ~cut) =>
    \A va \in ops : \A t \in Flow(va) : prog[t].decodes => t \in ops

(***************************************************************************)
(* Between runs, the target of every direct call that was decoded is a     *)
(* function, even if the run was cut short: only an address that some      *)
(* caller had passed as an entry point may be missing.                     *)
(***************************************************************************)
CallTargetsAreFunctions ==
  ~running => \A va \in ops :
    prog[va].kind = "call" => Direct(prog[va]) \cap Mapped \subseteq functions \cup entries

(***************************************************************************)
(* Every run ends, on loops, on overlapping code and on bad addresses.     *)
(***************************************************************************)
RunEnds == running ~> ~running

=============================================================================
