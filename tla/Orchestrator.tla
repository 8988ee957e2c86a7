---------------------------- MODULE Orchestrator ----------------------------
(***************************************************************************)
(* AnalysisOrchestrator::analyze and run_func_modules of                   *)
(* analysis/orchestration.rs, with the pending list of VivWorkspace that   *)
(* add_function fills and drain_pending_functions empties.  What a module  *)
(* does is left open: it may ask not to run, and it may create any         *)
(* functions before it returns, whether it returns Ok or Err: both arms    *)
(* only record the outcome in AnalysisResult, which the loops never read.  *)
(* The clock may pass the limit at any moment.                             *)
(***************************************************************************)
EXTENDS Naturals, Sequences, FiniteSets

CONSTANTS
  Funcs,          \* addresses at which a function may be created
  NModules,       \* registered workspace modules
  NFuncModules,   \* registered per-function modules
  MaxFunctions,   \* limits.max_functions
  MaxAnalyses,    \* bound: calls of analyze() in a behaviour
  NoFunc          \* no function is in hand

ASSUME OrchestratorAssumption ==
  /\ NModules \in Nat /\ NFuncModules \in Nat
  /\ MaxFunctions \in Nat /\ MaxAnalyses \in Nat
  /\ NoFunc \notin Funcs

VARIABLES
  functions,   \* keys of workspace.functions
  pending,     \* workspace.pending_functions
  pc,          \* where analyze() is
  mi,          \* the workspace module the loop has come to
  batch,       \* the drained functions that the cascade has not taken yet
  cur,         \* the function in the hands of the per-function modules
  fi,          \* the per-function module the loop has come to
  total,       \* total_funcs
  late,        \* start.elapsed() > limits.timeout
  analyses,    \* calls of analyze() so far
  seen,        \* history: the per-function modules each function was offered to
  fresh        \* history: functions created in this call of analyze()

loopVars == <<mi, batch, cur, fi, total>>
vars == <<functions, pending, pc, loopVars, late, analyses, seen, fresh>>

Places == {"idle", "next", "module", "drain", "batch", "func", "funcmodule", "after"}

TypeOK ==
  /\ functions \in SUBSET Funcs
  /\ pending \in Seq(Funcs) /\ batch \in Seq(Funcs)
  /\ pc \in Places
  /\ mi \in 1 .. NModules + 1
  /\ cur \in Funcs \cup {NoFunc}
  /\ fi \in 1 .. NFuncModules + 1
  /\ total \in 0 .. MaxFunctions + 1
  /\ late \in BOOLEAN
  /\ analyses \in 0 .. MaxAnalyses
  /\ seen \in [Funcs -> Seq(1 .. NFuncModules)]
  /\ fresh \in SUBSET Funcs

Init ==
  /\ functions = {} /\ pending = <<>> /\ batch = <<>>
  /\ pc = "idle" /\ mi = 1 /\ cur = NoFunc /\ fi = 1
  /\ total = 0 /\ late = FALSE /\ analyses = 0
  /\ seen = [f \in Funcs |-> <<>>] /\ fresh = {}

----------------------------------------------------------------------------
\* Mutant: creating a function again queues it again.
AddFunctionAgain(f) ==
  /\ pc \in {"idle", "module", "funcmodule"} /\ Len(pending) < 2
  /\ functions' = functions \cup {f}
  /\ pending' = Append(pending, f)
  /\ fresh' = IF pc = "idle" THEN fresh ELSE fresh \cup {f}
  /\ UNCHANGED <<pc, loopVars, late, analyses, seen>>

(***************************************************************************)
(* VivWorkspace::add_function, called by a loader or a user between        *)
(* analyses and by whatever module is running.  It refuses an address that *)
(* is a function already.                                                  *)
(***************************************************************************)
AddFunction(f) ==
  /\ pc \in {"idle", "module", "funcmodule"} /\ f \notin functions
  /\ functions' = functions \cup {f}
  /\ pending' = Append(pending, f)
  /\ fresh' = IF pc = "idle" THEN fresh ELSE fresh \cup {f}
  /\ UNCHANGED <<pc, loopVars, late, analyses, seen>>

Tick ==
  /\ pc # "idle" /\ ~late
  /\ late' = TRUE
  /\ UNCHANGED <<functions, pending, pc, loopVars, analyses, seen, fresh>>

\* Mutant: what was queued before the analysis stays queued.
BeginKeepsPending ==
  /\ pc = "idle" /\ analyses < MaxAnalyses
  /\ analyses' = analyses + 1
  /\ total' = 0 /\ late' = FALSE /\ mi' = 1 /\ fresh' = {}
  /\ pc' = "next"
  /\ UNCHANGED <<functions, pending, batch, cur, fi, seen>>

\* analyze() sweeps what was queued before it, and starts its clock.
Begin ==
  /\ pc = "idle" /\ analyses < MaxAnalyses
  /\ analyses' = analyses + 1
  /\ pending' = <<>>
  /\ total' = 0 /\ late' = FALSE /\ mi' = 1 /\ fresh' = {}
  /\ pc' = "next"
  /\ UNCHANGED <<functions, batch, cur, fi, seen>>

----------------------------------------------------------------------------
(***************************************************************************)
(* The loop over workspace modules: the end of the list, the timeout and   *)
(* should_run come before the module; the cascade comes after it.          *)
(***************************************************************************)
EndOfModules ==
  /\ pc = "next" /\ (mi > NModules \/ late)
  /\ pc' = "idle"
  /\ UNCHANGED <<functions, pending, loopVars, late, analyses, seen, fresh>>

SkipModule ==
  /\ pc = "next" /\ mi <= NModules /\ ~late
  /\ mi' = mi + 1
  /\ UNCHANGED <<functions, pending, pc, batch, cur, fi, total, late, analyses, seen, fresh>>

RunModule ==
  /\ pc = "next" /\ mi <= NModules /\ ~late
  /\ pc' = "module"
  /\ UNCHANGED <<functions, pending, loopVars, late, analyses, seen, fresh>>

ModuleReturns ==
  /\ pc = "module"
  /\ IF NFuncModules = 0
       THEN pc' = "next" /\ mi' = mi + 1
       ELSE pc' = "drain" /\ UNCHANGED mi
  /\ UNCHANGED <<functions, pending, batch, cur, fi, total, late, analyses, seen, fresh>>

\* Mutant: the analysis goes on after the cascade hit the function cap.
AfterCascadeGoesOn ==
  /\ pc = "after"
  /\ pc' = "next" /\ mi' = mi + 1
  /\ UNCHANGED <<functions, pending, batch, cur, fi, total, late, analyses, seen, fresh>>

\* Mutant: the module whose cascade hit the cap is run again.
AfterCascadeRetries ==
  /\ pc = "after"
  /\ pc' = "next"
  /\ mi' = IF total > MaxFunctions THEN mi ELSE mi + 1
  /\ UNCHANGED <<functions, pending, batch, cur, fi, total, late, analyses, seen, fresh>>

AfterCascade ==
  /\ pc = "after"
  /\ IF total > MaxFunctions
       THEN pc' = "idle" /\ UNCHANGED mi
       ELSE pc' = "next" /\ mi' = mi + 1
  /\ UNCHANGED <<functions, pending, batch, cur, fi, total, late, analyses, seen, fresh>>

----------------------------------------------------------------------------
(***************************************************************************)
(* run_func_modules: drain until nothing is pending; each drained function *)
(* is counted against the cap, then timed, then offered to every           *)
(* per-function module in order.  A limit returns at once, and the rest of *)
(* the drained vector goes with it.                                        *)
(***************************************************************************)
Drain ==
  /\ pc = "drain"
  /\ batch' = pending /\ pending' = <<>>
  /\ pc' = IF pending = <<>> THEN "after" ELSE "batch"
  /\ UNCHANGED <<functions, mi, cur, fi, total, late, analyses, seen, fresh>>

\* Mutant: the count is compared with the cap before it is incremented.
TakeFunctionOverCap ==
  /\ pc = "batch" /\ batch # <<>>
  /\ total' = total + 1
  /\ IF total > MaxFunctions \/ late
       THEN /\ pc' = "after" /\ batch' = <<>>
            /\ UNCHANGED <<cur, fi>>
       ELSE /\ pc' = "func" /\ batch' = Tail(batch)
            /\ cur' = Head(batch) /\ fi' = 1
  /\ UNCHANGED <<functions, pending, mi, late, analyses, seen, fresh>>

TakeFunction ==
  /\ pc = "batch" /\ batch # <<>>
  /\ total' = total + 1
  /\ IF total' > MaxFunctions \/ late
       THEN /\ pc' = "after" /\ batch' = <<>>
            /\ UNCHANGED <<cur, fi>>
       ELSE /\ pc' = "func" /\ batch' = Tail(batch)
            /\ cur' = Head(batch) /\ fi' = 1
  /\ UNCHANGED <<functions, pending, mi, late, analyses, seen, fresh>>

\* Mutant: one drain is taken to be enough.
BatchDoneStops ==
  /\ pc = "batch" /\ batch = <<>>
  /\ pc' = "after"
  /\ UNCHANGED <<functions, pending, loopVars, late, analyses, seen, fresh>>

BatchDone ==
  /\ pc = "batch" /\ batch = <<>>
  /\ pc' = "drain"
  /\ UNCHANGED <<functions, pending, loopVars, late, analyses, seen, fresh>>

\* The next per-function module runs on cur, or should_run declines.
OfferFunction(runs) ==
  /\ pc = "func" /\ fi <= NFuncModules
  /\ seen' = [seen EXCEPT ![cur] = Append(@, fi)]
  /\ fi' = fi + 1
  /\ pc' = IF runs THEN "funcmodule" ELSE "func"
  /\ UNCHANGED <<functions, pending, mi, batch, cur, total, late, analyses, fresh>>

FuncModuleReturns ==
  /\ pc = "funcmodule"
  /\ pc' = "func"
  /\ UNCHANGED <<functions, pending, loopVars, late, analyses, seen, fresh>>

FunctionDone ==
  /\ pc = "func" /\ fi > NFuncModules
  /\ cur' = NoFunc
  /\ pc' = "batch"
  /\ UNCHANGED <<functions, pending, mi, batch, fi, total, late, analyses, seen, fresh>>

----------------------------------------------------------------------------
Step ==
  \/ EndOfModules \/ SkipModule \/ RunModule \/ ModuleReturns \/ AfterCascade
  \/ Drain \/ TakeFunction \/ BatchDone
  \/ \E runs \in BOOLEAN : OfferFunction(runs)
  \/ FuncModuleReturns \/ FunctionDone

\* No analysis runs and none will begin.
Finished ==
  /\ pc = "idle" /\ analyses = MaxAnalyses
  /\ UNCHANGED vars

Next ==
  \/ Begin \/ Tick \/ Step \/ Finished
  \/ \E f \in Funcs : AddFunction(f)

Spec == Init /\ [][Next]_vars

\* analyze() is a sequential call: once begun its steps go on, and a module
\* that was started returns.
FairSpec == Spec /\ WF_vars(Step)

----------------------------------------------------------------------------
Limited == total > MaxFunctions \/ late
InHand == IF pc \in {"func", "funcmodule"} THEN {cur} ELSE {}
Listed(q) == {q[i] : i \in DOMAIN q}
Waiting == Listed(pending) \cup Listed(batch) \cup InHand
Analysed(f) == Len(seen[f]) = NFuncModules

(***************************************************************************)
(* A function meets each per-function module at most once, and in          *)
(* registration order, over any number of analyses: creation queues it     *)
(* once and nothing queues it again.                                       *)
(***************************************************************************)
OfferedOnceInOrder ==
  \A f \in Funcs : seen[f] = [i \in 1 .. Len(seen[f]) |-> i]

(***************************************************************************)
(* Whenever the loop comes to the next workspace module, or returns, with  *)
(* no limit reached, every function created so far in this analysis has    *)
(* been offered to all per-function modules, those created by the cascade  *)
(* itself included ("Repeat drain until no new functions remain").         *)
(***************************************************************************)
CascadeComplete ==
  (pc = "next" /\ NFuncModules > 0 /\ ~Limited) =>
    pending = <<>> /\ \A f \in fresh : Analysed(f)

(***************************************************************************)
(* One analyze() offers at most max_functions functions.                   *)
(***************************************************************************)
Offered == {f \in fresh : seen[f] # <<>>}
CapRespected == Cardinality(Offered) <= MaxFunctions

(***************************************************************************)
(* No workspace module starts once a limit cut a cascade short.            *)
(***************************************************************************)
NoModuleAfterLimit == [][pc' = "module" /\ pc # "module" => ~Limited]_vars

(***************************************************************************)
(* Every call of analyze() returns.                                        *)
(***************************************************************************)
AnalyzeReturns == pc # "idle" ~> pc = "idle"

(***************************************************************************)
(* The refinement: a function waits in the pending list, in the drained    *)
(* vector or in the hands of the modules; it is abandoned if it left       *)
(* without having met them all.                                            *)
(***************************************************************************)
StatusOf(f) ==
  IF f \notin functions THEN "absent"
  ELSE IF f \in Waiting THEN "queued"
  ELSE IF Analysed(f) THEN "analysed"
  ELSE "abandoned"

C == INSTANCE Cascade WITH status <- [f \in Funcs |-> StatusOf(f)],
                           inModule <- pc = "module"
CascadeSpec == C!Spec

=============================================================================
