------------------------------ MODULE Cascade ------------------------------
(***************************************************************************)
(* What AnalysisOrchestrator::analyze promises about functions, with the   *)
(* modules, the loops and the limits left out.  A function is created      *)
(* once; it is then queued for the per-function modules; it leaves the     *)
(* queue once and for all, either analysed by all of them or abandoned.    *)
(* A workspace module starts only when nothing is queued: modules depend   *)
(* on the complete effects of their predecessors.                          *)
(***************************************************************************)
CONSTANT Funcs

VARIABLES
  status,    \* what became of each function
  inModule   \* a workspace module is running

vars == <<status, inModule>>

Statuses == {"absent", "queued", "analysed", "abandoned"}
Queued == {f \in Funcs : status[f] = "queued"}

TypeOK == status \in [Funcs -> Statuses] /\ inModule \in BOOLEAN

Init ==
  /\ status = [f \in Funcs |-> "absent"]
  /\ inModule = FALSE

Create(f) ==
  /\ status[f] = "absent"
  /\ status' = [status EXCEPT ![f] = "queued"]
  /\ UNCHANGED inModule

Analyse(f) ==
  /\ status[f] = "queued" /\ ~inModule
  /\ status' = [status EXCEPT ![f] = "analysed"]
  /\ UNCHANGED inModule

\* A limit was reached, or a new analysis sweeps the queue.
Abandon(S) ==
  /\ S \subseteq Queued /\ ~inModule
  /\ status' = [f \in Funcs |-> IF f \in S THEN "abandoned" ELSE status[f]]
  /\ UNCHANGED inModule

StartModule ==
  /\ ~inModule /\ Queued = {}
  /\ inModule' = TRUE
  /\ UNCHANGED status

EndModule ==
  /\ inModule
  /\ inModule' = FALSE
  /\ UNCHANGED status

Next ==
  \/ \E f \in Funcs : Create(f) \/ Analyse(f)
  \/ \E S \in SUBSET Funcs : Abandon(S)
  \/ StartModule
  \/ EndModule

Spec == Init /\ [][Next]_vars

=============================================================================
