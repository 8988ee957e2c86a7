--------------------------- MODULE MCOrchestrator ---------------------------
(* Four functions, two modules of each kind, a cap below the functions. *)
EXTENDS Orchestrator
=============================================================================
