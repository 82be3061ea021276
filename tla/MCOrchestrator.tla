-------------------------- MODULE MCOrchestrator --------------------------
(* Small instances of Orchestrator for TLC. *)
EXTENDS Orchestrator

NoFailures == {{}}
=============================================================================
