---------------------------- MODULE MCPipeline ----------------------------
(* Small instances of Pipeline, and of Orchestrator in it, for TLC. *)
EXTENDS Pipeline

\* Everything may fail, or everything but reading the page texts back.
AnyFailures == {FailureKinds, FailureKinds \ {"Aggregate"}}
=============================================================================
