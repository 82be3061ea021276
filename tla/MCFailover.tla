----------------------------- MODULE MCFailover -----------------------------
(* Small instances of Failover for TLC. *)
EXTENDS Failover, TLC

CONSTANTS w1, w2

OneWorker == {w1}
TwoWorkers == {w1, w2}
SomeEngines == {"openai", "unknown"}
OpenAIOnly == {"openai"}
WorkerSymmetry == Permutations(TwoWorkers)
=============================================================================
