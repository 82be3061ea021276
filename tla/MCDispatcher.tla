--------------------------- MODULE MCDispatcher ---------------------------
(* Small instances of Dispatcher for TLC. *)
EXTENDS Dispatcher, TLC

CONSTANTS w1, w2, m1, m2, j1

MCJobs == {j1}
MCWorkers == {w1, w2}
OneMover == {m1}
TwoMovers == {m1, m2}
NoFaults == {}
AllFaults == FaultKinds

WorkerSymmetry == Permutations(MCWorkers)
=============================================================================
