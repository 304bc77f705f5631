------------------------ MODULE MCPrincipalBindings -------------------------
(* Instances of PrincipalBindings for TLC.                                  *)
EXTENDS PrincipalBindings, TLC

CONSTANTS w1, w2

MCWorkers == {w1, w2}
OneWorker == {w1}
WorkerSymmetry == Permutations(MCWorkers)
=============================================================================
