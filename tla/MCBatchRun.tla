----------------------------- MODULE MCBatchRun -----------------------------
(* Two callers of the engine that are alike. *)
EXTENDS BatchRun, TLC

CallerSymmetry == Permutations(Callers)
=============================================================================
