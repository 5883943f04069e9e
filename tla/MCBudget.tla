---------------------------- MODULE MCBudget -----------------------------
(* The budget for TLC: its workers are alike.                               *)
EXTENDS Budget, TLC

WorkerSymmetry == Permutations(Workers)

==========================================================================
