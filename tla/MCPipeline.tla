--------------------------- MODULE MCPipeline ----------------------------
(* Instances of Pipeline for TLC: the slots of the pool are interchangeable. *)
EXTENDS Pipeline, TLC

SlotSymmetry == Permutations(Msgs)

==========================================================================
