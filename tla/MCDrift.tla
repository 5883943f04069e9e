----------------------------- MODULE MCDrift -----------------------------
(* The drift detector for TLC: three kinds of document, on a scale of 100. *)
EXTENDS Drift, TLC

Shape(confidence, failure, distance) ==
    [doc_confidence |-> confidence, validation_failure |-> failure, text_distance |-> distance]

\* An ordinary document, one that reads well and is worded differently, and one in a
\* changed format that fails its rules and reads badly.
MCShapes == {Shape(90, 0, 10), Shape(85, 0, 60), Shape(30, 100, 60)}

WorkerSymmetry == Permutations(Workers)

==========================================================================
