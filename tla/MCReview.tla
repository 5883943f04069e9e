---------------------------- MODULE MCReview -----------------------------
(* The review component for TLC.                                            *)
EXTENDS Review, TLC

==========================================================================
