------------------------- MODULE DocumentLifecycle -----------------------
(***************************************************************************)
(* What the pipeline promises about one document's status, whatever its    *)
(* queues, threads and sweeps do: which outcome may follow which.          *)
(*                                                                         *)
(* A document leaves a stage forwards only. An outcome that was recorded   *)
(* (approved, needs_ocr, needs_review) stands, except that a human may     *)
(* approve what needs review. "failed" is the one outcome that does not    *)
(* bind: the reaper gives up on a document without asking whether a        *)
(* handler is still working on it, and that handler's answer is kept.      *)
(***************************************************************************)
EXTENDS Documents

CONSTANT Docs

VARIABLES
    status,  \* the documents' statuses
    inReview \* documents with an open review task

Init ==
    /\ status = [d \in Docs |-> "absent"]
    /\ inReview = {}

\* The statuses a document may move to from each status.
Follows ==
    [absent          |-> {"received"},
     received        |-> {"parsing", "failed"},
     parsing         |-> {"parsed", "needs_ocr", "failed"},
     parsed          |-> {"extracting", "failed"},
     extracting      |-> {"approved", "needs_review", "budget_exceeded", "failed"},
     extracted       |-> {},
     budget_exceeded |-> {"extracting"},
     needs_ocr       |-> {},
     needs_review    |-> {},
     approved        |-> {},
     failed          |-> {"parsed", "needs_ocr", "approved", "needs_review",
                          "budget_exceeded"}]

Move(d) ==
    /\ \E s \in Follows[status[d]] : status' = [status EXCEPT ![d] = s]
    /\ UNCHANGED inReview

AskHuman(d) ==
    /\ status[d] = "needs_review"
    /\ d \notin inReview
    /\ inReview' = inReview \cup {d}
    /\ UNCHANGED status

HumanResolves(d) ==
    /\ status[d] = "needs_review"
    /\ d \in inReview
    /\ inReview' = inReview \ {d}
    /\ status' = [status EXCEPT ![d] = "approved"]

Next == \E d \in Docs : Move(d) \/ AskHuman(d) \/ HumanResolves(d)

Spec == Init /\ [][Next]_<<status, inReview>>

==========================================================================
