---------------------------- MODULE Documents ----------------------------
(***************************************************************************)
(* The document row's status column, and the three classifications of it   *)
(* that the pipeline's components share: what the reaper must leave alone, *)
(* which stage a stranded document goes back to, and what occupies a       *)
(* tenant's in-flight ceiling.                                             *)
(***************************************************************************)

DocumentStatus ==
    {"received", "parsing", "parsed", "extracting", "extracted", "needs_ocr",
     "approved", "needs_review", "budget_exceeded", "failed"}

\* Statuses a sweeper never touches; _note_failure and _touch_document skip them too.
TERMINAL == {"approved", "needs_review", "needs_ocr", "failed", "extracted"}

\* Where a stranded document goes back to.
RequeueExtract == {"parsed", "extracting", "budget_exceeded"}

\* Mutant: a document stranded while parsing is sent on to extraction.
X_StageOf(s) == IF s \in RequeueExtract \cup {"parsing"} THEN "extract" ELSE "parse"

StageOf(s) == IF s \in RequeueExtract THEN "extract" ELSE "parse"

\* Statuses that count against max_in_flight_per_tenant.
IN_FLIGHT_STATUSES == {"received", "parsing", "parsed", "extracting"}

==========================================================================
