---------------------------- MODULE Extraction ---------------------------
(***************************************************************************)
(* One document's extraction, as the worker's handler, the eval harness    *)
(* and the calibration study share it: a call on a tier, which asks the    *)
(* model once more when its answer does not validate, the assessment of    *)
(* what came back, and a second call on a stronger tier when the policy    *)
(* says the first answer is suspect.                                       *)
(* A mode is who asks: "serve" is the worker, "frontier" and "routed" the  *)
(* passes of the eval harness, "build" the study's data set.               *)
(***************************************************************************)
EXTENDS Corruption

CONSTANTS
    Documents, \* documents with a text layer, and without
    Scanned,   \* those without
    Page,      \* what can be traced to each document's text
    Answers,   \* the valid records a model may return for each document
    MockReads, \* the record the mock model reads off each document
    Price      \* what one answered attempt costs on each tier

VARIABLES
    definition, \* the pipeline definition
    model,      \* the fitted confidence model that routes
    work        \* the document in hand

Policy == definition.routing
Escalates == Policy.escalate_to # None /\ Policy.escalate_on # {}

Idle == [stage |-> "idle"]

--------------------------------------------------------------------------
(* A call: run_extraction on one tier.                                     *)

Call(tier, w) == [w EXCEPT !.stage = "calling", !.tier = tier, !.attempt = 1, !.answered = 0]

FirstTier(mode) == IF mode \in {"serve", "routed"} THEN Policy.primary_tier ELSE "frontier"

Begin(doc, mode) ==
    work' = [doc |-> doc, mode |-> mode, stage |-> "calling", tier |-> FirstTier(mode),
             attempt |-> 1, answered |-> 0, outcomes |-> << >>, spend |-> 0]

\* Every attempt that was answered is charged, and one outcome is left.
EndCall(record, attempts, answered) ==
    work' = [work EXCEPT !.outcomes = Append(@, [record |-> record, attempts |-> attempts]),
                         !.spend = @ + answered * Price[work.tier],
                         !.stage = IF work.outcomes = << >> THEN "assessing" ELSE "decided"]

\* The declared fields of what was answered, in their canonical values.
Normalize(record) == [f \in ScoredFields(definition) |-> record[f]]

\* The study is built on the mock model, with errors injected.
Replies(w) ==
    IF w.mode = "build" THEN Corrupted(w.doc, MockReads[w.doc]) ELSE Answers[w.doc]

\* A valid answer.
Answer ==
    /\ work.stage = "calling"
    /\ \E record \in Replies(work) :
          EndCall(Normalize(record), work.attempt, work.answered + 1)

\* Mutant: the correction is asked for again and again.
X_Invalid ==
    /\ work.stage = "calling"
    /\ work' = [work EXCEPT !.attempt = 3 - @, !.answered = 2 - work.attempt]

\* An answer that does not validate is sent back once with its errors.
Invalid ==
    /\ work.stage = "calling"
    /\ IF work.attempt = 1
         THEN work' = [work EXCEPT !.attempt = 2, !.answered = @ + 1]
         ELSE EndCall(None, 2, work.answered + 1)

\* A refusal ends the call, as two attempts.
Refused ==
    /\ work.stage = "calling"
    /\ EndCall(None, 2, work.answered)

\* The provider fails past its retries, or the breaker is open: the exception ends the
\* document, the first answer included.
CallFails ==
    /\ work.stage = "calling"
    /\ work' = [work EXCEPT !.stage = "raised"]

\* The worker's tenant cannot afford the call: the document pauses, or keeps what it has.
OverBudget ==
    /\ work.stage = "calling" /\ work.mode = "serve"
    /\ work.attempt = 1
    /\ work' = [work EXCEPT !.stage = IF work.outcomes = << >> THEN "paused" ELSE "decided"]

--------------------------------------------------------------------------
(* _assess: the deterministic verdicts on an outcome with a record.        *)

Validation(outcome) == EvaluateRules(outcome.record, definition)

Report(outcome, doc) ==
    ScoreExtraction(outcome.record, Validation(outcome), outcome.attempts, Page[doc], definition)

Routing(outcome, doc) == RouteExtraction(Report(outcome, doc).signals, model, definition)

Assessable(outcome, doc) ==
    outcome.record = None \/ Scorable(outcome.record, Page[doc], definition)

\* The most severe reason there is to escalate, or None.
EscalationTrigger(outcome, doc) ==
    LET reasons ==
          IF outcome.record = None THEN <<"extraction_failed">>
          ELSE (IF FALSE \in Range(Validation(outcome)) THEN <<"validation_failed">> ELSE << >>)
                 \o (IF Routing(outcome, doc).decision = "needs_review"
                       THEN <<"needs_review">> ELSE << >>)
        wanted == SelectSeq(reasons, LAMBDA r : r \in Policy.escalate_on)
    IN  IF ~Escalates \/ wanted = << >> THEN None ELSE Head(wanted)

MayEscalate(mode) == mode = "serve" \/ (mode = "routed" /\ Escalates)
Assesses(mode) == MayEscalate(mode) \/ mode = "build"

\* The first outcome is assessed, and escalated or left to stand.
Assess ==
    LET first == work.outcomes[1] IN
    /\ work.stage = "assessing"
    /\ work' = IF Assesses(work.mode) /\ ~Assessable(first, work.doc) THEN [work EXCEPT !.stage = "raised"]
               ELSE IF /\ MayEscalate(work.mode)
                       /\ EscalationTrigger(first, work.doc) # None
                 THEN Call(Policy.escalate_to, work)
               ELSE [work EXCEPT !.stage = "decided"]

\* Mutant: the stronger model has the last word, whatever it says.
X_Kept(w) == w.outcomes[Len(w.outcomes)]

\* The second answer replaces the first only if it has a record.
Kept(w) ==
    IF Len(w.outcomes) = 2 /\ w.outcomes[2].record # None THEN w.outcomes[2] ELSE w.outcomes[1]

Step == Answer \/ Invalid \/ Refused \/ CallFails \/ OverBudget \/ Assess

==========================================================================
