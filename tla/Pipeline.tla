---------------------------- MODULE Pipeline -----------------------------
(***************************************************************************)
(* The document pipeline: uploads, the worker's parse and extract          *)
(* consumer threads, the healing sweeps of the workers and of the API, and *)
(* the human who resolves review tasks, over one tenant's documents and    *)
(* the at-least-once stage queues.                                         *)
(*                                                                         *)
(* Every database transaction, object-store call, model call and queue     *)
(* call of a handler is a step of its own, so all the threads interleave   *)
(* between them. What a model call answers is nondeterministic.            *)
(***************************************************************************)
EXTENDS Documents, Queues, FiniteSets

CONSTANTS
    NoJob,           \* an idle thread's job
    ParseThreads,    \* consumer threads on the parse queue, one per worker task
    ExtractThreads,  \* consumer threads on the extract queue, one per worker task
    Healers,         \* healing threads, one per worker task
    ApiSweepers,     \* the API's reaper thread
    ShortDocs,       \* documents with no text layer
    MaxInFlight,     \* settings.max_in_flight_per_tenant; 0 switches the ceiling off
    MaxReap,         \* settings.max_reap_attempts
    MaxTasks,        \* bound on the open review tasks of one document
    Crashes,         \* processes may die between two steps
    StageErrors,     \* calls of a handler or sweep may raise
    DbErrors,        \* the best-effort writes of _record_failure and friends may be lost
    ProviderOutages, \* an extract thread may find the circuit open
    LateDelivery,    \* a visibility timeout may run out under a running handler
    Backlog,         \* a document may go stale while its message is still queued
    Retention        \* a DLQ's retention period may run out

ASSUME PipelineAssumption ==
    /\ ParseThreads \cap ExtractThreads = {}
    /\ Healers \cap ApiSweepers = {}
    /\ ShortDocs \subseteq Docs
    /\ MaxInFlight \in Nat /\ MaxReap \in Nat /\ MaxTasks \in Nat
    /\ {Crashes, StageErrors, DbErrors, ProviderOutages, LateDelivery, Backlog,
      Retention}
         \subseteq BOOLEAN

VARIABLES
    status,     \* documents.status, or "absent" before the row exists
    stale,      \* documents whose updated_at is older than heal_stale_after_seconds
    reapCount,  \* documents.reap_count
    lastError,  \* documents whose last_error is set
    parsedText, \* documents whose extracted text is in the object store
    openTasks,  \* open review tasks per document
    uploading,  \* rows the API has committed and not yet enqueued
    pc, job,    \* per consumer thread: the step it is at, the delivery it holds
    cand,       \* per sweeper: the status each stale document had at its scan
    redriving   \* per healer: the DLQ slot it has copied and not yet deleted

docVars   == <<status, stale, reapCount, lastError>>
sideVars  == <<parsedText, openTasks, uploading>>
sweepVars == <<cand, redriving>>
vars == <<docVars, sideVars, pc, job, sweepVars, msg>>

Threads  == ParseThreads \cup ExtractThreads
Sweepers == Healers \cup ApiSweepers

\* A delivery as the handler sees it: the parsed payload and the receipt handle.
Job == [slot : Msgs, doc : Docs, receives : 1..MaxReceive,
        redrive : 0..MaxRedrive, defer : 0..MaxDefer]

ASSUME NoJobAssumption == NoJob \notin Job

Statuses == DocumentStatus \cup {"absent"}
Pending(d) == status[d] \notin TERMINAL \cup {"absent"}

\* Slots some receipt handle still names; a new message never takes one.
Held == {job[t].slot : t \in {u \in Threads : job[u] # NoJob}}
          \cup {redriving[h] : h \in Healers}

Send(stage, d, redrive, defer, visible) ==
    SendFrom(Held, stage, d, redrive, defer, visible)

\* updated_at carries onupdate=now(): a write that changes the row makes it fresh.
Refresh(D) == stale' = stale \ D

SetStatus(d, s) ==
    /\ status' = [status EXCEPT ![d] = s]
    /\ Refresh(IF s # status[d] THEN {d} ELSE {})

InFlight(d) == {e \in Docs \ {d} : status[e] \in IN_FLIGHT_STATUSES}
Admits(d) == MaxInFlight = 0 \/ Cardinality(InFlight(d)) < MaxInFlight

Init ==
    /\ QueueInit
    /\ status = [d \in Docs |-> "absent"]
    /\ stale = {} /\ lastError = {} /\ parsedText = {} /\ uploading = {}
    /\ reapCount = [d \in Docs |-> 0]
    /\ openTasks = [d \in Docs |-> 0]
    /\ pc = [t \in Threads |-> "idle"]
    /\ job = [t \in Threads |-> NoJob]
    /\ cand = [s \in Sweepers |-> [d \in Docs |-> "none"]]
    /\ redriving = [h \in Healers |-> NoMsg]

--------------------------------------------------------------------------
(* Upload: the row is committed, then the parse message is sent.           *)

UploadInsert(d) ==
    /\ status[d] = "absent"
    /\ status' = [status EXCEPT ![d] = "received"]
    /\ uploading' = uploading \cup {d}
    /\ UNCHANGED <<stale, reapCount, lastError, parsedText, openTasks, pc, job,
                   sweepVars, msg>>

UploadSend(d) ==
    /\ d \in uploading
    /\ uploading' = uploading \ {d}
    /\ \/ Send("parse", d, 0, 0, TRUE)
       \/ (Crashes \/ StageErrors) /\ UNCHANGED msg
    /\ UNCHANGED <<docVars, parsedText, openTasks, pc, job, sweepVars>>

--------------------------------------------------------------------------
(* Consumer.run_once: one message, one handler call, then the delete.      *)

Stage(t) == IF t \in ParseThreads THEN "parse" ELSE "extract"

Receive(t, m) ==
    /\ pc[t] = "idle"
    /\ Deliver(m)
    /\ msg[m].stage = Stage(t)
    /\ pc' = [pc EXCEPT ![t] = "gate"]
    /\ job' = [job EXCEPT ![t] =
                 [slot |-> m, doc |-> msg[m].doc, receives |-> msg[m].receives + 1,
                  redrive |-> msg[m].redrive, defer |-> msg[m].defer]]
    /\ UNCHANGED <<docVars, sideVars, sweepVars>>

At(t, p) == pc[t] = p
Goto(t, p) == pc' = [pc EXCEPT ![t] = p] /\ UNCHANGED job

\* Mutant: the thread goes idle and keeps the delivery it held.
X_Release(t) == Goto(t, "idle")

\* The handler is over and its message is left for redelivery, or is gone.
Release(t) ==
    /\ pc' = [pc EXCEPT ![t] = "idle"]
    /\ job' = [job EXCEPT ![t] = NoJob]

\* The handler returned: delete the message. The delete itself may fail.
Acknowledge(t) ==
    /\ At(t, "ack")
    /\ \/ DeleteByReceipt(job[t].slot, job[t].receives)
       \/ StageErrors /\ UNCHANGED msg
    /\ Release(t)
    /\ UNCHANGED <<docVars, sideVars, sweepVars>>

\* A worker dies; its threads forget what they held and the message reappears later.
Crash(t) ==
    /\ Crashes
    /\ ~At(t, "idle")
    /\ Release(t)
    /\ UNCHANGED <<docVars, sideVars, sweepVars, msg>>

\* An exception. Only fetching the document's bytes or text, and the first model
\* call, are wrapped by _record_failure; every step is wrapped by records_failure.
Raise(t) ==
    /\ StageErrors
    /\ \/ pc[t] \in {"fetch", "call"} /\ Goto(t, "fail")
       \/ pc[t] \in {"gate", "defer", "begin", "ocr", "put", "commit", "send", "call",
                     "pause", "approve", "review", "task", "invalid"} /\ Goto(t, "note")
    /\ UNCHANGED <<docVars, sideVars, sweepVars, msg>>

\* _record_failure(document_id, error, final_attempt), then the exception goes on.
RecordFailure(t) ==
    LET d == job[t].doc IN
    /\ At(t, "fail")
    /\ \/ /\ lastError' = lastError \cup {d}
          /\ Refresh({d})
          /\ status' = [status EXCEPT ![d] =
                          IF job[t].receives >= MaxReceive THEN "failed" ELSE @]
       \/ DbErrors /\ UNCHANGED <<status, stale, lastError>>
    /\ Goto(t, "note")
    /\ UNCHANGED <<reapCount, sideVars, sweepVars, msg>>

\* Mutant: an exception leaves no trace on the row.
X_NoteFailure(t) ==
    /\ At(t, "note")
    /\ Release(t)
    /\ UNCHANGED <<docVars, sideVars, sweepVars, msg>>

\* _note_failure: the cause, on a row that is not terminal. The message stays.
NoteFailure(t) ==
    LET d == job[t].doc IN
    /\ At(t, "note")
    /\ \/ /\ Pending(d)
          /\ lastError' = lastError \cup {d}
          /\ Refresh({d})
       \/ (DbErrors \/ ~Pending(d)) /\ UNCHANGED <<stale, lastError>>
    /\ Release(t)
    /\ UNCHANGED <<status, reapCount, sideVars, sweepVars, msg>>

--------------------------------------------------------------------------
(* The deferral gates in front of both handlers.                           *)

Saturated(t) == ~Admits(job[t].doc) /\ job[t].defer < MaxDefer

\* admits, the one look at the tenant's other documents, says no.
HoldBack(t) ==
    /\ At(t, "gate")
    /\ Saturated(t)
    /\ Goto(t, "defer")
    /\ UNCHANGED <<docVars, sideVars, sweepVars, msg>>

\* Mutant: the deferral is not counted.
X_DeferSaturated(t) ==
    /\ At(t, "defer")
    /\ Send(Stage(t), job[t].doc, job[t].redrive, job[t].defer, FALSE)
    /\ Goto(t, "touch")
    /\ UNCHANGED <<docVars, sideVars, sweepVars>>

\* _defer_if_saturated: re-send with one more deferral counted, then touch, then ack.
DeferSaturated(t) ==
    /\ At(t, "defer")
    /\ Send(Stage(t), job[t].doc, job[t].redrive, job[t].defer + 1, FALSE)
    /\ Goto(t, "touch")
    /\ UNCHANGED <<docVars, sideVars, sweepVars>>

\* _defer_if_provider_down: re-send the payload as it is, with a delay.
DeferProviderDown(t) ==
    /\ ProviderOutages
    /\ t \in ExtractThreads
    /\ At(t, "gate")
    /\ Send(Stage(t), job[t].doc, job[t].redrive, job[t].defer, FALSE)
    /\ Goto(t, "hold")
    /\ UNCHANGED <<docVars, sideVars, sweepVars>>

\* The touch swallows its errors. After it the saturated deferral asks in_flight() for its
\* log line, which may raise: the copy is sent and the original is left as well.
TouchDocument(t) ==
    /\ pc[t] \in {"touch", "hold"}
    /\ \/ Refresh(IF Pending(job[t].doc) THEN {job[t].doc} ELSE {})
       \/ DbErrors /\ UNCHANGED stale
    /\ \/ Goto(t, "ack")
       \/ StageErrors /\ At(t, "touch") /\ Goto(t, "note")
    /\ UNCHANGED <<status, reapCount, lastError, sideVars, sweepVars, msg>>

Admit(t) ==
    /\ At(t, "gate")
    /\ ~Saturated(t)
    /\ Goto(t, "begin")
    /\ UNCHANGED <<docVars, sideVars, sweepVars, msg>>

--------------------------------------------------------------------------
(* handle_parse                                                            *)

\* Mutant: no status guard.
X_ParseBegin(t) ==
    /\ t \in ParseThreads
    /\ At(t, "begin")
    /\ SetStatus(job[t].doc, "parsing")
    /\ Goto(t, "fetch")
    /\ UNCHANGED <<reapCount, lastError, sideVars, sweepVars, msg>>

\* The status guard, under the row lock.
ParseBegin(t) ==
    LET d == job[t].doc IN
    /\ t \in ParseThreads
    /\ At(t, "begin")
    /\ \/ /\ status[d] \in {"received", "parsing"}
          /\ SetStatus(d, "parsing")
          /\ Goto(t, "fetch")
       \/ /\ status[d] \notin {"received", "parsing"}
          /\ UNCHANGED <<status, stale>>
          /\ Goto(t, "ack")
    /\ UNCHANGED <<reapCount, lastError, sideVars, sweepVars, msg>>

\* get_object and extract_pdf_text; a document without text goes to needs_ocr.
ParseFetch(t) ==
    /\ At(t, "fetch")
    /\ Goto(t, IF job[t].doc \in ShortDocs THEN "ocr" ELSE "put")
    /\ UNCHANGED <<docVars, sideVars, sweepVars, msg>>

ParseNeedsOcr(t) ==
    /\ At(t, "ocr")
    /\ SetStatus(job[t].doc, "needs_ocr")
    /\ Goto(t, "ack")
    /\ UNCHANGED <<reapCount, lastError, sideVars, sweepVars, msg>>

ParsePutText(t) ==
    /\ At(t, "put")
    /\ parsedText' = parsedText \cup {job[t].doc}
    /\ Goto(t, "commit")
    /\ UNCHANGED <<docVars, openTasks, uploading, sweepVars, msg>>

\* parsed_at changes too, so the row is always refreshed.
ParseCommit(t) ==
    /\ At(t, "commit")
    /\ status' = [status EXCEPT ![job[t].doc] = "parsed"]
    /\ Refresh({job[t].doc})
    /\ Goto(t, "send")
    /\ UNCHANGED <<reapCount, lastError, sideVars, sweepVars, msg>>

ParseSend(t) ==
    /\ At(t, "send")
    /\ Send("extract", job[t].doc, 0, 0, TRUE)
    /\ Goto(t, "ack")
    /\ UNCHANGED <<docVars, sideVars, sweepVars>>

--------------------------------------------------------------------------
(* handle_extract                                                          *)

ExtractBegin(t) ==
    LET d == job[t].doc IN
    /\ t \in ExtractThreads
    /\ At(t, "begin")
    /\ \/ /\ status[d] \in {"parsed", "extracting", "budget_exceeded"}
          /\ SetStatus(d, "extracting")
          /\ Goto(t, "call")
       \/ /\ status[d] \notin {"parsed", "extracting", "budget_exceeded"}
          /\ UNCHANGED <<status, stale>>
          /\ Goto(t, "ack")
    /\ UNCHANGED <<reapCount, lastError, sideVars, sweepVars, msg>>

\* Text, metered model call, assessment, escalation: the routing decision, an
\* answer no retry made valid, or a refused reservation.
ModelCall(t) ==
    /\ At(t, "call")
    /\ job[t].doc \in parsedText
    /\ \E answer \in {"approve", "review", "invalid", "pause"} : Goto(t, answer)
    /\ UNCHANGED <<docVars, sideVars, sweepVars, msg>>

\* _pause_on_budget
PauseOnBudget(t) ==
    /\ At(t, "pause")
    /\ SetStatus(job[t].doc, "budget_exceeded")
    /\ lastError' = lastError \cup {job[t].doc}
    /\ Goto(t, "ack")
    /\ UNCHANGED <<reapCount, sideVars, sweepVars, msg>>

\* _record_failure(..., final=True) after the raw answer was stored.
InvalidExtraction(t) ==
    /\ At(t, "invalid")
    /\ \/ /\ SetStatus(job[t].doc, "failed")
          /\ lastError' = lastError \cup {job[t].doc}
       \/ DbErrors /\ UNCHANGED <<status, stale, lastError>>
    /\ Goto(t, "ack")
    /\ UNCHANGED <<reapCount, sideVars, sweepVars, msg>>

\* Mutant: routing to review forgets the task.
X_StoreExtraction(t) ==
    /\ \/ At(t, "approve") /\ SetStatus(job[t].doc, "approved")
       \/ At(t, "review") /\ SetStatus(job[t].doc, "needs_review")
    /\ Goto(t, "ack")
    /\ UNCHANGED <<reapCount, lastError, sideVars, sweepVars, msg>>

\* _store_extraction: the row and the routing decision in one transaction ...
StoreExtraction(t) ==
    /\ \/ At(t, "approve") /\ SetStatus(job[t].doc, "approved") /\ Goto(t, "ack")
       \/ At(t, "review") /\ SetStatus(job[t].doc, "needs_review") /\ Goto(t, "task")
    /\ UNCHANGED <<reapCount, lastError, sideVars, sweepVars, msg>>

\* ... and the review task in another.
EnsureReviewTask(t) ==
    /\ At(t, "task")
    /\ openTasks[job[t].doc] < MaxTasks
    /\ openTasks' = [openTasks EXCEPT ![job[t].doc] = @ + 1]
    /\ Goto(t, "ack")
    /\ UNCHANGED <<docVars, parsedText, uploading, sweepVars, msg>>

\* resolve_task: a human closes a task, whatever the document's status.
ResolveTask(d) ==
    /\ openTasks[d] > 0
    /\ openTasks' = [openTasks EXCEPT ![d] = @ - 1]
    /\ SetStatus(d, "approved")
    /\ UNCHANGED <<reapCount, lastError, parsedText, uploading, pc, job, sweepVars, msg>>

--------------------------------------------------------------------------
(* healing.py: a sweep scans, then deals with its candidates one by one.   *)

NoCand == [d \in Docs |-> "none"]
Drop(s, d) == cand' = [cand EXCEPT ![s][d] = "none"]

\* The sweep's one query: documents not terminal whose updated_at is before the cutoff.
\* A healer redrives and reaps in turn, never both at once (heal).
ReapScan(s) ==
    /\ cand[s] = NoCand
    /\ s \in Healers => redriving[s] = NoMsg
    /\ cand' = [cand EXCEPT ![s] =
                  [d \in Docs |-> IF Pending(d) /\ d \in stale THEN status[d] ELSE "none"]]
    /\ UNCHANGED <<docVars, sideVars, pc, job, redriving, msg>>

\* Left alone: a stage the API may not send to, or a budget that is still spent.
ReapSkip(s, d) ==
    /\ \/ cand[s][d] \in RequeueExtract /\ s \in ApiSweepers
       \/ cand[s][d] = "budget_exceeded"
    /\ Drop(s, d)
    /\ UNCHANGED <<docVars, sideVars, pc, job, redriving, msg>>

\* The unclaimed send: the API's sweep, and the poll for budget.
ReapUnclaimed(s, d) ==
    /\ \/ s \in ApiSweepers /\ cand[s][d] \in {"received", "parsing"}
       \/ s \in Healers /\ cand[s][d] = "budget_exceeded"
    /\ Send(StageOf(cand[s][d]), d, 0, 0, TRUE)
    /\ Drop(s, d)
    /\ UNCHANGED <<docVars, sideVars, pc, job, redriving>>

Claimable(s, d) == s \in Healers /\ cand[s][d] \notin {"none", "budget_exceeded"}

\* Mutant: the claim does not check that the row is still as stale as the scan saw it.
X_ReapClaim(s, d) ==
    /\ Claimable(s, d)
    /\ Pending(d)
    /\ reapCount[d] < MaxReap
    /\ reapCount' = [reapCount EXCEPT ![d] = @ + 1]
    /\ Refresh({d})
    /\ Send(StageOf(cand[s][d]), d, 0, 0, TRUE)
    /\ Drop(s, d)
    /\ UNCHANGED <<status, lastError, sideVars, pc, job, redriving>>

\* Mutant: the claim does not count the rescue.
X_UncountedClaim(s, d) ==
    /\ Claimable(s, d)
    /\ Pending(d) /\ d \in stale
    /\ reapCount[d] < MaxReap
    /\ Refresh({d})
    /\ Send(StageOf(cand[s][d]), d, 0, 0, TRUE)
    /\ Drop(s, d)
    /\ UNCHANGED <<status, reapCount, lastError, sideVars, pc, job, redriving>>

\* The conditional UPDATE finds the row as stale as the scan did: one more rescue.
ReapClaim(s, d) ==
    /\ Claimable(s, d)
    /\ Pending(d) /\ d \in stale
    /\ reapCount[d] < MaxReap
    /\ reapCount' = [reapCount EXCEPT ![d] = @ + 1]
    /\ Refresh({d})
    /\ Send(StageOf(cand[s][d]), d, 0, 0, TRUE)
    /\ Drop(s, d)
    /\ UNCHANGED <<status, lastError, sideVars, pc, job, redriving>>

\* One rescue too many. A document a late handler revives is given up on again:
\* counts above MaxReap + 1 behave alike and are kept at that bound.
ReapGiveUp(s, d) ==
    /\ Claimable(s, d)
    /\ Pending(d) /\ d \in stale
    /\ reapCount[d] >= MaxReap
    /\ reapCount' = [reapCount EXCEPT ![d] = MaxReap + 1]
    /\ Refresh({d})
    /\ status' = [status EXCEPT ![d] = "failed"]
    /\ lastError' = lastError \cup {d}
    /\ Drop(s, d)
    /\ UNCHANGED <<sideVars, pc, job, redriving, msg>>

\* Another sweeper, or a handler, wrote the row between the scan and the claim.
ReapRaced(s, d) ==
    /\ Claimable(s, d)
    /\ ~(Pending(d) /\ d \in stale)
    /\ Drop(s, d)
    /\ UNCHANGED <<docVars, sideVars, pc, job, redriving, msg>>

\* A send that raises rolls its claim back and ends the sweep; a worker that dies
\* between the send and the commit leaves the message without the claim.
ReapAborted(s, d) ==
    /\ StageErrors \/ Crashes
    /\ cand[s][d] # "none"
    /\ \/ UNCHANGED msg
       \/ /\ Crashes /\ Claimable(s, d) /\ Pending(d) /\ d \in stale /\ reapCount[d] < MaxReap
          /\ Send(StageOf(cand[s][d]), d, 0, 0, TRUE)
    /\ cand' = [cand EXCEPT ![s] = NoCand]
    /\ UNCHANGED <<docVars, sideVars, pc, job, redriving>>

\* redrive_dlq: the copy goes out first, with one more redrive counted ...
RedriveSend(h, m) ==
    /\ redriving[h] = NoMsg /\ cand[h] = NoCand
    /\ Used(m) /\ msg[m].dead /\ msg[m].visible
    /\ msg[m].redrive < MaxRedrive
    /\ \E n \in Msgs \ Held :
         /\ ~Used(n)
         /\ msg' = [msg EXCEPT
              ![n] = [msg[m] EXCEPT !.dead = FALSE, !.receives = 0, !.redrive = @ + 1],
              ![m].visible = FALSE]
    /\ redriving' = [redriving EXCEPT ![h] = m]
    /\ UNCHANGED <<docVars, sideVars, pc, job, cand>>

\* ... then the dead letter is deleted, unless the healer dies first.
RedriveDelete(h) ==
    /\ redriving[h] # NoMsg
    /\ \/ msg' = [msg EXCEPT ![redriving[h]] = NoMsg]
       \/ (Crashes \/ StageErrors) /\ UNCHANGED msg
    /\ redriving' = [redriving EXCEPT ![h] = NoMsg]
    /\ UNCHANGED <<docVars, sideVars, pc, job, cand>>

--------------------------------------------------------------------------
(* Time and the queue service.                                             *)

BeingHandled(m) == m \in Held

Expire(m) ==
    /\ Reappear(m)
    /\ BeingHandled(m) => LateDelivery
    /\ UNCHANGED <<docVars, sideVars, pc, job, sweepVars>>

ToDeadLetter(m) ==
    /\ DeadLetter(m)
    /\ UNCHANGED <<docVars, sideVars, pc, job, sweepVars>>

\* message_retention_seconds: a dead letter nobody looked at is gone.
Purge(m) ==
    /\ Retention
    /\ Used(m) /\ msg[m].dead /\ msg[m].visible
    /\ msg' = [msg EXCEPT ![m] = NoMsg]
    /\ UNCHANGED <<docVars, sideVars, pc, job, sweepVars>>

\* The document has a message on a stage queue, or is about to.
Queued(d) ==
    \/ d \in uploading
    \/ \E m \in Msgs : Used(m) /\ ~msg[m].dead /\ msg[m].doc = d

\* heal_stale_after_seconds pass without a write. A sweep is shorter than that:
\* its cutoff is fixed at its start, so nothing ages into an open sweep.
Age(d) ==
    /\ Pending(d)
    /\ d \notin stale
    /\ Queued(d) => Backlog
    /\ \A s \in Sweepers : cand[s][d] = "none"
    /\ stale' = stale \cup {d}
    /\ UNCHANGED <<status, reapCount, lastError, sideVars, pc, job, sweepVars, msg>>

--------------------------------------------------------------------------
ThreadStep(t) ==
    \/ Acknowledge(t) \/ RecordFailure(t) \/ NoteFailure(t)
    \/ HoldBack(t) \/ DeferSaturated(t) \/ DeferProviderDown(t) \/ TouchDocument(t) \/ Admit(t)
    \/ ParseBegin(t) \/ ParseFetch(t) \/ ParseNeedsOcr(t) \/ ParsePutText(t)
    \/ ParseCommit(t) \/ ParseSend(t)
    \/ ExtractBegin(t) \/ ModelCall(t) \/ PauseOnBudget(t) \/ InvalidExtraction(t)
    \/ StoreExtraction(t) \/ EnsureReviewTask(t)

SweepStep(s, d) ==
    \/ ReapSkip(s, d) \/ ReapUnclaimed(s, d) \/ ReapClaim(s, d)
    \/ ReapGiveUp(s, d) \/ ReapRaced(s, d)

Next ==
    \/ \E d \in Docs : UploadInsert(d) \/ UploadSend(d) \/ ResolveTask(d) \/ Age(d)
    \/ \E t \in Threads : ThreadStep(t) \/ Raise(t) \/ Crash(t)
    \/ \E t \in Threads, m \in Msgs : Receive(t, m)
    \/ \E s \in Sweepers : ReapScan(s)
    \/ \E s \in Sweepers, d \in Docs : SweepStep(s, d) \/ ReapAborted(s, d)
    \/ \E h \in Healers : RedriveDelete(h) \/ \E m \in Msgs : RedriveSend(h, m)
    \/ \E m \in Msgs : Expire(m) \/ ToDeadLetter(m) \/ Purge(m)

Spec == Init /\ [][Next]_vars

\* Live processes take their next step, SQS delivers what stays visible and lets
\* visibility timeouts and retention periods run out, a row nobody writes ages, and a
\* sweeper that keeps finding a row it can claim claims it in the end.
Fairness ==
    /\ \A d \in Docs : WF_vars(UploadSend(d)) /\ SF_vars(Age(d))
    /\ \A t \in Threads : WF_vars(ThreadStep(t))
    /\ \A m \in Msgs :
         /\ SF_vars(\E t \in Threads : Receive(t, m))
         /\ WF_vars(Expire(m)) /\ WF_vars(ToDeadLetter(m)) /\ WF_vars(Purge(m))
    /\ \A s \in Sweepers : WF_vars(ReapScan(s))
    /\ \A s \in Sweepers, d \in Docs : SF_vars(SweepStep(s, d))
    /\ \A h \in Healers : WF_vars(RedriveDelete(h))

FairSpec == Spec /\ Fairness

--------------------------------------------------------------------------
(* Properties.                                                             *)

ParsePCs   == {"idle", "gate", "defer", "touch", "begin", "fetch", "ocr", "put", "commit",
               "send", "ack", "fail", "note"}
ExtractPCs == {"idle", "gate", "defer", "touch", "hold", "begin", "call", "approve", "review",
               "task", "invalid", "pause", "ack", "fail", "note"}

\* Every variable has its type, and a thread holds a delivery exactly while it is busy, and
\* one with a deferral left while it defers.
TypeOK ==
    /\ QueueTypeOK
    /\ status \in [Docs -> Statuses]
    /\ reapCount \in [Docs -> 0..(MaxReap + 1)]
    /\ stale \subseteq Docs /\ lastError \subseteq Docs
    /\ parsedText \subseteq Docs /\ uploading \subseteq Docs
    /\ openTasks \in [Docs -> 0..MaxTasks]
    /\ pc \in [Threads -> ParsePCs \cup ExtractPCs]
    /\ job \in [Threads -> Job \cup {NoJob}]
    /\ \A t \in ParseThreads : pc[t] \in ParsePCs
    /\ \A t \in ExtractThreads : pc[t] \in ExtractPCs
    /\ \A t \in Threads : (pc[t] = "idle") <=> (job[t] = NoJob)
    /\ \A t \in Threads : pc[t] = "defer" => job[t].defer < MaxDefer
    /\ cand \in [Sweepers -> [Docs -> Statuses \cup {"none"}]]
    /\ redriving \in [Healers -> Msgs \cup {NoMsg}]

\* Parsed text is in the object store before anything can ask for it: before the
\* status says so, before an extract message exists, and whoever sent that message
\* (the parse handler, a deferral, a rescue or a redrive).
TextBeforeExtract ==
    /\ \A d \in Docs :
         status[d] \in RequeueExtract \cup {"approved", "needs_review"} => d \in parsedText
    /\ \A m \in Msgs :
         Used(m) /\ msg[m].stage = "extract" => msg[m].doc \in parsedText

\* At least once: a document in the hands of a stage still has a message on that
\* stage's queue or its DLQ, so losing the worker never loses the work.
InProgressHasMessage ==
    \A d \in Docs : \A s \in {<<"parsing", "parse">>, <<"extracting", "extract">>} :
        status[d] = s[1] => \E m \in Msgs : Used(m) /\ msg[m].doc = d /\ msg[m].stage = s[2]

\* The promise to clients: each document's status moves as DocumentLifecycle says, and
\* a review task is open exactly while the document waits for its human.
Lifecycle == INSTANCE DocumentLifecycle WITH inReview <- {d \in Docs : openTasks[d] > 0}
FollowsLifecycle == Lifecycle!Spec

\* Every document that was accepted is settled in the end: routed, failed, or paused
\* on its tenant's budget; nothing circulates or waits forever.
EveryDocumentSettles ==
    \A d \in Docs :
        status[d] = "received" ~> status[d] \in TERMINAL \cup {"budget_exceeded"}

\* A document waiting for review is in front of a human, or about to be.
NeedsReviewIsQueued ==
    \A d \in Docs : status[d] = "needs_review" =>
        \/ openTasks[d] > 0
        \/ \E t \in ExtractThreads : pc[t] = "task" /\ job[t].doc = d

\* Something of the document is still to be delivered, to be handled or to be swept.
Underway(d) ==
    \/ Queued(d)
    \/ \E m \in Msgs : Used(m) /\ msg[m].doc = d
    \/ \E t \in Threads : job[t] # NoJob /\ job[t].doc = d
    \/ \E s \in Sweepers : cand[s][d] # "none"

\* A crash between the routing and its task is made good by the next delivery: when nothing
\* of the document is left to happen, one waiting for review has a task somebody can take.
ReviewIsAskedFor ==
    \A d \in Docs : status[d] = "needs_review" /\ ~Underway(d) => openTasks[d] > 0

\* Two workers sweeping at once do not both rescue a document: a claimed rescue is
\* for a document with no message on its way to a handler.
RescueOnce ==
    [][\A d \in Docs :
         reapCount'[d] > reapCount[d] /\ status'[d] = status[d] => ~Queued(d)]_vars

\* The reaper gives up only on a document some handler tried and failed.
GiveUpHasReason ==
    [][\A d \in Docs :
         status[d] # "failed" /\ status'[d] = "failed" /\ reapCount'[d] = MaxReap + 1
           => d \in lastError \/ \E t \in Threads : pc[t] = "invalid" /\ job[t].doc = d]_vars

==========================================================================
