------------------------- MODULE PipelineProofs --------------------------
(***************************************************************************)
(* Proofs about Pipeline, for any documents, threads, sweepers and bounds: *)
(* types; text before status; that a document a stage works on has a       *)
(* message that outlives the worker, that a document in review is in front *)
(* of a human, that two healing sweeps never rescue one document, that one *)
(* worker implements the lifecycle promised to clients, and that the       *)
(* reaper gives up on no document without a failure on record. A theorem   *)
(* names the failures it excludes; every other failure may happen.         *)
(***************************************************************************)
EXTENDS Pipeline, TLAPS

\* A message sent is a message: the queues keep their type.
LEMMA SendType ==
    ASSUME QueueTypeOK, NEW stage \in Stages, NEW d \in Docs,
           NEW r \in 0..MaxRedrive, NEW f \in 0..MaxDefer, NEW v \in BOOLEAN,
           Send(stage, d, r, f, v)
    PROVE  QueueTypeOK'
  BY QueueAssumption DEF QueueTypeOK, Send, SendFrom, Message

\* A message about a document that carries no counts yet.
LEMMA FreshType ==
    ASSUME QueueTypeOK, NEW stage \in Stages, NEW d \in Docs, Send(stage, d, 0, 0, TRUE)
    PROVE  QueueTypeOK'
  <1>1. 0 \in 0..MaxRedrive /\ 0 \in 0..MaxDefer
    BY QueueAssumption
  <1> QED BY <1>1, SendType

\* Receiving, dead-lettering, reappearing and deleting keep the queues' type.
LEMMA ServiceType ==
    ASSUME QueueTypeOK, NEW m \in Msgs,
           \/ Deliver(m) \/ DeadLetter(m) \/ Reappear(m)
           \/ \E r \in 1..MaxReceive : DeleteByReceipt(m, r)
    PROVE  QueueTypeOK'
  <1> USE QueueAssumption DEF QueueTypeOK, Used
  <1>1. msg[m] \in Message \cup {NoMsg}
    OBVIOUS
  <1>2. CASE Deliver(m)
    <2>1. msg[m] \in Message /\ msg[m].receives < MaxReceive
      BY <1>1, <1>2 DEF Deliver
    <2> DEFINE hidden == [msg[m] EXCEPT !.visible = FALSE]
    <2>2. hidden \in Message /\ hidden.receives = msg[m].receives
      BY <2>1 DEF Message
    <2>3. msg[m].receives + 1 \in 0..MaxReceive
      BY <2>1 DEF Message
    <2>4. [hidden EXCEPT !.receives = msg[m].receives + 1] \in Message
      <3> HIDE DEF hidden
      <3> QED BY <2>2, <2>3 DEF Message
    <2>5. msg' = [msg EXCEPT ![m] = [hidden EXCEPT !.receives = msg[m].receives + 1]]
      BY <1>2, <2>2 DEF Deliver
    <2> QED BY <2>4, <2>5
  <1>3. CASE DeadLetter(m)
    <2>1. [msg[m] EXCEPT !.dead = TRUE] \in Message
      BY <1>1, <1>3 DEF DeadLetter, Message
    <2> QED BY <1>3, <2>1 DEF DeadLetter
  <1>4. CASE Reappear(m)
    <2>1. [msg[m] EXCEPT !.visible = TRUE] \in Message
      BY <1>1, <1>4 DEF Reappear, Message
    <2> QED BY <1>4, <2>1 DEF Reappear
  <1>5. CASE \E r \in 1..MaxReceive : DeleteByReceipt(m, r)
    BY <1>5 DEF DeleteByReceipt
  <1> QED BY <1>2, <1>3, <1>4, <1>5

\* The threads' part of TypeOK, which most steps touch alone.
ThreadsOK ==
    /\ pc \in [Threads -> ParsePCs \cup ExtractPCs]
    /\ job \in [Threads -> Job \cup {NoJob}]
    /\ \A t \in ParseThreads : pc[t] \in ParsePCs
    /\ \A t \in ExtractThreads : pc[t] \in ExtractPCs
    /\ \A t \in Threads : (pc[t] = "idle") <=> (job[t] = NoJob)
    /\ \A t \in Threads : pc[t] = "defer" => job[t].defer < MaxDefer

\* A busy thread moves to another busy step of its own handler.
LEMMA GotoType ==
    ASSUME ThreadsOK, NEW t \in Threads, pc[t] # "idle", NEW p, p # "idle",
           t \in ParseThreads => p \in ParsePCs,
           t \in ExtractThreads => p \in ExtractPCs,
           p = "defer" => job[t].defer < MaxDefer,
           Goto(t, p)
    PROVE  ThreadsOK'
  BY DEF ThreadsOK, Goto, Threads

\* Releasing a delivery keeps the threads' types.
LEMMA ReleaseType ==
    ASSUME ThreadsOK, NEW t \in Threads, Release(t)
    PROVE  ThreadsOK'
  BY DEF ThreadsOK, Release, Threads, ParsePCs, ExtractPCs

\* What a busy thread holds is a delivery.
LEMMA BusyJob ==
    ASSUME ThreadsOK, NEW t \in Threads, pc[t] # "idle"
    PROVE  /\ job[t] \in Job
           /\ job[t].doc \in Docs /\ job[t].slot \in Msgs
           /\ job[t].receives \in 1..MaxReceive
           /\ job[t].redrive \in 0..MaxRedrive /\ job[t].defer \in 0..MaxDefer
  BY DEF ThreadsOK, Job

\* The documents', tasks' and sweepers' part of TypeOK.
RowsOK ==
    /\ status \in [Docs -> Statuses]
    /\ reapCount \in [Docs -> 0..(MaxReap + 1)]
    /\ stale \subseteq Docs /\ lastError \subseteq Docs
    /\ parsedText \subseteq Docs /\ uploading \subseteq Docs
    /\ openTasks \in [Docs -> 0..MaxTasks]
    /\ cand \in [Sweepers -> [Docs -> Statuses \cup {"none"}]]
    /\ redriving \in [Healers -> Msgs \cup {NoMsg}]

LEMMA TypeParts == TypeOK <=> QueueTypeOK /\ ThreadsOK /\ RowsOK
  BY DEF TypeOK, ThreadsOK, RowsOK

LEMMA InitType == Init => TypeOK
  <1> SUFFICES ASSUME Init PROVE TypeOK
    OBVIOUS
  <1>1. QueueTypeOK
    BY DEF Init, QueueInit, QueueTypeOK
  <1>2. ThreadsOK
    BY DEF Init, ThreadsOK, ParsePCs, ExtractPCs, Threads
  <1>3. RowsOK
    BY PipelineAssumption DEF Init, RowsOK, Statuses
  <1> QED BY <1>1, <1>2, <1>3, TypeParts

\* A step of a consumer thread keeps the types.
LEMMA ThreadStepType ==
    ASSUME QueueTypeOK, ThreadsOK, RowsOK, NEW t \in Threads,
           ThreadStep(t) \/ Raise(t) \/ Crash(t) \/ \E m \in Msgs : Receive(t, m)
    PROVE  (QueueTypeOK /\ ThreadsOK /\ RowsOK)'
  <1> USE PipelineAssumption, QueueAssumption
  <1>0. Stage(t) \in Stages /\ (t \in ParseThreads \/ t \in ExtractThreads)
    BY DEF Stage, Stages, Threads
  <1>1. CASE Acknowledge(t)
    <2>1. ThreadsOK'
      BY <1>1, ReleaseType DEF Acknowledge
    <2>2. job[t].slot \in Msgs /\ job[t].receives \in 1..MaxReceive
      BY <1>1, BusyJob DEF Acknowledge, At
    <2>3. QueueTypeOK'
      <3>1. CASE DeleteByReceipt(job[t].slot, job[t].receives)
        BY <2>2, <3>1, ServiceType
      <3>2. CASE UNCHANGED msg
        BY <3>2 DEF QueueTypeOK
      <3> QED BY <1>1, <3>1, <3>2 DEF Acknowledge
    <2> QED BY <1>1, <2>1, <2>3 DEF Acknowledge, RowsOK, docVars, sideVars, sweepVars
  <1>2. CASE RecordFailure(t)
    <2>1. job[t].doc \in Docs /\ pc[t] # "idle"
      BY <1>2, BusyJob DEF RecordFailure, At
    <2>2. ThreadsOK'
      BY <1>2, <2>1, GotoType DEF RecordFailure, ParsePCs, ExtractPCs
    <2>3. RowsOK'
      BY <1>2, <2>1 DEF RecordFailure, RowsOK, Refresh, Statuses, DocumentStatus, sideVars, sweepVars
    <2> QED BY <1>2, <2>2, <2>3 DEF RecordFailure, QueueTypeOK
  <1>3. CASE NoteFailure(t)
    <2>1. job[t].doc \in Docs
      BY <1>3, BusyJob DEF NoteFailure, At
    <2>2. ThreadsOK'
      BY <1>3, ReleaseType DEF NoteFailure
    <2>3. RowsOK'
      BY <1>3, <2>1 DEF NoteFailure, RowsOK, Refresh, sideVars, sweepVars
    <2> QED BY <1>3, <2>2, <2>3 DEF NoteFailure, QueueTypeOK
  <1>4. CASE DeferSaturated(t)
    <2>1. /\ job[t].doc \in Docs /\ job[t].redrive \in 0..MaxRedrive
          /\ job[t].defer + 1 \in 0..MaxDefer /\ pc[t] # "idle"
      BY <1>4, BusyJob DEF DeferSaturated, At, ThreadsOK
    <2>2. QueueTypeOK'
      BY <1>0, <1>4, <2>1, SendType DEF DeferSaturated
    <2>3. ThreadsOK'
      BY <1>4, <2>1, GotoType DEF DeferSaturated, ParsePCs, ExtractPCs
    <2> QED BY <1>4, <2>2, <2>3 DEF DeferSaturated, RowsOK, docVars, sideVars, sweepVars
  <1>5. CASE DeferProviderDown(t)
    <2>1. /\ job[t].doc \in Docs /\ job[t].redrive \in 0..MaxRedrive
          /\ job[t].defer \in 0..MaxDefer /\ pc[t] # "idle"
      BY <1>5, BusyJob DEF DeferProviderDown, At
    <2>2. QueueTypeOK'
      BY <1>0, <1>5, <2>1, SendType DEF DeferProviderDown
    <2>3. ThreadsOK'
      BY <1>5, <2>1, GotoType DEF DeferProviderDown, ParsePCs, ExtractPCs
    <2> QED BY <1>5, <2>2, <2>3 DEF DeferProviderDown, RowsOK, docVars, sideVars, sweepVars
  <1>6. CASE TouchDocument(t)
    <2>1. ThreadsOK'
      BY <1>6, GotoType DEF TouchDocument, At, ParsePCs, ExtractPCs
    <2> QED BY <1>6, <2>1 DEF TouchDocument, Refresh, QueueTypeOK, RowsOK, sideVars, sweepVars
  <1>6a. CASE HoldBack(t)
    <2>1. ThreadsOK'
      BY <1>6a, GotoType DEF HoldBack, Saturated, At, ParsePCs, ExtractPCs
    <2> QED BY <1>6a, <2>1 DEF HoldBack, QueueTypeOK, RowsOK, docVars, sideVars, sweepVars
  <1>7. CASE Admit(t)
    <2>1. ThreadsOK'
      BY <1>7, GotoType DEF Admit, At, ParsePCs, ExtractPCs
    <2> QED BY <1>7, <2>1 DEF Admit, QueueTypeOK, RowsOK, docVars, sideVars, sweepVars
  <1>8. CASE ParseBegin(t)
    <2>1. job[t].doc \in Docs /\ pc[t] # "idle"
      BY <1>8, BusyJob DEF ParseBegin, At
    <2>2. ThreadsOK'
      BY <1>8, <2>1, GotoType DEF ParseBegin, ParsePCs, ExtractPCs
    <2>3. RowsOK'
      BY <1>8, <2>1 DEF ParseBegin, SetStatus, RowsOK, Refresh, Statuses, DocumentStatus, sideVars, sweepVars
    <2> QED BY <1>8, <2>2, <2>3 DEF ParseBegin, QueueTypeOK
  <1>9. CASE ParseFetch(t)
    <2>1. ThreadsOK'
      BY <1>9, GotoType DEF ParseFetch, At, ThreadsOK, ParsePCs, ExtractPCs
    <2> QED BY <1>9, <2>1 DEF ParseFetch, QueueTypeOK, RowsOK, docVars, sideVars, sweepVars
  <1>10. CASE ParseNeedsOcr(t)
    <2>1. job[t].doc \in Docs
      BY <1>10, BusyJob DEF ParseNeedsOcr, At
    <2>2. ThreadsOK'
      BY <1>10, GotoType DEF ParseNeedsOcr, At, ParsePCs, ExtractPCs
    <2>3. RowsOK'
      BY <1>10, <2>1 DEF ParseNeedsOcr, SetStatus, RowsOK, Refresh, Statuses, DocumentStatus, sideVars, sweepVars
    <2> QED BY <1>10, <2>2, <2>3 DEF ParseNeedsOcr, QueueTypeOK
  <1>11. CASE ParsePutText(t)
    <2>1. job[t].doc \in Docs
      BY <1>11, BusyJob DEF ParsePutText, At
    <2>2. ThreadsOK'
      BY <1>11, GotoType DEF ParsePutText, At, ThreadsOK, ParsePCs, ExtractPCs
    <2> QED BY <1>11, <2>1, <2>2 DEF ParsePutText, QueueTypeOK, RowsOK, docVars, sweepVars
  <1>12. CASE ParseCommit(t)
    <2>1. job[t].doc \in Docs
      BY <1>12, BusyJob DEF ParseCommit, At
    <2>2. ThreadsOK'
      BY <1>12, GotoType DEF ParseCommit, At, ThreadsOK, ParsePCs, ExtractPCs
    <2>3. RowsOK'
      BY <1>12, <2>1 DEF ParseCommit, RowsOK, Refresh, Statuses, DocumentStatus, sideVars, sweepVars
    <2> QED BY <1>12, <2>2, <2>3 DEF ParseCommit, QueueTypeOK
  <1>13. CASE ParseSend(t)
    <2>1. job[t].doc \in Docs
      BY <1>13, BusyJob DEF ParseSend, At
    <2>2. QueueTypeOK'
      BY <1>13, <2>1, FreshType DEF ParseSend, Stages
    <2>3. ThreadsOK'
      BY <1>13, GotoType DEF ParseSend, At, ThreadsOK, ParsePCs, ExtractPCs
    <2> QED BY <1>13, <2>2, <2>3 DEF ParseSend, RowsOK, docVars, sideVars, sweepVars
  <1>14. CASE ExtractBegin(t)
    <2>1. job[t].doc \in Docs
      BY <1>14, BusyJob DEF ExtractBegin, At
    <2>2. ThreadsOK'
      BY <1>14, GotoType DEF ExtractBegin, At, ParsePCs, ExtractPCs
    <2>3. RowsOK'
      BY <1>14, <2>1 DEF ExtractBegin, SetStatus, RowsOK, Refresh, Statuses, DocumentStatus, sideVars, sweepVars
    <2> QED BY <1>14, <2>2, <2>3 DEF ExtractBegin, QueueTypeOK
  <1>15. CASE ModelCall(t)
    <2>1. ThreadsOK'
      BY <1>15, GotoType DEF ModelCall, At, ThreadsOK, ParsePCs, ExtractPCs
    <2> QED BY <1>15, <2>1 DEF ModelCall, QueueTypeOK, RowsOK, docVars, sideVars, sweepVars
  <1>16. CASE PauseOnBudget(t)
    <2>1. job[t].doc \in Docs
      BY <1>16, BusyJob DEF PauseOnBudget, At
    <2>2. ThreadsOK'
      BY <1>16, GotoType DEF PauseOnBudget, At, ParsePCs, ExtractPCs
    <2>3. RowsOK'
      BY <1>16, <2>1 DEF PauseOnBudget, SetStatus, RowsOK, Refresh, Statuses, DocumentStatus, sideVars, sweepVars
    <2> QED BY <1>16, <2>2, <2>3 DEF PauseOnBudget, QueueTypeOK
  <1>17. CASE InvalidExtraction(t)
    <2>1. job[t].doc \in Docs
      BY <1>17, BusyJob DEF InvalidExtraction, At
    <2>2. ThreadsOK'
      BY <1>17, GotoType DEF InvalidExtraction, At, ParsePCs, ExtractPCs
    <2>3. RowsOK'
      BY <1>17, <2>1 DEF InvalidExtraction, SetStatus, RowsOK, Refresh, Statuses, DocumentStatus, sideVars, sweepVars
    <2> QED BY <1>17, <2>2, <2>3 DEF InvalidExtraction, QueueTypeOK
  <1>18. CASE StoreExtraction(t)
    <2>1. job[t].doc \in Docs
      BY <1>18, BusyJob DEF StoreExtraction, At
    <2>2. ThreadsOK'
      BY <1>18, GotoType DEF StoreExtraction, At, ThreadsOK, ParsePCs, ExtractPCs
    <2>3. RowsOK'
      BY <1>18, <2>1 DEF StoreExtraction, SetStatus, RowsOK, Refresh, Statuses, DocumentStatus, sideVars, sweepVars
    <2> QED BY <1>18, <2>2, <2>3 DEF StoreExtraction, QueueTypeOK
  <1>19. CASE EnsureReviewTask(t)
    <2>1. job[t].doc \in Docs
      BY <1>19, BusyJob DEF EnsureReviewTask, At
    <2>2. ThreadsOK'
      BY <1>19, GotoType DEF EnsureReviewTask, At, ParsePCs, ExtractPCs
    <2>3. RowsOK'
      BY <1>19, <2>1 DEF EnsureReviewTask, RowsOK, docVars, sweepVars
    <2> QED BY <1>19, <2>2, <2>3 DEF EnsureReviewTask, QueueTypeOK
  <1>20. CASE Raise(t)
    <2>1. ThreadsOK'
      BY <1>20, GotoType DEF Raise, ParsePCs, ExtractPCs
    <2> QED BY <1>20, <2>1 DEF Raise, QueueTypeOK, RowsOK, docVars, sideVars, sweepVars
  <1>21. CASE Crash(t)
    <2>1. ThreadsOK'
      BY <1>21, ReleaseType DEF Crash
    <2> QED BY <1>21, <2>1 DEF Crash, QueueTypeOK, RowsOK, docVars, sideVars, sweepVars
  <1>22. ASSUME NEW m \in Msgs, Receive(t, m) PROVE (QueueTypeOK /\ ThreadsOK /\ RowsOK)'
    <2>1. QueueTypeOK'
      BY <1>22, ServiceType DEF Receive
    <2>2. msg[m] \in Message /\ msg[m].receives < MaxReceive
      BY <1>22 DEF Receive, Deliver, Used, QueueTypeOK
    <2> DEFINE delivery == [slot |-> m, doc |-> msg[m].doc, receives |-> msg[m].receives + 1,
                            redrive |-> msg[m].redrive, defer |-> msg[m].defer]
    <2>3. msg[m].receives + 1 \in 1..MaxReceive
      BY <2>2 DEF Message
    <2>4. delivery \in Job
      BY <2>2, <2>3 DEF Message, Job
    <2>5. job' = [job EXCEPT ![t] = delivery] /\ pc' = [pc EXCEPT ![t] = "gate"]
      BY <1>22 DEF Receive
    <2> HIDE DEF delivery
    <2>6. ThreadsOK'
      BY <2>4, <2>5, NoJobAssumption DEF ThreadsOK, ParsePCs, ExtractPCs
    <2> QED BY <1>22, <2>1, <2>6 DEF Receive, RowsOK, docVars, sideVars, sweepVars
  <1> QED BY <1>1, <1>2, <1>3, <1>4, <1>5, <1>6, <1>6a, <1>7, <1>8, <1>9, <1>10, <1>11, <1>12,
             <1>13, <1>14, <1>15, <1>16, <1>17, <1>18, <1>19, <1>20, <1>21, <1>22
          DEF ThreadStep

\* A step of a sweeper keeps the types.
LEMMA SweepStepType ==
    ASSUME QueueTypeOK, ThreadsOK, RowsOK, NEW s \in Sweepers, NEW d \in Docs,
           SweepStep(s, d) \/ ReapAborted(s, d)
    PROVE  (QueueTypeOK /\ ThreadsOK /\ RowsOK)'
  <1> USE PipelineAssumption
  <1>0. StageOf(cand[s][d]) \in Stages
    BY DEF StageOf, Stages
  <1>1. CASE ReapSkip(s, d)
    BY <1>1 DEF ReapSkip, Drop, QueueTypeOK, ThreadsOK, RowsOK, docVars, sideVars
  <1>2. CASE ReapUnclaimed(s, d)
    <2>1. QueueTypeOK'
      BY <1>0, <1>2, FreshType DEF ReapUnclaimed
    <2> QED BY <1>2, <2>1 DEF ReapUnclaimed, Drop, ThreadsOK, RowsOK, docVars, sideVars
  <1>3. CASE ReapClaim(s, d)
    <2>1. QueueTypeOK'
      BY <1>0, <1>3, FreshType DEF ReapClaim
    <2>2. reapCount' \in [Docs -> 0..(MaxReap + 1)]
      BY <1>3 DEF ReapClaim, RowsOK
    <2> QED BY <1>3, <2>1, <2>2 DEF ReapClaim, Drop, Refresh, ThreadsOK, RowsOK, sideVars
  <1>4. CASE ReapGiveUp(s, d)
    <2>1. reapCount' \in [Docs -> 0..(MaxReap + 1)]
      BY <1>4 DEF ReapGiveUp, RowsOK
    <2>2. status' \in [Docs -> Statuses]
      BY <1>4 DEF ReapGiveUp, RowsOK, Statuses, DocumentStatus
    <2> QED BY <1>4, <2>1, <2>2
            DEF ReapGiveUp, Drop, Refresh, QueueTypeOK, ThreadsOK, RowsOK, sideVars
  <1>5. CASE ReapRaced(s, d)
    BY <1>5 DEF ReapRaced, Drop, QueueTypeOK, ThreadsOK, RowsOK, docVars, sideVars
  <1>6. CASE ReapAborted(s, d)
    <2>1. QueueTypeOK'
      BY <1>0, <1>6, FreshType DEF ReapAborted, QueueTypeOK
    <2>2. cand' \in [Sweepers -> [Docs -> Statuses \cup {"none"}]]
      BY <1>6 DEF ReapAborted, RowsOK, NoCand
    <2> QED BY <1>6, <2>1, <2>2 DEF ReapAborted, ThreadsOK, RowsOK, docVars, sideVars
  <1> QED BY <1>1, <1>2, <1>3, <1>4, <1>5, <1>6 DEF SweepStep

\* The copy redrive_dlq sends is a message with one more redrive counted.
LEMMA RedriveCopy ==
    ASSUME QueueTypeOK, NEW h \in Healers, NEW m \in Msgs, RedriveSend(h, m)
    PROVE  \E n \in Msgs, copy, left \in Message :
              /\ n # m
              /\ copy.stage = msg[m].stage /\ copy.doc = msg[m].doc
              /\ left.stage = msg[m].stage /\ left.doc = msg[m].doc
              /\ msg[m] \in Message
              /\ msg' = [msg EXCEPT ![n] = copy, ![m] = left]
  <1>1. msg[m] \in Message /\ msg[m].redrive < MaxRedrive
    BY DEF RedriveSend, Used, QueueTypeOK
  <1>2. PICK n \in Msgs \ Held :
          /\ ~Used(n)
          /\ msg' = [msg EXCEPT
               ![n] = [msg[m] EXCEPT !.dead = FALSE, !.receives = 0, !.redrive = @ + 1],
               ![m].visible = FALSE]
    BY DEF RedriveSend
  <1>3. n # m
    BY <1>1, <1>2 DEF RedriveSend, Used
  <1> DEFINE alive == [msg[m] EXCEPT !.dead = FALSE]
             fresh == [alive EXCEPT !.receives = 0]
             copy  == [fresh EXCEPT !.redrive = msg[m].redrive + 1]
             left  == [msg[m] EXCEPT !.visible = FALSE]
  <1>4. /\ alive \in Message /\ alive.redrive = msg[m].redrive
        /\ alive.stage = msg[m].stage /\ alive.doc = msg[m].doc
    BY <1>1 DEF Message
  <1>5. /\ fresh \in Message /\ fresh.redrive = msg[m].redrive
        /\ fresh.stage = msg[m].stage /\ fresh.doc = msg[m].doc
    <2> HIDE DEF alive
    <2>1. 0 \in 0..MaxReceive
      BY QueueAssumption
    <2> QED BY <1>4, <2>1 DEF Message
  <1>6. copy \in Message /\ copy.stage = msg[m].stage /\ copy.doc = msg[m].doc
    <2> HIDE DEF fresh
    <2>1. msg[m].redrive + 1 \in 0..MaxRedrive
      BY <1>1, QueueAssumption DEF Message
    <2> QED BY <1>5, <2>1 DEF Message
  <1>7. left \in Message /\ left.stage = msg[m].stage /\ left.doc = msg[m].doc
    BY <1>1 DEF Message
  <1>8. msg' = [msg EXCEPT ![n] = copy, ![m] = left]
    BY <1>2, <1>3, <1>4, <1>5
  <1> HIDE DEF copy, left
  <1> QED BY <1>1, <1>2, <1>3, <1>6, <1>7, <1>8

\* Everything else that happens keeps the types.
LEMMA OtherStepType ==
    ASSUME QueueTypeOK, ThreadsOK, RowsOK,
           \/ \E d \in Docs : UploadInsert(d) \/ UploadSend(d) \/ ResolveTask(d) \/ Age(d)
           \/ \E s \in Sweepers : ReapScan(s)
           \/ \E h \in Healers : RedriveDelete(h) \/ \E m \in Msgs : RedriveSend(h, m)
           \/ \E m \in Msgs : Expire(m) \/ ToDeadLetter(m) \/ Purge(m)
           \/ UNCHANGED vars
    PROVE  (QueueTypeOK /\ ThreadsOK /\ RowsOK)'
  <1> USE PipelineAssumption DEF docVars, sideVars, sweepVars
  <1>1. ASSUME NEW d \in Docs, UploadInsert(d) PROVE (QueueTypeOK /\ ThreadsOK /\ RowsOK)'
    BY <1>1 DEF UploadInsert, QueueTypeOK, ThreadsOK, RowsOK, Statuses, DocumentStatus
  <1>2. ASSUME NEW d \in Docs, UploadSend(d) PROVE (QueueTypeOK /\ ThreadsOK /\ RowsOK)'
    <2>1. QueueTypeOK'
      BY <1>2, FreshType DEF UploadSend, Stages, QueueTypeOK
    <2> QED BY <1>2, <2>1 DEF UploadSend, ThreadsOK, RowsOK
  <1>3. ASSUME NEW d \in Docs, ResolveTask(d) PROVE (QueueTypeOK /\ ThreadsOK /\ RowsOK)'
    <2>1. openTasks' \in [Docs -> 0..MaxTasks]
      BY <1>3 DEF ResolveTask, RowsOK
    <2>2. status' \in [Docs -> Statuses]
      BY <1>3 DEF ResolveTask, SetStatus, RowsOK, Statuses, DocumentStatus
    <2> QED BY <1>3, <2>1, <2>2
            DEF ResolveTask, SetStatus, Refresh, QueueTypeOK, ThreadsOK, RowsOK
  <1>4. ASSUME NEW d \in Docs, Age(d) PROVE (QueueTypeOK /\ ThreadsOK /\ RowsOK)'
    BY <1>4 DEF Age, QueueTypeOK, ThreadsOK, RowsOK
  <1>5. ASSUME NEW h \in Healers, RedriveDelete(h) PROVE (QueueTypeOK /\ ThreadsOK /\ RowsOK)'
    BY <1>5 DEF RedriveDelete, QueueTypeOK, ThreadsOK, RowsOK
  <1>6. ASSUME NEW h \in Healers, NEW m \in Msgs, RedriveSend(h, m)
        PROVE  (QueueTypeOK /\ ThreadsOK /\ RowsOK)'
    <2>1. QueueTypeOK'
      BY <1>6, RedriveCopy DEF QueueTypeOK
    <2> QED BY <1>6, <2>1 DEF RedriveSend, ThreadsOK, RowsOK
  <1>7. ASSUME NEW m \in Msgs, Expire(m) \/ ToDeadLetter(m) \/ Purge(m)
        PROVE  (QueueTypeOK /\ ThreadsOK /\ RowsOK)'
    <2>1. CASE Expire(m)
      BY <2>1, ServiceType DEF Expire, ThreadsOK, RowsOK
    <2>2. CASE ToDeadLetter(m)
      BY <2>2, ServiceType DEF ToDeadLetter, ThreadsOK, RowsOK
    <2>3. CASE Purge(m)
      BY <2>3 DEF Purge, QueueTypeOK, ThreadsOK, RowsOK
    <2> QED BY <1>7, <2>1, <2>2, <2>3
  <1>8. ASSUME NEW s \in Sweepers, ReapScan(s) PROVE (QueueTypeOK /\ ThreadsOK /\ RowsOK)'
    <2>1. cand' \in [Sweepers -> [Docs -> Statuses \cup {"none"}]]
      BY <1>8 DEF ReapScan, RowsOK
    <2> QED BY <1>8, <2>1 DEF ReapScan, QueueTypeOK, ThreadsOK, RowsOK
  <1>9. CASE UNCHANGED vars
    BY <1>9 DEF vars, QueueTypeOK, ThreadsOK, RowsOK
  <1> QED BY <1>1, <1>2, <1>3, <1>4, <1>5, <1>6, <1>7, <1>8, <1>9

\* Every step keeps the types.
LEMMA StepType == TypeOK /\ [Next]_vars => TypeOK'
  <1> SUFFICES ASSUME TypeOK, [Next]_vars PROVE TypeOK'
    OBVIOUS
  <1>1. QueueTypeOK /\ ThreadsOK /\ RowsOK
    BY TypeParts
  <1>2. (QueueTypeOK /\ ThreadsOK /\ RowsOK)'
    <2>1. CASE \E t \in Threads : ThreadStep(t) \/ Raise(t) \/ Crash(t) \/ \E m \in Msgs : Receive(t, m)
      BY <1>1, <2>1, ThreadStepType
    <2>2. CASE \E s \in Sweepers, d \in Docs : SweepStep(s, d) \/ ReapAborted(s, d)
      BY <1>1, <2>2, SweepStepType
    <2> QED BY <1>1, <2>1, <2>2, OtherStepType DEF Next
  <1> QED BY <1>2 DEF TypeOK, ThreadsOK, RowsOK

\* Every variable of the pipeline keeps its type, and a consumer thread holds a
\* delivery exactly while it is busy.
THEOREM Typing == Spec => []TypeOK
  <1> QED BY InitType, StepType, PTL DEF Spec

--------------------------------------------------------------------------
\* TextBeforeExtract is not inductive: it says nothing of the deliveries, scans and
\* review tasks a later step turns into a message or a status. TextInv does.
TextInv ==
    /\ TextBeforeExtract
    /\ \A t \in ExtractThreads : pc[t] # "idle" => job[t].doc \in parsedText
    /\ \A t \in ParseThreads : pc[t] \in {"commit", "send"} => job[t].doc \in parsedText
    /\ \A s \in Sweepers, d \in Docs : cand[s][d] \in RequeueExtract => d \in parsedText
    /\ \A d \in Docs : openTasks[d] > 0 => d \in parsedText

\* Two steps of the proof: what a message sent, and a status written, must respect.
MsgText == \A m \in Msgs : Used(m) /\ msg[m].stage = "extract" => msg[m].doc \in parsedText
StatusText ==
    \A d \in Docs :
        status[d] \in RequeueExtract \cup {"approved", "needs_review"} => d \in parsedText
ThreadText ==
    /\ \A t \in ExtractThreads : pc[t] # "idle" => job[t].doc \in parsedText
    /\ \A t \in ParseThreads : pc[t] \in {"commit", "send"} => job[t].doc \in parsedText
CandText ==
    \A s \in Sweepers, d \in Docs : cand[s][d] \in RequeueExtract => d \in parsedText
TaskText == \A d \in Docs : openTasks[d] > 0 => d \in parsedText

LEMMA TextParts == TextInv <=> MsgText /\ StatusText /\ ThreadText /\ CandText /\ TaskText
  BY DEF TextInv, TextBeforeExtract, MsgText, StatusText, ThreadText, CandText, TaskText

\* A message sent about a document whose text is stored, or to the parse stage.
LEMMA SendText ==
    ASSUME QueueTypeOK, MsgText, NEW stage \in Stages, NEW d \in Docs,
           NEW r, NEW f, NEW v, Send(stage, d, r, f, v),
           stage = "extract" => d \in parsedText, UNCHANGED parsedText
    PROVE  MsgText'
  BY DEF QueueTypeOK, Send, SendFrom, MsgText, Used

\* The queue service never changes what a message is about.
LEMMA ServiceText ==
    ASSUME QueueTypeOK, MsgText, NEW m \in Msgs, UNCHANGED parsedText,
           \/ Deliver(m) \/ DeadLetter(m) \/ Reappear(m)
           \/ \E r \in 1..MaxReceive : DeleteByReceipt(m, r)
    PROVE  MsgText'
  <1> USE DEF QueueTypeOK, MsgText, Used
  <1>1. CASE Deliver(m)
    <2>1. msg[m] \in Message
      BY <1>1 DEF Deliver
    <2>2. /\ msg'[m].stage = msg[m].stage /\ msg'[m].doc = msg[m].doc
          /\ \A n \in Msgs \ {m} : msg'[n] = msg[n]
      BY <1>1, <2>1 DEF Deliver, Message
    <2> QED BY <1>1, <2>2 DEF Deliver
  <1>2. CASE DeadLetter(m)
    <2>1. msg[m] \in Message
      BY <1>2 DEF DeadLetter
    <2>2. /\ msg'[m].stage = msg[m].stage /\ msg'[m].doc = msg[m].doc
          /\ \A n \in Msgs \ {m} : msg'[n] = msg[n]
      BY <1>2, <2>1 DEF DeadLetter, Message
    <2> QED BY <1>2, <2>2 DEF DeadLetter
  <1>3. CASE Reappear(m)
    <2>1. msg[m] \in Message
      BY <1>3 DEF Reappear
    <2>2. /\ msg'[m].stage = msg[m].stage /\ msg'[m].doc = msg[m].doc
          /\ \A n \in Msgs \ {m} : msg'[n] = msg[n]
      BY <1>3, <2>1 DEF Reappear, Message
    <2> QED BY <1>3, <2>2 DEF Reappear
  <1>4. CASE \E r \in 1..MaxReceive : DeleteByReceipt(m, r)
    BY <1>4 DEF DeleteByReceipt
  <1> QED BY <1>1, <1>2, <1>3, <1>4

LEMMA InitText == Init => TextInv
  BY DEF Init, QueueInit, TextInv, TextBeforeExtract, Used, Threads, RequeueExtract

\* A thread that releases its delivery, or moves within its handler to a step that
\* asks for no text it has not got, keeps ThreadText.
LEMMA ReleaseText ==
    ASSUME ThreadsOK, ThreadText, NEW t \in Threads, Release(t), UNCHANGED parsedText
    PROVE  ThreadText'
  BY DEF ThreadsOK, ThreadText, Threads, Release

LEMMA GotoText ==
    ASSUME ThreadsOK, ThreadText, NEW t \in Threads, pc[t] # "idle", NEW p, Goto(t, p),
           t \in ParseThreads /\ p \in {"commit", "send"} => job[t].doc \in parsedText',
           parsedText \subseteq parsedText'
    PROVE  ThreadText'
  BY DEF ThreadsOK, ThreadText, Threads, Goto

\* A step of a consumer thread keeps the invariant.
LEMMA ThreadStepText ==
    ASSUME QueueTypeOK, ThreadsOK, RowsOK,
           MsgText, StatusText, ThreadText, CandText, TaskText,
           NEW t \in Threads,
           ThreadStep(t) \/ Raise(t) \/ Crash(t) \/ \E m \in Msgs : Receive(t, m)
    PROVE  (MsgText /\ StatusText /\ ThreadText /\ CandText /\ TaskText)'
  <1> USE PipelineAssumption DEF docVars, sideVars, sweepVars, RequeueExtract
  <1>0. pc[t] # "idle" =>
          /\ job[t].doc \in Docs /\ job[t].slot \in Msgs
          /\ job[t].receives \in 1..MaxReceive
          /\ Stage(t) \in Stages
          /\ Stage(t) = "extract" => job[t].doc \in parsedText
    BY BusyJob DEF Stage, Stages, Threads, ThreadText
  <1>1. CASE Acknowledge(t)
    <2>1. MsgText'
      BY <1>0, <1>1, ServiceText DEF Acknowledge, At, MsgText, Used
    <2>2. ThreadText'
      BY <1>1, ReleaseText DEF Acknowledge
    <2> QED BY <1>1, <2>1, <2>2 DEF Acknowledge, StatusText, CandText, TaskText
  <1>2. CASE RecordFailure(t)
    <2>1. ThreadText'
      BY <1>2, GotoText DEF RecordFailure, At
    <2>2. StatusText'
      BY <1>0, <1>2 DEF RecordFailure, At, StatusText, RowsOK
    <2> QED BY <1>2, <2>1, <2>2 DEF RecordFailure, MsgText, Used, CandText, TaskText
  <1>3. CASE NoteFailure(t)
    <2>1. ThreadText'
      BY <1>3, ReleaseText DEF NoteFailure
    <2> QED BY <1>3, <2>1 DEF NoteFailure, MsgText, Used, StatusText, CandText, TaskText
  <1>4. CASE DeferSaturated(t)
    <2>1. MsgText'
      BY <1>0, <1>4, SendText DEF DeferSaturated, At
    <2>2. ThreadText'
      BY <1>4, GotoText DEF DeferSaturated, At
    <2> QED BY <1>4, <2>1, <2>2 DEF DeferSaturated, StatusText, CandText, TaskText
  <1>5. CASE DeferProviderDown(t)
    <2>1. MsgText'
      BY <1>0, <1>5, SendText DEF DeferProviderDown, At
    <2>2. ThreadText'
      BY <1>5, GotoText DEF DeferProviderDown, At
    <2> QED BY <1>5, <2>1, <2>2 DEF DeferProviderDown, StatusText, CandText, TaskText
  <1>6. CASE TouchDocument(t)
    <2>1. ThreadText'
      BY <1>6, GotoText DEF TouchDocument, At
    <2> QED BY <1>6, <2>1 DEF TouchDocument, MsgText, Used, StatusText, CandText, TaskText
  <1>6a. CASE HoldBack(t)
    <2>1. ThreadText'
      BY <1>6a, GotoText DEF HoldBack, At
    <2> QED BY <1>6a, <2>1 DEF HoldBack, MsgText, Used, StatusText, CandText, TaskText
  <1>7. CASE Admit(t)
    <2>1. ThreadText'
      BY <1>7, GotoText DEF Admit, At
    <2> QED BY <1>7, <2>1 DEF Admit, MsgText, Used, StatusText, CandText, TaskText
  <1>8. CASE ParseBegin(t)
    <2>1. ThreadText'
      BY <1>8, GotoText DEF ParseBegin, At
    <2>2. StatusText'
      BY <1>0, <1>8 DEF ParseBegin, At, SetStatus, StatusText, RowsOK
    <2> QED BY <1>8, <2>1, <2>2 DEF ParseBegin, MsgText, Used, CandText, TaskText
  <1>9. CASE ParseFetch(t)
    <2>1. ThreadText'
      BY <1>9, GotoText DEF ParseFetch, At
    <2> QED BY <1>9, <2>1 DEF ParseFetch, MsgText, Used, StatusText, CandText, TaskText
  <1>10. CASE ParseNeedsOcr(t)
    <2>1. ThreadText'
      BY <1>10, GotoText DEF ParseNeedsOcr, At
    <2>2. StatusText'
      BY <1>0, <1>10 DEF ParseNeedsOcr, At, SetStatus, StatusText, RowsOK
    <2> QED BY <1>10, <2>1, <2>2 DEF ParseNeedsOcr, MsgText, Used, CandText, TaskText
  <1>11. CASE ParsePutText(t)
    <2>1. ThreadText'
      BY <1>11, GotoText DEF ParsePutText, At
    <2> QED BY <1>11, <2>1 DEF ParsePutText, MsgText, Used, StatusText, CandText, TaskText
  <1>12. CASE ParseCommit(t)
    <2>1. pc[t] = "commit" /\ t \in ParseThreads /\ job[t].doc \in parsedText
      BY <1>12 DEF ParseCommit, At, ThreadsOK, ExtractPCs, Threads, ThreadText
    <2>2. ThreadText'
      BY <1>12, <2>1, GotoText DEF ParseCommit
    <2>3. StatusText'
      BY <1>0, <1>12, <2>1 DEF ParseCommit, StatusText, RowsOK
    <2> QED BY <1>12, <2>2, <2>3 DEF ParseCommit, MsgText, Used, CandText, TaskText
  <1>13. CASE ParseSend(t)
    <2>1. pc[t] = "send" /\ t \in ParseThreads /\ job[t].doc \in parsedText
      BY <1>13 DEF ParseSend, At, ThreadsOK, ExtractPCs, Threads, ThreadText
    <2>2. MsgText'
      BY <1>0, <1>13, <2>1, SendText DEF ParseSend, Stages
    <2>3. ThreadText'
      BY <1>13, <2>1, GotoText DEF ParseSend
    <2> QED BY <1>13, <2>2, <2>3 DEF ParseSend, StatusText, CandText, TaskText
  <1>14. CASE ExtractBegin(t)
    <2>1. ThreadText'
      BY <1>14, GotoText DEF ExtractBegin, At
    <2>2. job[t].doc \in parsedText
      BY <1>14 DEF ExtractBegin, At, ThreadText
    <2>3. StatusText'
      BY <1>0, <1>14, <2>2 DEF ExtractBegin, At, SetStatus, StatusText, RowsOK
    <2> QED BY <1>14, <2>1, <2>3 DEF ExtractBegin, MsgText, Used, CandText, TaskText
  <1>15. CASE ModelCall(t)
    <2>1. ThreadText'
      BY <1>15, GotoText DEF ModelCall, At
    <2> QED BY <1>15, <2>1 DEF ModelCall, MsgText, Used, StatusText, CandText, TaskText
  <1>16. pc[t] \in {"pause", "approve", "review", "task", "invalid"} =>
           t \in ExtractThreads /\ job[t].doc \in parsedText
    BY DEF ThreadsOK, ParsePCs, Threads, ThreadText
  <1>17. CASE PauseOnBudget(t)
    <2>1. ThreadText'
      BY <1>17, GotoText DEF PauseOnBudget, At
    <2>2. StatusText'
      BY <1>0, <1>16, <1>17 DEF PauseOnBudget, At, SetStatus, StatusText, RowsOK
    <2> QED BY <1>17, <2>1, <2>2 DEF PauseOnBudget, MsgText, Used, CandText, TaskText
  <1>18. CASE InvalidExtraction(t)
    <2>1. ThreadText'
      BY <1>18, GotoText DEF InvalidExtraction, At
    <2>2. StatusText'
      BY <1>0, <1>18 DEF InvalidExtraction, At, SetStatus, StatusText, RowsOK
    <2> QED BY <1>18, <2>1, <2>2 DEF InvalidExtraction, MsgText, Used, CandText, TaskText
  <1>19. CASE StoreExtraction(t)
    <2>1. ThreadText'
      BY <1>19, GotoText DEF StoreExtraction, At
    <2>2. StatusText'
      BY <1>0, <1>16, <1>19 DEF StoreExtraction, At, SetStatus, StatusText, RowsOK
    <2> QED BY <1>19, <2>1, <2>2 DEF StoreExtraction, MsgText, Used, CandText, TaskText
  <1>20. CASE EnsureReviewTask(t)
    <2>1. ThreadText'
      BY <1>20, GotoText DEF EnsureReviewTask, At
    <2>2. TaskText'
      BY <1>0, <1>16, <1>20 DEF EnsureReviewTask, At, TaskText, RowsOK
    <2> QED BY <1>20, <2>1, <2>2 DEF EnsureReviewTask, MsgText, Used, StatusText, CandText
  <1>21. CASE Raise(t)
    <2>1. ThreadText'
      BY <1>21, GotoText DEF Raise
    <2> QED BY <1>21, <2>1 DEF Raise, MsgText, Used, StatusText, CandText, TaskText
  <1>22. CASE Crash(t)
    <2>1. ThreadText'
      BY <1>22, ReleaseText DEF Crash
    <2> QED BY <1>22, <2>1 DEF Crash, MsgText, Used, StatusText, CandText, TaskText
  <1>23. ASSUME NEW m \in Msgs, Receive(t, m)
         PROVE  (MsgText /\ StatusText /\ ThreadText /\ CandText /\ TaskText)'
    <2>1. MsgText'
      BY <1>23, ServiceText DEF Receive
    <2>2. t \in ExtractThreads => msg[m].doc \in parsedText
      BY <1>23 DEF Receive, Deliver, Stage, MsgText
    <2> DEFINE j == [slot |-> m, doc |-> msg[m].doc, receives |-> msg[m].receives + 1,
                     redrive |-> msg[m].redrive, defer |-> msg[m].defer]
    <2>3. job' = [job EXCEPT ![t] = j] /\ j.doc = msg[m].doc
      BY <1>23 DEF Receive
    <2> HIDE DEF j
    <2>4. pc' = [pc EXCEPT ![t] = "gate"] /\ UNCHANGED parsedText
      BY <1>23 DEF Receive, sideVars
    <2>5. /\ pc'[t] = "gate" /\ job'[t].doc = msg[m].doc
          /\ \A u \in Threads \ {t} : pc'[u] = pc[u] /\ job'[u] = job[u]
      BY <2>3, <2>4 DEF ThreadsOK
    <2>6. ThreadText'
      BY <2>2, <2>4, <2>5 DEF ThreadText, Threads
    <2> QED BY <1>23, <2>1, <2>6 DEF Receive, StatusText, CandText, TaskText
  <1> QED BY <1>1, <1>2, <1>3, <1>4, <1>5, <1>6, <1>6a, <1>7, <1>8, <1>9, <1>10, <1>11, <1>12,
             <1>13, <1>14, <1>15, <1>17, <1>18, <1>19, <1>20, <1>21, <1>22, <1>23
          DEF ThreadStep

\* A step of a sweeper keeps the invariant.
LEMMA SweepStepText ==
    ASSUME QueueTypeOK, RowsOK, MsgText, StatusText, ThreadText, CandText, TaskText,
           NEW s \in Sweepers, NEW d \in Docs, SweepStep(s, d) \/ ReapAborted(s, d)
    PROVE  (MsgText /\ StatusText /\ ThreadText /\ CandText /\ TaskText)'
  <1> USE PipelineAssumption DEF docVars, sideVars, sweepVars
  <1>0. /\ StageOf(cand[s][d]) \in Stages
        /\ StageOf(cand[s][d]) = "extract" => d \in parsedText
    BY DEF StageOf, Stages, CandText
  <1>1. ASSUME Drop(s, d), UNCHANGED parsedText PROVE CandText'
    BY <1>1 DEF Drop, CandText, RowsOK, RequeueExtract
  <1>2. CASE ReapSkip(s, d)
    BY <1>1, <1>2 DEF ReapSkip, MsgText, Used, StatusText, ThreadText, TaskText
  <1>3. CASE ReapUnclaimed(s, d)
    <2>1. MsgText'
      BY <1>0, <1>3, SendText DEF ReapUnclaimed
    <2> QED BY <1>1, <1>3, <2>1 DEF ReapUnclaimed, StatusText, ThreadText, TaskText
  <1>4. CASE ReapClaim(s, d)
    <2>1. MsgText'
      BY <1>0, <1>4, SendText DEF ReapClaim
    <2> QED BY <1>1, <1>4, <2>1 DEF ReapClaim, StatusText, ThreadText, TaskText
  <1>5. CASE ReapGiveUp(s, d)
    <2>1. StatusText'
      BY <1>5 DEF ReapGiveUp, StatusText, RowsOK, RequeueExtract
    <2> QED BY <1>1, <1>5, <2>1 DEF ReapGiveUp, MsgText, Used, ThreadText, TaskText
  <1>6. CASE ReapRaced(s, d)
    BY <1>1, <1>6 DEF ReapRaced, MsgText, Used, StatusText, ThreadText, TaskText
  <1>7. CASE ReapAborted(s, d)
    <2>1. MsgText'
      BY <1>0, <1>7, SendText DEF ReapAborted, MsgText, Used
    <2>2. CandText'
      BY <1>7 DEF ReapAborted, NoCand, CandText, RowsOK, RequeueExtract
    <2> QED BY <1>7, <2>1, <2>2 DEF ReapAborted, StatusText, ThreadText, TaskText
  <1> QED BY <1>2, <1>3, <1>4, <1>5, <1>6, <1>7 DEF SweepStep

\* Everything else that happens keeps the invariant.
LEMMA OtherStepText ==
    ASSUME QueueTypeOK, RowsOK, MsgText, StatusText, ThreadText, CandText, TaskText,
           \/ \E d \in Docs : UploadInsert(d) \/ UploadSend(d) \/ ResolveTask(d) \/ Age(d)
           \/ \E s \in Sweepers : ReapScan(s)
           \/ \E h \in Healers : RedriveDelete(h) \/ \E m \in Msgs : RedriveSend(h, m)
           \/ \E m \in Msgs : Expire(m) \/ ToDeadLetter(m) \/ Purge(m)
           \/ UNCHANGED vars
    PROVE  (MsgText /\ StatusText /\ ThreadText /\ CandText /\ TaskText)'
  <1> DEFINE Texts == MsgText /\ StatusText /\ ThreadText /\ CandText /\ TaskText
  <1> USE PipelineAssumption DEF docVars, sideVars, sweepVars, RequeueExtract
  <1>1. ASSUME NEW d \in Docs, UploadInsert(d) PROVE Texts'
    <2>1. StatusText'
      BY <1>1 DEF UploadInsert, StatusText, RowsOK
    <2> QED BY <1>1, <2>1 DEF UploadInsert, MsgText, Used, ThreadText, CandText, TaskText
  <1>2. ASSUME NEW d \in Docs, UploadSend(d) PROVE Texts'
    <2>1. MsgText'
      BY <1>2, SendText DEF UploadSend, MsgText, Used, Stages
    <2> QED BY <1>2, <2>1 DEF UploadSend, StatusText, ThreadText, CandText, TaskText
  <1>3. ASSUME NEW d \in Docs, ResolveTask(d) PROVE Texts'
    <2>1. d \in parsedText
      BY <1>3 DEF ResolveTask, TaskText
    <2>2. StatusText'
      BY <1>3, <2>1 DEF ResolveTask, SetStatus, StatusText, RowsOK
    <2>3. TaskText'
      BY <1>3, <2>1 DEF ResolveTask, TaskText, RowsOK
    <2> QED BY <1>3, <2>2, <2>3 DEF ResolveTask, MsgText, Used, ThreadText, CandText
  <1>4. ASSUME NEW d \in Docs, Age(d) PROVE Texts'
    BY <1>4 DEF Age, MsgText, Used, StatusText, ThreadText, CandText, TaskText
  <1>5. ASSUME NEW s \in Sweepers, ReapScan(s) PROVE Texts'
    <2>1. CandText'
      BY <1>5 DEF ReapScan, CandText, StatusText, RowsOK
    <2> QED BY <1>5, <2>1 DEF ReapScan, MsgText, Used, StatusText, ThreadText, TaskText
  <1>6. ASSUME NEW h \in Healers, RedriveDelete(h) PROVE Texts'
    <2>1. MsgText'
      BY <1>6 DEF RedriveDelete, MsgText, Used, QueueTypeOK
    <2> QED BY <1>6, <2>1 DEF RedriveDelete, StatusText, ThreadText, CandText, TaskText
  <1>7. ASSUME NEW h \in Healers, NEW m \in Msgs, RedriveSend(h, m) PROVE Texts'
    <2>1. PICK n \in Msgs, copy, left \in Message :
              /\ n # m
              /\ copy.stage = msg[m].stage /\ copy.doc = msg[m].doc
              /\ left.stage = msg[m].stage /\ left.doc = msg[m].doc
              /\ msg[m] \in Message
              /\ msg' = [msg EXCEPT ![n] = copy, ![m] = left]
      BY <1>7, RedriveCopy
    <2>2. /\ msg'[n] = copy /\ msg'[m] = left
          /\ \A k \in Msgs \ {n, m} : msg'[k] = msg[k]
      BY <2>1 DEF QueueTypeOK
    <2>3. msg[m].stage = "extract" => msg[m].doc \in parsedText
      BY <2>1, QueueAssumption DEF MsgText, Used
    <2>4. UNCHANGED parsedText
      BY <1>7 DEF RedriveSend, sideVars
    <2>5. MsgText'
      <3> SUFFICES ASSUME NEW k \in Msgs, Used(k)', msg'[k].stage = "extract"
                   PROVE  msg'[k].doc \in parsedText
        BY <2>4 DEF MsgText
      <3>1. CASE k \in {n, m}
        BY <3>1, <2>1, <2>2, <2>3
      <3>2. CASE k \notin {n, m}
        BY <3>2, <2>2 DEF MsgText, Used
      <3> QED BY <3>1, <3>2
    <2> QED BY <1>7, <2>5 DEF RedriveSend, StatusText, ThreadText, CandText, TaskText
  <1>8. ASSUME NEW m \in Msgs, Expire(m) \/ ToDeadLetter(m) \/ Purge(m) PROVE Texts'
    <2>1. CASE Expire(m)
      <3>1. MsgText'
        BY <2>1, ServiceText DEF Expire
      <3> QED BY <2>1, <3>1 DEF Expire, StatusText, ThreadText, CandText, TaskText
    <2>2. CASE ToDeadLetter(m)
      <3>1. MsgText'
        BY <2>2, ServiceText DEF ToDeadLetter
      <3> QED BY <2>2, <3>1 DEF ToDeadLetter, StatusText, ThreadText, CandText, TaskText
    <2>3. CASE Purge(m)
      <3>1. MsgText'
        BY <2>3 DEF Purge, MsgText, Used, QueueTypeOK
      <3> QED BY <2>3, <3>1 DEF Purge, StatusText, ThreadText, CandText, TaskText
    <2> QED BY <1>8, <2>1, <2>2, <2>3
  <1>9. CASE UNCHANGED vars
    BY <1>9 DEF vars, MsgText, Used, StatusText, ThreadText, CandText, TaskText
  <1> QED BY <1>1, <1>2, <1>3, <1>4, <1>5, <1>6, <1>7, <1>8, <1>9

\* Every step keeps the invariant.
LEMMA StepText == TypeOK /\ TextInv /\ [Next]_vars => TextInv'
  <1> SUFFICES ASSUME TypeOK, TextInv, [Next]_vars PROVE TextInv'
    OBVIOUS
  <1>1. QueueTypeOK /\ ThreadsOK /\ RowsOK
    BY TypeParts
  <1>2. MsgText /\ StatusText /\ ThreadText /\ CandText /\ TaskText
    BY TextParts
  <1>3. (MsgText /\ StatusText /\ ThreadText /\ CandText /\ TaskText)'
    <2>1. CASE \E t \in Threads : ThreadStep(t) \/ Raise(t) \/ Crash(t) \/ \E m \in Msgs : Receive(t, m)
      BY <1>1, <1>2, <2>1, ThreadStepText
    <2>2. CASE \E s \in Sweepers, d \in Docs : SweepStep(s, d) \/ ReapAborted(s, d)
      BY <1>1, <1>2, <2>2, SweepStepText
    <2> QED BY <1>1, <1>2, <2>1, <2>2, OtherStepText DEF Next
  <1> QED BY <1>3 DEF TextInv, TextBeforeExtract, MsgText, StatusText, ThreadText, CandText, TaskText

\* Parsed text is stored before the status says so and before an extract message
\* exists, whatever crashes, is delivered twice, deferred, rescued or redriven.
THEOREM TextFirst == Spec => []TextBeforeExtract
  <1>1. TextInv => TextBeforeExtract
    BY DEF TextInv
  <1> QED BY InitText, StepText, Typing, <1>1, PTL DEF Spec

--------------------------------------------------------------------------

Typed == QueueTypeOK /\ ThreadsOK /\ RowsOK

LEMMA TypedIs == TypeOK <=> Typed
  BY TypeParts DEF Typed

--------------------------------------------------------------------------
(* Messages in hand.                                                       *)

\* A thread's delivery is the message it was received from, invisible to others.
Handles(t) ==
    /\ Used(job[t].slot)
    /\ ~msg[job[t].slot].dead /\ ~msg[job[t].slot].visible
    /\ msg[job[t].slot].doc = job[t].doc
    /\ msg[job[t].slot].stage = Stage(t)

\* No two threads handle one message, and what a healer has copied is a dead letter.
Owns ==
    /\ \A t \in Threads : pc[t] # "idle" => Handles(t)
    /\ \A t, u \in Threads : t # u /\ pc[t] # "idle" /\ pc[u] # "idle" => job[t].slot # job[u].slot
    /\ \A h \in Healers :
         redriving[h] # NoMsg /\ Used(redriving[h]) => msg[redriving[h]].dead

\* Messages on their way out: their handler will delete them, or their healer will.
LastSteps == {"touch", "hold", "task", "ack"}
Leaving(m) ==
    \/ \E t \in Threads : pc[t] \in LastSteps /\ job[t].slot = m
    \/ \E h \in Healers : redriving[h] # NoMsg /\ redriving[h] = m

About(m, d, s) == Used(m) /\ msg[m].doc = d /\ msg[m].stage = s

\* A message of stage s about document d that nobody is about to delete.
Stays(d, s) == \E m \in Msgs : About(m, d, s) /\ ~Leaving(m)

\* The strengthening of InProgressHasMessage, which a write that is lost after an
\* invalid answer and a retention period that runs out may break.
InHand ==
    ~DbErrors /\ ~Retention =>
        \A d \in Docs :
            /\ status[d] = "parsing" => Stays(d, "parse")
            /\ status[d] = "extracting" => Stays(d, "extract")

\* A parse thread that asks for extraction has moved its document on for good.
Unparsed == {"absent", "received", "parsing"}
SentOn == \A t \in ParseThreads : pc[t] = "send" => status[job[t].doc] \notin Unparsed

MessageInv == Owns /\ InHand /\ SentOn

\* The status a thread's stage gives a document it works on.
Working(t) == IF t \in ParseThreads THEN "parsing" ELSE "extracting"

LEMMA InitMessage == Init => MessageInv
  BY DEF Init, QueueInit, MessageInv, Owns, InHand, SentOn, Threads

LEMMA ThreadDoc ==
    ASSUME Typed, NEW t \in Threads, pc[t] # "idle"
    PROVE  job[t].doc \in Docs /\ job[t].slot \in Msgs /\ job[t].slot \in Held
  BY BusyJob DEF Typed, ThreadsOK, Held

\* A sent message takes a slot nobody names, and every other slot stays as it is.
LEMMA SendAdds ==
    ASSUME Typed, NEW stage \in Stages, NEW d \in Docs, NEW r \in 0..MaxRedrive,
           NEW f \in 0..MaxDefer, NEW v \in BOOLEAN, Send(stage, d, r, f, v)
    PROVE  \E n \in Msgs : /\ n \notin Held /\ ~Used(n)
                           /\ About(n, d, stage)' /\ msg'[n].receives = 0 /\ ~msg'[n].dead
                           /\ \A k \in Msgs \ {n} : msg'[k] = msg[k]
  <1>1. PICK n \in Msgs \ Held :
          /\ ~Used(n)
          /\ msg' = [msg EXCEPT ![n] =
               [stage |-> stage, dead |-> FALSE, doc |-> d, receives |-> 0,
                visible |-> v, redrive |-> r, defer |-> f]]
    BY DEF Send, SendFrom
  <1> DEFINE new == [stage |-> stage, dead |-> FALSE, doc |-> d, receives |-> 0,
                     visible |-> v, redrive |-> r, defer |-> f]
  <1>2. new.stage = stage /\ new.doc = d /\ new.receives = 0
    OBVIOUS
  <1>3. ~new.dead
    BY Zenon
  <1>4. 0 \in 0..MaxReceive /\ FALSE \in BOOLEAN
    BY QueueAssumption
  <1>5. new \in Message
    BY <1>4, Zenon DEF Message
  <1>6. msg' = [msg EXCEPT ![n] = new]
    BY <1>1
  <1> HIDE DEF new
  <1>7. msg'[n] = new /\ \A k \in Msgs \ {n} : msg'[k] = msg[k]
    BY <1>6 DEF Typed, QueueTypeOK
  <1>8. ~msg'[n].dead
    BY <1>3, <1>7, Zenon
  <1> QED BY <1>1, <1>2, <1>5, <1>7, <1>8, QueueAssumption DEF About, Used

\* A message sent about a document that carries no counts yet.
LEMMA FreshAdds ==
    ASSUME Typed, NEW stage \in Stages, NEW d \in Docs, Send(stage, d, 0, 0, TRUE)
    PROVE  \E n \in Msgs : /\ n \notin Held /\ ~Used(n)
                           /\ About(n, d, stage)' /\ msg'[n].receives = 0 /\ ~msg'[n].dead
                           /\ \A k \in Msgs \ {n} : msg'[k] = msg[k]
  <1>1. 0 \in 0..MaxRedrive /\ 0 \in 0..MaxDefer /\ TRUE \in BOOLEAN
    BY QueueAssumption
  <1> QED BY <1>1, SendAdds

\* Owns survives a step that keeps every message some thread still handles, and
\* every dead letter a healer has copied or deletes it.
LEMMA OwnsFrame ==
    ASSUME Owns,
           \A u \in Threads : pc'[u] # "idle" =>
               pc[u] # "idle" /\ job'[u] = job[u] /\ msg'[job[u].slot] = msg[job[u].slot],
           \A h \in Healers : redriving'[h] # NoMsg =>
               redriving'[h] = redriving[h] /\ msg'[redriving[h]] \in {msg[redriving[h]], NoMsg}
    PROVE  Owns'
  <1>1. \A u \in Threads : pc'[u] # "idle" => Handles(u)'
    BY DEF Owns, Handles, Used, Stage
  <1>2. \A u, v \in Threads :
          (u # v /\ pc[u] # "idle" /\ pc[v] # "idle" => job[u].slot # job[v].slot)'
    BY DEF Owns
  <1>3. \A h \in Healers :
          (redriving[h] # NoMsg /\ Used(redriving[h]) => msg[redriving[h]].dead)'
    BY DEF Owns, Used
  <1> QED BY <1>1, <1>2, <1>3 DEF Owns, Used

\* What a message still is when nobody has begun to delete it.
LEMMA StaysFrame ==
    ASSUME NEW d, NEW s, Stays(d, s),
           \A m \in Msgs : About(m, d, s) /\ ~Leaving(m) => About(m, d, s)' /\ ~Leaving(m)'
    PROVE  Stays(d, s)'
  BY DEF Stays

\* A thread that moves within its handler leaves every message where it was, and
\* starts to delete its own only if the document has moved on, or is not its own.
LEMMA GotoStays ==
    ASSUME Typed, Owns, NEW t \in Threads, pc[t] # "idle", NEW p, Goto(t, p),
           UNCHANGED redriving, \A m \in Msgs : Used(m) => msg'[m] = msg[m],
           NEW d, NEW s, Stays(d, s),
           \/ p \notin LastSteps \/ pc[t] \in LastSteps
           \/ d # job[t].doc \/ s # Stage(t)
    PROVE  Stays(d, s)'
  <1>1. \A u \in Threads \ {t} : pc'[u] = pc[u]
    BY DEF Goto, Typed, ThreadsOK
  <1>2. pc'[t] = p /\ job' = job
    BY DEF Goto, Typed, ThreadsOK
  <1>3. About(job[t].slot, d, s) => d = job[t].doc /\ s = Stage(t)
    BY DEF Owns, Handles, About
  <1>4. ASSUME NEW m \in Msgs, About(m, d, s), ~Leaving(m) PROVE About(m, d, s)' /\ ~Leaving(m)'
    BY <1>1, <1>2, <1>3, <1>4 DEF About, Used, Leaving
  <1> QED BY <1>4, StaysFrame

\* A thread that gives its delivery up leaves every message where it was.
LEMMA ReleaseStays ==
    ASSUME Typed, NEW t \in Threads, Release(t), UNCHANGED redriving,
           NEW d, NEW s, Stays(d, s),
           \A m \in Msgs : About(m, d, s) /\ ~Leaving(m) => msg'[m] = msg[m]
    PROVE  Stays(d, s)'
  <1>1. /\ pc'[t] = "idle" /\ "idle" \notin LastSteps
        /\ \A u \in Threads \ {t} : pc'[u] = pc[u] /\ job'[u] = job[u]
    BY DEF Release, Typed, ThreadsOK, LastSteps
  <1>2. ASSUME NEW m \in Msgs, About(m, d, s), ~Leaving(m) PROVE About(m, d, s)' /\ ~Leaving(m)'
    BY <1>1, <1>2 DEF About, Used, Leaving
  <1> QED BY <1>2, StaysFrame

\* A message just sent stays, and so does every other.
LEMMA SentStays ==
    ASSUME Typed, NEW stage, NEW d, NEW n \in Msgs, n \notin Held, ~Used(n), About(n, d, stage)',
           \A k \in Msgs \ {n} : msg'[k] = msg[k],
           \A u \in Threads : pc'[u] # "idle" => pc[u] # "idle",
           UNCHANGED <<job, redriving>>
    PROVE  Stays(d, stage)'
  <1>1. \A u \in Threads : pc'[u] # "idle" => job'[u].slot # n
    BY ThreadDoc
  <1>2. \A h \in Healers : redriving'[h] # n
    BY DEF Held
  <1> QED BY <1>1, <1>2 DEF Stays, Leaving, LastSteps

\* The statuses a step may give a document without taking it up for a stage.
Onward == \A d \in Docs :
    \/ status'[d] = status[d]
    \/ status'[d] \notin {"parsing", "extracting"}

LEMMA SentOnFrame ==
    ASSUME Typed, SentOn,
           \A d \in Docs : status[d] \notin Unparsed => status'[d] \notin Unparsed,
           \A t \in ParseThreads : pc'[t] = "send" =>
               \/ pc[t] = "send" /\ job'[t] = job[t]
               \/ status'[job'[t].doc] \notin Unparsed
    PROVE  SentOn'
  <1>1. ASSUME NEW t \in ParseThreads, pc[t] = "send" PROVE job[t].doc \in Docs
    BY <1>1, ThreadDoc DEF Threads
  <1> QED BY <1>1 DEF SentOn

LEMMA InHandFrame ==
    ASSUME InHand, Onward,
           ~DbErrors /\ ~Retention => \A d \in Docs :
               /\ status'[d] = "parsing" /\ Stays(d, "parse") => Stays(d, "parse")'
               /\ status'[d] = "extracting" /\ Stays(d, "extract") => Stays(d, "extract")'
    PROVE  InHand'
  BY DEF InHand, Onward

\* A handler's step that neither sends nor deletes keeps the invariant, if the
\* document moves on before the step after which its message is deleted.
LEMMA MoveKeeps ==
    ASSUME Typed, MessageInv, NEW t \in Threads, pc[t] # "idle", NEW p, p # "idle", Goto(t, p),
           UNCHANGED <<msg, redriving>>,
           \A d \in Docs : \/ status'[d] = status[d]
                           \/ d = job[t].doc /\ status'[d] \notin Unparsed \cup {"extracting"},
           \/ p \notin LastSteps \/ pc[t] \in LastSteps \/ status'[job[t].doc] # Working(t)
           \/ DbErrors,
           p = "send" => status'[job[t].doc] \notin Unparsed
    PROVE  MessageInv'
  <1>1. /\ pc'[t] = p /\ job' = job
        /\ \A u \in Threads \ {t} : pc'[u] = pc[u]
    BY DEF Goto, Typed, ThreadsOK
  <1>2. Owns'
    BY <1>1, OwnsFrame DEF MessageInv
  <1>3. SentOn'
    <2>1. \A u \in ParseThreads : pc'[u] = "send" =>
             \/ pc[u] = "send" /\ job'[u] = job[u]
             \/ status'[job'[u].doc] \notin Unparsed
      BY <1>1 DEF Threads
    <2> QED BY <2>1, SentOnFrame DEF MessageInv
  <1>4. Onward
    BY DEF Onward, Unparsed
  <1>5. ASSUME ~DbErrors, NEW d \in Docs, status'[d] = "parsing", Stays(d, "parse") PROVE Stays(d, "parse")'
    <2>1. \/ p \notin LastSteps \/ pc[t] \in LastSteps \/ d # job[t].doc \/ "parse" # Stage(t)
      BY <1>5 DEF Working, Stage, Threads
    <2> QED BY <1>5, <2>1, GotoStays DEF MessageInv
  <1>6. ASSUME ~DbErrors, NEW d \in Docs, status'[d] = "extracting", Stays(d, "extract")
        PROVE  Stays(d, "extract")'
    <2>1. \/ p \notin LastSteps \/ pc[t] \in LastSteps \/ d # job[t].doc \/ "extract" # Stage(t)
      BY <1>6 DEF Working, Stage, Threads
    <2> QED BY <1>6, <2>1, GotoStays DEF MessageInv
  <1> QED BY <1>2, <1>3, <1>4, <1>5, <1>6, InHandFrame DEF MessageInv

\* The step that takes a document up keeps it: the thread's own message stays.
LEMMA BeginKeeps ==
    ASSUME Typed, MessageInv, NEW t \in Threads, pc[t] = "begin",
           NEW p, p \notin LastSteps \cup {"idle", "send"}, Goto(t, p),
           UNCHANGED <<msg, redriving>>,
           status' = [status EXCEPT ![job[t].doc] = Working(t)],
           t \in ExtractThreads => status[job[t].doc] \notin Unparsed,
           t \in ParseThreads => status[job[t].doc] \in Unparsed
    PROVE  MessageInv'
  <1>1. /\ pc'[t] = p /\ job' = job
        /\ \A u \in Threads \ {t} : pc'[u] = pc[u]
    BY DEF Goto, Typed, ThreadsOK
  <1>2. Owns'
    BY <1>1, OwnsFrame DEF MessageInv
  <1>3. job[t].doc \in Docs /\ job[t].slot \in Msgs
    BY ThreadDoc
  <1>4. /\ status'[job[t].doc] = Working(t)
        /\ \A d \in Docs \ {job[t].doc} : status'[d] = status[d]
    BY <1>3 DEF Typed, RowsOK
  <1>5. SentOn'
    <2>1. \A d \in Docs : status[d] \notin Unparsed => status'[d] \notin Unparsed
      BY <1>4, PipelineAssumption DEF Working, Unparsed, Threads
    <2>2. \A u \in ParseThreads : pc'[u] = "send" => pc[u] = "send" /\ job'[u] = job[u]
      BY <1>1 DEF Threads
    <2> QED BY <2>1, <2>2, SentOnFrame DEF MessageInv
  <1>6. Stays(job[t].doc, Stage(t))
    <2>1. About(job[t].slot, job[t].doc, Stage(t))
      BY DEF MessageInv, Owns, Handles, About
    <2>2. ~Leaving(job[t].slot)
      BY DEF MessageInv, Owns, Handles, Leaving, LastSteps
    <2> QED BY <1>3, <2>1, <2>2 DEF Stays
  <1>7. \A d \in Docs, s \in Stages : Stays(d, s) => Stays(d, s)'
    BY GotoStays DEF MessageInv
  <1>8. ASSUME ~DbErrors, ~Retention, NEW d \in Docs
        PROVE  status'[d] = "parsing" => Stays(d, "parse")'
    BY <1>4, <1>6, <1>7, <1>8 DEF MessageInv, InHand, Working, Stage, Stages, Threads
  <1>9. ASSUME ~DbErrors, ~Retention, NEW d \in Docs
        PROVE  status'[d] = "extracting" => Stays(d, "extract")'
    BY <1>4, <1>6, <1>7, <1>9 DEF MessageInv, InHand, Working, Stage, Stages, Threads
  <1> QED BY <1>2, <1>5, <1>8, <1>9 DEF MessageInv, InHand

\* A handler that sends and then deletes keeps it: the message sent is the one that
\* stays, or the document has moved on.
LEMMA PostKeeps ==
    ASSUME Typed, MessageInv, NEW t \in Threads, pc[t] # "idle",
           NEW p \in LastSteps, Goto(t, p), UNCHANGED <<status, redriving>>,
           NEW s0, NEW n \in Msgs, n \notin Held, ~Used(n), About(n, job[t].doc, s0)',
           \A k \in Msgs \ {n} : msg'[k] = msg[k],
           s0 = Stage(t) \/ status[job[t].doc] # Working(t)
    PROVE  MessageInv'
  <1>1. /\ pc'[t] = p /\ job' = job /\ p # "idle" /\ p # "send"
        /\ \A u \in Threads \ {t} : pc'[u] = pc[u]
    BY DEF Goto, Typed, ThreadsOK, LastSteps
  <1>2. Owns'
    <2>1. \A u \in Threads : pc'[u] # "idle" => pc[u] # "idle" /\ msg'[job[u].slot] = msg[job[u].slot]
      BY <1>1, ThreadDoc
    <2>2. \A h \in Healers : redriving[h] # NoMsg =>
             redriving[h] \in Msgs /\ msg'[redriving[h]] = msg[redriving[h]]
      BY DEF Typed, RowsOK, Held
    <2> QED BY <1>1, <2>1, <2>2, OwnsFrame DEF MessageInv
  <1>3. SentOn'
    BY <1>1, SentOnFrame DEF MessageInv, Threads
  <1>4. \A m \in Msgs : Used(m) => msg'[m] = msg[m]
    OBVIOUS
  <1>5. s0 = Stage(t) => Stays(job[t].doc, Stage(t))'
    <2>1. \A u \in Threads : pc'[u] # "idle" => pc[u] # "idle"
      BY <1>1
    <2> HAVE s0 = Stage(t)
    <2>2. Stays(job[t].doc, s0)'
      <3>1. PICK d : d = job[t].doc
        OBVIOUS
      <3>2. About(n, d, s0)'
        BY <1>1, <3>1 DEF About
      <3>3. Stays(d, s0)'
        BY <1>1, <2>1, <3>2, SentStays
      <3> QED BY <1>1, <3>1, <3>3 DEF Stays, About
    <2> QED BY <2>2 DEF Stage
  <1>6. ASSUME NEW d \in Docs, NEW s \in Stages, status[d] \in {"parsing", "extracting"},
               s = (IF status[d] = "parsing" THEN "parse" ELSE "extract"), Stays(d, s)
        PROVE  Stays(d, s)'
    <2>1. CASE d = job[t].doc /\ s = Stage(t)
      <3>1. status[job[t].doc] = Working(t)
        BY <1>6, <2>1, PipelineAssumption DEF Working, Stage, Threads
      <3> QED BY <1>1, <1>5, <2>1, <3>1 DEF Stays, About, Stage
    <2>2. CASE d # job[t].doc \/ s # Stage(t)
      BY <1>4, <1>6, <2>2, GotoStays DEF MessageInv
    <2> QED BY <2>1, <2>2
  <1>7. InHand'
    BY <1>6 DEF MessageInv, InHand, Stages
  <1> QED BY <1>2, <1>3, <1>7 DEF MessageInv

\* A thread that gives its delivery up keeps it, the message left where it was or
\* deleted after a step that allowed for it.
LEMMA GiveUpKeeps ==
    ASSUME Typed, MessageInv, NEW t \in Threads, pc[t] # "idle", Release(t),
           UNCHANGED <<status, redriving>>,
           \/ UNCHANGED msg
           \/ pc[t] \in LastSteps /\ \E r : DeleteByReceipt(job[t].slot, r)
    PROVE  MessageInv'
  <1>1. /\ pc'[t] = "idle"
        /\ \A u \in Threads \ {t} : pc'[u] = pc[u] /\ job'[u] = job[u]
    BY DEF Release, Typed, ThreadsOK
  <1>2. \A k \in Msgs \ {job[t].slot} : msg'[k] = msg[k]
    BY DEF DeleteByReceipt, Typed, QueueTypeOK
  <1>3. msg'[job[t].slot] \in {msg[job[t].slot], NoMsg}
    BY ThreadDoc DEF DeleteByReceipt, Typed, QueueTypeOK
  <1>4. Owns'
    <2>1. \A u \in Threads : pc'[u] # "idle" =>
             pc[u] # "idle" /\ job'[u] = job[u] /\ msg'[job[u].slot] = msg[job[u].slot]
      BY <1>1, <1>2, ThreadDoc DEF MessageInv, Owns
    <2>2. \A h \in Healers : redriving[h] # NoMsg =>
             redriving[h] \in Msgs /\ msg'[redriving[h]] \in {msg[redriving[h]], NoMsg}
      BY <1>2, <1>3 DEF Typed, RowsOK
    <2> QED BY <2>1, <2>2, OwnsFrame DEF MessageInv
  <1>5. SentOn'
    <2>1. \A u \in ParseThreads : pc'[u] = "send" => pc[u] = "send" /\ job'[u] = job[u]
      BY <1>1 DEF Threads
    <2> QED BY <2>1, SentOnFrame DEF MessageInv
  <1>6. ASSUME NEW m \in Msgs, ~Leaving(m) PROVE msg'[m] = msg[m]
    BY <1>2, <1>6 DEF Leaving
  <1>7. \A d, s : Stays(d, s) => Stays(d, s)'
    BY <1>6, ReleaseStays
  <1> QED BY <1>4, <1>5, <1>7 DEF MessageInv, InHand

\* A step of a sweep, of an upload or of a human keeps it: messages are only added,
\* and no document is taken up.
LEMMA AsideKeeps ==
    ASSUME Typed, MessageInv, UNCHANGED <<pc, job, redriving>>,
           \A m \in Msgs : Used(m) => msg'[m] = msg[m],
           \A m \in Msgs : m \in Held => msg'[m] = msg[m],
           Onward,
           \A d \in Docs : status[d] \notin Unparsed => status'[d] \notin Unparsed
    PROVE  MessageInv'
  <1>1. Owns'
    <2>1. \A u \in Threads : pc[u] # "idle" => msg'[job[u].slot] = msg[job[u].slot]
      BY ThreadDoc
    <2>2. \A h \in Healers : redriving[h] # NoMsg => msg'[redriving[h]] = msg[redriving[h]]
      BY DEF Typed, RowsOK, Held
    <2> QED BY <2>1, <2>2, OwnsFrame DEF MessageInv
  <1>2. SentOn'
    BY SentOnFrame DEF MessageInv
  <1>3. ASSUME NEW d, NEW s, Stays(d, s) PROVE Stays(d, s)'
    <2>1. \A m \in Msgs : About(m, d, s) /\ ~Leaving(m) => About(m, d, s)' /\ ~Leaving(m)'
      BY DEF About, Leaving, Used
    <2> QED BY <1>3, <2>1, StaysFrame
  <1> QED BY <1>1, <1>2, <1>3, InHandFrame DEF MessageInv

\* The queue service never loses a message, and says of it what it said.
LEMMA ServiceKeeps ==
    ASSUME Typed, NEW m \in Msgs, Deliver(m) \/ DeadLetter(m) \/ Reappear(m)
    PROVE  /\ Used(m)' /\ msg'[m].doc = msg[m].doc /\ msg'[m].stage = msg[m].stage
           /\ \A k \in Msgs \ {m} : msg'[k] = msg[k]
           /\ Deliver(m) => /\ ~msg'[m].dead /\ ~msg'[m].visible
                            /\ msg'[m].receives = msg[m].receives + 1
           /\ Reappear(m) => msg'[m].dead = msg[m].dead /\ msg'[m].receives = msg[m].receives
  <1> USE DEF Typed, QueueTypeOK, Used
  <1>1. msg[m] \in Message /\ msg \in [Msgs -> Message \cup {NoMsg}]
    BY DEF Deliver, DeadLetter, Reappear
  <1>2. CASE Deliver(m)
    <2> DEFINE hidden == [msg[m] EXCEPT !.visible = FALSE]
               taken  == [hidden EXCEPT !.receives = msg[m].receives + 1]
    <2>1. /\ hidden \in Message /\ hidden.receives = msg[m].receives /\ hidden.dead = msg[m].dead
          /\ hidden.doc = msg[m].doc /\ hidden.stage = msg[m].stage /\ ~hidden.visible
      BY <1>1 DEF Message
    <2>2. msg' = [msg EXCEPT ![m] = taken]
      BY <1>2, <2>1 DEF Deliver
    <2>3. QueueTypeOK'
      BY <1>2, ServiceType
    <2>4. /\ taken.doc = hidden.doc /\ taken.stage = hidden.stage /\ taken.dead = hidden.dead
          /\ taken.visible = hidden.visible /\ taken.receives = msg[m].receives + 1
      <3> HIDE DEF hidden
      <3> QED BY <2>1 DEF Message
    <2>5. taken # NoMsg
      <3>1. msg[m].receives + 1 \in 0..MaxReceive
        BY <1>1, <1>2, QueueAssumption DEF Deliver, Message
      <3>2. taken \in Message
        <4> HIDE DEF hidden
        <4> QED BY <2>1, <3>1 DEF Message
      <3> QED BY <3>2, QueueAssumption
    <2> HIDE DEF taken, hidden
    <2>6. msg'[m] = taken
      BY <1>1, <2>2
    <2>7. ~Reappear(m)
      BY <1>2 DEF Deliver, Reappear
    <2> QED BY <1>1, <1>2, <2>1, <2>2, <2>4, <2>5, <2>6, <2>7 DEF Deliver
  <1>3. CASE DeadLetter(m)
    <2> DEFINE gone == [msg[m] EXCEPT !.dead = TRUE]
    <2>1. gone \in Message /\ gone.doc = msg[m].doc /\ gone.stage = msg[m].stage
      BY <1>1 DEF Message
    <2>2. msg' = [msg EXCEPT ![m] = gone]
      BY <1>3 DEF DeadLetter
    <2>3. ~Deliver(m) /\ ~Reappear(m)
      BY <1>3, QueueAssumption DEF Deliver, DeadLetter, Reappear
    <2> HIDE DEF gone
    <2> QED BY <1>1, <2>1, <2>2, <2>3, QueueAssumption
  <1>4. CASE Reappear(m)
    <2> DEFINE shown == [msg[m] EXCEPT !.visible = TRUE]
    <2>1. /\ shown \in Message /\ shown.doc = msg[m].doc /\ shown.stage = msg[m].stage
          /\ shown.receives = msg[m].receives
      BY <1>1 DEF Message
    <2>2. shown.dead = msg[m].dead
      BY <1>1, Zenon DEF Message
    <2>3. msg' = [msg EXCEPT ![m] = shown]
      BY <1>4 DEF Reappear
    <2>4. ~Deliver(m)
      BY <1>4 DEF Deliver, Reappear
    <2> HIDE DEF shown
    <2> QED BY <1>1, <2>1, <2>2, <2>3, <2>4, QueueAssumption
  <1> QED BY <1>2, <1>3, <1>4

LEMMA ReceiveKeeps ==
    ASSUME Typed, MessageInv, NEW t \in Threads, NEW m \in Msgs, Receive(t, m)
    PROVE  MessageInv'
  <1>1. /\ pc[t] = "idle" /\ Deliver(m) /\ msg[m].stage = Stage(t)
        /\ UNCHANGED <<status, redriving>>
    BY DEF Receive, docVars, sweepVars
  <1> DEFINE delivery == [slot |-> m, doc |-> msg[m].doc, receives |-> msg[m].receives + 1,
                          redrive |-> msg[m].redrive, defer |-> msg[m].defer]
  <1>2. delivery.slot = m /\ delivery.doc = msg[m].doc
    OBVIOUS
  <1>3. job' = [job EXCEPT ![t] = delivery] /\ pc' = [pc EXCEPT ![t] = "gate"]
    BY DEF Receive
  <1> HIDE DEF delivery
  <1>4. /\ pc'[t] = "gate" /\ job'[t].slot = m /\ job'[t].doc = msg[m].doc
        /\ \A u \in Threads \ {t} : pc'[u] = pc[u] /\ job'[u] = job[u]
    BY <1>2, <1>3 DEF Typed, ThreadsOK
  <1>5. /\ Used(m)' /\ msg'[m].doc = msg[m].doc /\ msg'[m].stage = msg[m].stage
        /\ ~msg'[m].dead /\ ~msg'[m].visible
        /\ \A k \in Msgs \ {m} : msg'[k] = msg[k]
    BY <1>1, ServiceKeeps
  <1>6. \A u \in Threads : pc[u] # "idle" => job[u].slot # m
    BY <1>1 DEF MessageInv, Owns, Handles, Deliver
  <1>7. \A h \in Healers : redriving[h] # NoMsg => redriving[h] # m
    BY <1>1 DEF MessageInv, Owns, Deliver
  <1>8. Owns'
    <2>1. Handles(t)'
      BY <1>1, <1>4, <1>5 DEF Handles, Stage, Used
    <2>2. \A u \in Threads \ {t} : pc'[u] # "idle" => Handles(u)'
      <3>1. \A u \in Threads \ {t} : pc'[u] # "idle" => msg'[job'[u].slot] = msg[job[u].slot]
        BY <1>4, <1>5, <1>6, ThreadDoc
      <3> QED BY <1>4, <3>1 DEF MessageInv, Owns, Handles, Stage, Used
    <2>3. \A u, v \in Threads :
            (u # v /\ pc[u] # "idle" /\ pc[v] # "idle" => job[u].slot # job[v].slot)'
      BY <1>4, <1>6 DEF MessageInv, Owns
    <2>4. \A h \in Healers :
            (redriving[h] # NoMsg /\ Used(redriving[h]) => msg[redriving[h]].dead)'
      BY <1>1, <1>5, <1>7 DEF MessageInv, Owns, Used, Typed, RowsOK
    <2> QED BY <2>1, <2>2, <2>3, <2>4 DEF Owns
  <1>9. SentOn'
    <2>1. \A u \in ParseThreads : pc'[u] = "send" => pc[u] = "send" /\ job'[u] = job[u]
      BY <1>4 DEF Threads
    <2> QED BY <1>1, <2>1, SentOnFrame DEF MessageInv
  <1>10. ASSUME NEW d, NEW s, Stays(d, s) PROVE Stays(d, s)'
    <2>1. ASSUME NEW k \in Msgs, About(k, d, s), ~Leaving(k) PROVE About(k, d, s)'
      BY <1>5, <2>1 DEF About, Used
    <2>2. ASSUME NEW k \in Msgs, ~Leaving(k) PROVE ~Leaving(k)'
      BY <1>1, <1>4, <2>2 DEF Leaving, LastSteps
    <2> QED BY <1>10, <2>1, <2>2, StaysFrame
  <1> QED BY <1>1, <1>8, <1>9, <1>10 DEF MessageInv, InHand

\* A step of a consumer thread keeps the invariant.
LEMMA ThreadKeeps ==
    ASSUME Typed, MessageInv, NEW t \in Threads,
           ThreadStep(t) \/ Raise(t) \/ Crash(t)
    PROVE  MessageInv'
  <1> USE DEF docVars, sideVars, sweepVars, Unparsed, LastSteps
  <1>0. pc[t] # "idle" => job[t].doc \in Docs /\ Stage(t) \in Stages
    BY ThreadDoc DEF Stage, Stages
  <1>1. status \in [Docs -> Statuses]
    BY DEF Typed, RowsOK
  <1>2. t \in ParseThreads => pc[t] \in ParsePCs
    BY DEF Typed, ThreadsOK
  <1>3. t \in ExtractThreads => pc[t] \in ExtractPCs
    BY DEF Typed, ThreadsOK
  <1>4. CASE Acknowledge(t)
    BY <1>4, GiveUpKeeps DEF Acknowledge, At
  <1>5. CASE NoteFailure(t) \/ Crash(t)
    BY <1>5, GiveUpKeeps DEF NoteFailure, Crash, At
  <1>6. CASE RecordFailure(t)
    <2>1. \A d \in Docs : \/ status'[d] = status[d]
                          \/ d = job[t].doc /\ status'[d] = "failed"
      BY <1>1, <1>6 DEF RecordFailure
    <2> QED BY <1>6, <2>1, MoveKeeps DEF RecordFailure, At
  <1>7. CASE DeferSaturated(t) \/ DeferProviderDown(t)
    <2>1. /\ pc[t] # "idle" /\ (Goto(t, "touch") \/ Goto(t, "hold"))
          /\ UNCHANGED <<status, redriving>>
          /\ \E f \in 0..MaxDefer : Send(Stage(t), job[t].doc, job[t].redrive, f, FALSE)
      <3>1. pc[t] # "idle"
        BY <1>7 DEF DeferSaturated, DeferProviderDown, At
      <3>2. job[t].defer \in 0..MaxDefer
        BY <3>1, BusyJob DEF Typed
      <3>3. job[t].defer < MaxDefer => job[t].defer + 1 \in 0..MaxDefer
        BY <3>2, QueueAssumption
      <3>4. CASE DeferSaturated(t)
        BY <3>1, <3>3, <3>4 DEF DeferSaturated, At, Typed, ThreadsOK
      <3>5. CASE DeferProviderDown(t)
        BY <3>1, <3>2, <3>5 DEF DeferProviderDown
      <3> QED BY <1>7, <3>4, <3>5
    <2>2. job[t].redrive \in 0..MaxRedrive /\ FALSE \in BOOLEAN
      BY <2>1, BusyJob DEF Typed
    <2>3. \E n \in Msgs : /\ n \notin Held /\ ~Used(n) /\ About(n, job[t].doc, Stage(t))'
                          /\ \A k \in Msgs \ {n} : msg'[k] = msg[k]
      <3>1. PICK d \in Docs, st \in Stages : d = job[t].doc /\ st = Stage(t)
        BY <1>0, <2>1
      <3>2. PICK n \in Msgs : /\ n \notin Held /\ ~Used(n) /\ About(n, d, st)'
                              /\ \A k \in Msgs \ {n} : msg'[k] = msg[k]
        BY <2>1, <2>2, <3>1, SendAdds
      <3>3. job' = job
        BY <2>1 DEF Goto
      <3> QED BY <3>1, <3>2, <3>3 DEF About, Stage
    <2> QED BY <2>1, <2>3, PostKeeps DEF Stage
  <1>8. CASE ParseSend(t)
    <2>1. /\ pc[t] = "send" /\ t \in ParseThreads /\ Goto(t, "ack")
          /\ UNCHANGED <<status, redriving>>
      BY <1>3, <1>8 DEF ParseSend, At, ExtractPCs, Threads
    <2>2. \E n \in Msgs : /\ n \notin Held /\ ~Used(n) /\ About(n, job[t].doc, "extract")'
                          /\ \A k \in Msgs \ {n} : msg'[k] = msg[k]
      <3>1. PICK d \in Docs : d = job[t].doc
        BY <1>0, <2>1
      <3>2. PICK n \in Msgs : /\ n \notin Held /\ ~Used(n) /\ About(n, d, "extract")'
                              /\ \A k \in Msgs \ {n} : msg'[k] = msg[k]
        BY <1>8, <3>1, FreshAdds DEF ParseSend, Stages
      <3>3. job' = job
        BY <2>1 DEF Goto
      <3> QED BY <3>1, <3>2, <3>3 DEF About
    <2>3. status[job[t].doc] # Working(t)
      BY <2>1 DEF MessageInv, SentOn, Working
    <2> QED BY <2>1, <2>2, <2>3, PostKeeps
  <1>9. CASE TouchDocument(t) \/ HoldBack(t) \/ Admit(t) \/ ParseFetch(t) \/ ParsePutText(t) \/ ModelCall(t)
    BY <1>9, MoveKeeps DEF TouchDocument, HoldBack, Admit, ParseFetch, ParsePutText, ModelCall, At
  <1>10. CASE Raise(t)
    BY <1>10, MoveKeeps DEF Raise
  <1>11. CASE EnsureReviewTask(t)
    BY <1>11, MoveKeeps DEF EnsureReviewTask, At
  <1>12. CASE ParseBegin(t)
    <2>1. CASE status[job[t].doc] \in {"received", "parsing"}
      BY <1>12, <2>1, BeginKeeps, PipelineAssumption DEF ParseBegin, At, SetStatus, Working
    <2>2. CASE status[job[t].doc] \notin {"received", "parsing"}
      BY <1>12, <2>2, MoveKeeps DEF ParseBegin, At, Working
    <2> QED BY <2>1, <2>2
  <1>13. CASE ExtractBegin(t)
    <2>1. t \notin ParseThreads /\ Working(t) = "extracting"
      BY <1>13, PipelineAssumption DEF ExtractBegin, Working
    <2>2. CASE status[job[t].doc] \in {"parsed", "extracting", "budget_exceeded"}
      BY <1>13, <2>1, <2>2, BeginKeeps DEF ExtractBegin, At, SetStatus
    <2>3. CASE status[job[t].doc] \notin {"parsed", "extracting", "budget_exceeded"}
      BY <1>13, <2>1, <2>3, MoveKeeps DEF ExtractBegin, At
    <2> QED BY <2>2, <2>3
  <1>14. ASSUME NEW s, s \in {"needs_ocr", "parsed", "budget_exceeded", "failed", "approved", "needs_review"},
                status' = [status EXCEPT ![job[t].doc] = s], pc[t] # "idle"
         PROVE  /\ status'[job[t].doc] = s
                /\ s \notin Unparsed \cup {"extracting"} /\ s # Working(t)
                /\ \A d \in Docs : \/ status'[d] = status[d]
                                   \/ d = job[t].doc /\ status'[d] \notin Unparsed \cup {"extracting"}
    BY <1>0, <1>1, <1>14 DEF Working
  <1>15. CASE ParseNeedsOcr(t)
    BY <1>14, <1>15, MoveKeeps DEF ParseNeedsOcr, At, SetStatus
  <1>16. CASE ParseCommit(t)
    BY <1>14, <1>16, MoveKeeps DEF ParseCommit, At
  <1>17. CASE PauseOnBudget(t)
    BY <1>14, <1>17, MoveKeeps DEF PauseOnBudget, At, SetStatus
  <1>18. CASE InvalidExtraction(t)
    <2>1. CASE UNCHANGED status /\ DbErrors
      BY <1>18, <2>1, MoveKeeps DEF InvalidExtraction, At
    <2>2. CASE SetStatus(job[t].doc, "failed")
      BY <1>14, <1>18, <2>2, MoveKeeps DEF InvalidExtraction, At, SetStatus
    <2> QED BY <1>18, <2>1, <2>2 DEF InvalidExtraction
  <1>19. CASE StoreExtraction(t)
    <2>1. CASE At(t, "approve") /\ SetStatus(job[t].doc, "approved") /\ Goto(t, "ack")
      BY <1>14, <1>19, <2>1, MoveKeeps DEF StoreExtraction, At, SetStatus
    <2>2. CASE At(t, "review") /\ SetStatus(job[t].doc, "needs_review") /\ Goto(t, "task")
      BY <1>14, <1>19, <2>2, MoveKeeps DEF StoreExtraction, At, SetStatus
    <2> QED BY <1>19, <2>1, <2>2 DEF StoreExtraction
  <1> QED BY <1>4, <1>5, <1>6, <1>7, <1>8, <1>9, <1>10, <1>11, <1>12, <1>13, <1>15, <1>16,
             <1>17, <1>18, <1>19 DEF ThreadStep

\* What every step but a handler's does to messages: add one, or nothing.
LEMMA AddsOrKeeps ==
    ASSUME Typed, UNCHANGED <<pc, job, redriving>>, Onward,
           \A d \in Docs : status[d] \notin Unparsed => status'[d] \notin Unparsed,
           MessageInv,
           \/ UNCHANGED msg
           \/ \E stage \in Stages, d \in Docs : Send(stage, d, 0, 0, TRUE)
    PROVE  MessageInv'
  <1>1. CASE UNCHANGED msg
    BY <1>1, AsideKeeps
  <1>2. ASSUME NEW stage \in Stages, NEW d \in Docs, Send(stage, d, 0, 0, TRUE) PROVE MessageInv'
    BY <1>2, FreshAdds, AsideKeeps
  <1> QED BY <1>1, <1>2

\* A step of a sweep, of an upload or of a human keeps the invariant.
LEMMA SweepKeeps ==
    ASSUME Typed, MessageInv,
           \/ \E d \in Docs : UploadInsert(d) \/ UploadSend(d) \/ ResolveTask(d) \/ Age(d)
           \/ \E s \in Sweepers : ReapScan(s)
           \/ \E s \in Sweepers, d \in Docs : SweepStep(s, d) \/ ReapAborted(s, d)
    PROVE  MessageInv'
  <1> USE DEF docVars, sideVars, sweepVars
  <1>1. status \in [Docs -> Statuses]
    BY DEF Typed, RowsOK
  <1>2. ASSUME NEW d \in Docs, UploadInsert(d) PROVE MessageInv'
    <2>1. \A e \in Docs : status'[e] = status[e] \/ (status[e] = "absent" /\ status'[e] = "received")
      BY <1>1, <1>2 DEF UploadInsert
    <2> QED BY <1>2, <2>1, AddsOrKeeps DEF UploadInsert, Onward, Unparsed
  <1>3. ASSUME NEW d \in Docs, UploadSend(d) \/ Age(d) PROVE MessageInv'
    BY <1>3, AddsOrKeeps DEF UploadSend, Age, Onward, Stages
  <1>4. ASSUME NEW d \in Docs, ResolveTask(d) PROVE MessageInv'
    <2>1. \A e \in Docs : status'[e] = status[e] \/ status'[e] = "approved"
      BY <1>1, <1>4 DEF ResolveTask, SetStatus
    <2> QED BY <1>4, <2>1, AddsOrKeeps DEF ResolveTask, Onward, Unparsed
  <1>5. ASSUME NEW s \in Sweepers, ReapScan(s) PROVE MessageInv'
    BY <1>5, AddsOrKeeps DEF ReapScan, Onward
  <1>6. ASSUME NEW s \in Sweepers, NEW d \in Docs, SweepStep(s, d) \/ ReapAborted(s, d)
        PROVE  MessageInv'
    <2>1. StageOf(cand[s][d]) \in Stages
      BY DEF StageOf, Stages
    <2>2. CASE ReapGiveUp(s, d)
      <3>1. \A e \in Docs : status'[e] = status[e] \/ status'[e] = "failed"
        BY <1>1, <2>2 DEF ReapGiveUp
      <3> QED BY <2>2, <3>1, AddsOrKeeps DEF ReapGiveUp, Onward, Unparsed
    <2>3. CASE ReapSkip(s, d) \/ ReapRaced(s, d)
      BY <2>3, AddsOrKeeps DEF ReapSkip, ReapRaced, Onward
    <2>4. CASE ReapUnclaimed(s, d) \/ ReapClaim(s, d) \/ ReapAborted(s, d)
      BY <2>1, <2>4, AddsOrKeeps DEF ReapUnclaimed, ReapClaim, ReapAborted, Onward
    <2> QED BY <1>6, <2>2, <2>3, <2>4 DEF SweepStep
  <1> QED BY <1>2, <1>3, <1>4, <1>5, <1>6

\* The copy a redrive sends is one that stays, and the dead letter is what it was.
LEMMA RedriveAdds ==
    ASSUME Typed, NEW h \in Healers, NEW m \in Msgs, RedriveSend(h, m)
    PROVE  \E n \in Msgs : /\ n # m /\ n \notin Held /\ ~Used(n) /\ Used(m)
                           /\ \A d, s : About(m, d, s) => About(m, d, s)' /\ About(n, d, s)'
                           /\ msg[m].dead /\ msg'[m].dead
                           /\ \A k \in Msgs \ {n, m} : msg'[k] = msg[k]
  <1>1. msg[m] \in Message /\ msg[m].redrive < MaxRedrive /\ msg[m].dead
    BY DEF RedriveSend, Used, Typed, QueueTypeOK
  <1>2. PICK n \in Msgs \ Held :
          /\ ~Used(n)
          /\ msg' = [msg EXCEPT
               ![n] = [msg[m] EXCEPT !.dead = FALSE, !.receives = 0, !.redrive = @ + 1],
               ![m].visible = FALSE]
    BY DEF RedriveSend
  <1>3. n # m
    BY <1>1, <1>2 DEF RedriveSend, Used
  <1> DEFINE alive == [msg[m] EXCEPT !.dead = FALSE]
             fresh == [alive EXCEPT !.receives = 0]
             copy  == [fresh EXCEPT !.redrive = msg[m].redrive + 1]
             left  == [msg[m] EXCEPT !.visible = FALSE]
  <1>4. /\ alive \in Message /\ alive.redrive = msg[m].redrive
        /\ alive.stage = msg[m].stage /\ alive.doc = msg[m].doc
    BY <1>1 DEF Message
  <1>5. /\ fresh \in Message /\ fresh.redrive = msg[m].redrive
        /\ fresh.stage = msg[m].stage /\ fresh.doc = msg[m].doc
    <2> HIDE DEF alive
    <2>1. 0 \in 0..MaxReceive
      BY QueueAssumption
    <2> QED BY <1>4, <2>1 DEF Message
  <1>6. copy \in Message /\ copy.stage = msg[m].stage /\ copy.doc = msg[m].doc
    <2> HIDE DEF fresh
    <2>1. msg[m].redrive + 1 \in 0..MaxRedrive
      BY <1>1, QueueAssumption DEF Message
    <2> QED BY <1>5, <2>1 DEF Message
  <1>7. left \in Message /\ left.stage = msg[m].stage /\ left.doc = msg[m].doc
    BY <1>1 DEF Message
  <1>8. left.dead = msg[m].dead
    BY <1>1, Zenon DEF Message
  <1>9. msg' = [msg EXCEPT ![n] = copy, ![m] = left]
    BY <1>2, <1>3, <1>4, <1>5
  <1> HIDE DEF copy, left
  <1>10. /\ msg'[n] = copy /\ msg'[m] = left
         /\ \A k \in Msgs \ {n, m} : msg'[k] = msg[k]
    BY <1>3, <1>9 DEF Typed, QueueTypeOK
  <1> QED BY <1>1, <1>2, <1>3, <1>6, <1>7, <1>8, <1>10, QueueAssumption DEF About, Used

LEMMA RedriveSendKeeps ==
    ASSUME Typed, MessageInv, NEW h \in Healers, NEW m \in Msgs, RedriveSend(h, m)
    PROVE  MessageInv'
  <1>1. /\ redriving[h] = NoMsg /\ redriving' = [redriving EXCEPT ![h] = m]
        /\ UNCHANGED <<status, pc, job>>
    BY DEF RedriveSend, docVars
  <1>2. PICK n \in Msgs : /\ n # m /\ n \notin Held /\ ~Used(n) /\ Used(m)
                          /\ \A d, s : About(m, d, s) => About(m, d, s)' /\ About(n, d, s)'
                          /\ msg[m].dead /\ msg'[m].dead
                          /\ \A k \in Msgs \ {n, m} : msg'[k] = msg[k]
    BY RedriveAdds
  <1>3. n # m /\ Used(m) /\ msg[m].dead /\ msg'[m].dead /\ \A k \in Msgs \ {n, m} : msg'[k] = msg[k]
    BY <1>2
  <1>4. redriving'[h] = m /\ \A g \in Healers \ {h} : redriving'[g] = redriving[g]
    BY <1>1 DEF Typed, RowsOK
  <1>5. \A u \in Threads : pc[u] # "idle" => job[u].slot # m /\ job[u].slot # n /\ job[u].slot \in Msgs
    <2>1. \A u \in Threads : pc[u] # "idle" => job[u].slot # m
      BY <1>3 DEF MessageInv, Owns, Handles
    <2> QED BY <1>2, <2>1, ThreadDoc
  <1>6. \A g \in Healers : redriving[g] # n
    BY <1>2 DEF Held
  <1>7. Owns'
    <2>1. \A u \in Threads : pc'[u] # "idle" => Handles(u)'
      <3>1. \A u \in Threads : pc[u] # "idle" => msg'[job[u].slot] = msg[job[u].slot]
        BY <1>3, <1>5
      <3> QED BY <1>1, <3>1 DEF MessageInv, Owns, Handles, Used, Stage
    <2>2. \A u, v \in Threads :
            (u # v /\ pc[u] # "idle" /\ pc[v] # "idle" => job[u].slot # job[v].slot)'
      BY <1>1 DEF MessageInv, Owns
    <2>3. ASSUME NEW g \in Healers, redriving'[g] # NoMsg, Used(redriving[g])'
          PROVE  msg'[redriving'[g]].dead
      <3>1. CASE redriving'[g] = m
        BY <1>3, <3>1
      <3>2. CASE redriving'[g] # m
        <4>1. redriving'[g] = redriving[g] /\ redriving[g] \in Msgs \ {n, m}
          BY <1>4, <1>6, <2>3, <3>2 DEF Typed, RowsOK
        <4> QED BY <1>3, <2>3, <4>1 DEF MessageInv, Owns, Used
      <3> QED BY <3>1, <3>2
    <2> QED BY <2>1, <2>2, <2>3 DEF Owns
  <1>8. SentOn'
    BY <1>1, SentOnFrame DEF MessageInv
  <1>9. ASSUME NEW d, NEW s, Stays(d, s) PROVE Stays(d, s)'
    <2>1. PICK k \in Msgs : About(k, d, s) /\ ~Leaving(k)
      BY <1>9 DEF Stays
    <2>2. CASE k = m
      <3>1. About(n, d, s)'
        BY <1>2, <2>1, <2>2
      <3>2. ~Leaving(n)'
        BY <1>1, <1>2, <1>4, <1>5, <1>6 DEF Leaving, LastSteps
      <3> QED BY <3>1, <3>2 DEF Stays
    <2>3. CASE k # m
      <3>1. About(k, d, s)'
        BY <1>2, <2>1, <2>3 DEF About, Used
      <3>2. ~Leaving(k)'
        BY <1>1, <1>4, <2>1, <2>3 DEF Leaving
      <3> QED BY <3>1, <3>2 DEF Stays
    <2> QED BY <2>2, <2>3
  <1> QED BY <1>1, <1>7, <1>8, <1>9 DEF MessageInv, InHand

LEMMA RedriveDeleteKeeps ==
    ASSUME Typed, MessageInv, NEW h \in Healers, RedriveDelete(h)
    PROVE  MessageInv'
  <1>1. /\ redriving[h] # NoMsg /\ redriving' = [redriving EXCEPT ![h] = NoMsg]
        /\ UNCHANGED <<status, pc, job>>
        /\ msg' = [msg EXCEPT ![redriving[h]] = NoMsg] \/ UNCHANGED msg
    BY DEF RedriveDelete, docVars
  <1>2. PICK m \in Msgs : m = redriving[h]
    BY <1>1 DEF Typed, RowsOK
  <1>3. msg'[m] \in {msg[m], NoMsg} /\ \A k \in Msgs \ {m} : msg'[k] = msg[k]
    BY <1>1, <1>2 DEF Typed, QueueTypeOK
  <1>4. redriving'[h] = NoMsg /\ \A g \in Healers \ {h} : redriving'[g] = redriving[g]
    BY <1>1 DEF Typed, RowsOK
  <1>5. Owns'
    <2>1. \A u \in Threads : pc[u] # "idle" => job[u].slot # m
      BY <1>1, <1>2 DEF MessageInv, Owns, Handles
    <2>2. \A u \in Threads : pc[u] # "idle" => msg'[job[u].slot] = msg[job[u].slot]
      BY <1>3, <2>1, ThreadDoc
    <2>3. \A g \in Healers : redriving'[g] # NoMsg =>
             redriving'[g] = redriving[g] /\ msg'[redriving[g]] \in {msg[redriving[g]], NoMsg}
      BY <1>3, <1>4 DEF Typed, RowsOK
    <2> QED BY <1>1, <2>2, <2>3, OwnsFrame DEF MessageInv
  <1>6. SentOn'
    BY <1>1, SentOnFrame DEF MessageInv
  <1>7. ASSUME NEW d, NEW s, Stays(d, s) PROVE Stays(d, s)'
    <2>1. ASSUME NEW k \in Msgs, About(k, d, s), ~Leaving(k) PROVE About(k, d, s)' /\ ~Leaving(k)'
      <3>1. k # m
        BY <1>1, <1>2, <2>1 DEF Leaving
      <3> QED BY <1>1, <1>3, <1>4, <2>1, <3>1 DEF About, Used, Leaving
    <2> QED BY <1>7, <2>1, StaysFrame
  <1> QED BY <1>1, <1>5, <1>6, <1>7 DEF MessageInv, InHand

\* Time and the queue service keep the invariant, if no visibility timeout runs out
\* under a running handler.
LEMMA QueueKeeps ==
    ASSUME Typed, MessageInv, ~LateDelivery, NEW m \in Msgs,
           Expire(m) \/ ToDeadLetter(m)
    PROVE  MessageInv'
  <1>1. /\ UNCHANGED <<status, pc, job, redriving>>
        /\ Reappear(m) \/ DeadLetter(m)
        /\ Reappear(m) => m \notin Held
    BY DEF Expire, ToDeadLetter, docVars, sweepVars, BeingHandled, Reappear, DeadLetter
  <1>2. /\ Used(m)' /\ msg'[m].doc = msg[m].doc /\ msg'[m].stage = msg[m].stage
        /\ \A k \in Msgs \ {m} : msg'[k] = msg[k]
    BY <1>1, ServiceKeeps
  <1>3. \A u \in Threads : pc[u] # "idle" => job[u].slot # m
    BY <1>1, ThreadDoc DEF MessageInv, Owns, Handles, DeadLetter
  <1>4. \A h \in Healers : redriving[h] # NoMsg => redriving[h] # m
    BY <1>1 DEF MessageInv, Owns, DeadLetter, Held
  <1>5. Owns'
    <2>1. \A u \in Threads : pc[u] # "idle" => msg'[job[u].slot] = msg[job[u].slot]
      BY <1>2, <1>3, ThreadDoc
    <2>2. \A h \in Healers : redriving[h] # NoMsg => msg'[redriving[h]] = msg[redriving[h]]
      BY <1>2, <1>4 DEF Typed, RowsOK
    <2> QED BY <1>1, <2>1, <2>2, OwnsFrame DEF MessageInv
  <1>6. SentOn'
    BY <1>1, SentOnFrame DEF MessageInv
  <1>7. ASSUME NEW d, NEW s, Stays(d, s) PROVE Stays(d, s)'
    <2>1. \A k \in Msgs : About(k, d, s) /\ ~Leaving(k) => About(k, d, s)' /\ ~Leaving(k)'
      BY <1>1, <1>2 DEF About, Used, Leaving
    <2> QED BY <1>7, <2>1, StaysFrame
  <1> QED BY <1>1, <1>5, <1>6, <1>7 DEF MessageInv, InHand

LEMMA PurgeKeeps ==
    ASSUME Typed, MessageInv, NEW m \in Msgs, Purge(m)
    PROVE  MessageInv'
  <1>1. /\ UNCHANGED <<status, pc, job, redriving>> /\ Retention
        /\ Used(m) /\ msg[m].dead /\ msg' = [msg EXCEPT ![m] = NoMsg]
    BY DEF Purge, docVars, sweepVars
  <1>2. msg'[m] = NoMsg /\ \A k \in Msgs \ {m} : msg'[k] = msg[k]
    BY <1>1 DEF Typed, QueueTypeOK
  <1>3. Owns'
    <2>1. \A u \in Threads : pc[u] # "idle" => job[u].slot # m
      BY <1>1 DEF MessageInv, Owns, Handles
    <2>2. \A u \in Threads : pc[u] # "idle" => msg'[job[u].slot] = msg[job[u].slot]
      BY <1>2, <2>1, ThreadDoc
    <2>3. \A h \in Healers : redriving[h] # NoMsg => msg'[redriving[h]] \in {msg[redriving[h]], NoMsg}
      BY <1>2 DEF Typed, RowsOK
    <2> QED BY <1>1, <2>2, <2>3, OwnsFrame DEF MessageInv
  <1>4. SentOn'
    BY <1>1, SentOnFrame DEF MessageInv
  <1> QED BY <1>1, <1>3, <1>4 DEF MessageInv, InHand

LEMMA StepKeeps ==
    ASSUME ~LateDelivery
    PROVE  TypeOK /\ MessageInv /\ [Next]_vars => MessageInv'
  <1> SUFFICES ASSUME TypeOK, MessageInv, [Next]_vars PROVE MessageInv'
    OBVIOUS
  <1>1. Typed
    BY TypedIs
  <1>2. CASE \E t \in Threads : ThreadStep(t) \/ Raise(t) \/ Crash(t)
    BY <1>1, <1>2, ThreadKeeps
  <1>3. CASE \E t \in Threads, m \in Msgs : Receive(t, m)
    BY <1>1, <1>3, ReceiveKeeps
  <1>4. CASE \/ \E d \in Docs : UploadInsert(d) \/ UploadSend(d) \/ ResolveTask(d) \/ Age(d)
             \/ \E s \in Sweepers : ReapScan(s)
             \/ \E s \in Sweepers, d \in Docs : SweepStep(s, d) \/ ReapAborted(s, d)
    BY <1>1, <1>4, SweepKeeps
  <1>5. CASE \E h \in Healers : RedriveDelete(h) \/ \E m \in Msgs : RedriveSend(h, m)
    BY <1>1, <1>5, RedriveDeleteKeeps, RedriveSendKeeps
  <1>6. CASE \E m \in Msgs : Expire(m) \/ ToDeadLetter(m) \/ Purge(m)
    BY <1>1, <1>6, QueueKeeps, PurgeKeeps
  <1>7. CASE UNCHANGED vars
    BY <1>1, <1>7, AsideKeeps DEF vars, docVars, sweepVars, Onward
  <1> QED BY <1>2, <1>3, <1>4, <1>5, <1>6, <1>7 DEF Next

\* A document in the hands of a stage has a message of that stage, on the queue or on
\* its DLQ, through crashes, exceptions, deferrals, redeliveries, rescues and redrives.
\* It takes a visibility timeout that runs out under its handler, a dead letter past
\* its retention, or the lost write after an invalid answer to leave it without one.
THEOREM WorkIsNeverLost ==
    ASSUME ~LateDelivery, ~DbErrors, ~Retention
    PROVE  Spec => []InProgressHasMessage
  <1>1. TypeOK /\ MessageInv => InProgressHasMessage
    BY DEF MessageInv, InHand, Stays, About, InProgressHasMessage
  <1>2. TypeOK /\ MessageInv /\ [Next]_vars => MessageInv'
    BY StepKeeps
  <1> QED BY InitMessage, <1>1, <1>2, Typing, PTL DEF Spec

--------------------------------------------------------------------------
(* Documents in review.                                                    *)

\* A step that closes no task, and takes no thread off its way to opening one, leaves
\* what needs review in front of a human.
LEMMA ReviewFrame ==
    ASSUME NeedsReviewIsQueued,
           \A d \in Docs : status'[d] = "needs_review" =>
               status[d] = "needs_review" /\ (openTasks[d] > 0 => openTasks'[d] > 0),
           \A t \in ExtractThreads : pc[t] = "task" => pc'[t] = "task" /\ job'[t] = job[t]
    PROVE  NeedsReviewIsQueued'
  BY DEF NeedsReviewIsQueued

LEMMA ThreadReview ==
    ASSUME Typed, NeedsReviewIsQueued, NEW t \in Threads, ThreadStep(t)
    PROVE  NeedsReviewIsQueued'
  <1> USE DEF docVars, sideVars, sweepVars
  <1>1. pc[t] # "idle" => job[t].doc \in Docs
    BY ThreadDoc
  <1>2. ASSUME pc[t] # "idle", pc[t] # "task", UNCHANGED openTasks,
               \A d \in Docs : status'[d] = "needs_review" => status[d] = "needs_review",
               (\E p : Goto(t, p)) \/ Release(t)
        PROVE  NeedsReviewIsQueued'
    <2>1. \A u \in Threads \ {t} : pc'[u] = pc[u] /\ job'[u] = job[u]
      BY <1>2 DEF Goto, Release, Typed, ThreadsOK
    <2> QED BY <1>2, <2>1, ReviewFrame DEF Threads
  <1>3. ASSUME NEW s, s # "needs_review", status' = [status EXCEPT ![job[t].doc] = s]
        PROVE  \A d \in Docs : status'[d] = "needs_review" => status[d] = "needs_review"
    BY <1>3 DEF Typed, RowsOK
  <1>4. CASE \/ Acknowledge(t) \/ NoteFailure(t) \/ DeferSaturated(t) \/ DeferProviderDown(t)
             \/ TouchDocument(t) \/ HoldBack(t) \/ Admit(t) \/ ParseFetch(t) \/ ParsePutText(t) \/ ParseSend(t)
             \/ ModelCall(t)
    BY <1>2, <1>4 DEF Acknowledge, NoteFailure, DeferSaturated, DeferProviderDown, TouchDocument,
           HoldBack, Admit, ParseFetch, ParsePutText, ParseSend, ModelCall, At
  <1>5. CASE ParseBegin(t) \/ ParseNeedsOcr(t) \/ ParseCommit(t) \/ ExtractBegin(t)
             \/ PauseOnBudget(t) \/ InvalidExtraction(t)
    BY <1>2, <1>3, <1>5 DEF ParseBegin, ParseNeedsOcr, ParseCommit, ExtractBegin, PauseOnBudget,
           InvalidExtraction, SetStatus, At
  <1>6. CASE RecordFailure(t)
    <2>1. \A d \in Docs : status'[d] = "needs_review" => status[d] = "needs_review"
      BY <1>6 DEF RecordFailure, Typed, RowsOK
    <2> QED BY <1>2, <1>6, <2>1 DEF RecordFailure, At
  <1>7. CASE StoreExtraction(t)
    <2>1. CASE At(t, "approve") /\ SetStatus(job[t].doc, "approved") /\ Goto(t, "ack")
      BY <1>2, <1>3, <1>7, <2>1 DEF StoreExtraction, SetStatus, At
    <2>2. CASE At(t, "review") /\ SetStatus(job[t].doc, "needs_review") /\ Goto(t, "task")
      <3>1. t \in ExtractThreads
        BY <2>2 DEF At, Typed, ThreadsOK, ParsePCs, Threads
      <3>2. /\ pc'[t] = "task" /\ job' = job
            /\ \A u \in Threads \ {t} : pc'[u] = pc[u]
        BY <2>2 DEF Goto, Typed, ThreadsOK
      <3>3. \A d \in Docs \ {job[t].doc} : status'[d] = status[d]
        BY <2>2 DEF SetStatus, Typed, RowsOK
      <3> QED BY <1>7, <3>1, <3>2, <3>3, <2>2 DEF StoreExtraction, NeedsReviewIsQueued, At, Threads
    <2> QED BY <1>7, <2>1, <2>2 DEF StoreExtraction
  <1>8. CASE EnsureReviewTask(t)
    <2>1. /\ pc'[t] = "ack" /\ job' = job
          /\ \A u \in Threads \ {t} : pc'[u] = pc[u]
      BY <1>8 DEF EnsureReviewTask, At, Goto, Typed, ThreadsOK
    <2>2. /\ openTasks'[job[t].doc] > 0
          /\ \A d \in Docs \ {job[t].doc} : openTasks'[d] = openTasks[d]
      BY <1>1, <1>8, PipelineAssumption DEF EnsureReviewTask, At, Typed, RowsOK
    <2> QED BY <1>8, <2>1, <2>2 DEF EnsureReviewTask, NeedsReviewIsQueued, Threads
  <1> QED BY <1>4, <1>5, <1>6, <1>7, <1>8 DEF ThreadStep

LEMMA OtherReview ==
    ASSUME Typed, NeedsReviewIsQueued,
           \/ \E d \in Docs : UploadInsert(d) \/ UploadSend(d) \/ Age(d)
           \/ \E s \in Sweepers : ReapScan(s)
           \/ \E s \in Sweepers, d \in Docs : SweepStep(s, d) \/ ReapAborted(s, d)
           \/ \E h \in Healers : RedriveDelete(h) \/ \E m \in Msgs : RedriveSend(h, m)
           \/ \E m \in Msgs : Expire(m) \/ ToDeadLetter(m) \/ Purge(m)
           \/ UNCHANGED vars
    PROVE  NeedsReviewIsQueued'
  <1> USE DEF docVars, sideVars, sweepVars
  <1>1. UNCHANGED <<openTasks, pc, job>>
    BY DEF UploadInsert, UploadSend, Age, ReapScan, SweepStep, ReapAborted, ReapSkip, ReapUnclaimed,
           ReapClaim, ReapGiveUp, ReapRaced, RedriveDelete, RedriveSend, Expire, ToDeadLetter, Purge, vars
  <1>2. \/ UNCHANGED status
        \/ \E d \in Docs, s \in {"received", "failed"} : status' = [status EXCEPT ![d] = s]
    BY DEF UploadInsert, UploadSend, Age, ReapScan, SweepStep, ReapAborted, ReapSkip, ReapUnclaimed,
           ReapClaim, ReapGiveUp, ReapRaced, RedriveDelete, RedriveSend, Expire, ToDeadLetter, Purge, vars
  <1>3. \A d \in Docs : status'[d] = "needs_review" => status[d] = "needs_review"
    BY <1>2 DEF Typed, RowsOK
  <1> QED BY <1>1, <1>3, ReviewFrame

\* Duplicates, redeliveries that overtake a running handler, rescues and redrives never
\* leave a document in review without its task: it takes a worker that dies, or an
\* exception, between the routing transaction and the review task.
THEOREM DuplicatesKeepReviews ==
    ASSUME ~Crashes, ~StageErrors
    PROVE  Spec => []NeedsReviewIsQueued
  <1>1. Init => NeedsReviewIsQueued
    BY DEF Init, NeedsReviewIsQueued
  <1>2. TypeOK /\ NeedsReviewIsQueued /\ [Next]_vars => NeedsReviewIsQueued'
    <2> SUFFICES ASSUME TypeOK, NeedsReviewIsQueued, [Next]_vars PROVE NeedsReviewIsQueued'
      OBVIOUS
    <2>1. Typed
      BY TypedIs
    <2>2. CASE \E t \in Threads : ThreadStep(t) \/ Raise(t) \/ Crash(t)
      BY <2>1, <2>2, ThreadReview DEF Raise, Crash
    <2>3. ASSUME NEW t \in Threads, NEW m \in Msgs, Receive(t, m) PROVE NeedsReviewIsQueued'
      <3>1. pc[t] = "idle" /\ UNCHANGED <<status, openTasks>>
        BY <2>3 DEF Receive, docVars, sideVars
      <3>2. \A u \in Threads \ {t} : pc'[u] = pc[u] /\ job'[u] = job[u]
        BY <2>1, <2>3 DEF Receive, Typed, ThreadsOK
      <3> QED BY <3>1, <3>2, ReviewFrame DEF Threads
    <2>4. ASSUME NEW d \in Docs, ResolveTask(d) PROVE NeedsReviewIsQueued'
      <3>1. UNCHANGED <<pc, job>> /\ status'[d] = "approved"
            /\ \A e \in Docs \ {d} : status'[e] = status[e] /\ openTasks'[e] = openTasks[e]
        BY <2>1, <2>4 DEF ResolveTask, SetStatus, Typed, RowsOK
      <3> QED BY <3>1, ReviewFrame
    <2> QED BY <2>1, <2>2, <2>3, <2>4, OtherReview DEF Next
  <1> QED BY <1>1, <1>2, Typing, PTL DEF Spec

--------------------------------------------------------------------------
(* Rescues.                                                                *)

\* What any step does to a document's row: a write that changes the status makes the
\* row fresh, only time makes it stale, and only a sweeper that found it stale counts.
RowStep(d) ==
    /\ status'[d] # status[d] => (status[d] = "absent" /\ stale' = stale) \/ d \notin stale'
    /\ d \in stale' => d \in stale \/ Age(d)
    /\ status[d] # "absent" => status'[d] # "absent"
    /\ reapCount'[d] # reapCount[d] => Pending(d) /\ d \notin stale'

\* What any step does to a scan: it is taken, or its candidates are dropped.
CandStep ==
    \/ \A s \in Sweepers, d \in Docs : cand'[s][d] \in {"none", cand[s][d]}
    \/ /\ UNCHANGED <<status, stale>>
       /\ \A s \in Sweepers, d \in Docs : cand'[s][d] \in {status[d], cand[s][d], "none"}

LEMMA ThreadRow ==
    ASSUME Typed, NEW t \in Threads,
           ThreadStep(t) \/ Raise(t) \/ Crash(t) \/ (\E m \in Msgs : Receive(t, m))
    PROVE  CandStep /\ \A d \in Docs : RowStep(d)
  <1> USE DEF docVars, sideVars, sweepVars
  <1>1. UNCHANGED <<cand, reapCount>>
    BY DEF ThreadStep, Acknowledge, RecordFailure, NoteFailure, DeferSaturated, DeferProviderDown,
           TouchDocument, HoldBack, Admit, ParseBegin, ParseFetch, ParseNeedsOcr, ParsePutText, ParseCommit,
           ParseSend, ExtractBegin, ModelCall, PauseOnBudget, InvalidExtraction, StoreExtraction,
           EnsureReviewTask, Raise, Crash, Receive
  <1>2. pc[t] # "idle" => job[t].doc \in Docs
    BY ThreadDoc
  <1>3. ASSUME UNCHANGED status, stale' \subseteq stale
        PROVE  \A d \in Docs : RowStep(d)
    BY <1>1, <1>3 DEF RowStep
  <1>4. ASSUME NEW e \in Docs, NEW s, s # "absent", status' = [status EXCEPT ![e] = s],
               stale' = stale \ {e} \/ (s = status[e] /\ stale' = stale)
        PROVE  \A d \in Docs : RowStep(d)
    BY <1>1, <1>4 DEF RowStep, Typed, RowsOK
  <1>5. CASE \/ Acknowledge(t) \/ NoteFailure(t) \/ DeferSaturated(t) \/ DeferProviderDown(t)
             \/ TouchDocument(t) \/ HoldBack(t) \/ Admit(t) \/ ParseFetch(t) \/ ParsePutText(t) \/ ParseSend(t)
             \/ ModelCall(t) \/ EnsureReviewTask(t) \/ Raise(t) \/ Crash(t)
             \/ \E m \in Msgs : Receive(t, m)
    <2>1. UNCHANGED status /\ stale' \subseteq stale
      BY <1>5 DEF Acknowledge, NoteFailure, DeferSaturated, DeferProviderDown, TouchDocument, HoldBack, Admit,
             ParseFetch, ParsePutText, ParseSend, ModelCall, EnsureReviewTask, Raise, Crash, Receive,
             Refresh
    <2> QED BY <1>1, <1>3, <2>1 DEF CandStep
  <1>6. CASE ParseBegin(t) \/ ParseNeedsOcr(t) \/ ExtractBegin(t) \/ PauseOnBudget(t)
             \/ InvalidExtraction(t) \/ StoreExtraction(t)
    <2>1. CASE UNCHANGED <<status, stale>>
      BY <1>1, <1>3, <2>1 DEF CandStep
    <2>2. ASSUME NEW s, s # "absent", SetStatus(job[t].doc, s), pc[t] # "idle"
          PROVE  CandStep /\ \A d \in Docs : RowStep(d)
      <3>1. PICK e \in Docs : e = job[t].doc
        BY <1>2, <2>2
      <3>2. /\ status' = [status EXCEPT ![e] = s]
            /\ stale' = stale \ {e} \/ (s = status[e] /\ stale' = stale)
        BY <2>2, <3>1 DEF SetStatus, Refresh
      <3> QED BY <1>1, <1>4, <2>2, <3>2 DEF CandStep
    <2> QED BY <1>6, <2>1, <2>2
            DEF ParseBegin, ParseNeedsOcr, ExtractBegin, PauseOnBudget, InvalidExtraction,
                StoreExtraction, At
  <1>7. CASE ParseCommit(t) \/ RecordFailure(t)
    <2>1. CASE UNCHANGED <<status, stale>>
      BY <1>1, <1>3, <2>1 DEF CandStep
    <2>2. CASE ParseCommit(t)
      BY <1>1, <1>2, <1>4, <2>2 DEF ParseCommit, At, Refresh, CandStep
    <2>3. CASE RecordFailure(t) /\ ~UNCHANGED <<status, stale>>
      <3>1. PICK e \in Docs : e = job[t].doc
        BY <1>2, <2>3 DEF RecordFailure, At
      <3>2. stale' = stale \ {e} /\ \E s \in {"failed", status[e]} : status' = [status EXCEPT ![e] = s]
        BY <2>3, <3>1 DEF RecordFailure, Refresh
      <3>3. \A d \in Docs : RowStep(d)
        BY <1>1, <3>2 DEF RowStep, Typed, RowsOK
      <3> QED BY <1>1, <3>3 DEF CandStep
    <2> QED BY <1>7, <2>1, <2>2, <2>3
  <1> QED BY <1>5, <1>6, <1>7 DEF ThreadStep

LEMMA OtherRow ==
    ASSUME Typed,
           \/ \E d \in Docs : UploadInsert(d) \/ UploadSend(d) \/ ResolveTask(d) \/ Age(d)
           \/ \E s \in Sweepers : ReapScan(s)
           \/ \E s \in Sweepers, d \in Docs : SweepStep(s, d) \/ ReapAborted(s, d)
           \/ \E h \in Healers : RedriveDelete(h) \/ \E m \in Msgs : RedriveSend(h, m)
           \/ \E m \in Msgs : Expire(m) \/ ToDeadLetter(m) \/ Purge(m)
           \/ UNCHANGED vars
    PROVE  CandStep /\ \A d \in Docs : RowStep(d)
  <1> USE DEF docVars, sideVars, sweepVars
  <1>1. ASSUME UNCHANGED docVars PROVE \A d \in Docs : RowStep(d)
    BY <1>1 DEF RowStep
  <1>2. ASSUME NEW d \in Docs, UploadInsert(d) PROVE CandStep /\ \A e \in Docs : RowStep(e)
    BY <1>2 DEF UploadInsert, CandStep, RowStep, Typed, RowsOK
  <1>3. ASSUME NEW d \in Docs, UploadSend(d) PROVE CandStep /\ \A e \in Docs : RowStep(e)
    BY <1>1, <1>3 DEF UploadSend, CandStep
  <1>4. ASSUME NEW d \in Docs, ResolveTask(d) PROVE CandStep /\ \A e \in Docs : RowStep(e)
    BY <1>4 DEF ResolveTask, SetStatus, Refresh, CandStep, RowStep, Typed, RowsOK
  <1>5. ASSUME NEW d \in Docs, Age(d) PROVE CandStep /\ \A e \in Docs : RowStep(e)
    <2>1. \A e \in Docs : e \in stale' => e \in stale \/ Age(e)
      BY <1>5 DEF Age
    <2> QED BY <1>5, <2>1 DEF Age, CandStep, RowStep
  <1>6. ASSUME NEW s \in Sweepers, ReapScan(s) PROVE CandStep /\ \A e \in Docs : RowStep(e)
    <2>1. \A r \in Sweepers, d \in Docs : cand'[r][d] \in {status[d], cand[r][d], "none"}
      BY <1>6 DEF ReapScan, Typed, RowsOK
    <2> QED BY <1>1, <1>6, <2>1 DEF ReapScan, CandStep
  <1>7. ASSUME NEW s \in Sweepers, NEW d \in Docs, SweepStep(s, d) \/ ReapAborted(s, d)
        PROVE  CandStep /\ \A e \in Docs : RowStep(e)
    <2>1. CandStep
      <3>1. CASE Drop(s, d)
        BY <3>1 DEF Drop, CandStep, Typed, RowsOK
      <3>2. CASE cand' = [cand EXCEPT ![s] = NoCand]
        BY <3>2 DEF NoCand, CandStep, Typed, RowsOK
      <3> QED BY <1>7, <3>1, <3>2 DEF SweepStep, ReapSkip, ReapUnclaimed, ReapClaim, ReapGiveUp,
                ReapRaced, ReapAborted
    <2>2. CASE UNCHANGED docVars
      BY <1>1, <2>1, <2>2
    <2>3. CASE ReapClaim(s, d)
      BY <2>1, <2>3 DEF ReapClaim, Refresh, RowStep, Typed, RowsOK
    <2>4. CASE ReapGiveUp(s, d)
      BY <2>1, <2>4 DEF ReapGiveUp, Refresh, RowStep, Typed, RowsOK
    <2> QED BY <1>7, <2>2, <2>3, <2>4 DEF SweepStep, ReapSkip, ReapUnclaimed, ReapRaced, ReapAborted
  <1>8. CASE \/ \E h \in Healers : RedriveDelete(h) \/ \E m \in Msgs : RedriveSend(h, m)
             \/ \E m \in Msgs : Expire(m) \/ ToDeadLetter(m) \/ Purge(m)
             \/ UNCHANGED vars
    <2>1. UNCHANGED docVars /\ UNCHANGED cand
      BY <1>8 DEF RedriveDelete, RedriveSend, Expire, ToDeadLetter, Purge, vars
    <2> QED BY <1>1, <2>1 DEF CandStep
  <1> QED BY <1>2, <1>3, <1>4, <1>5, <1>6, <1>7, <1>8

\* Every step is such a step of the rows and of the scans.
LEMMA EveryRow == TypeOK /\ [Next]_vars => CandStep /\ \A d \in Docs : RowStep(d)
  <1> SUFFICES ASSUME TypeOK, [Next]_vars PROVE CandStep /\ \A d \in Docs : RowStep(d)
    OBVIOUS
  <1>1. Typed
    BY TypedIs
  <1>2. CASE \E t \in Threads : ThreadStep(t) \/ Raise(t) \/ Crash(t) \/ \E m \in Msgs : Receive(t, m)
    BY <1>1, <1>2, ThreadRow
  <1> QED BY <1>1, <1>2, OtherRow DEF Next

\* A row that is absent has no past; a candidate that is still stale is still what its
\* scan saw, which is all that the conditional UPDATE of a claim goes by.
RowsInv ==
    /\ \A d \in Docs : status[d] = "absent" => d \notin stale /\ reapCount[d] = 0
    /\ \A s \in Sweepers, d \in Docs :
         cand[s][d] # "none" /\ d \in stale /\ Pending(d) => status[d] = cand[s][d]

LEMMA InitRows == Init => RowsInv
  BY DEF Init, RowsInv

LEMMA StepRows == TypeOK /\ RowsInv /\ [Next]_vars => RowsInv'
  <1> SUFFICES ASSUME TypeOK, RowsInv, [Next]_vars PROVE RowsInv'
    OBVIOUS
  <1>1. CandStep /\ \A d \in Docs : RowStep(d)
    BY EveryRow
  <1>2. ASSUME NEW d \in Docs, status'[d] = "absent" PROVE d \notin stale' /\ reapCount'[d] = 0
    <2>1. status[d] = "absent" /\ d \notin stale /\ reapCount[d] = 0
      BY <1>1, <1>2 DEF RowStep, RowsInv
    <2> QED BY <1>1, <2>1 DEF RowStep, Age, Pending
  <1>3. ASSUME NEW s \in Sweepers, NEW d \in Docs,
               cand'[s][d] # "none", d \in stale', Pending(d)'
        PROVE  status'[d] = cand'[s][d]
    <2>1. d \in stale \/ Age(d)
      BY <1>1, <1>3 DEF RowStep
    <2>2. CASE Age(d)
      <3>1. cand' = cand /\ cand[s][d] = "none"
        BY <2>2 DEF Age, sweepVars
      <3> QED BY <1>3, <3>1
    <2>3. CASE d \in stale
      <3>1. status[d] # "absent" /\ status'[d] = status[d]
        BY <1>1, <1>3, <2>3 DEF RowStep, RowsInv
      <3>2. Pending(d)
        BY <1>3, <3>1 DEF Pending
      <3> QED BY <1>1, <1>3, <2>3, <3>1, <3>2 DEF CandStep, RowsInv
    <2> QED BY <2>1, <2>2, <2>3
  <1> QED BY <1>2, <1>3 DEF RowsInv

\* A document no message was on its way for gets none from a step that adds none.
LEMMA QueuedFrame ==
    ASSUME NEW d \in Docs, ~Queued(d), d \in uploading' => d \in uploading,
           \A m \in Msgs : \/ msg'[m] \in {msg[m], NoMsg}
                           \/ msg'[m].doc # d
    PROVE  ~Queued(d)'
  BY DEF Queued, Used

\* What a thread handles is on its way; so is what the service can still deliver.
LEMMA HandledIsQueued ==
    ASSUME Typed, MessageInv, NEW t \in Threads, pc[t] # "idle"
    PROVE  Queued(job[t].doc)
  BY ThreadDoc DEF MessageInv, Owns, Handles, Queued

LEMMA SendElsewhere ==
    ASSUME Typed, NEW d \in Docs, ~Queued(d), UNCHANGED uploading,
           NEW stage \in Stages, NEW e \in Docs, e # d, NEW r \in 0..MaxRedrive,
           NEW f \in 0..MaxDefer, NEW v \in BOOLEAN, Send(stage, e, r, f, v)
    PROVE  ~Queued(d)'
  <1>1. PICK n \in Msgs : /\ About(n, e, stage)'
                          /\ \A k \in Msgs \ {n} : msg'[k] = msg[k]
    BY SendAdds
  <1> QED BY <1>1, QueuedFrame DEF About

\* No step of a handler puts a document on its way that was not on its way.
LEMMA ThreadNotQueued ==
    ASSUME Typed, MessageInv, NEW d \in Docs, ~Queued(d), NEW t \in Threads,
           ThreadStep(t) \/ Raise(t) \/ Crash(t) \/ (\E m \in Msgs : Receive(t, m))
    PROVE  ~Queued(d)'
  <1> USE DEF docVars, sideVars, sweepVars
  <1>1. UNCHANGED uploading
    BY DEF ThreadStep, Acknowledge, RecordFailure, NoteFailure, DeferSaturated, DeferProviderDown,
           TouchDocument, HoldBack, Admit, ParseBegin, ParseFetch, ParseNeedsOcr, ParsePutText, ParseCommit,
           ParseSend, ExtractBegin, ModelCall, PauseOnBudget, InvalidExtraction, StoreExtraction,
           EnsureReviewTask, Raise, Crash, Receive
  <1>2. CASE UNCHANGED msg
    BY <1>1, <1>2, QueuedFrame
  <1>3. CASE Acknowledge(t)
    <2>1. \A m \in Msgs : msg'[m] \in {msg[m], NoMsg}
      BY <1>3 DEF Acknowledge, DeleteByReceipt, Typed, QueueTypeOK
    <2> QED BY <1>1, <2>1, QueuedFrame
  <1>4. ASSUME NEW st \in Stages, NEW f \in 0..MaxDefer, NEW v \in BOOLEAN, NEW r \in 0..MaxRedrive,
               Send(st, job[t].doc, r, f, v), pc[t] # "idle"
        PROVE  ~Queued(d)'
    <2>1. job[t].doc \in Docs /\ job[t].doc # d
      BY <1>4, ThreadDoc, HandledIsQueued
    <2> QED BY <1>1, <1>4, <2>1, SendElsewhere
  <1>5. CASE DeferSaturated(t) \/ DeferProviderDown(t)
    <2>1. pc[t] # "idle" /\ FALSE \in BOOLEAN /\ Stage(t) \in Stages
      BY <1>5 DEF DeferSaturated, DeferProviderDown, At, Stage, Stages
    <2>2. job[t].redrive \in 0..MaxRedrive /\ job[t].defer \in 0..MaxDefer
      BY <2>1, BusyJob DEF Typed
    <2>3. job[t].defer < MaxDefer => job[t].defer + 1 \in 0..MaxDefer
      BY <2>2, QueueAssumption
    <2>4. CASE DeferSaturated(t)
      BY <1>4, <2>1, <2>2, <2>3, <2>4 DEF DeferSaturated, At, Typed, ThreadsOK
    <2>5. CASE DeferProviderDown(t)
      BY <1>4, <2>1, <2>2, <2>5 DEF DeferProviderDown
    <2> QED BY <1>5, <2>4, <2>5
  <1>6. CASE ParseSend(t)
    <2>1. pc[t] # "idle" /\ TRUE \in BOOLEAN /\ 0 \in 0..MaxRedrive /\ 0 \in 0..MaxDefer
      BY <1>6, QueueAssumption DEF ParseSend, At
    <2> QED BY <1>4, <1>6, <2>1 DEF ParseSend, Stages
  <1>7. ASSUME NEW m \in Msgs, Receive(t, m) PROVE ~Queued(d)'
    <2>1. Deliver(m) /\ msg[m].doc # d
      BY <1>7 DEF Receive, Deliver, Queued
    <2>2. msg'[m].doc = msg[m].doc /\ \A k \in Msgs \ {m} : msg'[k] = msg[k]
      BY <2>1, ServiceKeeps
    <2> QED BY <1>1, <2>1, <2>2, QueuedFrame
  <1> QED BY <1>2, <1>3, <1>5, <1>6, <1>7
          DEF ThreadStep, RecordFailure, NoteFailure, TouchDocument, HoldBack, Admit, ParseBegin, ParseFetch,
              ParseNeedsOcr, ParsePutText, ParseCommit, ExtractBegin, ModelCall, PauseOnBudget,
              InvalidExtraction, StoreExtraction, EnsureReviewTask, Raise, Crash

\* Neither does any other step a document that stays stale, where every sweep claims
\* what it sends for, and nothing is redriven.
LEMMA OtherNotQueued ==
    ASSUME Typed, MessageInv, RowsInv, ~Crashes, MaxRedrive = 0, ApiSweepers = {},
           NEW d \in Docs, ~Queued(d), d \in stale, d \in stale',
           Pending(d), status[d] # "budget_exceeded",
           \/ \E e \in Docs : UploadInsert(e) \/ UploadSend(e) \/ ResolveTask(e) \/ Age(e)
           \/ \E s \in Sweepers : ReapScan(s)
           \/ \E s \in Sweepers, e \in Docs : SweepStep(s, e) \/ ReapAborted(s, e)
           \/ \E h \in Healers : RedriveDelete(h) \/ \E m \in Msgs : RedriveSend(h, m)
           \/ \E m \in Msgs : Expire(m) \/ ToDeadLetter(m) \/ Purge(m)
           \/ UNCHANGED vars
    PROVE  ~Queued(d)'
  <1> USE DEF docVars, sideVars, sweepVars
  <1>1. CASE UNCHANGED <<msg, uploading>>
    BY <1>1, QueuedFrame
  <1>2. ASSUME NEW st \in Stages, NEW e \in Docs, e # d, Send(st, e, 0, 0, TRUE), UNCHANGED uploading
        PROVE  ~Queued(d)'
    <2>1. 0 \in 0..MaxRedrive /\ 0 \in 0..MaxDefer /\ TRUE \in BOOLEAN
      BY QueueAssumption
    <2> QED BY <1>2, <2>1, SendElsewhere
  <1>3. ASSUME NEW e \in Docs, UploadInsert(e) PROVE ~Queued(d)'
    BY <1>3, QueuedFrame DEF UploadInsert, Pending
  <1>4. ASSUME NEW e \in Docs, UploadSend(e) PROVE ~Queued(d)'
    <2>1. e # d /\ uploading' \subseteq uploading
      BY <1>4 DEF UploadSend, Queued
    <2>2. CASE UNCHANGED msg
      BY <2>1, <2>2, QueuedFrame
    <2>3. CASE Send("parse", e, 0, 0, TRUE)
      <3>1. PICK n \in Msgs : /\ About(n, e, "parse")'
                              /\ \A k \in Msgs \ {n} : msg'[k] = msg[k]
        BY <2>3, FreshAdds DEF Stages
      <3> QED BY <2>1, <3>1, QueuedFrame DEF About
    <2> QED BY <1>4, <2>2, <2>3 DEF UploadSend
  <1>5. ASSUME NEW s \in Sweepers, NEW e \in Docs, SweepStep(s, e) \/ ReapAborted(s, e)
        PROVE  ~Queued(d)'
    <2>1. StageOf(cand[s][e]) \in Stages /\ s \in Healers
      BY DEF StageOf, Stages, Sweepers
    <2>2. CASE ReapUnclaimed(s, e)
      <3>1. e # d
        BY <2>2, PipelineAssumption DEF ReapUnclaimed, RowsInv
      <3> QED BY <1>2, <2>1, <2>2, <3>1 DEF ReapUnclaimed
    <2>3. CASE ReapClaim(s, e)
      <3>1. e # d
        BY <2>3 DEF ReapClaim, Refresh
      <3> QED BY <1>2, <2>1, <2>3, <3>1 DEF ReapClaim
    <2> QED BY <1>1, <1>5, <2>2, <2>3 DEF SweepStep, ReapSkip, ReapGiveUp, ReapRaced, ReapAborted
  <1>6. ASSUME NEW h \in Healers, RedriveDelete(h) PROVE ~Queued(d)'
    <2>1. \A m \in Msgs : msg'[m] \in {msg[m], NoMsg}
      BY <1>6 DEF RedriveDelete, Typed, QueueTypeOK, RowsOK
    <2> QED BY <1>6, <2>1, QueuedFrame DEF RedriveDelete
  <1>7. ASSUME NEW h \in Healers, NEW m \in Msgs, RedriveSend(h, m) PROVE FALSE
    <2>1. msg[m] \in Message
      BY <1>7 DEF RedriveSend, Used, Typed, QueueTypeOK
    <2>2. msg[m].redrive \in 0..MaxRedrive
      BY <2>1 DEF Message
    <2>3. msg[m].redrive < MaxRedrive
      BY <1>7 DEF RedriveSend
    <2> QED BY <2>2, <2>3
  <1>8. ASSUME NEW m \in Msgs, Expire(m) PROVE ~Queued(d)'
    <2>1. /\ Used(m) /\ msg'[m].doc = msg[m].doc /\ msg'[m].dead = msg[m].dead
          /\ \A k \in Msgs \ {m} : msg'[k] = msg[k]
      BY <1>8, ServiceKeeps DEF Expire, Reappear
    <2>2. msg[m].doc = d => msg[m].dead
      BY <2>1 DEF Queued
    <2>3. msg[m].doc = d => msg'[m].dead
      BY <2>1, <2>2, Zenon
    <2>4. ASSUME NEW k \in Msgs, Used(k)', ~msg'[k].dead PROVE msg'[k].doc # d
      <3>1. CASE k = m
        BY <2>1, <2>3, <2>4, <3>1
      <3>2. CASE k # m
        BY <2>1, <2>4, <3>2 DEF Queued, Used
      <3> QED BY <3>1, <3>2
    <2>5. uploading' = uploading /\ d \notin uploading
      BY <1>8 DEF Expire, sideVars, Queued
    <2> QED BY <2>4, <2>5 DEF Queued
  <1>9. ASSUME NEW m \in Msgs, ToDeadLetter(m) PROVE ~Queued(d)'
    <2>1. DeadLetter(m) /\ msg[m].doc # d
      BY <1>9 DEF ToDeadLetter, DeadLetter, Queued
    <2>2. msg'[m].doc = msg[m].doc /\ \A k \in Msgs \ {m} : msg'[k] = msg[k]
      BY <2>1, ServiceKeeps
    <2> QED BY <1>9, <2>1, <2>2, QueuedFrame DEF ToDeadLetter
  <1>10. ASSUME NEW m \in Msgs, Purge(m) PROVE ~Queued(d)'
    <2>1. \A k \in Msgs : msg'[k] \in {msg[k], NoMsg}
      BY <1>10 DEF Purge, Typed, QueueTypeOK
    <2> QED BY <1>10, <2>1, QueuedFrame DEF Purge
  <1> QED BY <1>1, <1>3, <1>4, <1>5, <1>6, <1>7, <1>8, <1>9, <1>10 DEF ResolveTask, Age, ReapScan, vars

\* The strengthening of RescueOnce: a stale document waits for a sweep because nothing
\* is on its way for it, unless it waits for its tenant's budget.
StaleIdle ==
    \A d \in Docs :
        d \in stale /\ Pending(d) /\ status[d] # "budget_exceeded" => ~Queued(d)

RescueInv == MessageInv /\ RowsInv /\ StaleIdle

LEMMA StepRescue ==
    ASSUME ~Backlog, ~LateDelivery, ~Crashes, MaxRedrive = 0, ApiSweepers = {}
    PROVE  TypeOK /\ RescueInv /\ [Next]_vars => RescueInv'
  <1> SUFFICES ASSUME TypeOK, RescueInv, [Next]_vars PROVE RescueInv'
    OBVIOUS
  <1>1. MessageInv' /\ RowsInv'
    BY StepKeeps, StepRows DEF RescueInv
  <1>2. ASSUME NEW d \in Docs, d \in stale', Pending(d)', status'[d] # "budget_exceeded"
        PROVE  ~Queued(d)'
    <2>1. RowStep(d)
      BY EveryRow
    <2>2. CASE Age(d)
      BY <2>2 DEF Age, sideVars, Queued, Used
    <2>3. CASE d \in stale
      <3>1. status[d] # "absent" /\ status'[d] = status[d]
        BY <1>2, <2>1, <2>3 DEF RowStep, RescueInv, RowsInv
      <3>2. Pending(d) /\ ~Queued(d) /\ Typed
        BY <1>2, <2>3, <3>1, TypedIs DEF Pending, RescueInv, StaleIdle
      <3>3. CASE \E t \in Threads :
                   ThreadStep(t) \/ Raise(t) \/ Crash(t) \/ \E m \in Msgs : Receive(t, m)
        BY <3>2, <3>3, ThreadNotQueued DEF RescueInv
      <3> QED BY <1>2, <2>3, <3>1, <3>2, <3>3, OtherNotQueued DEF Next, RescueInv
    <2> QED BY <1>2, <2>1, <2>2, <2>3 DEF RowStep
  <1> QED BY <1>1, <1>2 DEF RescueInv, StaleIdle

\* Only a sweep changes the count of rescues.
LEMMA CountedBySweep ==
    ASSUME [Next]_vars, reapCount' # reapCount
    PROVE  \E s \in Sweepers, e \in Docs : ReapClaim(s, e) \/ ReapGiveUp(s, e)
  BY DEF Next, UploadInsert, UploadSend, ResolveTask, Age, ThreadStep, Acknowledge,
         RecordFailure, NoteFailure, DeferSaturated, DeferProviderDown, TouchDocument, HoldBack, Admit,
         ParseBegin, ParseFetch, ParseNeedsOcr, ParsePutText, ParseCommit, ParseSend, ExtractBegin,
         ModelCall, PauseOnBudget, InvalidExtraction, StoreExtraction, EnsureReviewTask, Raise,
         Crash, Receive, ReapScan, SweepStep, ReapSkip, ReapUnclaimed, ReapRaced, ReapAborted,
         RedriveDelete, RedriveSend, Expire, ToDeadLetter, Purge, vars, docVars

\* Whoever counts a rescue sends it for a document nothing is on its way for.
LEMMA CountsOnce ==
    ASSUME RescueInv, NEW d \in Docs, reapCount'[d] > reapCount[d], status'[d] = status[d], TypeOK,
           [Next]_vars
    PROVE  ~Queued(d)
  <1>1. Typed
    BY TypedIs
  <1>2. reapCount' # reapCount
    BY <1>1 DEF Typed, RowsOK
  <1>3. PICK s \in Sweepers, e \in Docs : ReapClaim(s, e) \/ ReapGiveUp(s, e)
    BY <1>2, CountedBySweep
  <1>4. d = e /\ d \in stale /\ Pending(d) /\ Claimable(s, d)
    <2>1. \A c \in Docs \ {e} : reapCount'[c] = reapCount[c]
      BY <1>1, <1>3 DEF ReapClaim, ReapGiveUp, Typed, RowsOK
    <2>2. reapCount[d] \in Nat /\ reapCount'[d] \in Nat
      BY StepType, PipelineAssumption DEF TypeOK
    <2>3. d = e
      BY <2>1, <2>2
    <2> QED BY <1>3, <2>3 DEF ReapClaim, ReapGiveUp
  <1> QED BY <1>4 DEF RescueInv, RowsInv, StaleIdle, Claimable

\* Two workers that sweep at once never both rescue a document: a rescue that is counted
\* is for a document with no message on its way, whatever is raised, deferred, purged or
\* lost. The exclusions are the ways a message goes out without a claim of its row: a
\* backlog, a timeout under a running handler, a worker that dies between a rescue and
\* its commit, a redrive, and the API's own sweep.
THEOREM OneRescueAtATime ==
    ASSUME ~Backlog, ~LateDelivery, ~Crashes, MaxRedrive = 0, ApiSweepers = {}
    PROVE  Spec => RescueOnce
  <1>1. Init => RescueInv
    BY InitMessage, InitRows DEF RescueInv, StaleIdle, Init
  <1>2. TypeOK /\ RescueInv /\ [Next]_vars => RescueInv'
    BY StepRescue
  <1>3. TypeOK /\ RescueInv /\ [Next]_vars =>
          [\A d \in Docs : reapCount'[d] > reapCount[d] /\ status'[d] = status[d] => ~Queued(d)]_vars
    BY CountsOnce
  <1> QED BY <1>1, <1>2, <1>3, Typing, PTL DEF Spec, RescueOnce

--------------------------------------------------------------------------
(* The lifecycle.                                                          *)

\* One worker: no two consumer threads of one stage.
OneWorker == \A t, u \in Threads : Stage(t) = Stage(u) => t = u

\* Between the status guard and the transaction that settles the stage.
Work == {"fetch", "ocr", "put", "commit", "call", "approve", "review", "invalid", "pause", "fail"}

\* The strengthening of the refinement: a document belongs to the one thread that works
\* on it, until the reaper gives it up and even then; a thread about to open a review
\* task finds none open; and an open task is the only one of a document in review.
WorkInv ==
    /\ \A t \in Threads : pc[t] \in Work => status[job[t].doc] \in {Working(t), "failed"}
    /\ \A t, u \in Threads :
         t # u /\ pc[t] \in Work /\ pc[u] \in Work => job[t].doc # job[u].doc
    /\ \A t \in Threads : pc[t] = "task" =>
         status[job[t].doc] = "needs_review" /\ openTasks[job[t].doc] = 0
    /\ \A d \in Docs : openTasks[d] > 0 => openTasks[d] = 1 /\ status[d] = "needs_review"

InReview == {d \in Docs : openTasks[d] > 0}
LifecycleStep == [Lifecycle!Next]_<<status, InReview>>

LEMMA FollowsIs ==
    /\ Lifecycle!Follows["absent"] = {"received"}
    /\ Lifecycle!Follows["received"] = {"parsing", "failed"}
    /\ Lifecycle!Follows["parsing"] = {"parsed", "needs_ocr", "failed"}
    /\ Lifecycle!Follows["parsed"] = {"extracting", "failed"}
    /\ Lifecycle!Follows["extracting"] = {"approved", "needs_review", "budget_exceeded", "failed"}
    /\ Lifecycle!Follows["budget_exceeded"] = {"extracting"}
    /\ Lifecycle!Follows["failed"] =
         {"parsed", "needs_ocr", "approved", "needs_review", "budget_exceeded"}
  BY DEF Lifecycle!Follows

\* A step that writes one status as the lifecycle allows, or writes it again.
LEMMA Moves ==
    ASSUME Typed, NEW d \in Docs, NEW s, status' = [status EXCEPT ![d] = s],
           s = status[d] \/ s \in Lifecycle!Follows[status[d]],
           UNCHANGED openTasks
    PROVE  LifecycleStep
  <1>1. UNCHANGED InReview
    BY DEF InReview
  <1>2. CASE s = status[d]
    <2>1. status' = status
      BY <1>2 DEF Typed, RowsOK
    <2> QED BY <1>1, <2>1 DEF LifecycleStep
  <1>3. CASE s \in Lifecycle!Follows[status[d]]
    BY <1>1, <1>3 DEF LifecycleStep, InReview, Lifecycle!Next, Lifecycle!Move
  <1> QED BY <1>2, <1>3

\* A step that takes no thread into a stage, and writes no status.
LEMMA WorkFrame ==
    ASSUME Typed, WorkInv, UNCHANGED <<status, openTasks>>,
           \A u \in Threads : pc'[u] \in Work => pc[u] \in Work /\ job'[u] = job[u],
           \A u \in Threads : pc'[u] = "task" => pc[u] = "task" /\ job'[u] = job[u]
    PROVE  WorkInv' /\ LifecycleStep
  <1>1. WorkInv'
    BY DEF WorkInv, Working
  <1>2. LifecycleStep
    BY DEF LifecycleStep, InReview
  <1> QED BY <1>1, <1>2

\* The status guard: nobody else works on the document that it lets through.
LEMMA BeginWork ==
    ASSUME OneWorker, Typed, WorkInv, NEW t \in Threads, pc[t] = "begin",
           NEW p \in Work, Goto(t, p), UNCHANGED openTasks,
           status' = [status EXCEPT ![job[t].doc] = Working(t)],
           t \in ParseThreads => status[job[t].doc] \in {"received", "parsing"},
           t \in ExtractThreads => status[job[t].doc] \in {"parsed", "extracting", "budget_exceeded"}
    PROVE  WorkInv' /\ LifecycleStep
  <1>1. PICK d \in Docs : d = job[t].doc
    BY ThreadDoc
  <1>2. /\ pc'[t] = p /\ job' = job
        /\ \A u \in Threads \ {t} : pc'[u] = pc[u]
    BY DEF Goto, Typed, ThreadsOK
  <1>3. /\ status'[d] = Working(t)
        /\ \A e \in Docs \ {d} : status'[e] = status[e]
    BY <1>1 DEF Typed, RowsOK
  <1>4. ASSUME NEW u \in Threads, u # t, pc[u] \in Work PROVE job[u].doc # d
    <2>1. u \in ParseThreads <=> t \notin ParseThreads
      BY <1>4 DEF OneWorker, Stage
    <2> QED BY <1>1, <1>4, <2>1 DEF WorkInv, Working, Threads
  <1>5. \A u \in Threads : pc[u] = "task" => job[u].doc # d
    BY <1>1 DEF WorkInv, Threads
  <1>6. openTasks[d] > 0 => FALSE
    BY <1>1 DEF WorkInv, Threads
  <1>7. \A u \in Threads : pc[u] # "idle" => job[u].doc \in Docs
    BY ThreadDoc
  <1>8. p # "task"
    BY DEF Work
  <1>9. \A u \in Threads : pc'[u] \in Work => status'[job'[u].doc] \in {Working(u), "failed"}
    BY <1>1, <1>2, <1>3, <1>4, <1>7 DEF WorkInv, Work
  <1>10. \A u, v \in Threads :
           u # v /\ pc'[u] \in Work /\ pc'[v] \in Work => job'[u].doc # job'[v].doc
    BY <1>1, <1>2, <1>4 DEF WorkInv
  <1>11. \A u \in Threads : pc'[u] = "task" =>
           status'[job'[u].doc] = "needs_review" /\ openTasks'[job'[u].doc] = 0
    BY <1>2, <1>3, <1>5, <1>7, <1>8 DEF WorkInv
  <1>12. \A e \in Docs : openTasks'[e] > 0 => openTasks'[e] = 1 /\ status'[e] = "needs_review"
    BY <1>3, <1>6 DEF WorkInv
  <1>13. WorkInv'
    BY <1>9, <1>10, <1>11, <1>12 DEF WorkInv, Working
  <1>14. LifecycleStep
    BY <1>1, FollowsIs, Moves DEF Working, Threads
  <1> QED BY <1>13, <1>14

\* The transaction that settles a stage, by the one thread that works on the document.
LEMMA SettleWork ==
    ASSUME Typed, WorkInv, NEW t \in Threads, pc[t] \in Work,
           NEW p, p \notin Work, Goto(t, p), UNCHANGED openTasks,
           NEW s, status' = [status EXCEPT ![job[t].doc] = s],
           s # status[job[t].doc] => s \in Lifecycle!Follows[status[job[t].doc]],
           p = "task" => s = "needs_review"
    PROVE  WorkInv' /\ LifecycleStep
  <1>1. pc[t] # "idle"
    BY DEF Work
  <1>2. PICK d \in Docs : d = job[t].doc
    BY <1>1, ThreadDoc
  <1>3. /\ pc'[t] = p /\ job' = job
        /\ \A u \in Threads \ {t} : pc'[u] = pc[u]
    BY DEF Goto, Typed, ThreadsOK
  <1>4. /\ status'[d] = s
        /\ \A e \in Docs \ {d} : status'[e] = status[e]
    BY <1>2 DEF Typed, RowsOK
  <1>5. status[d] \in {"parsing", "extracting", "failed"}
    BY <1>2 DEF WorkInv, Working
  <1>6. \A u \in Threads : pc[u] = "task" => job[u].doc # d
    BY <1>2, <1>5 DEF WorkInv
  <1>7. openTasks[d] \in Nat /\ ~(openTasks[d] > 0)
    BY <1>2, <1>5, PipelineAssumption DEF WorkInv, Typed, RowsOK
  <1>8. \A u \in Threads : pc[u] # "idle" => job[u].doc \in Docs
    BY ThreadDoc
  <1>9. \A u \in Threads : pc'[u] \in Work => status'[job'[u].doc] \in {Working(u), "failed"}
    BY <1>2, <1>3, <1>4, <1>8 DEF WorkInv, Work
  <1>10. \A u, v \in Threads :
           u # v /\ pc'[u] \in Work /\ pc'[v] \in Work => job'[u].doc # job'[v].doc
    BY <1>3 DEF WorkInv
  <1>11. \A u \in Threads : pc'[u] = "task" =>
           status'[job'[u].doc] = "needs_review" /\ openTasks'[job'[u].doc] = 0
    BY <1>2, <1>3, <1>4, <1>6, <1>7, <1>8 DEF WorkInv
  <1>12. \A e \in Docs : openTasks'[e] > 0 => openTasks'[e] = 1 /\ status'[e] = "needs_review"
    BY <1>4, <1>7 DEF WorkInv
  <1>13. WorkInv'
    BY <1>9, <1>10, <1>11, <1>12 DEF WorkInv, Working
  <1>14. LifecycleStep
    BY <1>2, Moves
  <1> QED BY <1>13, <1>14

\* A step of a consumer thread keeps what it works on to itself.
LEMMA ThreadWork ==
    ASSUME OneWorker, Typed, WorkInv, NEW t \in Threads, ThreadStep(t) \/ Raise(t) \/ Crash(t)
    PROVE  WorkInv' /\ LifecycleStep
  <1> USE DEF docVars, sideVars, sweepVars
  <1>1. pc[t] # "idle" => job[t].doc \in Docs
    BY ThreadDoc
  <1>2. t \in ParseThreads => pc[t] \in ParsePCs
    BY DEF Typed, ThreadsOK
  <1>3. ASSUME UNCHANGED <<status, openTasks>>,
               \/ Release(t)
               \/ \E p : Goto(t, p) /\ p # "task" /\ (p \in Work => pc[t] \in Work)
        PROVE  WorkInv' /\ LifecycleStep
    <2>1. /\ \A u \in Threads \ {t} : pc'[u] = pc[u] /\ job'[u] = job[u]
          /\ pc'[t] # "task"
          /\ pc'[t] \in Work => pc[t] \in Work /\ job'[t] = job[t]
      BY <1>3 DEF Goto, Release, Typed, ThreadsOK, Work
    <2> QED BY <1>3, <2>1, WorkFrame
  <1>4. CASE Acknowledge(t) \/ NoteFailure(t) \/ Crash(t)
    BY <1>3, <1>4 DEF Acknowledge, NoteFailure, Crash
  <1>5. CASE \/ DeferSaturated(t) \/ DeferProviderDown(t) \/ TouchDocument(t) \/ HoldBack(t) \/ Admit(t)
             \/ ParseFetch(t) \/ ParsePutText(t) \/ ParseSend(t) \/ ModelCall(t) \/ Raise(t)
    <2>1. UNCHANGED <<status, openTasks>>
      BY <1>5 DEF DeferSaturated, DeferProviderDown, TouchDocument, HoldBack, Admit, ParseFetch,
             ParsePutText, ParseSend, ModelCall, Raise
    <2>2. CASE DeferSaturated(t) \/ DeferProviderDown(t) \/ TouchDocument(t) \/ HoldBack(t) \/ Admit(t) \/ ParseSend(t)
      <3>1. \E p \in {"touch", "hold", "defer", "ack", "begin", "note"} : Goto(t, p)
        BY <2>2 DEF DeferSaturated, DeferProviderDown, TouchDocument, HoldBack, Admit, ParseSend
      <3> QED BY <1>3, <2>1, <3>1 DEF Work
    <2>3. CASE ParseFetch(t) \/ ParsePutText(t) \/ ModelCall(t)
      <3>1. pc[t] \in Work /\ \E p \in Work : Goto(t, p)
        BY <2>3 DEF ParseFetch, ParsePutText, ModelCall, At, Work
      <3> QED BY <1>3, <2>1, <3>1 DEF Work
    <2>4. CASE Raise(t)
      <3>1. Goto(t, "note") \/ (pc[t] \in Work /\ Goto(t, "fail"))
        BY <2>4 DEF Raise, Work
      <3> QED BY <1>3, <2>1, <3>1 DEF Work
    <2> QED BY <1>5, <2>2, <2>3, <2>4
  <1>6. CASE ParseBegin(t)
    <2>1. CASE status[job[t].doc] \in {"received", "parsing"}
      <3>1. t \in ParseThreads /\ Working(t) = "parsing" /\ "fetch" \in Work
        BY <1>6 DEF ParseBegin, Working, Work
      <3>2. t \notin ExtractThreads
        BY <3>1, PipelineAssumption
      <3> QED BY <1>6, <2>1, <3>1, <3>2, BeginWork DEF ParseBegin, At, SetStatus
    <2>2. CASE status[job[t].doc] \notin {"received", "parsing"}
      BY <1>3, <1>6, <2>2 DEF ParseBegin, Work
    <2> QED BY <2>1, <2>2
  <1>7. CASE ExtractBegin(t)
    <2>1. CASE status[job[t].doc] \in {"parsed", "extracting", "budget_exceeded"}
      <3>1. t \in ExtractThreads /\ t \notin ParseThreads
        BY <1>7, PipelineAssumption DEF ExtractBegin
      <3>2. Working(t) = "extracting" /\ "call" \in Work
        BY <3>1 DEF Working, Work
      <3> QED BY <1>7, <2>1, <3>1, <3>2, BeginWork DEF ExtractBegin, At, SetStatus
    <2>2. CASE status[job[t].doc] \notin {"parsed", "extracting", "budget_exceeded"}
      BY <1>3, <1>7, <2>2 DEF ExtractBegin, Work
    <2> QED BY <2>1, <2>2
  <1>8. pc[t] \in {"ocr", "commit"} => t \in ParseThreads
    BY DEF Typed, ThreadsOK, ExtractPCs, Threads
  <1>9. pc[t] \in {"approve", "review", "invalid", "pause"} => t \in ExtractThreads /\ t \notin ParseThreads
    BY <1>2 DEF ParsePCs, Threads
  <1>10. pc[t] \in Work => status[job[t].doc] \in {Working(t), "failed"}
    BY DEF WorkInv
  <1>11. CASE ParseNeedsOcr(t) \/ ParseCommit(t)
    <2>1. pc[t] \in Work /\ status[job[t].doc] \in {"parsing", "failed"}
      BY <1>8, <1>10, <1>11 DEF ParseNeedsOcr, ParseCommit, At, Work, Working
    <2>2. PICK p \in {"ack", "send"}, s \in {"needs_ocr", "parsed"} :
            Goto(t, p) /\ status' = [status EXCEPT ![job[t].doc] = s] /\ UNCHANGED openTasks
      BY <1>11 DEF ParseNeedsOcr, ParseCommit, SetStatus
    <2>3. s \in Lifecycle!Follows[status[job[t].doc]] /\ p \notin Work /\ p # "task"
      BY <2>1, FollowsIs DEF Work
    <2> QED BY <2>1, <2>2, <2>3, SettleWork
  <1>12. CASE PauseOnBudget(t) \/ InvalidExtraction(t) \/ StoreExtraction(t)
    <2>1. pc[t] \in Work /\ status[job[t].doc] \in {"extracting", "failed"}
      BY <1>9, <1>10, <1>12 DEF PauseOnBudget, InvalidExtraction, StoreExtraction, At, Work, Working
    <2>2. CASE UNCHANGED <<status, openTasks>> /\ Goto(t, "ack")
      BY <1>3, <2>2 DEF Work
    <2>3. CASE ~(UNCHANGED <<status, openTasks>> /\ Goto(t, "ack"))
      <3>1. PICK p \in {"ack", "task"}, s \in {"budget_exceeded", "failed", "approved", "needs_review"} :
                 /\ Goto(t, p) /\ status' = [status EXCEPT ![job[t].doc] = s]
                 /\ p = "task" => s = "needs_review"
        BY <1>12, <2>3 DEF PauseOnBudget, InvalidExtraction, StoreExtraction, SetStatus
      <3>2. s = status[job[t].doc] \/ s \in Lifecycle!Follows[status[job[t].doc]]
        BY <2>1, FollowsIs
      <3>3. p \notin Work /\ UNCHANGED openTasks
        BY <1>12 DEF Work, PauseOnBudget, InvalidExtraction, StoreExtraction
      <3> QED BY <2>1, <3>1, <3>2, <3>3, SettleWork
    <2> QED BY <2>2, <2>3
  <1>13. CASE RecordFailure(t)
    <2>1. /\ pc[t] \in Work /\ Goto(t, "note") /\ UNCHANGED openTasks
          /\ status[job[t].doc] \in {"parsing", "extracting", "failed"}
      BY <1>10, <1>13 DEF RecordFailure, At, Work, Working
    <2>2. CASE UNCHANGED status
      BY <1>3, <2>1, <2>2 DEF Work
    <2>3. CASE ~UNCHANGED status
      <3>1. PICK s \in {status[job[t].doc], "failed"} : status' = [status EXCEPT ![job[t].doc] = s]
        BY <1>13, <2>3 DEF RecordFailure
      <3>2. s = status[job[t].doc] \/ s \in Lifecycle!Follows[status[job[t].doc]]
        BY <2>1, FollowsIs
      <3>3. "note" \notin Work /\ "note" # "task"
        BY DEF Work
      <3> QED BY <2>1, <3>1, <3>2, <3>3, SettleWork
    <2> QED BY <2>2, <2>3
  <1>14. CASE EnsureReviewTask(t)
    <2>1. PICK d \in Docs : d = job[t].doc
      BY <1>1, <1>14 DEF EnsureReviewTask, At
    <2>2. /\ status[d] = "needs_review" /\ openTasks[d] = 0 /\ UNCHANGED status
          /\ openTasks' = [openTasks EXCEPT ![d] = openTasks[d] + 1]
      BY <1>14, <2>1 DEF EnsureReviewTask, At, WorkInv
    <2>3. openTasks'[d] = 1 /\ \A e \in Docs \ {d} : openTasks'[e] = openTasks[e]
      BY <2>2 DEF Typed, RowsOK
    <2>4. /\ pc'[t] = "ack" /\ job' = job
          /\ \A u \in Threads \ {t} : pc'[u] = pc[u]
      BY <1>14 DEF EnsureReviewTask, Goto, Typed, ThreadsOK
    <2>5. ASSUME NEW u \in Threads, pc'[u] = "task" PROVE job[u].doc # d
      <3>1. u \in ExtractThreads /\ t \in ExtractThreads /\ u # t
        BY <1>14, <2>4, <2>5 DEF EnsureReviewTask, At, Typed, ThreadsOK, ParsePCs, Threads
      <3>2. Stage(u) = Stage(t)
        BY <3>1, PipelineAssumption DEF Stage
      <3> QED BY <3>1, <3>2 DEF OneWorker
    <2>6. WorkInv'
      <3>1. \A u \in Threads : pc'[u] = "task" => pc[u] = "task" /\ openTasks'[job[u].doc] = openTasks[job[u].doc]
        BY <2>3, <2>4, <2>5, ThreadDoc
      <3> QED BY <2>2, <2>3, <2>4, <3>1 DEF WorkInv, Work, Working
    <2>7. InReview' = InReview \cup {d} /\ d \notin InReview
      BY <2>2, <2>3 DEF InReview
    <2> QED BY <2>2, <2>6, <2>7 DEF LifecycleStep, InReview, Lifecycle!Next, Lifecycle!AskHuman
  <1> QED BY <1>4, <1>5, <1>6, <1>7, <1>11, <1>12, <1>13, <1>14 DEF ThreadStep

\* A step of a sweep, of an upload, of a human or of the queue service.
LEMMA OtherWork ==
    ASSUME Typed, RowsInv, WorkInv,
           \/ \E d \in Docs : UploadInsert(d) \/ UploadSend(d) \/ ResolveTask(d) \/ Age(d)
           \/ \E s \in Sweepers : ReapScan(s)
           \/ \E s \in Sweepers, d \in Docs : SweepStep(s, d) \/ ReapAborted(s, d)
           \/ \E h \in Healers : RedriveDelete(h) \/ \E m \in Msgs : RedriveSend(h, m)
           \/ \E m \in Msgs : Expire(m) \/ ToDeadLetter(m) \/ Purge(m)
           \/ UNCHANGED vars
    PROVE  WorkInv' /\ LifecycleStep
  <1> USE DEF docVars, sideVars, sweepVars
  <1>1. UNCHANGED <<pc, job>>
    BY DEF UploadInsert, UploadSend, ResolveTask, Age, ReapScan, SweepStep, ReapAborted, ReapSkip,
           ReapUnclaimed, ReapClaim, ReapGiveUp, ReapRaced, RedriveDelete, RedriveSend, Expire,
           ToDeadLetter, Purge, vars
  <1>2. CASE UNCHANGED <<status, openTasks>>
    BY <1>1, <1>2, WorkFrame
  <1>3. ASSUME NEW d \in Docs, UploadInsert(d) PROVE WorkInv' /\ LifecycleStep
    <2>1. /\ status[d] = "absent" /\ status' = [status EXCEPT ![d] = "received"]
          /\ UNCHANGED openTasks
      BY <1>3 DEF UploadInsert
    <2>2. /\ status'[d] = "received"
          /\ \A e \in Docs \ {d} : status'[e] = status[e]
      BY <2>1 DEF Typed, RowsOK
    <2>3. \A u \in Threads : pc[u] \in Work \cup {"task"} =>
            job[u].doc # d /\ status'[job[u].doc] = status[job[u].doc]
      BY <2>1, <2>2, ThreadDoc DEF WorkInv, Working, Work
    <2>4. WorkInv'
      BY <1>1, <2>1, <2>2, <2>3 DEF WorkInv, Working
    <2> QED BY <2>1, <2>4, FollowsIs, Moves
  <1>4. ASSUME NEW d \in Docs, ResolveTask(d) PROVE WorkInv' /\ LifecycleStep
    <2>1. /\ status[d] = "needs_review" /\ openTasks[d] = 1
          /\ status' = [status EXCEPT ![d] = "approved"]
          /\ openTasks' = [openTasks EXCEPT ![d] = openTasks[d] - 1]
      BY <1>4 DEF ResolveTask, SetStatus, WorkInv
    <2>2. /\ status'[d] = "approved" /\ openTasks'[d] = 0
          /\ \A e \in Docs \ {d} : status'[e] = status[e] /\ openTasks'[e] = openTasks[e]
      BY <2>1 DEF Typed, RowsOK
    <2>3. \A u \in Threads : pc[u] \in Work \cup {"task"} =>
            /\ status'[job[u].doc] = status[job[u].doc]
            /\ openTasks'[job[u].doc] = openTasks[job[u].doc]
      BY <2>1, <2>2, ThreadDoc DEF WorkInv, Working, Work
    <2>4. WorkInv'
      BY <1>1, <2>2, <2>3 DEF WorkInv, Working
    <2>5. d \in InReview /\ InReview' = InReview \ {d}
      BY <2>1, <2>2 DEF InReview
    <2> QED BY <2>1, <2>4, <2>5 DEF LifecycleStep, InReview, Lifecycle!Next, Lifecycle!HumanResolves
  <1>5. ASSUME NEW s \in Sweepers, NEW d \in Docs, ReapGiveUp(s, d) PROVE WorkInv' /\ LifecycleStep
    <2>1. /\ Pending(d) /\ status[d] = cand[s][d] /\ status[d] # "budget_exceeded"
          /\ status' = [status EXCEPT ![d] = "failed"] /\ UNCHANGED openTasks
      BY <1>5 DEF ReapGiveUp, Claimable, RowsInv
    <2>2. status[d] \in {"received", "parsing", "parsed", "extracting"}
      BY <2>1 DEF Pending, TERMINAL, Typed, RowsOK, Statuses, DocumentStatus
    <2>3. /\ status'[d] = "failed"
          /\ \A e \in Docs \ {d} : status'[e] = status[e]
      BY <2>1 DEF Typed, RowsOK
    <2>4. \A u \in Threads : pc[u] = "task" => status'[job[u].doc] = status[job[u].doc]
      BY <2>2, <2>3, ThreadDoc DEF WorkInv
    <2>5. \A u \in Threads : pc[u] \in Work => status'[job[u].doc] \in {status[job[u].doc], "failed"}
      BY <2>3, ThreadDoc DEF Work
    <2>6. WorkInv'
      BY <1>1, <2>1, <2>2, <2>3, <2>4, <2>5 DEF WorkInv, Working
    <2> QED BY <2>1, <2>2, <2>6, FollowsIs, Moves
  <1>6. \/ UNCHANGED <<status, openTasks>>
        \/ \E d \in Docs : UploadInsert(d) \/ ResolveTask(d)
        \/ \E s \in Sweepers, d \in Docs : ReapGiveUp(s, d)
    BY DEF UploadSend, Age, ReapScan, SweepStep, ReapAborted, ReapSkip,
           ReapUnclaimed, ReapClaim, ReapRaced, RedriveDelete, RedriveSend, Expire,
           ToDeadLetter, Purge, vars
  <1> QED BY <1>2, <1>3, <1>4, <1>5, <1>6

\* With one worker the pipeline keeps its promise to clients: whatever crashes, raises,
\* expires, is lost, duplicated, redriven or rescued, each document's status moves as
\* DocumentLifecycle says, and a review task is open only for a document in review.
THEOREM OneWorkerFollowsLifecycle ==
    ASSUME OneWorker
    PROVE  Spec => FollowsLifecycle
  <1>1. Init => WorkInv /\ RowsInv /\ Lifecycle!Init
    <2>1. Init => WorkInv
      BY DEF Init, WorkInv, Work
    <2> QED BY <2>1, InitRows DEF Init, Lifecycle!Init
  <1>2. TypeOK /\ RowsInv /\ WorkInv /\ [Next]_vars => WorkInv' /\ LifecycleStep
    <2> SUFFICES ASSUME TypeOK, RowsInv, WorkInv, [Next]_vars PROVE WorkInv' /\ LifecycleStep
      OBVIOUS
    <2>1. Typed
      BY TypedIs
    <2>2. ASSUME NEW t \in Threads, NEW m \in Msgs, Receive(t, m) PROVE WorkInv' /\ LifecycleStep
      <3>1. /\ UNCHANGED <<status, openTasks>> /\ pc'[t] = "gate"
            /\ \A u \in Threads \ {t} : pc'[u] = pc[u] /\ job'[u] = job[u]
        BY <2>1, <2>2 DEF Receive, docVars, sideVars, Typed, ThreadsOK
      <3> QED BY <2>1, <3>1, WorkFrame DEF Work
    <2> QED BY <2>1, <2>2, ThreadWork, OtherWork DEF Next
  <1>3. LifecycleStep => [Lifecycle!Next]_<<status, {d \in Docs : openTasks[d] > 0}>>
    BY DEF LifecycleStep, InReview
  <1> QED BY <1>1, <1>2, <1>3, StepRows, Typing, PTL DEF Spec, FollowsLifecycle, Lifecycle!Spec

--------------------------------------------------------------------------
(* Giving up.                                                              *)

Handled(m) == \E t \in Threads : pc[t] # "idle" /\ job[t].slot = m

\* A message some handler will receive for the first time, or is handling.
Coming(m, d, s) ==
    /\ About(m, d, s) /\ ~msg[m].dead /\ ~Leaving(m)
    /\ msg[m].receives = 0 \/ Handled(m)

Failing(d) == \E t \in Threads : pc[t] \in {"fail", "note"} /\ job[t].doc = d
Sending(d) == \E t \in Threads : pc[t] = "send" /\ job[t].doc = d

\* The handler that will see the document's stage through, or note why it did not.
OnItsWay(d) ==
    \/ Failing(d)
    \/ status[d] \in {"received", "parsing"} /\ \E m \in Msgs : Coming(m, d, "parse")
    \/ status[d] \in {"parsed", "extracting"} /\ \E m \in Msgs : Coming(m, d, "extract")
    \/ status[d] = "parsed" /\ Sending(d)

\* A document rescued before, and on whose row no handler has noted a failure since its
\* upload, is on its way.
TracedAt(d) == Pending(d) /\ reapCount[d] > 0 /\ d \notin lastError => OnItsWay(d)

\* The strengthening of GiveUpHasReason: a document that ages although it was rescued has
\* its reason, and so has one that was rescued once too often.
TraceInv ==
    /\ \A d \in Docs : TracedAt(d)
    /\ \A d \in Docs : Pending(d) /\ d \in stale /\ reapCount[d] > 0 => d \in lastError
    /\ \A d \in Docs : reapCount[d] > MaxReap => d \in lastError

\* A document keeps what brings it on its way through a step that leaves its row alone.
LEMMA TracedFrame ==
    ASSUME NEW d, TracedAt(d), status'[d] = status[d], reapCount'[d] = reapCount[d],
           lastError \subseteq lastError',
           Failing(d) => Failing(d)' \/ d \in lastError' \/ ~Pending(d),
           \A m \in Msgs, s \in Stages : Coming(m, d, s) =>
               \/ Coming(m, d, s)' \/ d \in lastError' \/ (\E n \in Msgs : Coming(n, d, s)')
               \/ s = "parse" /\ status[d] \notin {"received", "parsing"}
               \/ s = "extract" /\ status[d] \notin {"parsed", "extracting"}
               \/ ~Pending(d),
           Sending(d) => Sending(d)'
    PROVE  TracedAt(d)'
  BY DEF TracedAt, OnItsWay, Pending, Stages

\* What a handler's step leaves alone.
LEMMA ThreadLeaves ==
    ASSUME Typed, NEW t \in Threads, ThreadStep(t) \/ Raise(t)
    PROVE  /\ UNCHANGED <<redriving, reapCount>> /\ lastError \subseteq lastError'
           /\ pc[t] # "idle"
           /\ \A d \in Docs \ {job[t].doc} : status'[d] = status[d]
           /\ \A u \in Threads \ {t} : pc'[u] = pc[u] /\ job'[u] = job[u]
           /\ pc'[t] = "idle" \/ job'[t] = job[t]
           /\ \A m \in Msgs : Used(m) /\ m # job[t].slot => msg'[m] = msg[m]
  <1> USE DEF docVars, sideVars, sweepVars
  <1>1. pc[t] # "idle" => job[t].doc \in Docs /\ job[t].slot \in Msgs
    BY ThreadDoc
  <1>2. pc[t] # "idle"
    BY DEF ThreadStep, Acknowledge, RecordFailure, NoteFailure, DeferSaturated, DeferProviderDown,
           TouchDocument, HoldBack, Admit, ParseBegin, ParseFetch, ParseNeedsOcr, ParsePutText, ParseCommit,
           ParseSend, ExtractBegin, ModelCall, PauseOnBudget, InvalidExtraction, StoreExtraction,
           EnsureReviewTask, Raise, At
  <1>3. UNCHANGED <<redriving, reapCount>> /\ lastError \subseteq lastError'
    BY DEF ThreadStep, Acknowledge, RecordFailure, NoteFailure, DeferSaturated, DeferProviderDown,
           TouchDocument, HoldBack, Admit, ParseBegin, ParseFetch, ParseNeedsOcr, ParsePutText, ParseCommit,
           ParseSend, ExtractBegin, ModelCall, PauseOnBudget, InvalidExtraction, StoreExtraction,
           EnsureReviewTask, Raise
  <1>4. \A d \in Docs \ {job[t].doc} : status'[d] = status[d]
    <2>1. UNCHANGED status \/ \E s : status' = [status EXCEPT ![job[t].doc] = s]
      BY DEF ThreadStep, Acknowledge, RecordFailure, NoteFailure, DeferSaturated, DeferProviderDown,
           TouchDocument, HoldBack, Admit, ParseBegin, ParseFetch, ParseNeedsOcr, ParsePutText, ParseCommit,
           ParseSend, ExtractBegin, ModelCall, PauseOnBudget, InvalidExtraction, StoreExtraction,
           EnsureReviewTask, Raise, SetStatus
    <2> QED BY <2>1 DEF Typed, RowsOK
  <1>5. /\ \A u \in Threads \ {t} : pc'[u] = pc[u] /\ job'[u] = job[u]
        /\ pc'[t] = "idle" \/ job'[t] = job[t]
    <2>1. Release(t) \/ \E p : Goto(t, p)
      BY DEF ThreadStep, Acknowledge, RecordFailure, NoteFailure, DeferSaturated, DeferProviderDown,
           TouchDocument, HoldBack, Admit, ParseBegin, ParseFetch, ParseNeedsOcr, ParsePutText, ParseCommit,
           ParseSend, ExtractBegin, ModelCall, PauseOnBudget, InvalidExtraction, StoreExtraction,
           EnsureReviewTask, Raise
    <2> QED BY <2>1 DEF Release, Goto, Typed, ThreadsOK
  <1>6. \A m \in Msgs : Used(m) /\ m # job[t].slot => msg'[m] = msg[m]
    <2>1. CASE UNCHANGED msg
      BY <2>1
    <2>2. CASE Acknowledge(t)
      BY <2>2 DEF Acknowledge, DeleteByReceipt, Typed, QueueTypeOK
    <2>3. ASSUME NEW st, NEW r, NEW f, NEW v, Send(st, job[t].doc, r, f, v)
          PROVE  \A m \in Msgs : Used(m) /\ m # job[t].slot => msg'[m] = msg[m]
      BY <2>3 DEF Send, SendFrom, Typed, QueueTypeOK
    <2>4. CASE DeferSaturated(t) \/ DeferProviderDown(t) \/ ParseSend(t)
      BY <2>3, <2>4 DEF DeferSaturated, DeferProviderDown, ParseSend
    <2> QED BY <2>1, <2>2, <2>4 DEF ThreadStep, RecordFailure, NoteFailure,
           TouchDocument, HoldBack, Admit, ParseBegin, ParseFetch, ParseNeedsOcr, ParsePutText, ParseCommit,
           ExtractBegin, ModelCall, PauseOnBudget, InvalidExtraction, StoreExtraction,
           EnsureReviewTask, Raise
  <1> QED BY <1>2, <1>3, <1>4, <1>5, <1>6

\* A message that is not the handler's own is on its way as before.
LEMMA OthersComing ==
    ASSUME Typed, NEW t \in Threads, ThreadStep(t) \/ Raise(t),
           NEW m \in Msgs, m # job[t].slot, NEW d, NEW s, Coming(m, d, s)
    PROVE  Coming(m, d, s)'
  <1>1. /\ UNCHANGED redriving
        /\ \A u \in Threads \ {t} : pc'[u] = pc[u] /\ job'[u] = job[u]
        /\ pc'[t] = "idle" \/ job'[t] = job[t]
        /\ msg'[m] = msg[m]
    BY ThreadLeaves DEF Coming, About
  <1>2. ~Leaving(m)'
    BY <1>1 DEF Coming, Leaving, LastSteps
  <1>3. Handled(m) => Handled(m)'
    BY <1>1 DEF Handled
  <1> QED BY <1>1, <1>2, <1>3 DEF Coming, About, Used

\* The handler's own message is on its way until the handler is about to delete it.
LEMMA OwnComing ==
    ASSUME Typed, Owns, NEW t \in Threads, pc[t] # "idle", UNCHANGED <<msg, redriving>>,
           NEW p, p \notin LastSteps \cup {"idle"}, Goto(t, p), pc[t] \notin LastSteps
    PROVE  Coming(job[t].slot, job[t].doc, Stage(t))'
  <1>1. job' = job /\ pc'[t] = p /\ \A u \in Threads \ {t} : pc'[u] = pc[u]
    BY DEF Goto, Typed, ThreadsOK
  <1>2. About(job[t].slot, job[t].doc, Stage(t)) /\ ~msg[job[t].slot].dead
    BY DEF Owns, Handles, About
  <1>3. ~Leaving(job[t].slot)'
    BY <1>1 DEF Leaving, LastSteps, Owns, Handles
  <1> QED BY <1>1, <1>2, <1>3 DEF Coming, About, Used, Handled, Stage

\* A message just sent is on its way.
LEMMA NewComing ==
    ASSUME Typed, NEW d, NEW s, NEW n \in Msgs, n \notin Held, About(n, d, s)',
           msg'[n].receives = 0, ~msg'[n].dead,
           \A u \in Threads : pc'[u] # "idle" => pc[u] # "idle",
           UNCHANGED <<job, redriving>>
    PROVE  Coming(n, d, s)'
  <1>1. \A u \in Threads : pc'[u] # "idle" => job'[u].slot # n
    BY ThreadDoc
  <1>2. \A h \in Healers : redriving'[h] # n
    BY DEF Held
  <1> QED BY <1>1, <1>2 DEF Coming, Leaving, LastSteps

\* A step of the handler of another document does not take a document off its way.
LEMMA ThreadOtherTraced ==
    ASSUME Typed, Owns, NEW t \in Threads, ThreadStep(t) \/ Raise(t),
           NEW d \in Docs, d # job[t].doc, TracedAt(d)
    PROVE  TracedAt(d)'
  <1>1. /\ UNCHANGED <<redriving, reapCount>> /\ lastError \subseteq lastError'
        /\ status'[d] = status[d]
        /\ \A u \in Threads \ {t} : pc'[u] = pc[u] /\ job'[u] = job[u]
        /\ pc[t] # "idle"
    BY ThreadLeaves
  <1>2. \A m \in Msgs, s \in Stages : Coming(m, d, s) => Coming(m, d, s)'
    <2>1. ASSUME NEW m \in Msgs, NEW s \in Stages, Coming(m, d, s) PROVE m # job[t].slot
      BY <1>1, <2>1 DEF Coming, About, Owns, Handles
    <2> QED BY <2>1, OthersComing
  <1>3. Failing(d) => Failing(d)'
    BY <1>1 DEF Failing
  <1>4. Sending(d) => Sending(d)'
    BY <1>1 DEF Sending
  <1> QED BY <1>1, <1>2, <1>3, <1>4, TracedFrame

\* A step of its own handler that writes no row, unless it begins to delete the message
\* or ends, does not either.
LEMMA ThreadOwnTraced ==
    ASSUME Typed, Owns, NEW t \in Threads, ThreadStep(t) \/ Raise(t),
           NEW d \in Docs, d = job[t].doc, TracedAt(d), status'[d] = status[d],
           pc[t] \notin {"fail", "note", "send"},
           \/ pc[t] \in LastSteps
           \/ UNCHANGED msg /\ \E p : p \notin LastSteps \cup {"idle"} /\ Goto(t, p)
           \/ Stage(t) = "parse" /\ status[d] \notin {"received", "parsing"}
           \/ Stage(t) = "extract" /\ status[d] \notin {"parsed", "extracting"}
           \/ \E n \in Msgs : Coming(n, d, Stage(t))'
    PROVE  TracedAt(d)'
  <1>1. /\ UNCHANGED <<redriving, reapCount>> /\ lastError \subseteq lastError'
        /\ \A u \in Threads \ {t} : pc'[u] = pc[u] /\ job'[u] = job[u]
        /\ pc[t] # "idle"
    BY ThreadLeaves
  <1>2. Failing(d) => Failing(d)'
    BY <1>1 DEF Failing
  <1>3. Sending(d) => Sending(d)'
    BY <1>1 DEF Sending
  <1>4. ASSUME NEW m \in Msgs, NEW s \in Stages, Coming(m, d, s)
        PROVE  \/ \E n \in Msgs : Coming(n, d, s)'
               \/ s = "parse" /\ status[d] \notin {"received", "parsing"}
               \/ s = "extract" /\ status[d] \notin {"parsed", "extracting"}
    <2>1. CASE m # job[t].slot
      BY <1>4, <2>1, OthersComing
    <2>2. CASE m = job[t].slot
      <3>1. s = Stage(t)
        BY <1>1, <1>4, <2>2 DEF Coming, About, Owns, Handles
      <3>2. pc[t] \notin LastSteps
        BY <1>4, <2>2 DEF Coming, Leaving
      <3>3. CASE UNCHANGED msg /\ \E p : p \notin LastSteps \cup {"idle"} /\ Goto(t, p)
        <4>1. Coming(job[t].slot, job[t].doc, Stage(t))'
          BY <1>1, <3>2, <3>3, OwnComing
        <4>2. job' = job
          BY <3>3 DEF Goto
        <4> QED BY <2>2, <3>1, <4>1, <4>2 DEF Coming, About, Leaving, Handled, Stage
      <3> QED BY <3>1, <3>2, <3>3 DEF Stage
    <2> QED BY <2>1, <2>2
  <1> QED BY <1>1, <1>2, <1>3, <1>4, TracedFrame

\* No step of its own handler takes a document off its way without noting why.
LEMMA ThreadTraced ==
    ASSUME ~DbErrors, Typed, MessageInv, NEW t \in Threads, ThreadStep(t) \/ Raise(t),
           NEW d \in Docs, d = job[t].doc, TracedAt(d)
    PROVE  TracedAt(d)'
  <1> USE DEF docVars, sideVars, sweepVars
  <1>1. /\ UNCHANGED <<redriving, reapCount>> /\ lastError \subseteq lastError'
        /\ pc[t] # "idle"
        /\ \A u \in Threads \ {t} : pc'[u] = pc[u] /\ job'[u] = job[u]
    BY ThreadLeaves
  <1>2. Owns /\ job[t].slot \in Msgs /\ Stage(t) \in Stages
    BY <1>1, ThreadDoc DEF MessageInv, Stage, Stages
  <1>3. status \in [Docs -> Statuses]
    BY DEF Typed, RowsOK
  <1>4. ASSUME status'[d] \in TERMINAL \/ d \in lastError' PROVE TracedAt(d)'
    BY <1>4 DEF TracedAt, Pending
  <1>5. CASE Acknowledge(t) \/ TouchDocument(t) \/ EnsureReviewTask(t)
    BY <1>2, <1>5, ThreadOwnTraced DEF Acknowledge, TouchDocument, EnsureReviewTask, At, LastSteps
  <1>6. CASE RecordFailure(t)
    BY <1>4, <1>6 DEF RecordFailure
  <1>7. CASE NoteFailure(t)
    <2>1. CASE Pending(d)
      BY <1>4, <1>7, <2>1 DEF NoteFailure
    <2>2. CASE ~Pending(d)
      BY <1>7, <2>2 DEF NoteFailure, TracedAt, Pending
    <2> QED BY <2>1, <2>2
  <1>8. CASE DeferSaturated(t) \/ DeferProviderDown(t)
    <2>1. /\ pc[t] \in {"gate", "defer"} /\ (Goto(t, "touch") \/ Goto(t, "hold"))
          /\ UNCHANGED status
          /\ \E f \in 0..MaxDefer : Send(Stage(t), job[t].doc, job[t].redrive, f, FALSE)
      <3>1. job[t].defer \in 0..MaxDefer
        BY <1>1, BusyJob DEF Typed
      <3>2. job[t].defer < MaxDefer => job[t].defer + 1 \in 0..MaxDefer
        BY <3>1, QueueAssumption
      <3>3. CASE DeferSaturated(t)
        BY <3>2, <3>3 DEF DeferSaturated, At, Typed, ThreadsOK
      <3>4. CASE DeferProviderDown(t)
        BY <3>1, <3>4 DEF DeferProviderDown, At
      <3> QED BY <1>8, <3>3, <3>4
    <2>2. job[t].redrive \in 0..MaxRedrive /\ FALSE \in BOOLEAN
      BY <1>1, BusyJob DEF Typed
    <2>3. PICK st \in Stages : st = Stage(t)
      BY <1>2
    <2>4. PICK n \in Msgs : /\ n \notin Held /\ ~Used(n) /\ About(n, d, st)'
                            /\ msg'[n].receives = 0 /\ ~msg'[n].dead
      BY <2>1, <2>2, <2>3, SendAdds
    <2>5. job' = job /\ \A u \in Threads : pc'[u] # "idle" => pc[u] # "idle"
      BY <1>1, <2>1 DEF Goto
    <2>6. Coming(n, d, st)'
      BY <1>1, <2>4, <2>5, NewComing
    <2>7. \E k \in Msgs : Coming(k, d, Stage(t))'
      BY <2>3, <2>6 DEF Stage
    <2> QED BY <1>2, <2>1, <2>7, ThreadOwnTraced
  <1>9. CASE HoldBack(t) \/ Admit(t) \/ ParseFetch(t) \/ ParsePutText(t) \/ ModelCall(t)
    <2>1. /\ UNCHANGED <<msg, status>> /\ pc[t] \notin {"fail", "note", "send"}
          /\ \E p \in {"defer", "begin", "ocr", "put", "commit", "approve", "review", "invalid", "pause"} : Goto(t, p)
      BY <1>9 DEF HoldBack, Admit, ParseFetch, ParsePutText, ModelCall, At
    <2> QED BY <1>2, <2>1, ThreadOwnTraced DEF LastSteps
  <1>10. ASSUME NEW p, p \notin LastSteps \cup {"idle"}, Goto(t, p), UNCHANGED msg,
                pc[t] = "begin",
                \/ Stage(t) = "parse" /\ status'[d] \in {"received", "parsing"}
                \/ Stage(t) = "extract" /\ status'[d] \in {"parsed", "extracting"}
         PROVE  TracedAt(d)'
    <2>1. Coming(job[t].slot, job[t].doc, Stage(t))'
      BY <1>1, <1>2, <1>10, OwnComing DEF LastSteps
    <2>2. job' = job
      BY <1>10 DEF Goto
    <2>3. Coming(job[t].slot, d, Stage(t))'
      BY <2>1, <2>2 DEF Coming, About, Leaving, Handled, Stage
    <2> QED BY <1>2, <1>10, <2>2, <2>3 DEF TracedAt, OnItsWay, Stage, Coming, About, Leaving, Handled
  <1>11. CASE ParseBegin(t)
    <2>1. Stage(t) = "parse" /\ pc[t] = "begin" /\ UNCHANGED msg
      BY <1>11 DEF ParseBegin, Stage, At
    <2>2. CASE status[d] \in {"received", "parsing"}
      BY <1>3, <1>10, <1>11, <2>1, <2>2 DEF ParseBegin, SetStatus, LastSteps
    <2>3. CASE status[d] \notin {"received", "parsing"}
      BY <1>2, <1>11, <2>1, <2>3, ThreadOwnTraced DEF ParseBegin
    <2> QED BY <2>2, <2>3
  <1>12. CASE ExtractBegin(t)
    <2>1. Stage(t) = "extract" /\ pc[t] = "begin" /\ UNCHANGED msg
      BY <1>12, PipelineAssumption DEF ExtractBegin, Stage, At
    <2>2. CASE status[d] \in {"parsed", "extracting", "budget_exceeded"}
      BY <1>3, <1>10, <1>12, <2>1, <2>2 DEF ExtractBegin, SetStatus, LastSteps
    <2>3. CASE status[d] \notin {"parsed", "extracting", "budget_exceeded"}
      BY <1>2, <1>12, <2>1, <2>3, ThreadOwnTraced DEF ExtractBegin
    <2> QED BY <2>2, <2>3
  <1>13. CASE ParseNeedsOcr(t) \/ StoreExtraction(t)
    <2>1. status'[d] \in {"needs_ocr", "approved", "needs_review"}
      BY <1>3, <1>13 DEF ParseNeedsOcr, StoreExtraction, SetStatus
    <2> QED BY <1>4, <2>1 DEF TERMINAL
  <1>14. CASE InvalidExtraction(t) \/ PauseOnBudget(t)
    BY <1>4, <1>14 DEF InvalidExtraction, PauseOnBudget
  <1>15. CASE ParseCommit(t)
    <2>1. status'[d] = "parsed" /\ pc'[t] = "send" /\ job' = job
      BY <1>3, <1>15 DEF ParseCommit, Goto, Typed, ThreadsOK
    <2> QED BY <2>1 DEF TracedAt, OnItsWay, Sending
  <1>16. CASE ParseSend(t)
    <2>1. /\ pc[t] = "send" /\ t \in ParseThreads /\ Goto(t, "ack") /\ UNCHANGED status
          /\ Send("extract", d, 0, 0, TRUE) /\ job' = job
      BY <1>16 DEF ParseSend, At, Goto, Typed, ThreadsOK, ExtractPCs, Threads
    <2>2. status[d] \notin Unparsed
      BY <2>1 DEF MessageInv, SentOn
    <2>3. PICK n \in Msgs : /\ n \notin Held /\ ~Used(n) /\ About(n, d, "extract")'
                            /\ msg'[n].receives = 0 /\ ~msg'[n].dead
      BY <2>1, FreshAdds DEF Stages
    <2>4. Coming(n, d, "extract")'
      <3>1. \A u \in Threads : pc'[u] # "idle" => pc[u] # "idle"
        BY <1>1, <2>1
      <3> QED BY <1>1, <2>1, <2>3, <3>1, NewComing
    <2>5. Failing(d) => Failing(d)'
      BY <1>1, <2>1 DEF Failing
    <2> QED BY <1>1, <2>1, <2>2, <2>4, <2>5 DEF TracedAt, OnItsWay, Pending, Unparsed
  <1>17. CASE Raise(t)
    <2>1. pc'[t] \in {"fail", "note"} /\ job' = job
      BY <1>17 DEF Raise, Goto, Typed, ThreadsOK
    <2> QED BY <2>1 DEF TracedAt, OnItsWay, Failing
  <1> QED BY <1>5, <1>6, <1>7, <1>8, <1>9, <1>11, <1>12, <1>13, <1>14, <1>15, <1>16, <1>17
          DEF ThreadStep

\* A message is on its way as before if it is what it was, its handler goes on handling
\* it, and nobody has begun to delete it.
LEMMA ComingFrame ==
    ASSUME NEW m \in Msgs, NEW d, NEW s, Coming(m, d, s), About(m, d, s)', ~msg'[m].dead,
           msg'[m].receives = msg[m].receives,
           \A u \in Threads : pc[u] # "idle" \/ pc'[u] # "idle" => pc'[u] = pc[u] /\ job'[u] = job[u],
           \A h \in Healers : redriving'[h] # NoMsg /\ redriving'[h] = m => redriving[h] = m
    PROVE  Coming(m, d, s)'
  <1>1. Handled(m) => Handled(m)'
    BY DEF Handled
  <1>2. ~Leaving(m)'
    BY DEF Coming, Leaving, LastSteps
  <1> QED BY <1>1, <1>2 DEF Coming

\* A step that only adds messages, and moves no thread, takes nothing off its way.
LEMMA AddingTraced ==
    ASSUME NEW d, TracedAt(d), status'[d] = status[d], reapCount'[d] = reapCount[d],
           lastError \subseteq lastError', UNCHANGED <<pc, job, redriving>>,
           \A m \in Msgs : Used(m) => msg'[m] = msg[m]
    PROVE  TracedAt(d)'
  <1>1. \A m \in Msgs, s \in Stages : Coming(m, d, s) => Coming(m, d, s)'
    BY ComingFrame DEF Coming, About, Used
  <1>2. (Failing(d) => Failing(d)') /\ (Sending(d) => Sending(d)')
    BY DEF Failing, Sending
  <1> QED BY <1>1, <1>2, TracedFrame

\* A claimed rescue puts its document on its way.
LEMMA ClaimTraced ==
    ASSUME Typed, RowsInv, NEW s \in Sweepers, NEW d \in Docs, ReapClaim(s, d)
    PROVE  TracedAt(d)'
  <1>1. /\ status[d] = cand[s][d] /\ status[d] # "budget_exceeded" /\ Pending(d)
        /\ UNCHANGED <<status, pc, job, redriving>>
    BY DEF ReapClaim, Claimable, RowsInv
  <1>2. status[d] \in {"received", "parsing", "parsed", "extracting"}
    BY <1>1 DEF Pending, TERMINAL, Typed, RowsOK, Statuses, DocumentStatus
  <1>3. PICK st \in Stages : st = StageOf(cand[s][d])
    BY DEF StageOf, Stages
  <1>4. /\ status[d] \in {"received", "parsing"} => st = "parse"
        /\ status[d] \in {"parsed", "extracting"} => st = "extract"
    BY <1>1, <1>3 DEF StageOf, RequeueExtract
  <1>5. PICK n \in Msgs : /\ n \notin Held /\ About(n, d, st)'
                          /\ msg'[n].receives = 0 /\ ~msg'[n].dead
    BY <1>3, FreshAdds DEF ReapClaim
  <1>6. Coming(n, d, st)'
    BY <1>1, <1>5, NewComing
  <1> QED BY <1>1, <1>2, <1>4, <1>6 DEF TracedAt, OnItsWay

\* No step but a handler's takes a document off its way.
LEMMA OtherTraced ==
    ASSUME ~LateDelivery, Typed, MessageInv, RowsInv, NEW d \in Docs, TracedAt(d),
           \/ \E e \in Docs : UploadInsert(e) \/ UploadSend(e) \/ ResolveTask(e) \/ Age(e)
           \/ \E s \in Sweepers : ReapScan(s)
           \/ \E s \in Sweepers, e \in Docs : SweepStep(s, e) \/ ReapAborted(s, e)
           \/ \E t \in Threads, m \in Msgs : Receive(t, m)
           \/ \E h \in Healers : RedriveDelete(h) \/ \E m \in Msgs : RedriveSend(h, m)
           \/ \E m \in Msgs : Expire(m) \/ ToDeadLetter(m) \/ Purge(m)
           \/ UNCHANGED vars
    PROVE  TracedAt(d)' /\ lastError \subseteq lastError'
  <1> USE DEF docVars, sideVars, sweepVars
  <1>1. CASE UNCHANGED <<docVars, pc, job, redriving, msg>>
    BY <1>1, AddingTraced
  <1>2. ASSUME NEW st \in Stages, NEW e \in Docs, Send(st, e, 0, 0, TRUE)
        PROVE  \A m \in Msgs : Used(m) => msg'[m] = msg[m]
    BY <1>2, FreshAdds
  <1>3. ASSUME NEW e \in Docs, UploadInsert(e) PROVE TracedAt(d)' /\ lastError \subseteq lastError'
    <2>1. CASE d = e
      BY <1>3, <2>1 DEF UploadInsert, RowsInv, TracedAt
    <2>2. CASE d # e
      <3>1. status'[d] = status[d]
        BY <1>3, <2>2 DEF UploadInsert, Typed, RowsOK
      <3> QED BY <1>3, <3>1, AddingTraced DEF UploadInsert
    <2> QED BY <2>1, <2>2
  <1>4. ASSUME NEW e \in Docs, UploadSend(e) \/ Age(e) PROVE TracedAt(d)' /\ lastError \subseteq lastError'
    BY <1>2, <1>4, AddingTraced DEF UploadSend, Age, Stages
  <1>5. ASSUME NEW e \in Docs, ResolveTask(e) PROVE TracedAt(d)' /\ lastError \subseteq lastError'
    <2>1. CASE d = e
      <3>1. status'[d] = "approved"
        BY <1>5, <2>1 DEF ResolveTask, SetStatus, Typed, RowsOK
      <3> QED BY <1>5, <3>1 DEF ResolveTask, TracedAt, Pending, TERMINAL
    <2>2. CASE d # e
      <3>1. status'[d] = status[d]
        BY <1>5, <2>2 DEF ResolveTask, SetStatus, Typed, RowsOK
      <3> QED BY <1>5, <3>1, AddingTraced DEF ResolveTask
    <2> QED BY <2>1, <2>2
  <1>6. ASSUME NEW s \in Sweepers, ReapScan(s) PROVE TracedAt(d)' /\ lastError \subseteq lastError'
    BY <1>1, <1>6 DEF ReapScan
  <1>7. ASSUME NEW s \in Sweepers, NEW e \in Docs, SweepStep(s, e) \/ ReapAborted(s, e)
        PROVE  TracedAt(d)' /\ lastError \subseteq lastError'
    <2>1. StageOf(cand[s][e]) \in Stages
      BY DEF StageOf, Stages
    <2>2. CASE ReapGiveUp(s, e)
      <3>1. CASE d = e
        BY <2>2, <3>1 DEF ReapGiveUp, TracedAt
      <3>2. CASE d # e
        <4>1. status'[d] = status[d] /\ reapCount'[d] = reapCount[d]
          BY <2>2, <3>2 DEF ReapGiveUp, Typed, RowsOK
        <4> QED BY <2>2, <4>1, AddingTraced DEF ReapGiveUp
      <3> QED BY <3>1, <3>2
    <2>3. CASE ReapClaim(s, e)
      <3>1. CASE d = e
        BY <2>3, <3>1, ClaimTraced DEF ReapClaim
      <3>2. CASE d # e
        <4>1. status'[d] = status[d] /\ reapCount'[d] = reapCount[d]
          BY <2>3, <3>2 DEF ReapClaim, Typed, RowsOK
        <4> QED BY <1>2, <2>1, <2>3, <4>1, AddingTraced DEF ReapClaim
      <3> QED BY <3>1, <3>2
    <2>4. CASE ReapUnclaimed(s, e) \/ ReapAborted(s, e)
      BY <1>2, <2>1, <2>4, AddingTraced DEF ReapUnclaimed, ReapAborted
    <2>5. CASE ReapSkip(s, e) \/ ReapRaced(s, e)
      BY <1>1, <2>5 DEF ReapSkip, ReapRaced
    <2> QED BY <1>7, <2>2, <2>3, <2>4, <2>5 DEF SweepStep
  <1>8. ASSUME UNCHANGED docVars,
               \A m \in Msgs, s \in Stages : Coming(m, d, s) => Coming(m, d, s)',
               \A u \in Threads : pc[u] # "idle" => pc'[u] = pc[u] /\ job'[u] = job[u]
        PROVE  TracedAt(d)' /\ lastError \subseteq lastError'
    <2>1. (Failing(d) => Failing(d)') /\ (Sending(d) => Sending(d)')
      BY <1>8 DEF Failing, Sending
    <2> QED BY <1>8, <2>1, TracedFrame
  <1>9. ASSUME NEW t \in Threads, NEW m \in Msgs, Receive(t, m)
        PROVE  TracedAt(d)' /\ lastError \subseteq lastError'
    <2>1. /\ pc[t] = "idle" /\ Deliver(m) /\ UNCHANGED <<docVars, redriving>>
          /\ pc'[t] = "gate" /\ job'[t].slot = m
          /\ \A u \in Threads \ {t} : pc'[u] = pc[u] /\ job'[u] = job[u]
      <3> DEFINE delivery == [slot |-> m, doc |-> msg[m].doc, receives |-> msg[m].receives + 1,
                              redrive |-> msg[m].redrive, defer |-> msg[m].defer]
      <3>1. delivery.slot = m
        OBVIOUS
      <3>2. job' = [job EXCEPT ![t] = delivery] /\ pc' = [pc EXCEPT ![t] = "gate"]
        BY <1>9 DEF Receive
      <3> HIDE DEF delivery
      <3> QED BY <1>9, <3>1, <3>2 DEF Receive, Typed, ThreadsOK
    <2>2. /\ Used(m)' /\ msg'[m].doc = msg[m].doc /\ msg'[m].stage = msg[m].stage
          /\ ~msg'[m].dead /\ \A k \in Msgs \ {m} : msg'[k] = msg[k]
      BY <2>1, ServiceKeeps
    <2>3. ASSUME NEW k \in Msgs, NEW s \in Stages, Coming(k, d, s) PROVE Coming(k, d, s)'
      <3>1. ~Leaving(k)'
        BY <2>1, <2>3 DEF Coming, Leaving, LastSteps
      <3>2. CASE k = m
        BY <2>1, <2>2, <2>3, <3>1, <3>2 DEF Coming, About, Handled
      <3>3. CASE k # m
        <4>1. Handled(k) => Handled(k)'
          BY <2>1 DEF Handled
        <4> QED BY <2>2, <2>3, <3>1, <3>3, <4>1 DEF Coming, About, Used
      <3> QED BY <3>2, <3>3
    <2>4. \A u \in Threads : pc[u] # "idle" => pc'[u] = pc[u] /\ job'[u] = job[u]
      BY <2>1
    <2> QED BY <1>8, <2>1, <2>3, <2>4
  <1>10. ASSUME NEW h \in Healers, RedriveDelete(h) PROVE TracedAt(d)' /\ lastError \subseteq lastError'
    <2>1. PICK m \in Msgs : m = redriving[h]
      BY <1>10 DEF RedriveDelete, Typed, RowsOK
    <2>2. \A k \in Msgs \ {m} : msg'[k] = msg[k]
      BY <1>10, <2>1 DEF RedriveDelete, Typed, QueueTypeOK
    <2>3. \A k \in Msgs, s \in Stages : Coming(k, d, s) => k # m
      BY <1>10, <2>1 DEF Coming, Leaving, RedriveDelete
    <2>4. \A g \in Healers : redriving'[g] # NoMsg => redriving'[g] = redriving[g]
      BY <1>10 DEF RedriveDelete, Typed, RowsOK
    <2>5. \A k \in Msgs, s \in Stages : Coming(k, d, s) => Coming(k, d, s)'
      BY <1>10, <2>2, <2>3, <2>4, ComingFrame DEF RedriveDelete, Coming, About, Used
    <2> QED BY <1>8, <1>10, <2>5 DEF RedriveDelete
  <1>11. ASSUME NEW h \in Healers, NEW m \in Msgs, RedriveSend(h, m)
         PROVE  TracedAt(d)' /\ lastError \subseteq lastError'
    <2>1. PICK n \in Msgs : /\ ~Used(n) /\ msg[m].dead
                            /\ \A k \in Msgs \ {n, m} : msg'[k] = msg[k]
      BY <1>11, RedriveAdds
    <2>2. \A g \in Healers, k \in Msgs \ {m} : redriving'[g] = k => redriving[g] = k
      BY <1>11 DEF RedriveSend, Typed, RowsOK
    <2>3. \A k \in Msgs, s \in Stages : Coming(k, d, s) => k \notin {n, m}
      BY <2>1 DEF Coming, About
    <2>4. UNCHANGED <<pc, job>>
      BY <1>11 DEF RedriveSend
    <2>5. ASSUME NEW k \in Msgs, NEW s \in Stages, Coming(k, d, s) PROVE Coming(k, d, s)'
      <3>1. msg'[k] = msg[k] /\ \A g \in Healers : redriving'[g] = k => redriving[g] = k
        BY <2>1, <2>2, <2>3, <2>5
      <3>2. About(k, d, s)' /\ ~msg'[k].dead
        BY <2>5, <3>1 DEF Coming, About, Used
      <3> QED BY <2>4, <2>5, <3>1, <3>2, ComingFrame
    <2> QED BY <1>8, <1>11, <2>5 DEF RedriveSend
  <1>12. ASSUME NEW m \in Msgs, Expire(m) PROVE TracedAt(d)' /\ lastError \subseteq lastError'
    <2>1. /\ Used(m)' /\ msg'[m].doc = msg[m].doc /\ msg'[m].stage = msg[m].stage
          /\ msg'[m].dead = msg[m].dead /\ msg'[m].receives = msg[m].receives
          /\ \A k \in Msgs \ {m} : msg'[k] = msg[k]
      BY <1>12, ServiceKeeps DEF Expire
    <2>2. \A k \in Msgs, s \in Stages : Coming(k, d, s) => About(k, d, s)' /\ msg'[k].receives = msg[k].receives
      BY <2>1 DEF Coming, About, Used
    <2>3. \A k \in Msgs : ~msg[k].dead => ~msg'[k].dead
      <3>1. ~msg[m].dead => ~msg'[m].dead
        BY <2>1, Zenon
      <3>2. \A k \in Msgs : k # m => msg'[k] = msg[k]
        BY <2>1
      <3> QED BY <3>1, <3>2, Zenon
    <2>4. \A k \in Msgs, s \in Stages : Coming(k, d, s) => Coming(k, d, s)'
      BY <1>12, <2>2, <2>3, ComingFrame DEF Expire, Coming
    <2> QED BY <1>8, <1>12, <2>4 DEF Expire
  <1>13. ASSUME NEW m \in Msgs, ToDeadLetter(m) \/ Purge(m)
         PROVE  TracedAt(d)' /\ lastError \subseteq lastError'
    <2>1. \A k \in Msgs \ {m} : msg'[k] = msg[k]
      BY <1>13 DEF ToDeadLetter, DeadLetter, Purge, Typed, QueueTypeOK
    <2>2. ASSUME NEW s \in Stages, Coming(m, d, s) PROVE FALSE
      <3>1. DeadLetter(m) /\ ~Handled(m)
        <4>1. DeadLetter(m) /\ msg[m].visible
          BY <1>13, <2>2 DEF Coming, Purge, ToDeadLetter, DeadLetter
        <4> QED BY <4>1 DEF MessageInv, Owns, Handles, Handled
      <3> QED BY <2>2, <3>1, QueueAssumption DEF Coming, DeadLetter
    <2>3. \A k \in Msgs, s \in Stages : Coming(k, d, s) => Coming(k, d, s)'
      BY <1>13, <2>1, <2>2, ComingFrame DEF ToDeadLetter, Purge, Coming, About, Used
    <2> QED BY <1>8, <1>13, <2>3 DEF ToDeadLetter, Purge
  <1>14. CASE UNCHANGED vars
    BY <1>1, <1>14 DEF vars
  <1> QED BY <1>3, <1>4, <1>5, <1>6, <1>7, <1>9, <1>10, <1>11, <1>12, <1>13, <1>14

\* Every step keeps what is on its way on its way, and forgets no failure.
LEMMA StepTraced ==
    ASSUME ~LateDelivery, ~DbErrors, ~Crashes, Typed, MessageInv, RowsInv, [Next]_vars,
           NEW d \in Docs, TracedAt(d)
    PROVE  TracedAt(d)' /\ lastError \subseteq lastError'
  <1>1. ASSUME NEW t \in Threads, ThreadStep(t) \/ Raise(t)
        PROVE  TracedAt(d)' /\ lastError \subseteq lastError'
    BY <1>1, ThreadLeaves, ThreadTraced, ThreadOtherTraced DEF MessageInv
  <1>2. ~\E t \in Threads : Crash(t)
    BY DEF Crash
  <1> QED BY <1>1, <1>2, OtherTraced DEF Next

LEMMA OnItsWayIsQueued ==
    ASSUME Typed, MessageInv, NEW d \in Docs, OnItsWay(d) PROVE Queued(d)
  <1>1. Failing(d) \/ Sending(d) => Queued(d)
    BY HandledIsQueued DEF Failing, Sending
  <1> QED BY <1>1 DEF OnItsWay, Coming, About, Queued

LEMMA StepTrace ==
    ASSUME ~Backlog, ~LateDelivery, ~DbErrors, ~Crashes
    PROVE  TypeOK /\ MessageInv /\ RowsInv /\ TraceInv /\ [Next]_vars => TraceInv'
  <1> SUFFICES ASSUME TypeOK, MessageInv, RowsInv, TraceInv, [Next]_vars PROVE TraceInv'
    OBVIOUS
  <1>1. Typed
    BY TypedIs
  <1>2. /\ \A d \in Docs : TracedAt(d)'
        /\ Docs # {} => lastError \subseteq lastError'
    BY <1>1, StepTraced DEF TraceInv
  <1>3. ASSUME NEW d \in Docs, Pending(d)', d \in stale', reapCount'[d] > 0 PROVE d \in lastError'
    <2>1. RowStep(d)
      BY EveryRow
    <2>2. CASE Age(d)
      <3>1. Pending(d) /\ ~Queued(d) /\ reapCount' = reapCount
        BY <2>2 DEF Age
      <3>2. ~OnItsWay(d)
        BY <1>1, <3>1, OnItsWayIsQueued
      <3> QED BY <1>2, <1>3, <3>1, <3>2 DEF TraceInv, TracedAt
    <2>3. CASE d \in stale
      <3>1. status[d] # "absent" /\ status'[d] = status[d] /\ reapCount'[d] = reapCount[d]
        BY <1>3, <2>1, <2>3 DEF RowStep, RowsInv
      <3> QED BY <1>2, <1>3, <2>3, <3>1 DEF TraceInv, Pending
    <2> QED BY <1>3, <2>1, <2>2, <2>3 DEF RowStep
  <1>4. ASSUME NEW d \in Docs, reapCount'[d] > MaxReap PROVE d \in lastError'
    <2>1. CASE reapCount'[d] = reapCount[d]
      BY <1>2, <1>4, <2>1 DEF TraceInv
    <2>2. CASE reapCount'[d] # reapCount[d]
      <3>1. PICK s \in Sweepers, e \in Docs : ReapClaim(s, e) \/ ReapGiveUp(s, e)
        BY <2>2, CountedBySweep
      <3>2. d = e
        BY <1>1, <2>2, <3>1 DEF ReapClaim, ReapGiveUp, Typed, RowsOK
      <3>3. ASSUME ReapClaim(s, e) PROVE FALSE
        <4>1. reapCount[d] < MaxReap /\ reapCount' = [reapCount EXCEPT ![d] = reapCount[d] + 1]
          BY <3>2, <3>3 DEF ReapClaim
        <4>2. reapCount[d] \in Nat /\ reapCount'[d] = reapCount[d] + 1
          BY <1>1, <4>1, PipelineAssumption DEF Typed, RowsOK
        <4> QED BY <1>4, <4>1, <4>2, PipelineAssumption
      <3> QED BY <3>1, <3>2, <3>3 DEF ReapGiveUp
    <2> QED BY <2>1, <2>2
  <1> QED BY <1>2, <1>3, <1>4 DEF TraceInv

\* Who fails a document: the handler of its last delivery, an invalid answer, the reaper.
LEMMA WhoFails ==
    ASSUME Typed, [Next]_vars, NEW d \in Docs, status[d] # "failed", status'[d] = "failed"
    PROVE  \/ \E t \in Threads : pc[t] = "invalid" /\ job[t].doc = d
           \/ UNCHANGED reapCount
           \/ \E s \in Sweepers : ReapGiveUp(s, d)
  <1>1. CASE UNCHANGED reapCount
    BY <1>1
  <1>2. CASE reapCount' # reapCount
    <2>1. PICK s \in Sweepers, e \in Docs : ReapClaim(s, e) \/ ReapGiveUp(s, e)
      BY <1>2, CountedBySweep
    <2>2. d = e /\ ReapGiveUp(s, e)
      BY <2>1 DEF ReapClaim, ReapGiveUp, Typed, RowsOK
    <2> QED BY <2>2
  <1> QED BY <1>1, <1>2

\* The reaper gives up only on a document with a failure on its row, whatever is raised,
\* deferred, redriven, purged or sent twice, with any number of workers. The exclusions are
\* the ways a rescue ends without a handler's note: a row that ages while its message
\* waits, a timeout under a running handler, a worker that dies, a note that is lost, and
\* a fleet that rescues nothing before it gives up.
THEOREM NobodyIsGivenUpUnheard ==
    ASSUME ~Backlog, ~LateDelivery, ~Crashes, ~DbErrors, MaxReap # 0
    PROVE  Spec => GiveUpHasReason
  <1>1. Init => TraceInv
    BY PipelineAssumption DEF Init, TraceInv, TracedAt
  <1>2. TypeOK /\ MessageInv /\ RowsInv /\ TraceInv /\ [Next]_vars => TraceInv'
    BY StepTrace
  <1>3. TypeOK /\ MessageInv /\ [Next]_vars => MessageInv'
    BY StepKeeps
  <1>4. TypeOK /\ TraceInv /\ [Next]_vars =>
          [\A d \in Docs :
             status[d] # "failed" /\ status'[d] = "failed" /\ reapCount'[d] = MaxReap + 1
               => d \in lastError \/ \E t \in Threads : pc[t] = "invalid" /\ job[t].doc = d]_vars
    <2> SUFFICES ASSUME TypeOK, TraceInv, [Next]_vars,
                        NEW d \in Docs, status[d] # "failed", status'[d] = "failed",
                        reapCount'[d] = MaxReap + 1
                 PROVE  d \in lastError \/ \E t \in Threads : pc[t] = "invalid" /\ job[t].doc = d
      OBVIOUS
    <2>1. CASE UNCHANGED reapCount
      BY <2>1, PipelineAssumption DEF TraceInv
    <2>2. ASSUME NEW s \in Sweepers, ReapGiveUp(s, d) PROVE d \in lastError
      BY <2>2, TypedIs, PipelineAssumption DEF ReapGiveUp, TraceInv, Typed, RowsOK
    <2> QED BY <2>1, <2>2, WhoFails, TypedIs
  <1> QED BY <1>1, <1>2, <1>3, <1>4, InitMessage, InitRows, StepRows, Typing, PTL DEF Spec, GiveUpHasReason

==========================================================================
