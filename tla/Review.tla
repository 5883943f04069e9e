----------------------------- MODULE Review ------------------------------
(***************************************************************************)
(* What happens to one document's extractions once they exist: handlers    *)
(* store them, reviewers resolve the tasks they open, and clients correct  *)
(* what they are served. Each of those is one transaction of several       *)
(* statements, so the rows' locks are state, transactions wait for each    *)
(* other, and Postgres breaks a cycle of waits by aborting one of them.    *)
(* Transactions are read committed: a statement sees what is committed.    *)
(***************************************************************************)
EXTENDS Naturals, FiniteSets

CONSTANTS
    Storers,   \* handlers past the status guard, about to store an extraction
    Reviewers, \* requests to resolve a review task
    Clients,   \* requests to correct the document
    Fields,    \* the extraction's scalar fields
    MaxReceive, \* the extract queue's maxReceiveCount
    None       \* no row, no extraction

ASSUME ReviewAssumption ==
    /\ Storers \cap Reviewers = {} /\ Storers \cap Clients = {}
    /\ Reviewers \cap Clients = {} /\ MaxReceive \in Nat \ {0}
    /\ IsFiniteSet(Storers)

VARIABLES
    status,      \* documents.status of the document
    extractions, \* the document's extractions; an id is an order of created_at
    tasks,       \* per extraction: its review task
    cases,       \* eval_cases: which field of which extraction was corrected
    observed,    \* drift_stats.n_observed, since this document was first stored
    locks,       \* row locks: [row, by, mode]
    at,          \* per actor: the statement its transaction has reached
    tx,          \* per actor: what its transaction holds in memory
    receives,    \* per handler: how often its message was received
    verdicts,    \* history: resolutions committed per extraction
    overlapped   \* history: extractions written from a reading that had gone stale

tables == <<status, extractions, tasks, cases, observed>>
history == <<receives, verdicts, overlapped>>
vars == <<tables, locks, at, tx, history>>

Actors == Storers \cup Reviewers \cup Clients
Ids == 1..(Cardinality(Storers) * MaxReceive)
Values == {"read", "right"}

Extraction == [output : [Fields -> Values], cells : [Fields -> Values],
               decision : {"approved", "needs_review"}]
ASSUME NoneAssumption == None \notin Nat /\ None \notin Extraction

NoTx == [extraction |-> None, decision |-> None, output |-> None, cells |-> None,
         fixes |-> {}, seen |-> 0]

Start(a) == IF a \in Storers THEN "insert" ELSE "choose"

Init ==
    /\ status = "extracting"
    /\ extractions = [e \in Ids |-> None]
    /\ tasks = [e \in Ids |-> "none"]
    /\ cases = {} /\ observed = 0 /\ locks = {}
    /\ at = [a \in Actors |-> Start(a)]
    /\ tx = [a \in Actors |-> NoTx]
    /\ receives = [s \in Storers |-> 1]
    /\ verdicts = [e \in Ids |-> 0] /\ overlapped = {}

--------------------------------------------------------------------------
(* Row locks, as Postgres grants them.                                     *)

TheDocument == <<"documents", 0>>
TheDrift == <<"drift_stats", 0>>
TheExtraction(e) == <<"extractions", e>>
TheTask(e) == <<"review_tasks", e>>

\* key: what a foreign key takes; write: UPDATE; update: SELECT FOR UPDATE.
Conflict(held, wanted) == held = "update" \/ wanted = "update" \/ {held, wanted} = {"write"}

Holders(a, row, mode) ==
    {l.by : l \in {k \in locks : k.row = row /\ k.by # a /\ Conflict(k.mode, mode)}}

Lock(a, row, mode) ==
    /\ Holders(a, row, mode) = {}
    /\ locks' = locks \cup {[row |-> row, by |-> a, mode |-> mode]}

Unlock(a) == locks' = {l \in locks : l.by # a}

\* What the actor's next statement has to lock, if anything.
Wanted(a) ==
    CASE at[a] \in {"insert", "label", "task"} -> <<TheDocument, "key">>
      [] at[a] = "observe"                     -> <<TheDrift, "update">>
      [] at[a] \in {"route", "close"}          -> <<TheDocument, "update">>
      [] at[a] = "claim"                       -> <<TheTask(tx[a].extraction), "update">>
      [] at[a] = "write"                       -> <<TheExtraction(tx[a].extraction), "write">>
      [] OTHER                                 -> None

WaitsFor(a) == IF Wanted(a) = None THEN {} ELSE Holders(a, Wanted(a)[1], Wanted(a)[2])

\* A cycle of waits through a.
Deadlocked(a) ==
    /\ WaitsFor(a) # {}
    /\ \E C \in SUBSET {b \in Actors : WaitsFor(b) # {}} :
         /\ a \in C
         /\ \A b \in C : WaitsFor(b) \cap C # {} /\ \E c \in C : b \in WaitsFor(c)

Goto(a, p) == at' = [at EXCEPT ![a] = p]

\* The transaction rolls back. A handler's message is redelivered, or goes to the DLQ;
\* a request ends with a 500.
Rollback(a) ==
    /\ Unlock(a)
    /\ tx' = [tx EXCEPT ![a] = NoTx]
    /\ \/ a \notin Storers /\ Goto(a, "failed")
       \/ a \in Storers /\ Goto(a, IF receives[a] < MaxReceive THEN "redelivered" ELSE "dead")
    /\ UNCHANGED <<tables, history>>

Abort(a) == Deadlocked(a) /\ Rollback(a)

--------------------------------------------------------------------------
(* _store_extraction, and ensure_review_task after it.                     *)

\* The next delivery passes the status guard, or is skipped by it.
Guard(s) ==
    /\ at[s] = "redelivered"
    /\ receives' = [receives EXCEPT ![s] = @ + 1]
    /\ Goto(s, IF status = "extracting" THEN "insert" ELSE "done")
    /\ UNCHANGED <<tables, locks, tx, verdicts, overlapped>>

\* The row is flushed: its foreign key share-locks the document. created_at is the start
\* of the transaction, so ids are handed out here and not at the commit.
Begun == {tx[s].extraction : s \in Storers} \cup {e \in Ids : extractions[e] # None}

StoreInsert(s, e, decision) ==
    /\ at[s] = "insert"
    /\ (\A f \in Begun \ {None} : f < e) /\ (e = 1 \/ e - 1 \in Begun)
    /\ Lock(s, TheDocument, "key")
    /\ tx' = [tx EXCEPT ![s] = [NoTx EXCEPT !.extraction = e, !.decision = decision]]
    /\ Goto(s, "observe")
    /\ UNCHANGED <<tables, history>>

\* Mutant: drift is observed in a transaction of its own.
X_StoreObserve(s) ==
    /\ at[s] = "observe"
    /\ Holders(s, TheDrift, "update") = {}
    /\ tx' = [tx EXCEPT ![s].seen = observed]
    /\ observed' = observed + 1
    /\ Goto(s, "route")
    /\ UNCHANGED <<status, extractions, tasks, cases, locks, history>>

\* observe: the drift row, there since an earlier document, is read FOR UPDATE.
StoreObserve(s) ==
    /\ at[s] = "observe"
    /\ Lock(s, TheDrift, "update")
    /\ tx' = [tx EXCEPT ![s].seen = observed]
    /\ Goto(s, "route")
    /\ UNCHANGED <<tables, history>>

\* The document is locked for its status.
StoreRoute(s) ==
    /\ at[s] = "route"
    /\ Lock(s, TheDocument, "update")
    /\ Goto(s, "commit")
    /\ UNCHANGED <<tables, tx, history>>

\* Mutant: the review task is made inside the write transaction, on its own session.
X_StoreCommit(s) ==
    /\ at[s] = "commit"
    /\ tx[s].decision = "approved" \/ Holders(None, TheDocument, "key") = {}
    /\ LET e == tx[s].extraction
       IN  /\ extractions' = [extractions EXCEPT ![e] =
                [output |-> [f \in Fields |-> "read"], cells |-> [f \in Fields |-> "read"],
                 decision |-> tx[s].decision]]
           /\ tasks' = [tasks EXCEPT ![e] = IF tx[s].decision = "approved" THEN @ ELSE "open"]
           /\ status' = tx[s].decision
           /\ observed' = tx[s].seen + 1
           /\ Goto(s, "done")
    /\ Unlock(s)
    /\ UNCHANGED <<cases, tx, history>>

\* Extraction, drift, fields and status commit together.
StoreCommit(s) ==
    /\ at[s] = "commit"
    /\ extractions' = [extractions EXCEPT ![tx[s].extraction] =
         [output |-> [f \in Fields |-> "read"], cells |-> [f \in Fields |-> "read"],
          decision |-> tx[s].decision]]
    /\ status' = tx[s].decision
    /\ observed' = tx[s].seen + 1
    /\ Unlock(s)
    /\ Goto(s, IF tx[s].decision = "needs_review" THEN "task" ELSE "done")
    /\ UNCHANGED <<tasks, cases, tx, history>>

\* ensure_review_task, in the next transaction: its foreign keys need the document.
EnsureTask(s) ==
    /\ at[s] = "task"
    /\ Holders(s, TheDocument, "key") = {}
    /\ tasks' = [tasks EXCEPT ![tx[s].extraction] = IF @ = "none" THEN "open" ELSE @]
    /\ Goto(s, "done")
    /\ UNCHANGED <<status, extractions, cases, observed, locks, tx, history>>

--------------------------------------------------------------------------
(* The two ways a human writes: resolve_task and correct_extraction.       *)

\* open_tasks and GET /review/tasks/{id}: the reviewer picks a task that is open, and
\* decides which of the fields it shows to correct; none is approved_as_is.
Choose(r, e, fixes) ==
    /\ at[r] = "choose"
    /\ tasks[e] = "open"
    /\ tx' = [tx EXCEPT ![r] = [NoTx EXCEPT !.extraction = e, !.fixes = fixes]]
    /\ Goto(r, "claim")
    /\ UNCHANGED <<tables, locks, history>>

\* Mutant: the task is read without a lock.
X_Claim(r) ==
    /\ at[r] = "claim"
    /\ UNCHANGED locks
    /\ Goto(r, IF tasks[tx[r].extraction] = "open" THEN "read" ELSE "refused")
    /\ UNCHANGED <<tables, tx, history>>

\* The task is locked; a resolved one is refused with a 409.
Claim(r) ==
    /\ at[r] = "claim"
    /\ \/ /\ tasks[tx[r].extraction] = "open"
          /\ Lock(r, TheTask(tx[r].extraction), "update")
          /\ Goto(r, "read")
       \/ /\ tasks[tx[r].extraction] = "resolved"
          /\ Holders(r, TheTask(tx[r].extraction), "update") = {}
          /\ Goto(r, "refused")
          /\ UNCHANGED locks
    /\ UNCHANGED <<tables, tx, history>>

\* The extraction and the cells named are read, and neither is locked.
Read(a, e, fixes, next) ==
    /\ tx' = [tx EXCEPT ![a] = [NoTx EXCEPT !.extraction = e, !.fixes = fixes,
                                 !.output = extractions[e].output, !.cells = extractions[e].cells]]
    /\ Goto(a, next)
    /\ UNCHANGED <<tables, history>>

ResolveRead(r) ==
    /\ at[r] = "read"
    /\ Read(r, tx[r].extraction, tx[r].fixes, IF tx[r].fixes = {} THEN "close" ELSE "write")
    /\ UNCHANGED locks

\* The flush of the extraction's UPDATE, then of the eval cases' INSERT, whose foreign
\* keys share-lock the document.
Write(a) ==
    /\ at[a] = "write"
    /\ Lock(a, TheExtraction(tx[a].extraction), "write")
    /\ Goto(a, "label")
    /\ UNCHANGED <<tables, tx, history>>

Label(a) ==
    /\ at[a] = "label"
    /\ Lock(a, TheDocument, "key")
    /\ Goto(a, IF a \in Reviewers THEN "close" ELSE "commit")
    /\ UNCHANGED <<tables, tx, history>>

Close(r) ==
    /\ at[r] = "close"
    /\ Lock(r, TheDocument, "update")
    /\ Goto(r, "commit")
    /\ UNCHANGED <<tables, tx, history>>

Fixed(values, fixes) == [f \in Fields |-> IF f \in fixes THEN "right" ELSE values[f]]

\* Mutant: the corrections reach the output and not the fields' rows.
X_Apply(a, fixes) ==
    LET e == tx[a].extraction
    IN  /\ extractions' = [extractions EXCEPT ![e].output = Fixed(tx[a].output, fixes)]
        /\ cases' = cases \cup {<<e, f>> : f \in fixes}
        /\ overlapped' = IF fixes # {} /\ extractions[e].output # tx[a].output
                           THEN overlapped \cup {e} ELSE overlapped

\* Mutant: the cells are written as the output is, all of them as they were read.
X_ApplyWhole(a, fixes) ==
    LET e == tx[a].extraction
    IN  /\ extractions' = IF fixes = {} THEN extractions
             ELSE [extractions EXCEPT ![e].output = Fixed(tx[a].output, fixes),
                                      ![e].cells = Fixed(tx[a].cells, fixes)]
        /\ cases' = cases \cup {<<e, f>> : f \in fixes}
        /\ overlapped' = IF fixes # {} /\ extractions[e].output # tx[a].output
                           THEN overlapped \cup {e} ELSE overlapped

\* The whole output as it was read, with the corrections in it; each cell by itself; and
\* an eval case for each field.
Apply(a, fixes) ==
    LET e == tx[a].extraction
    IN  /\ extractions' = IF fixes = {} THEN extractions
             ELSE [extractions EXCEPT ![e].output = Fixed(tx[a].output, fixes),
                                      ![e].cells = Fixed(@, fixes)]
        /\ cases' = cases \cup {<<e, f>> : f \in fixes}
        /\ overlapped' = IF fixes # {} /\ extractions[e].output # tx[a].output
                           THEN overlapped \cup {e} ELSE overlapped

\* Mutant: the document takes the task's state for its own.
X_ResolveCommit(r) ==
    /\ at[r] = "commit"
    /\ Apply(r, tx[r].fixes)
    /\ tasks' = [tasks EXCEPT ![tx[r].extraction] = "resolved"]
    /\ verdicts' = [verdicts EXCEPT ![tx[r].extraction] = @ + 1]
    /\ status' = "resolved"
    /\ Unlock(r)
    /\ Goto(r, "done")
    /\ UNCHANGED <<observed, tx, receives>>

ResolveCommit(r) ==
    /\ at[r] = "commit"
    /\ Apply(r, tx[r].fixes)
    /\ tasks' = [tasks EXCEPT ![tx[r].extraction] = "resolved"]
    /\ verdicts' = [verdicts EXCEPT ![tx[r].extraction] = @ + 1]
    /\ status' = "approved"
    /\ Unlock(r)
    /\ Goto(r, "done")
    /\ UNCHANGED <<observed, tx, receives>>

Latest(e) == extractions[e] # None /\ \A f \in Ids : extractions[f] # None => f <= e

\* correct_extraction begins with the document's lock. It corrects the latest extraction,
\* and skips a field that has the value already; with no extraction, or nothing left to
\* change, there is nothing to write.
CorrectOpen(c, fixes) ==
    /\ at[c] = "choose"
    /\ Holders(c, TheDocument, "update") = {}
    /\ \/ \E e \in Ids :
            /\ Latest(e)
            /\ LET wrong == {f \in fixes : extractions[e].cells[f] # "right"}
               IN  IF wrong = {} THEN Goto(c, "done") /\ UNCHANGED <<locks, tx, tables, history>>
                   ELSE Lock(c, TheDocument, "update") /\ Read(c, e, wrong, "write")
       \/ /\ \A e \in Ids : extractions[e] = None
          /\ Goto(c, "refused")
          /\ UNCHANGED <<locks, tx, tables, history>>

CorrectCommit(c) ==
    /\ at[c] = "commit"
    /\ Apply(c, tx[c].fixes)
    /\ Unlock(c)
    /\ Goto(c, "done")
    /\ UNCHANGED <<status, tasks, observed, tx, receives, verdicts>>

Store(s) ==
    \/ Guard(s)
    \/ \E e \in Ids, decision \in {"approved", "needs_review"} : StoreInsert(s, e, decision)
    \/ StoreObserve(s) \/ StoreRoute(s) \/ StoreCommit(s)
    \/ EnsureTask(s)

Resolve(r) == Claim(r) \/ ResolveRead(r) \/ Write(r) \/ Label(r) \/ Close(r) \/ ResolveCommit(r)

Correct(c) ==
    \/ Write(c) \/ Label(c) \/ CorrectCommit(c)

\* Begun transactions, and what Postgres does about a cycle of waits.
Progress ==
    \/ \E s \in Storers : Store(s)
    \/ \E r \in Reviewers : Resolve(r)
    \/ \E c \in Clients : Correct(c)
    \/ \E a \in Actors : Abort(a)

\* A request may come, or never.
Arrive ==
    \/ \E r \in Reviewers, e \in Ids, fixes \in SUBSET Fields : Choose(r, e, fixes)
    \/ \E c \in Clients, fixes \in SUBSET Fields \ {{}} : CorrectOpen(c, fixes)

Next == Progress \/ Arrive

Spec == Init /\ [][Next]_vars

\* A transaction that can go on does, and Postgres notices a deadlock. No actor goes round
\* in a loop, so this is as much as fairness to each of them.
FairSpec == Spec /\ WF_vars(Progress)

--------------------------------------------------------------------------
(* Properties.                                                             *)

\* Every table has its type, and the locks granted at once do not conflict.
TypeOK ==
    /\ status \in {"extracting", "approved", "needs_review"}
    /\ extractions \in [Ids -> Extraction \cup {None}]
    /\ tasks \in [Ids -> {"none", "open", "resolved"}]
    /\ cases \subseteq Ids \X Fields
    /\ \A l, k \in locks : l.row = k.row /\ l.by # k.by => ~Conflict(l.mode, k.mode)

\* A task is resolved once, however many reviewers pick it: human work is not done twice
\* and no verdict is overwritten by another.
ResolvedOnce == \A e \in Ids : verdicts[e] <= 1

\* The baseline counts each stored extraction once: a transaction that a deadlock aborts
\* is not counted, and its redelivery is.
CountedOnce == observed = Cardinality({e \in Ids : extractions[e] # None})

\* Every value a human supplied has its eval case, and there is no case without one,
\* whichever endpoint the value came by and whatever it raced with.
CorrectionsAreLabelled ==
    \A e \in Ids, f \in Fields :
        <<e, f>> \in cases <=> extractions[e] # None /\ extractions[e].cells[f] = "right"

\* What the API serves as the output and what it serves field by field agree, however
\* stores, resolutions and corrections interleave, unless a resolution wrote an output it
\* had read before another correction committed.
AgreeUnlessOverlapped ==
    \A e \in Ids : extractions[e] # None /\ e \notin overlapped =>
        extractions[e].output = extractions[e].cells

\* Every handler that has an extraction to store ends, and so does every request that has
\* begun, though they take the same rows in different orders.
EveryoneFinishes ==
    <>[](/\ \A s \in Storers : at[s] \in {"done", "dead"}
         /\ \A a \in Reviewers \cup Clients : at[a] \in {"choose", "done", "refused", "failed"})

==========================================================================
