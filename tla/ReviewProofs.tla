--------------------------- MODULE ReviewProofs ---------------------------
(***************************************************************************)
(* The review component's safety properties, for any number of handlers,   *)
(* reviewers, clients, fields and redeliveries. What carries them is which *)
(* row lock an actor holds at which statement: two actors between their    *)
(* SELECT FOR UPDATE and their commit never hold the same row, so what     *)
(* each read under its lock is still true when it commits.                 *)
(***************************************************************************)
EXTENDS Review, FiniteSetTheorems, TLAPS

Steps == {"insert", "observe", "route", "commit", "task", "redelivered", "choose", "claim",
          "read", "write", "label", "close", "done", "refused", "failed", "dead"}

Tx == [extraction : Ids \cup {None}, decision : {"approved", "needs_review", None},
       output : [Fields -> Values] \cup {None}, cells : [Fields -> Values] \cup {None},
       fixes : SUBSET Fields, seen : Nat]

\* The types of the tables and of what a transaction holds in memory.
Typed ==
    /\ status \in {"extracting", "approved", "needs_review"}
    /\ extractions \in [Ids -> Extraction \cup {None}]
    /\ tasks \in [Ids -> {"none", "open", "resolved"}]
    /\ cases \subseteq Ids \X Fields
    /\ observed \in Nat
    /\ at \in [Actors -> Steps]
    /\ tx \in [Actors -> Tx]
    /\ verdicts \in [Ids -> Nat]

Compatible == \A l, k \in locks : l.row = k.row /\ l.by # k.by => ~Conflict(l.mode, k.mode)

Holds(a, row) == [row |-> row, by |-> a, mode |-> "update"] \in locks

\* A handler's transaction is open, and has an id for its extraction.
Storing(s) == at[s] \in {"observe", "route", "commit"}

\* A handler's extraction is not there before it commits, and there after; from its
\* reading of the drift row on, nobody else counts a document.
Stores(s) ==
    /\ Storing(s) => /\ tx[s].extraction \in Ids
                     /\ extractions[tx[s].extraction] = None
                     /\ tx[s].decision \in {"approved", "needs_review"}
    /\ at[s] \in {"route", "commit"} => Holds(s, TheDrift) /\ tx[s].seen = observed
    /\ at[s] = "task" => tx[s].extraction \in Ids /\ extractions[tx[s].extraction] # None

\* Two open transactions store different extractions.
OwnIds ==
    \A s, q \in Storers :
        s # q /\ Storing(s) /\ Storing(q) => tx[s].extraction # tx[q].extraction

\* A reviewer's task exists, and stays open from its claim to its commit.
Reviews(r) ==
    /\ at[r] \in {"claim", "read", "write", "label", "close", "commit"} =>
         tx[r].extraction \in Ids /\ tasks[tx[r].extraction] # "none"
    /\ at[r] \in {"read", "write", "label", "close", "commit"} =>
         Holds(r, TheTask(tx[r].extraction)) /\ tasks[tx[r].extraction] = "open"
    /\ at[r] \in {"write", "label", "close", "commit"} => tx[r].output \in [Fields -> Values]

\* A client corrects an extraction that is there.
Corrects(c) ==
    at[c] \in {"write", "label", "commit"} =>
        /\ tx[c].extraction \in Ids /\ extractions[tx[c].extraction] # None
        /\ tx[c].output \in [Fields -> Values]

\* A task belongs to an extraction, and counts its resolution.
TaskOf(e) ==
    /\ tasks[e] # "none" => extractions[e] # None
    /\ verdicts[e] = IF tasks[e] = "resolved" THEN 1 ELSE 0

ActorInv(a) ==
    /\ a \in Storers => Stores(a)
    /\ a \in Reviewers => Reviews(a)
    /\ a \in Clients => Corrects(a)

IInv ==
    /\ Typed /\ Compatible /\ OwnIds
    /\ \A a \in Actors : ActorInv(a)
    /\ \A e \in Ids : TaskOf(e)
    /\ CountedOnce /\ CorrectionsAreLabelled /\ AgreeUnlessOverlapped

--------------------------------------------------------------------------
(* Ids, locks, and the steps of one actor.                                 *)

\* Ids are numbers, and finitely many.
LEMMA IdsAreFinite == Ids \subseteq Nat /\ IsFiniteSet(Ids) /\ None \notin Ids
<1>1. Cardinality(Storers) \in Nat
  BY ReviewAssumption, FS_CardinalityType
<1>2. Cardinality(Storers) * MaxReceive \in Nat
  BY <1>1, ReviewAssumption
<1>3. IsFiniteSet(Ids)
  BY <1>2, FS_Interval DEF Ids
<1> QED BY <1>2, <1>3, NoneAssumption DEF Ids

LEMMA NoTxType == NoTx \in Tx
BY DEF NoTx, Tx

\* A lock that is granted conflicts with none that another actor holds.
LEMMA LockKeeps ==
    ASSUME Compatible, NEW a, NEW row, NEW mode, Lock(a, row, mode)
    PROVE  /\ Compatible'
           /\ locks \subseteq locks'
           /\ [row |-> row, by |-> a, mode |-> mode] \in locks'
<1> DEFINE new == [row |-> row, by |-> a, mode |-> mode]
<1>1. locks' = locks \cup {new} /\ Holders(a, row, mode) = {}
  BY DEF Lock
<1>2. \A l \in locks : l.row = row /\ l.by # a => ~Conflict(l.mode, mode)
  BY <1>1 DEF Holders
<1>3. \A h, w : Conflict(h, w) <=> Conflict(w, h)
  BY DEF Conflict
<1>4. ASSUME NEW l \in locks', NEW k \in locks', l.row = k.row, l.by # k.by
      PROVE  ~Conflict(l.mode, k.mode)
  <2>1. CASE l \in locks /\ k \in locks
    BY <1>4, <2>1 DEF Compatible
  <2>2. CASE l \in locks /\ k = new
    BY <1>2, <1>4, <2>2
  <2>3. CASE l = new /\ k \in locks
    BY <1>2, <1>3, <1>4, <2>3
  <2> QED BY <1>1, <1>4, <2>1, <2>2, <2>3
<1> QED BY <1>1, <1>4 DEF Compatible

LEMMA UnlockKeeps ==
    ASSUME Compatible, NEW a, Unlock(a)
    PROVE  /\ Compatible'
           /\ \A l \in locks : l.by # a => l \in locks'
BY DEF Compatible, Unlock

\* No two actors hold the same row.
LEMMA Exclusive ==
    ASSUME Compatible, NEW a, NEW b, NEW row, Holds(a, row), Holds(b, row)
    PROVE  a = b
BY DEF Compatible, Holds, Conflict

\* A step of one actor that writes no table and gives up no lock of another's.
LEMMA OneMoves ==
    ASSUME IInv, NEW a \in Actors, UNCHANGED <<tables, verdicts, overlapped>>,
           NEW p \in Steps, at' = [at EXCEPT ![a] = p],
           NEW t \in Tx, tx' = [tx EXCEPT ![a] = t],
           Compatible', \A l \in locks : l.by # a => l \in locks',
           ActorInv(a)', OwnIds'
    PROVE  IInv'
<1>1. Typed'
  BY DEF IInv, Typed, tables
<1>2. ASSUME NEW b \in Actors PROVE ActorInv(b)'
  <2>1. CASE b = a
    BY <2>1
  <2>2. CASE b # a
    <3>1. at'[b] = at[b] /\ tx'[b] = tx[b]
      BY <2>2 DEF IInv, Typed
    <3>2. \A row : Holds(b, row) => Holds(b, row)'
      BY <2>2 DEF Holds
    <3>3. UNCHANGED <<extractions, tasks, observed>>
      BY DEF tables
    <3>4. ActorInv(b)
      BY DEF IInv
    <3>5. Stores(b) => Stores(b)'
      BY <3>1, <3>2, <3>3 DEF Stores, Storing, TheDrift
    <3>6. Reviews(b) => Reviews(b)'
      BY <3>1, <3>2, <3>3 DEF Reviews, TheTask
    <3>7. Corrects(b) => Corrects(b)'
      BY <3>1, <3>3 DEF Corrects
    <3> QED BY <3>4, <3>5, <3>6, <3>7 DEF ActorInv
  <2> QED BY <2>1, <2>2
<1>3. \A e \in Ids : TaskOf(e)'
  BY DEF IInv, TaskOf, tables
<1>4. CountedOnce' /\ CorrectionsAreLabelled' /\ AgreeUnlessOverlapped'
  BY DEF IInv, CountedOnce, CorrectionsAreLabelled, AgreeUnlessOverlapped, tables
<1> QED BY <1>1, <1>2, <1>3, <1>4 DEF IInv

\* The open transactions' ids stay apart while no handler begins one.
LEMMA NobodyBegins ==
    ASSUME IInv, NEW a \in Actors, NEW p \in Steps, at' = [at EXCEPT ![a] = p],
           NEW t \in Tx, tx' = [tx EXCEPT ![a] = t],
           p \in {"observe", "route", "commit"} /\ a \in Storers =>
              Storing(a) /\ t.extraction = tx[a].extraction
    PROVE  OwnIds'
<1>1. at \in [Actors -> Steps] /\ tx \in [Actors -> Tx] /\ OwnIds
  BY DEF IInv, Typed
<1>2. \A s \in Storers : Storing(s)' => Storing(s) /\ tx'[s].extraction = tx[s].extraction
  BY <1>1 DEF Storing, Actors
<1> QED BY <1>1, <1>2 DEF OwnIds

\* The same for a step that leaves the transaction's memory alone.
LEMMA OneGoes ==
    ASSUME IInv, NEW a \in Actors, UNCHANGED <<tables, tx, verdicts, overlapped>>,
           NEW p \in Steps, at' = [at EXCEPT ![a] = p],
           p \in {"observe", "route", "commit"} /\ a \in Storers => Storing(a),
           Compatible', \A l \in locks : l.by # a => l \in locks',
           ActorInv(a)'
    PROVE  IInv'
<1> DEFINE t == tx[a]
<1>1. t \in Tx /\ tx' = [tx EXCEPT ![a] = t]
  BY DEF IInv, Typed
<1>2. OwnIds'
  BY <1>1, NobodyBegins
<1> QED BY <1>1, <1>2, OneMoves

\* Where an actor is and what it holds in memory, before and after its step.
LEMMA OfOne ==
    ASSUME IInv, NEW a \in Actors
    PROVE  /\ at[a] \in Steps /\ tx[a] \in Tx /\ ActorInv(a)
           /\ \A p : at' = [at EXCEPT ![a] = p] => at'[a] = p
           /\ \A t : tx' = [tx EXCEPT ![a] = t] => tx'[a] = t
BY DEF IInv, Typed

LEMMA Apart ==
    \A a : /\ a \in Storers => a \notin Reviewers /\ a \notin Clients
           /\ a \in Reviewers => a \notin Clients
BY ReviewAssumption

LEMMA RollbackKeeps ==
    ASSUME IInv, NEW a \in Actors, Rollback(a)
    PROVE  IInv'
<1>1. PICK p \in {"failed", "redelivered", "dead"} : at' = [at EXCEPT ![a] = p]
  BY DEF Rollback, Goto
<1>2. /\ tx' = [tx EXCEPT ![a] = NoTx]
      /\ UNCHANGED <<tables, verdicts, overlapped>>
      /\ Unlock(a)
  BY DEF Rollback, history
<1>3. Compatible' /\ \A l \in locks : l.by # a => l \in locks'
  BY <1>2, UnlockKeeps DEF IInv
<1>4. at'[a] = p
  BY <1>1, OfOne
<1>5. ActorInv(a)'
  BY <1>1, <1>4 DEF ActorInv, Stores, Storing, Reviews, Corrects
<1>6. OwnIds' /\ p \in Steps
  BY <1>1, <1>2, NoTxType, NobodyBegins DEF Steps
<1> QED BY <1>1, <1>2, <1>3, <1>5, <1>6, NoTxType, OneMoves

--------------------------------------------------------------------------
(* A handler's transaction, up to its commit.                              *)

LEMMA GuardKeeps ==
    ASSUME IInv, NEW s \in Storers, Guard(s)
    PROVE  IInv'
<1>1. PICK p \in {"insert", "done"} : at' = [at EXCEPT ![s] = p]
  BY DEF Guard, Goto
<1>2. s \in Actors /\ p \in Steps /\ UNCHANGED <<tables, tx, verdicts, overlapped, locks>>
  BY <1>1 DEF Guard, Actors, Steps
<1>3. ActorInv(s)'
  BY <1>1, <1>2, OfOne, Apart DEF ActorInv, Stores, Storing
<1>4. Compatible'
  BY <1>2 DEF IInv, Compatible
<1> QED BY <1>1, <1>2, <1>3, <1>4, OneGoes

LEMMA StoreInsertKeeps ==
    ASSUME IInv, NEW s \in Storers, NEW e \in Ids, NEW decision \in {"approved", "needs_review"},
           StoreInsert(s, e, decision)
    PROVE  IInv'
<1> DEFINE t == [NoTx EXCEPT !.extraction = e, !.decision = decision]
<1>1. /\ at' = [at EXCEPT ![s] = "observe"]
      /\ tx' = [tx EXCEPT ![s] = t]
      /\ Lock(s, TheDocument, "key")
      /\ UNCHANGED <<tables, verdicts, overlapped>>
  BY DEF StoreInsert, Goto, history
<1>2. s \in Actors /\ t \in Tx /\ t.extraction = e /\ t.decision = decision
  BY DEF NoTx, Tx, Actors
<1> HIDE DEF t
<1>3. e \notin Begun
  <2>1. e \in Nat /\ e # None
    BY IdsAreFinite
  <2>2. \A f \in Begun \ {None} : f < e
    BY DEF StoreInsert
  <2> QED BY <2>1, <2>2
<1>4. extractions[e] = None /\ \A q \in Storers : tx[q].extraction # e
  BY <1>3 DEF Begun
<1>5. ActorInv(s)'
  <2>1. at'[s] = "observe" /\ tx'[s] = t /\ extractions' = extractions
    BY <1>1, <1>2, OfOne DEF tables
  <2> QED BY <1>2, <1>4, <2>1, Apart DEF ActorInv, Stores, Storing
<1>6. OwnIds'
  <2>1. at \in [Actors -> Steps] /\ tx \in [Actors -> Tx] /\ OwnIds /\ Storers \subseteq Actors
    BY DEF IInv, Typed, Actors
  <2>2. \A q \in Storers : q # s => /\ Storing(q)' = Storing(q)
                                    /\ tx'[q] = tx[q]
    BY <1>1, <2>1 DEF Storing
  <2>3. tx'[s].extraction = e
    BY <1>1, <1>2, <2>1
  <2> QED BY <1>4, <2>1, <2>2, <2>3 DEF OwnIds
<1>7. Compatible' /\ \A l \in locks : l.by # s => l \in locks'
  BY <1>1, LockKeeps DEF IInv
<1> QED BY <1>1, <1>2, <1>5, <1>6, <1>7, OneMoves DEF Steps

LEMMA StoreObserveKeeps ==
    ASSUME IInv, NEW s \in Storers, StoreObserve(s)
    PROVE  IInv'
<1> DEFINE t == [tx[s] EXCEPT !.seen = observed]
<1>1. /\ at' = [at EXCEPT ![s] = "route"]
      /\ Lock(s, TheDrift, "update")
      /\ UNCHANGED <<tables, verdicts, overlapped>>
      /\ at[s] = "observe"
      /\ s \in Actors
  BY DEF StoreObserve, Goto, history, Actors
<1>2. /\ tx' = [tx EXCEPT ![s] = t] /\ t \in Tx
      /\ t.extraction = tx[s].extraction /\ t.decision = tx[s].decision /\ t.seen = observed
  BY <1>1, OfOne DEF StoreObserve, IInv, Typed, Tx
<1> HIDE DEF t
<1>3. Compatible' /\ locks \subseteq locks' /\ Holds(s, TheDrift)'
  BY <1>1, LockKeeps DEF IInv, Holds, TheDrift
<1>4. ActorInv(s)'
  <2>1. at'[s] = "route" /\ tx'[s] = t
    BY <1>1, <1>2, OfOne
  <2>2. Stores(s)
    BY <1>1, OfOne DEF ActorInv
  <2>3. extractions' = extractions /\ observed' = observed
    BY <1>1 DEF tables
  <2> QED BY <1>1, <1>2, <1>3, <2>1, <2>2, <2>3, Apart DEF ActorInv, Stores, Storing
<1>5. OwnIds'
  BY <1>1, <1>2, NobodyBegins DEF Storing, Steps
<1> QED BY <1>1, <1>2, <1>3, <1>4, <1>5, OneMoves DEF Steps

LEMMA StoreRouteKeeps ==
    ASSUME IInv, NEW s \in Storers, StoreRoute(s)
    PROVE  IInv'
<1>1. /\ at' = [at EXCEPT ![s] = "commit"]
      /\ Lock(s, TheDocument, "update")
      /\ UNCHANGED <<tables, tx, verdicts, overlapped>>
      /\ at[s] = "route"
      /\ s \in Actors
  BY DEF StoreRoute, Goto, history, Actors
<1>2. Compatible' /\ locks \subseteq locks'
  BY <1>1, LockKeeps DEF IInv
<1>3. ActorInv(s)'
  <2>1. Stores(s) /\ at'[s] = "commit"
    BY <1>1, OfOne DEF ActorInv
  <2>2. Holds(s, TheDrift) => Holds(s, TheDrift)'
    BY <1>2 DEF Holds, TheDrift
  <2>3. extractions' = extractions /\ observed' = observed
    BY <1>1 DEF tables
  <2> QED BY <1>1, <2>1, <2>2, <2>3, Apart DEF ActorInv, Stores, Storing
<1> QED BY <1>1, <1>2, <1>3, OneGoes DEF Steps, Storing

--------------------------------------------------------------------------
(* Reviewers and clients, up to their commits.                             *)

LEMMA ChooseKeeps ==
    ASSUME IInv, NEW r \in Reviewers, NEW e \in Ids, NEW fixes \in SUBSET Fields,
           Choose(r, e, fixes)
    PROVE  IInv'
<1> DEFINE t == [NoTx EXCEPT !.extraction = e, !.fixes = fixes]
<1>1. /\ at' = [at EXCEPT ![r] = "claim"] /\ tx' = [tx EXCEPT ![r] = t]
      /\ UNCHANGED <<tables, locks, verdicts, overlapped>>
      /\ tasks[e] = "open"
      /\ r \in Actors
  BY DEF Choose, Goto, history, Actors
<1>2. t \in Tx /\ t.extraction = e
  BY DEF NoTx, Tx
<1> HIDE DEF t
<1>3. ActorInv(r)'
  <2>1. at'[r] = "claim" /\ tx'[r] = t /\ tasks' = tasks
    BY <1>1, <1>2, OfOne DEF tables
  <2> QED BY <1>1, <1>2, <2>1, Apart DEF ActorInv, Reviews
<1>4. Compatible' /\ OwnIds'
  BY <1>1, <1>2, NobodyBegins DEF IInv, Compatible, Steps
<1> QED BY <1>1, <1>2, <1>3, <1>4, OneMoves DEF Steps

LEMMA ClaimKeeps ==
    ASSUME IInv, NEW r \in Reviewers, Claim(r)
    PROVE  IInv'
<1>1. UNCHANGED <<tables, tx, verdicts, overlapped>> /\ r \in Actors /\ at[r] = "claim"
  BY DEF Claim, history, Actors
<1>2. Reviews(r)
  BY <1>1, OfOne DEF ActorInv
<1>3. CASE at' = [at EXCEPT ![r] = "refused"] /\ locks' = locks
  <2>1. Compatible' /\ at'[r] = "refused"
    BY <1>1, <1>3, OfOne DEF IInv, Compatible
  <2>2. ActorInv(r)'
    BY <1>1, <2>1, Apart DEF ActorInv, Reviews
  <2> QED BY <1>1, <1>3, <2>1, <2>2, OneGoes DEF Steps
<1>4. CASE /\ tasks[tx[r].extraction] = "open"
           /\ Lock(r, TheTask(tx[r].extraction), "update")
           /\ at' = [at EXCEPT ![r] = "read"]
  <2>1. Compatible' /\ locks \subseteq locks' /\ at'[r] = "read"
    BY <1>1, <1>4, LockKeeps, OfOne DEF IInv
  <2>2. Holds(r, TheTask(tx[r].extraction))'
    <3>1. tx' = tx
      BY <1>1
    <3> QED BY <1>4, <3>1, LockKeeps DEF IInv, Holds, TheTask
  <2>3. ActorInv(r)'
    BY <1>1, <1>2, <1>4, <2>1, <2>2, Apart DEF ActorInv, Reviews, tables
  <2> QED BY <1>1, <1>4, <2>1, <2>3, OneGoes DEF Steps
<1> QED BY <1>3, <1>4 DEF Claim, Goto

\* What a reading puts into memory: the extraction as it is.
LEMMA ReadType ==
    ASSUME IInv, NEW e \in Ids, extractions[e] # None, NEW fixes \in SUBSET Fields
    PROVE  [NoTx EXCEPT !.extraction = e, !.fixes = fixes, !.output = extractions[e].output,
                        !.cells = extractions[e].cells] \in Tx
           /\ extractions[e].output \in [Fields -> Values]
<1>1. extractions[e] \in Extraction
  BY DEF IInv, Typed
<1> QED BY <1>1 DEF Extraction, NoTx, Tx

LEMMA ResolveReadKeeps ==
    ASSUME IInv, NEW r \in Reviewers, ResolveRead(r)
    PROVE  IInv'
<1> DEFINE e == tx[r].extraction
           t == [NoTx EXCEPT !.extraction = e, !.fixes = tx[r].fixes,
                             !.output = extractions[e].output, !.cells = extractions[e].cells]
<1>1. PICK p \in {"close", "write"} :
         /\ at' = [at EXCEPT ![r] = p] /\ tx' = [tx EXCEPT ![r] = t]
         /\ UNCHANGED <<tables, verdicts, overlapped, locks>>
         /\ at[r] = "read" /\ r \in Actors
  BY DEF ResolveRead, Read, Goto, history, Actors
<1>2. Reviews(r)
  BY <1>1, OfOne DEF ActorInv
<1>3. e \in Ids /\ tasks[e] = "open" /\ Holds(r, TheTask(e))
  BY <1>1, <1>2 DEF Reviews
<1>4. extractions[e] # None
  BY <1>3 DEF IInv, TaskOf
<1>5. tx[r].fixes \in SUBSET Fields
  BY <1>1, OfOne DEF Tx
<1>6. t \in Tx /\ t.extraction = e /\ t.output \in [Fields -> Values]
  BY <1>3, <1>4, <1>5, ReadType DEF NoTx
<1> HIDE DEF t
<1>7. ActorInv(r)'
  <2>1. at'[r] = p /\ tx'[r] = t /\ tasks' = tasks
    BY <1>1, <1>6, OfOne DEF tables
  <2>2. \A row : Holds(r, row) => Holds(r, row)'
    BY <1>1 DEF Holds
  <2>3. /\ tx'[r].extraction = e /\ tasks'[e] = "open"
        /\ tx'[r].output \in [Fields -> Values]
    BY <1>3, <1>6, <2>1
  <2> HIDE DEF e
  <2>4. Reviews(r)'
    BY <1>3, <2>2, <2>3 DEF Reviews, TheTask
  <2> QED BY <2>4, Apart DEF ActorInv
<1>8. Compatible' /\ OwnIds' /\ p \in Steps
  BY <1>1, <1>6, Apart, NobodyBegins DEF IInv, Compatible, Steps
<1> QED BY <1>1, <1>6, <1>7, <1>8, OneMoves

\* A writer that has its next lock goes on to its next statement.
LEMMA WriterGoes ==
    ASSUME IInv, NEW a \in Reviewers \cup Clients,
           UNCHANGED <<tables, tx, verdicts, overlapped>>,
           NEW p \in {"label", "close", "commit"}, at' = [at EXCEPT ![a] = p],
           at[a] \in {"write", "label", "close"}, at[a] = "close" => a \in Reviewers,
           p = "close" => a \in Reviewers,
           Compatible', locks \subseteq locks'
    PROVE  IInv'
<1>1. a \in Actors /\ a \notin Storers /\ p \in Steps
  BY Apart DEF Actors, Steps
<1>2. at'[a] = p /\ ActorInv(a)
  BY <1>1, OfOne
<1>3. \A row : Holds(a, row) => Holds(a, row)'
  BY DEF Holds
<1>4. ActorInv(a)'
  <2>1. tasks' = tasks /\ extractions' = extractions /\ tx' = tx
    BY DEF tables
  <2>2. CASE a \in Reviewers
    BY <1>1, <1>2, <1>3, <2>1, <2>2, Apart DEF ActorInv, Reviews, TheTask
  <2>3. CASE a \in Clients
    BY <1>1, <1>2, <2>1, <2>3, Apart DEF ActorInv, Corrects
  <2> QED BY <2>2, <2>3
<1> QED BY <1>1, <1>4, OneGoes

LEMMA WriteKeeps ==
    ASSUME IInv, NEW a \in Reviewers \cup Clients, Write(a) \/ Label(a)
    PROVE  IInv'
<1>1. PICK row, mode : Lock(a, row, mode)
  BY DEF Write, Label
<1>2. Compatible' /\ locks \subseteq locks'
  BY <1>1, LockKeeps DEF IInv
<1>3. UNCHANGED <<tables, tx, verdicts, overlapped>> /\ at[a] \in {"write", "label"}
  BY DEF Write, Label, history
<1>4. PICK p \in {"label", "close", "commit"} :
        at' = [at EXCEPT ![a] = p] /\ (p = "close" => a \in Reviewers)
  BY DEF Write, Label, Goto
<1> QED BY <1>2, <1>3, <1>4, WriterGoes

LEMMA CloseKeeps ==
    ASSUME IInv, NEW r \in Reviewers, Close(r)
    PROVE  IInv'
<1>1. Compatible' /\ locks \subseteq locks'
  BY LockKeeps DEF IInv, Close
<1> QED BY <1>1, WriterGoes DEF Close, Goto, history

LEMMA CorrectOpenKeeps ==
    ASSUME IInv, NEW c \in Clients, NEW fixes \in SUBSET Fields, CorrectOpen(c, fixes)
    PROVE  IInv'
<1>1. c \in Actors /\ c \notin Storers /\ c \notin Reviewers
  BY Apart DEF Actors
<1>2. CASE /\ at' = [at EXCEPT ![c] = "done"] \/ at' = [at EXCEPT ![c] = "refused"]
           /\ UNCHANGED <<locks, tx, tables, history>>
  <2>1. PICK p \in {"done", "refused"} : at' = [at EXCEPT ![c] = p]
    BY <1>2
  <2>2. ActorInv(c)' /\ Compatible' /\ p \in Steps
    BY <1>1, <1>2, <2>1, OfOne DEF ActorInv, Corrects, IInv, Compatible, Steps
  <2> QED BY <1>1, <1>2, <2>1, <2>2, OneGoes DEF history
<1>3. ASSUME NEW e \in Ids, Latest(e), NEW wrong \in SUBSET Fields,
             Lock(c, TheDocument, "update"), Read(c, e, wrong, "write")
      PROVE  IInv'
  <2> DEFINE t == [NoTx EXCEPT !.extraction = e, !.fixes = wrong,
                               !.output = extractions[e].output, !.cells = extractions[e].cells]
  <2>1. /\ at' = [at EXCEPT ![c] = "write"] /\ tx' = [tx EXCEPT ![c] = t]
        /\ UNCHANGED <<tables, verdicts, overlapped>>
    BY <1>3 DEF Read, Goto, history
  <2>2. extractions[e] # None
    BY <1>3 DEF Latest
  <2>3. t \in Tx /\ t.extraction = e /\ t.output \in [Fields -> Values]
    BY <1>3, <2>2, ReadType DEF NoTx
  <2> HIDE DEF t
  <2>4. at'[c] = "write" /\ tx'[c] = t /\ extractions' = extractions
    BY <1>1, <2>1, <2>3, OfOne DEF tables
  <2>5. ActorInv(c)'
    BY <1>1, <2>2, <2>3, <2>4 DEF ActorInv, Corrects
  <2>6. Compatible' /\ locks \subseteq locks' /\ OwnIds'
    BY <1>1, <1>3, <2>1, <2>3, LockKeeps, NobodyBegins DEF IInv, Steps
  <2> QED BY <1>1, <2>1, <2>3, <2>5, <2>6, OneMoves DEF Steps
<1>4. CASE \E e \in Ids : /\ Latest(e)
                          /\ Lock(c, TheDocument, "update")
                          /\ Read(c, e, {f \in fixes : extractions[e].cells[f] # "right"}, "write")
  BY <1>3, <1>4
<1> QED BY <1>2, <1>4 DEF CorrectOpen, Goto

--------------------------------------------------------------------------
(* The commits.                                                            *)

\* What a commit must not do to the actors that are not committing.
LEMMA Bystander ==
    ASSUME IInv, NEW a \in Actors, NEW b \in Actors, b # a,
           at'[b] = at[b], tx'[b] = tx[b], \A l \in locks : l.by # a => l \in locks',
           b \in Storers /\ Storing(b) => extractions'[tx[b].extraction] = None,
           b \in Storers /\ at[b] \in {"route", "commit"} => observed' = observed,
           \A e \in Ids : extractions[e] # None => extractions'[e] # None,
           \A e \in Ids : tasks[e] # "none" => tasks'[e] # "none",
           b \in Reviewers /\ at[b] \in {"read", "write", "label", "close", "commit"} =>
               tasks'[tx[b].extraction] = "open"
    PROVE  ActorInv(b)'
<1>1. \A row : Holds(b, row) => Holds(b, row)'
  BY DEF Holds
<1>2. ActorInv(b)
  BY DEF IInv
<1>3. b \in Storers => Stores(b)'
  BY <1>1, <1>2 DEF ActorInv, Stores, Storing, TheDrift
<1>4. b \in Reviewers => Reviews(b)'
  BY <1>1, <1>2 DEF ActorInv, Reviews, TheTask
<1>5. b \in Clients => Corrects(b)'
  BY <1>2 DEF ActorInv, Corrects
<1> QED BY <1>3, <1>4, <1>5 DEF ActorInv

\* One more extraction is one more document counted.
LEMMA OneMore ==
    ASSUME IInv, NEW e \in Ids, extractions[e] = None, NEW row \in Extraction,
           extractions' = [extractions EXCEPT ![e] = row], observed' = observed + 1
    PROVE  CountedOnce'
<1> DEFINE there == {i \in Ids : extractions[i] # None}
<1>1. extractions \in [Ids -> Extraction \cup {None}] /\ observed = Cardinality(there)
  BY DEF IInv, Typed, CountedOnce
<1>2. {i \in Ids : extractions'[i] # None} = there \cup {e} /\ e \notin there
  BY <1>1, NoneAssumption
<1>3. IsFiniteSet(there)
  BY IdsAreFinite, FS_Subset
<1> HIDE DEF there
<1>4. Cardinality(there \cup {e}) = Cardinality(there) + 1
  BY <1>2, <1>3, FS_AddElement
<1> QED BY <1>1, <1>2, <1>4 DEF CountedOnce

LEMMA StoreCommitKeeps ==
    ASSUME IInv, NEW s \in Storers, StoreCommit(s)
    PROVE  IInv'
<1> DEFINE e == tx[s].extraction
           fresh == [f \in Fields |-> "read"]
           row == [output |-> fresh, cells |-> fresh, decision |-> tx[s].decision]
<1>1. /\ at[s] = "commit"
      /\ extractions' = [extractions EXCEPT ![e] = row]
      /\ status' = tx[s].decision /\ observed' = tx[s].seen + 1
      /\ Unlock(s)
      /\ UNCHANGED <<tasks, cases, tx, verdicts, overlapped>>
      /\ s \in Actors
  BY DEF StoreCommit, history, Actors
<1>2. PICK p \in {"task", "done"} : at' = [at EXCEPT ![s] = p]
  BY DEF StoreCommit, Goto
<1>3. Stores(s) /\ Typed /\ Compatible /\ OwnIds
  BY <1>1, OfOne DEF ActorInv, IInv
<1>4. /\ e \in Ids /\ extractions[e] = None
      /\ tx[s].decision \in {"approved", "needs_review"}
      /\ tx[s].seen = observed /\ Holds(s, TheDrift)
  BY <1>1, <1>3 DEF Stores, Storing
<1>5. row \in Extraction /\ row.output = fresh /\ row.cells = fresh
  BY <1>4 DEF Extraction, Values
<1>6. row # None
  BY <1>5, NoneAssumption
<1> HIDE DEF row, e
<1>7. \A i \in Ids : extractions'[i] = IF i = e THEN row ELSE extractions[i]
  BY <1>1, <1>3 DEF Typed
<1>8. Compatible' /\ \A l \in locks : l.by # s => l \in locks'
  BY <1>1, <1>3, UnlockKeeps
<1>9. Typed'
  BY <1>1, <1>2, <1>3, <1>4, <1>5 DEF Typed, Steps
<1>10. OwnIds'
  <2>1. tx[s] \in Tx /\ tx' = [tx EXCEPT ![s] = tx[s]]
    BY <1>1, <1>3 DEF Typed
  <2> QED BY <1>1, <1>2, <2>1, NobodyBegins DEF Steps
<1>11. ASSUME NEW b \in Actors PROVE ActorInv(b)'
  <2>1. CASE b = s
    <3>1. at'[s] = p /\ extractions'[e] = row
      BY <1>1, <1>2, <1>4, <1>7, OfOne
    <3> QED BY <1>1, <1>4, <1>6, <2>1, <3>1, Apart DEF ActorInv, Stores, Storing, e
  <2>2. CASE b # s
    <3>1. at'[b] = at[b] /\ tx'[b] = tx[b] /\ ActorInv(b)
      BY <1>1, <1>2, <1>3, <2>2 DEF Typed, IInv
    <3>2. ASSUME b \in Storers, Storing(b) PROVE extractions'[tx[b].extraction] = None
      <4>1. tx[b].extraction \in Ids /\ extractions[tx[b].extraction] = None
        BY <3>1, <3>2 DEF ActorInv, Stores
      <4>2. tx[b].extraction # e
        BY <1>1, <1>3, <2>2, <3>2 DEF OwnIds, Storing, e
      <4> QED BY <1>7, <4>1, <4>2
    <3>3. ~(b \in Storers /\ at[b] \in {"route", "commit"})
      BY <1>3, <1>4, <2>2, <3>1, Exclusive DEF ActorInv, Stores
    <3>4. b \in Reviewers /\ at[b] \in {"read", "write", "label", "close", "commit"} =>
            tasks'[tx[b].extraction] = "open"
      BY <1>1, <3>1 DEF ActorInv, Reviews
    <3> QED BY <1>1, <1>6, <1>7, <1>8, <2>2, <3>1, <3>2, <3>3, <3>4, Bystander
  <2> QED BY <2>1, <2>2
<1>12. ASSUME NEW i \in Ids PROVE TaskOf(i)'
  BY <1>1, <1>6, <1>7 DEF TaskOf, IInv
<1>13. CountedOnce'
  BY <1>1, <1>4, <1>5, OneMore
<1>14. CorrectionsAreLabelled'
  <2>1. ASSUME NEW i \in Ids, NEW f \in Fields
        PROVE  <<i, f>> \in cases' <=> extractions'[i] # None /\ extractions'[i].cells[f] = "right"
    <3>1. <<i, f>> \in cases <=> extractions[i] # None /\ extractions[i].cells[f] = "right"
      BY DEF IInv, CorrectionsAreLabelled
    <3>2. row.cells[f] # "right"
      BY <1>5
    <3> QED BY <1>1, <1>4, <1>7, <3>1, <3>2
  <2> QED BY <2>1 DEF CorrectionsAreLabelled
<1>15. AgreeUnlessOverlapped'
  BY <1>1, <1>5, <1>7 DEF AgreeUnlessOverlapped, IInv
<1> QED BY <1>8, <1>9, <1>10, <1>11, <1>12, <1>13, <1>14, <1>15 DEF IInv

LEMMA EnsureTaskKeeps ==
    ASSUME IInv, NEW s \in Storers, EnsureTask(s)
    PROVE  IInv'
<1> DEFINE e == tx[s].extraction
<1>1. /\ at[s] = "task" /\ at' = [at EXCEPT ![s] = "done"]
      /\ tasks' = [tasks EXCEPT ![e] = IF @ = "none" THEN "open" ELSE @]
      /\ UNCHANGED <<status, extractions, cases, observed, locks, tx, verdicts, overlapped>>
      /\ s \in Actors
  BY DEF EnsureTask, Goto, history, Actors
<1>2. Typed /\ Compatible /\ Stores(s)
  BY <1>1, OfOne DEF IInv, ActorInv
<1>3. e \in Ids /\ extractions[e] # None
  BY <1>1, <1>2 DEF Stores
<1> HIDE DEF e
<1>4. \A i \in Ids : tasks'[i] = IF i = e /\ tasks[i] = "none" THEN "open" ELSE tasks[i]
  BY <1>1, <1>2 DEF Typed
<1>5. Typed' /\ Compatible'
  BY <1>1, <1>2, <1>3 DEF Typed, Compatible, Steps
<1>6. OwnIds'
  <2>1. tx[s] \in Tx /\ tx' = [tx EXCEPT ![s] = tx[s]]
    BY <1>1, <1>2 DEF Typed
  <2> QED BY <1>1, <2>1, NobodyBegins DEF Steps
<1>7. ASSUME NEW b \in Actors PROVE ActorInv(b)'
  <2>1. CASE b = s
    BY <1>1, <2>1, OfOne, Apart DEF ActorInv, Stores, Storing
  <2>2. CASE b # s
    <3>1. at'[b] = at[b] /\ tx'[b] = tx[b] /\ ActorInv(b)
      BY <1>1, <1>2, <2>2 DEF Typed, IInv
    <3>2. b \in Storers /\ Storing(b) => extractions'[tx[b].extraction] = None
      BY <1>1, <3>1 DEF ActorInv, Stores
    <3>3. b \in Reviewers /\ at[b] \in {"read", "write", "label", "close", "commit"} =>
            tasks'[tx[b].extraction] = "open"
      BY <1>4, <3>1 DEF ActorInv, Reviews
    <3> QED BY <1>1, <1>4, <2>2, <3>1, <3>2, <3>3, Bystander
  <2> QED BY <2>1, <2>2
<1>8. ASSUME NEW i \in Ids PROVE TaskOf(i)'
  BY <1>1, <1>3, <1>4 DEF TaskOf, IInv
<1>9. CountedOnce' /\ CorrectionsAreLabelled' /\ AgreeUnlessOverlapped'
  BY <1>1 DEF IInv, CountedOnce, CorrectionsAreLabelled, AgreeUnlessOverlapped
<1> QED BY <1>5, <1>6, <1>7, <1>8, <1>9 DEF IInv

\* A correction leaves every cell it names labelled, and an output that was written from
\* a current reading equal to the cells.
LEMMA ApplyKeeps ==
    ASSUME IInv, NEW a \in Actors, NEW fixes \in SUBSET Fields, Apply(a, fixes),
           tx[a].extraction \in Ids, extractions[tx[a].extraction] # None,
           tx[a].output \in [Fields -> Values]
    PROVE  /\ extractions' \in [Ids -> Extraction \cup {None}]
           /\ cases' \subseteq Ids \X Fields
           /\ \A i \in Ids : extractions'[i] = None <=> extractions[i] = None
           /\ CorrectionsAreLabelled' /\ AgreeUnlessOverlapped'
<1> DEFINE e == tx[a].extraction
           was == extractions[e]
           output == Fixed(tx[a].output, fixes)
           cells == Fixed(was.cells, fixes)
           row == [was EXCEPT !.output = output, !.cells = cells]
<1>1. extractions \in [Ids -> Extraction \cup {None}] /\ cases \subseteq Ids \X Fields
  BY DEF IInv, Typed
<1>2. e \in Ids /\ was \in Extraction
  BY <1>1
<1>3. /\ output \in [Fields -> Values] /\ cells \in [Fields -> Values]
      /\ \A f \in Fields : cells[f] = IF f \in fixes THEN "right" ELSE was.cells[f]
  BY <1>2 DEF Fixed, Extraction, Values
<1>4. row \in Extraction /\ row.output = output /\ row.cells = cells
  BY <1>2, <1>3 DEF Extraction
<1>5. row # None /\ was # None
  BY <1>2, <1>4, NoneAssumption
<1>6. cases' = cases \cup {<<e, f>> : f \in fixes}
  BY DEF Apply
<1>7. fixes # {} => extractions' = [extractions EXCEPT ![e] = row]
  BY <1>1, <1>2 DEF Apply
<1>8. fixes = {} => extractions' = extractions
  BY DEF Apply
<1>9. overlapped' = IF fixes # {} /\ was.output # tx[a].output THEN overlapped \cup {e} ELSE overlapped
  BY DEF Apply
<1>10. was.output = tx[a].output /\ was.output = was.cells => output = cells
  BY DEF Fixed
<1> HIDE DEF row, was, e, output, cells
<1>11. extractions[e] = was
  BY DEF was, e
<1>12. CASE fixes = {}
  <2>1. extractions' = extractions /\ cases' = cases /\ overlapped' = overlapped
    BY <1>6, <1>8, <1>9, <1>12
  <2> QED BY <1>1, <2>1 DEF IInv, CorrectionsAreLabelled, AgreeUnlessOverlapped
<1>13. CASE fixes # {}
  <2>1. extractions' = [extractions EXCEPT ![e] = row]
    BY <1>7, <1>13
  <2>2. \A i \in Ids : extractions'[i] = IF i = e THEN row ELSE extractions[i]
    BY <1>1, <2>1
  <2>3. extractions' \in [Ids -> Extraction \cup {None}] /\ cases' \subseteq Ids \X Fields
    BY <1>1, <1>2, <1>4, <1>6, <2>1
  <2>4. \A i \in Ids : extractions'[i] = None <=> extractions[i] = None
    BY <1>5, <1>11, <2>2
  <2>5. ASSUME NEW i \in Ids, NEW f \in Fields
        PROVE  <<i, f>> \in cases' <=> extractions'[i] # None /\ extractions'[i].cells[f] = "right"
    <3>1. <<i, f>> \in cases <=> extractions[i] # None /\ extractions[i].cells[f] = "right"
      BY DEF IInv, CorrectionsAreLabelled
    <3>2. <<i, f>> \in cases' <=> <<i, f>> \in cases \/ (i = e /\ f \in fixes)
      BY <1>6
    <3>3. CASE i # e
      BY <2>2, <3>1, <3>2, <3>3
    <3>4. CASE i = e
      BY <1>3, <1>4, <1>5, <1>11, <2>2, <3>1, <3>2, <3>4
    <3> QED BY <3>3, <3>4
  <2>6. ASSUME NEW i \in Ids, extractions'[i] # None, i \notin overlapped'
        PROVE  extractions'[i].output = extractions'[i].cells
    <3>1. i \notin overlapped
      BY <1>9, <2>6
    <3>2. extractions[i] # None => extractions[i].output = extractions[i].cells
      BY <3>1 DEF IInv, AgreeUnlessOverlapped
    <3>3. CASE i # e
      BY <2>2, <2>6, <3>2, <3>3
    <3>4. CASE i = e
      <4>1. was.output = tx[a].output
        BY <1>9, <1>13, <2>6, <3>4
      <4>2. was.output = was.cells
        BY <1>5, <1>11, <3>2, <3>4
      <4> QED BY <1>4, <1>10, <2>2, <3>4, <4>1, <4>2
    <3> QED BY <3>3, <3>4
  <2>7. CorrectionsAreLabelled'
    BY <2>5 DEF CorrectionsAreLabelled
  <2>8. AgreeUnlessOverlapped'
    BY <2>6 DEF AgreeUnlessOverlapped
  <2> QED BY <2>3, <2>4, <2>7, <2>8
<1> QED BY <1>12, <1>13

\* A commit that stores no extraction counts none.
LEMMA NoneMore ==
    ASSUME IInv, \A i \in Ids : extractions'[i] = None <=> extractions[i] = None,
           observed' = observed
    PROVE  CountedOnce'
<1>1. {i \in Ids : extractions'[i] # None} = {i \in Ids : extractions[i] # None}
  OBVIOUS
<1> QED BY <1>1 DEF IInv, CountedOnce

LEMMA CorrectCommitKeeps ==
    ASSUME IInv, NEW c \in Clients, CorrectCommit(c)
    PROVE  IInv'
<1>1. /\ at[c] = "commit" /\ Apply(c, tx[c].fixes) /\ Unlock(c)
      /\ at' = [at EXCEPT ![c] = "done"]
      /\ UNCHANGED <<status, tasks, observed, tx, verdicts>>
      /\ c \in Actors /\ c \notin Storers /\ c \notin Reviewers
  BY Apart DEF CorrectCommit, Goto, Actors
<1>2. Typed /\ Compatible /\ Corrects(c)
  BY <1>1, OfOne DEF IInv, ActorInv
<1>3. tx[c].fixes \in SUBSET Fields
  BY <1>1, <1>2 DEF Typed, Tx
<1>4. /\ extractions' \in [Ids -> Extraction \cup {None}] /\ cases' \subseteq Ids \X Fields
      /\ \A i \in Ids : extractions'[i] = None <=> extractions[i] = None
      /\ CorrectionsAreLabelled' /\ AgreeUnlessOverlapped'
  BY <1>1, <1>2, <1>3, ApplyKeeps DEF Corrects
<1>5. Typed'
  BY <1>1, <1>2, <1>4 DEF Typed, Steps
<1>6. Compatible' /\ \A l \in locks : l.by # c => l \in locks'
  BY <1>1, <1>2, UnlockKeeps
<1>7. OwnIds'
  <2>1. tx[c] \in Tx /\ tx' = [tx EXCEPT ![c] = tx[c]]
    BY <1>1, <1>2 DEF Typed
  <2> QED BY <1>1, <2>1, NobodyBegins DEF Steps
<1>8. ASSUME NEW b \in Actors PROVE ActorInv(b)'
  <2>1. CASE b = c
    BY <1>1, <2>1, OfOne DEF ActorInv, Corrects
  <2>2. CASE b # c
    <3>1. at'[b] = at[b] /\ tx'[b] = tx[b] /\ ActorInv(b)
      BY <1>1, <1>2, <2>2 DEF Typed, IInv
    <3>2. b \in Storers /\ Storing(b) => extractions'[tx[b].extraction] = None
      BY <1>4, <3>1 DEF ActorInv, Stores
    <3>3. b \in Reviewers /\ at[b] \in {"read", "write", "label", "close", "commit"} =>
            tasks'[tx[b].extraction] = "open"
      BY <1>1, <3>1 DEF ActorInv, Reviews
    <3> QED BY <1>1, <1>4, <1>6, <2>2, <3>1, <3>2, <3>3, Bystander
  <2> QED BY <2>1, <2>2
<1>9. ASSUME NEW i \in Ids PROVE TaskOf(i)'
  BY <1>1, <1>4 DEF TaskOf, IInv
<1> QED BY <1>1, <1>4, <1>5, <1>6, <1>7, <1>8, <1>9, NoneMore DEF IInv

LEMMA ResolveCommitKeeps ==
    ASSUME IInv, NEW r \in Reviewers, ResolveCommit(r)
    PROVE  IInv'
<1> DEFINE e == tx[r].extraction
<1>1. /\ at[r] = "commit" /\ Apply(r, tx[r].fixes) /\ Unlock(r)
      /\ at' = [at EXCEPT ![r] = "done"] /\ status' = "approved"
      /\ tasks' = [tasks EXCEPT ![e] = "resolved"]
      /\ verdicts' = [verdicts EXCEPT ![e] = @ + 1]
      /\ UNCHANGED <<observed, tx>>
      /\ r \in Actors /\ r \notin Storers /\ r \notin Clients
  BY Apart DEF ResolveCommit, Goto, Actors
<1>2. Typed /\ Compatible /\ Reviews(r)
  BY <1>1, OfOne DEF IInv, ActorInv
<1>3. tx[r].fixes \in SUBSET Fields
  BY <1>1, <1>2 DEF Typed, Tx
<1>4. /\ e \in Ids /\ tasks[e] = "open" /\ Holds(r, TheTask(e))
      /\ tx[r].output \in [Fields -> Values]
  BY <1>1, <1>2 DEF Reviews
<1>5. extractions[e] # None /\ verdicts[e] = 0
  BY <1>4 DEF IInv, TaskOf
<1>6. /\ extractions' \in [Ids -> Extraction \cup {None}] /\ cases' \subseteq Ids \X Fields
      /\ \A i \in Ids : extractions'[i] = None <=> extractions[i] = None
      /\ CorrectionsAreLabelled' /\ AgreeUnlessOverlapped'
  BY <1>1, <1>3, <1>4, <1>5, ApplyKeeps
<1> HIDE DEF e
<1>7. \A i \in Ids : /\ tasks'[i] = IF i = e THEN "resolved" ELSE tasks[i]
                     /\ verdicts'[i] = IF i = e THEN verdicts[i] + 1 ELSE verdicts[i]
  BY <1>1, <1>2 DEF Typed
<1>8. Typed'
  <2>1. verdicts' \in [Ids -> Nat] /\ tasks' \in [Ids -> {"none", "open", "resolved"}]
    BY <1>1, <1>2, <1>4 DEF Typed
  <2>2. at' \in [Actors -> Steps]
    BY <1>1, <1>2 DEF Typed, Steps
  <2> QED BY <1>1, <1>2, <1>6, <2>1, <2>2 DEF Typed
<1>9. Compatible' /\ \A l \in locks : l.by # r => l \in locks'
  BY <1>1, <1>2, UnlockKeeps
<1>10. OwnIds'
  <2>1. tx[r] \in Tx /\ tx' = [tx EXCEPT ![r] = tx[r]]
    BY <1>1, <1>2 DEF Typed
  <2> QED BY <1>1, <2>1, NobodyBegins DEF Steps
<1>11. ASSUME NEW b \in Actors PROVE ActorInv(b)'
  <2>1. CASE b = r
    BY <1>1, <2>1, OfOne DEF ActorInv, Reviews
  <2>2. CASE b # r
    <3>1. at'[b] = at[b] /\ tx'[b] = tx[b] /\ ActorInv(b)
      BY <1>1, <1>2, <2>2 DEF Typed, IInv
    <3>2. b \in Storers /\ Storing(b) => extractions'[tx[b].extraction] = None
      BY <1>6, <3>1 DEF ActorInv, Stores
    <3>3. ASSUME b \in Reviewers, at[b] \in {"read", "write", "label", "close", "commit"}
          PROVE  tasks'[tx[b].extraction] = "open"
      <4>1. /\ tx[b].extraction \in Ids /\ tasks[tx[b].extraction] = "open"
            /\ Holds(b, TheTask(tx[b].extraction))
        BY <3>1, <3>3 DEF ActorInv, Reviews
      <4>2. tx[b].extraction # e
        BY <1>2, <1>4, <2>2, <4>1, Exclusive
      <4> QED BY <1>7, <4>1, <4>2
    <3>4. \A i \in Ids : tasks[i] # "none" => tasks'[i] # "none"
      BY <1>7
    <3> QED BY <1>1, <1>6, <1>9, <2>2, <3>1, <3>2, <3>3, <3>4, Bystander
  <2> QED BY <2>1, <2>2
<1>12. ASSUME NEW i \in Ids PROVE TaskOf(i)'
  BY <1>4, <1>5, <1>6, <1>7 DEF TaskOf, IInv
<1> QED BY <1>1, <1>6, <1>8, <1>9, <1>10, <1>11, <1>12, NoneMore DEF IInv

--------------------------------------------------------------------------
(* The invariant, and what follows from it.                                *)

LEMMA InitIInv == Init => IInv
<1> SUFFICES ASSUME Init PROVE IInv
  OBVIOUS
<1>1. Typed
  <2>1. at \in [Actors -> Steps]
    BY DEF Init, Start, Steps
  <2> QED BY <2>1, NoTxType DEF Init, Typed
<1>2. Compatible /\ OwnIds
  BY DEF Init, Compatible, OwnIds, Storing, Start, Actors
<1>3. ASSUME NEW a \in Actors PROVE ActorInv(a)
  <2>1. at[a] \in {"insert", "choose"}
    BY DEF Init, Start
  <2> QED BY <2>1 DEF ActorInv, Stores, Storing, Reviews, Corrects
<1>4. \A e \in Ids : TaskOf(e)
  BY DEF Init, TaskOf
<1>5. CountedOnce
  <2>1. {e \in Ids : extractions[e] # None} = {}
    BY DEF Init
  <2> QED BY <2>1, FS_EmptySet DEF Init, CountedOnce
<1>6. CorrectionsAreLabelled /\ AgreeUnlessOverlapped
  BY DEF Init, CorrectionsAreLabelled, AgreeUnlessOverlapped
<1> QED BY <1>1, <1>2, <1>3, <1>4, <1>5, <1>6 DEF IInv

LEMMA NextIInv == IInv /\ [Next]_vars => IInv'
<1> SUFFICES ASSUME IInv, [Next]_vars PROVE IInv'
  OBVIOUS
<1>1. ASSUME NEW s \in Storers, Store(s) PROVE IInv'
  BY <1>1, GuardKeeps, StoreInsertKeeps, StoreObserveKeeps, StoreRouteKeeps,
     StoreCommitKeeps, EnsureTaskKeeps DEF Store
<1>2. ASSUME NEW r \in Reviewers, Resolve(r) PROVE IInv'
  BY <1>2, ClaimKeeps, ResolveReadKeeps, WriteKeeps, CloseKeeps, ResolveCommitKeeps DEF Resolve
<1>3. ASSUME NEW c \in Clients, Correct(c) PROVE IInv'
  BY <1>3, WriteKeeps, CorrectCommitKeeps DEF Correct
<1>4. ASSUME NEW a \in Actors, Abort(a) PROVE IInv'
  BY <1>4, RollbackKeeps DEF Abort
<1>5. CASE Arrive
  BY <1>5, ChooseKeeps, CorrectOpenKeeps DEF Arrive
<1>6. CASE UNCHANGED vars
  <2>1. UNCHANGED <<tables, locks, at, tx, verdicts, overlapped>>
    BY <1>6 DEF vars, history
  <2>2. UNCHANGED <<status, extractions, tasks, cases, observed>>
    BY <2>1 DEF tables
  <2>3. Typed' /\ Compatible' /\ OwnIds'
    BY <2>1, <2>2 DEF IInv, Typed, Compatible, OwnIds, Storing
  <2>4. \A a \in Actors : ActorInv(a)'
    BY <2>1, <2>2 DEF IInv, ActorInv, Stores, Storing, Reviews, Corrects, Holds
  <2>5. \A e \in Ids : TaskOf(e)'
    BY <2>1, <2>2 DEF IInv, TaskOf
  <2>6. CountedOnce' /\ CorrectionsAreLabelled' /\ AgreeUnlessOverlapped'
    BY <2>1, <2>2 DEF IInv, CountedOnce, CorrectionsAreLabelled, AgreeUnlessOverlapped
  <2> QED BY <2>3, <2>4, <2>5, <2>6 DEF IInv
<1> QED BY <1>1, <1>2, <1>3, <1>4, <1>5, <1>6 DEF Next, Progress

LEMMA Invariance == Spec => []IInv
BY InitIInv, NextIInv, PTL DEF Spec

\* The tables keep their types, and no two transactions are ever granted locks that
\* conflict, whatever statements interleave and whichever transactions are aborted.
THEOREM ReviewTyping == Spec => []TypeOK
<1>1. IInv => TypeOK
  BY DEF IInv, Typed, Compatible, TypeOK
<1> QED BY <1>1, Invariance, PTL

\* However many reviewers pick a task (resolve_task), one resolution of it commits.
THEOREM TasksResolveOnce == Spec => []ResolvedOnce
<1>1. IInv => ResolvedOnce
  BY DEF IInv, TaskOf, ResolvedOnce
<1> QED BY <1>1, Invariance, PTL

\* The drift baseline counts the extractions that are stored (observe within the
\* transaction of _store_extraction), for any number of handlers, aborts and redeliveries.
THEOREM StoredIsCounted == Spec => []CountedOnce
<1>1. IInv => CountedOnce
  BY DEF IInv
<1> QED BY <1>1, Invariance, PTL

\* Every corrected field has its eval case and every eval case its corrected field.
THEOREM CorrectedIsLabelled == Spec => []CorrectionsAreLabelled
<1>1. IInv => CorrectionsAreLabelled
  BY DEF IInv
<1> QED BY <1>1, Invariance, PTL

\* The output and the fields' rows disagree only where an extraction was written from a
\* reading that another correction had overtaken.
THEOREM OutputIsTheFields == Spec => []AgreeUnlessOverlapped
<1>1. IInv => AgreeUnlessOverlapped
  BY DEF IInv
<1> QED BY <1>1, Invariance, PTL

==========================================================================
