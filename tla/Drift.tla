------------------------------ MODULE Drift ------------------------------
(***************************************************************************)
(* Workers fold documents of one tenant and type into its drift row, each  *)
(* inside the transaction that stores the document's extraction. The row   *)
(* is read FOR UPDATE, so observations queue up; the first documents find  *)
(* no row to lock and race to insert it, and the unique key lets one win.  *)
(* The error of the others is swallowed, but not the state it leaves their *)
(* session in: the extraction is not stored and its message comes back.    *)
(***************************************************************************)
EXTENDS DriftStat, Sequences, FiniteSetsExt

CONSTANTS
    Workers,      \* extract handlers
    Shapes,       \* what a document can look like: its value on each signal
    MaxDocuments, \* bound: documents
    MaxMishaps    \* bound: deployments that change profile_dim, and transactions lost
                  \* with their worker or as the victim of a deadlock

ASSUME ShapesAssumption ==
    /\ Shapes \subseteq [Signals -> Value]
    /\ None \notin Workers

VARIABLES
    row,      \* the drift_stats row, or None
    dim,      \* which profile_dim the workers run with: the first, the second, ...
    arrived,  \* how many documents have come
    waiting,  \* messages to be delivered again
    at,       \* per worker: where its transaction is
    tx,       \* per worker: the message it handles and the row it read
    holder,   \* who holds the row's lock, or has inserted the row
    stored,   \* the documents stored, in commit order, with the profile_dim each was read at
              \* and the values taken from it
    announced,\* history: how often "drift detected" was logged
    crashes    \* history: the transactions lost

vars == <<row, dim, arrived, waiting, at, tx, holder, stored, announced, crashes>>

Documents == 1..MaxDocuments
Mishaps == dim - 1 + crashes
Idle == [message |-> None, row |-> None]

Init ==
    /\ row = None /\ dim = 1 /\ arrived = 0 /\ waiting = {}
    /\ at = [w \in Workers |-> "idle"] /\ tx = [w \in Workers |-> Idle] /\ holder = None
    /\ stored = << >> /\ announced = 0 /\ crashes = 0

\* drift.json is cached in each process: a new profile_dim comes with a deployment.
Deploy ==
    /\ Mishaps < MaxMishaps
    /\ \A w \in Workers : at[w] = "idle"
    /\ dim' = dim + 1
    /\ UNCHANGED <<row, arrived, waiting, at, tx, holder, stored, announced, crashes>>

Goto(w, p) == at' = [at EXCEPT ![w] = p]

\* Mutant: the row is read without FOR UPDATE.
X_ReadRow(w, m) ==
    /\ tx' = [tx EXCEPT ![w] = [message |-> m, row |-> row]]
    /\ Goto(w, IF row = None THEN "first" ELSE "fold")
    /\ UNCHANGED holder

\* Mutant: the SELECT looks for another window_key than the INSERT writes.
X_ReadRowElsewhere(w, m) ==
    /\ tx' = [tx EXCEPT ![w] = [message |-> m, row |-> None]]
    /\ Goto(w, "first")
    /\ UNCHANGED holder

\* SELECT ... FOR UPDATE: a committed row is waited for; one not committed is not seen.
ReadRow(w, m) ==
    /\ tx' = [tx EXCEPT ![w] = [message |-> m, row |-> row]]
    /\ \/ row = None /\ Goto(w, "first") /\ UNCHANGED holder
       \/ row # None /\ holder = None /\ holder' = w /\ Goto(w, "fold")

\* The first delivery of a document reaches the row.
Arrive(w, doc) ==
    /\ at[w] = "idle" /\ arrived < MaxDocuments
    /\ arrived' = arrived + 1
    /\ ReadRow(w, [id |-> arrived + 1, doc |-> doc, receives |-> 1])
    /\ UNCHANGED <<row, dim, waiting, stored, announced, crashes>>

Redeliver(w, m) ==
    /\ at[w] = "idle" /\ m \in waiting
    /\ waiting' = waiting \ {m}
    /\ ReadRow(w, [m EXCEPT !.receives = @ + 1])
    /\ UNCHANGED <<row, dim, arrived, stored, announced, crashes>>

\* The flush of the INSERT: it waits for another insert of the key to end.
InsertRow(w) ==
    /\ at[w] = "first"
    /\ holder = None /\ row = None
    /\ holder' = w /\ tx' = [tx EXCEPT ![w].row = NewRow]
    /\ Goto(w, "fold")
    /\ UNCHANGED <<row, dim, arrived, waiting, stored, announced, crashes>>

\* The transaction is gone, its lock with it, and the message will be delivered again.
Rollback(w) ==
    /\ holder' = IF holder = w THEN None ELSE holder
    /\ waiting' = waiting \cup {tx[w].message}
    /\ tx' = [tx EXCEPT ![w] = Idle]
    /\ Goto(w, "idle")
    /\ UNCHANGED <<row, dim, arrived, stored, announced>>

\* The unique key is taken: IntegrityError, swallowed, and the session's next use raises.
InsertFails(w) ==
    /\ at[w] = "first" /\ row # None /\ holder = None
    /\ Rollback(w)
    /\ UNCHANGED crashes

\* The worker dies, or the database aborts its transaction: the document's row is locked
\* after the drift row.
Crash(w) ==
    /\ Mishaps < MaxMishaps /\ at[w] # "idle"
    /\ crashes' = crashes + 1
    /\ Rollback(w)

\* The row as the session of w has it once its document is folded in.
Folded(w) == Observe(tx[w].row, tx[w].message.doc, tx[w].message.id, dim)
Announces(w) == NewlyFlagged(tx[w].row, Folded(w))

\* The document is observed and new drift is logged, in a transaction still open.
Fold(w) ==
    /\ at[w] = "fold"
    /\ announced' = IF Announces(w) THEN announced + 1 ELSE announced
    /\ Goto(w, "commit")
    /\ UNCHANGED <<row, dim, arrived, waiting, tx, holder, stored, crashes>>

\* The observation commits with the extraction it describes.
Commit(w) ==
    /\ at[w] = "commit"
    /\ row' = Folded(w)
    /\ LET m == tx[w].message
       IN  stored' = Append(stored, [id |-> m.id, doc |-> m.doc, dim |-> dim,
                                     values |-> SignalValues(tx[w].row, m.doc, dim)])
    /\ holder' = IF holder = w THEN None ELSE holder
    /\ tx' = [tx EXCEPT ![w] = Idle]
    /\ Goto(w, "idle")
    /\ UNCHANGED <<dim, arrived, waiting, announced, crashes>>

Work(w) ==
    InsertRow(w) \/ InsertFails(w) \/ Fold(w) \/ Commit(w) \/ \E m \in waiting : Redeliver(w, m)

Next ==
    \/ Deploy
    \/ \E w \in Workers : Work(w) \/ Crash(w) \/ \E doc \in Shapes : Arrive(w, doc)

Spec == Init /\ [][Next]_vars

--------------------------------------------------------------------------
(* What the row should say of the documents stored, in one pass over them. *)

Column(s) == [i \in DOMAIN stored |-> stored[i].values[s]]
Carriers(s) == {i \in DOMAIN stored : stored[i].values[s] # None}
Baseline(s) == {i \in Carriers(s) : i <= BaselineN}
Total(f, docs) == MapThenSumSet(LAMBDA i : f[i], docs)

\* The mean and the deviations of the signal, each document against the mean of all.
TwoPass(s, stat) ==
    LET sum == Total(Column(s), Baseline(s))
        offsquare == [i \in Baseline(s) |->
                        (stat.n * stored[i].values[s] - sum) * (stat.n * stored[i].values[s] - sum)]
    IN  /\ stat.n = Cardinality(Baseline(s)) /\ stat.sum = sum
        /\ stat.n * stat.spread = Total(offsquare, Baseline(s))

Breached(s, i) == Breaches(s, row.stats[s], stored[i].values[s])

\* The documents that breached the signal one after the other, as of the i-th stored.
Run(s, i) ==
    LET judged == {j \in Carriers(s) : BaselineN < j /\ j <= i}
    IN  {j \in judged : \A k \in judged : j <= k => Breached(s, k)}

\* As of the i-th document, K in a row of those that carry some signal have breached it.
Drifted(i) ==
    \E s \in Signals : Cardinality(Baseline(s)) >= 2 /\ Cardinality(Run(s, i)) >= K

--------------------------------------------------------------------------
(* Properties.                                                             *)

\* What the i-th document stored says of a signal: its text says nothing unless it was read
\* at the size of the last document before it that went into the centroid.
Reference(i) == IF i - 1 <= BaselineN THEN i - 1 ELSE BaselineN
Measured(i, s) ==
    IF s = "text_distance" /\ (i = 1 \/ stored[Reference(i)].dim # stored[i].dim)
      THEN None ELSE stored[i].doc[s]

\* However the observations interleaved, the baseline is the one a pass over the first
\* BaselineN stored documents gives: each counted once and none that was rolled back, and a
\* text that cannot be compared, after a change of profile_dim, counted for nothing.
BaselineIsTheFirstDocuments ==
    /\ row = None <=> stored = << >>
    /\ \A i \in DOMAIN stored : \A s \in Signals : stored[i].values[s] = Measured(i, s)
    /\ row # None =>
        /\ row.n_observed = Len(stored)
        /\ \A s \in Signals : TwoPass(s, row.stats[s])

\* The row says "drifting" exactly when K documents in a row, of those that carry it,
\* breached one signal: not for odd documents apart, not in the baseline, and for good.
DriftIsARun ==
    row # None => (row.status = "drifting" <=> \E i \in DOMAIN stored : Drifted(i))

\* The document on record is the one that completed the first run. Drift that is on record
\* was logged, and logged once, save that a transaction lost after it logged takes the
\* observation back and not the line: each line too many is one of a lost transaction.
FlagNamesTheFirst ==
    LET drifted == \E i \in DOMAIN stored : Drifted(i)
        open == \E w \in Workers : at[w] = "commit"
    IN  /\ drifted => announced >= 1
        /\ announced <= crashes + (IF drifted \/ open THEN 1 ELSE 0)
        /\ row # None =>
             /\ ~drifted => row.flagged_document = None
             /\ \A i \in DOMAIN stored :
                   Drifted(i) /\ (\A j \in 1..(i - 1) : ~Drifted(j)) =>
                       row.flagged_document = stored[i].id

\* Monitoring costs a document one delivery at most, that of the first row's race, and
\* not its place: short of crashes, a second delivery is stored.
RaceCostsOneDelivery == \A m \in waiting : m.receives <= 1 + crashes

==========================================================================
