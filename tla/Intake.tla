----------------------------- MODULE Intake ------------------------------
(***************************************************************************)
(* The two ways a document gets in: an upload to the API, and a file       *)
(* dropped into a tenant's storage prefix, whose storage event the worker  *)
(* turns into the same row. Both read, then insert under the unique        *)
(* (tenant, sha256) constraint, then send the parse message; requests,     *)
(* storage, worker threads and the API's sweep interleave between any two  *)
(* of those. A file is identified with its SHA-256.                        *)
(***************************************************************************)
EXTENDS RateLimit, Sequences, FiniteSets

CONSTANTS
    Requests,    \* HTTP requests, each made once
    ApiKeys,     \* rows of api_keys: [tenant, revoked]
    NoKey,       \* a request without a key anyone issued
    Threads,     \* the workers' consumer threads on the ingest queue
    Files,       \* what a file may contain
    Pdfs,        \* the files that begin with %PDF-
    Slugs,       \* available_slugs: document types with a pipeline
    Folders,     \* what may stand for a document type in a request or a dropped key
    MinIO,       \* the object store is MinIO, which writes "s3:" before an event's name
    MaxPuts,     \* bound on the objects customers drop
    MaxNotices,  \* bound on the storage events published
    MaxReceive,  \* the ingest queue's maxReceiveCount
    Failures,    \* a call may raise, or its process die, after a step
    None         \* no value

ASSUME IntakeAssumption ==
    /\ Pdfs \subseteq Files /\ "invoice" \in Slugs
    /\ ApiKeys \subseteq [tenant : Tenants, revoked : BOOLEAN] /\ NoKey \notin ApiKeys
    /\ MaxPuts \in Nat /\ MaxNotices \in Nat /\ MaxReceive \in Nat \ {0}
    /\ MinIO \in BOOLEAN

VARIABLES
    objects,    \* the bucket: the file under each key
    unsent,     \* records of created objects the store has not published yet
    notices,    \* storage events on the ingest queue
    documents,  \* the documents table
    parseQueue, \* parse messages; a duplicate of one is the same message
    request,    \* per request: where upload_document is, and what it was given
    thread,     \* per thread: where ingest_object is, and what it holds
    submitted,  \* history: what was handed in, as [tenant, file, doc_type]
    dropped     \* history: the keys dropped

storeVars == <<objects, unsent, notices>>
tableVars == <<documents, parseQueue>>
history   == <<submitted, dropped>>
vars == <<rateVars, storeVars, tableVars, request, thread, history>>

Ids == 1..Cardinality(Tenants \X Files)

\* Keys: {tenant}/incoming/{sha}.pdf, {tenant}/dropbox/[{doc_type}/]{filename}.
Key == [tenant : Tenants, area : {"incoming"}, name : Files]
         \cup [tenant : Tenants, area : {"dropbox"}, name : Folders]

Ref == [created : BOOLEAN, minio : BOOLEAN, key : Key]
Row == [tenant : Tenants, s3_key : Key, sha256 : Files, doc_type : Slugs,
        status : {"received", "failed"}]
Message == [document : Ids, tenant : Tenants]
Notice == [records : Seq(Ref), receives : Nat, visible : BOOLEAN]
ASSUME NoneAssumption == None \notin Files \cup Nat /\ None \notin Row /\ None \notin Notice

NoRequest == [at |-> "idle", tenant |-> None, file |-> None, doc_type |-> None,
              now |-> 0, id |-> None]
NoJob == [at |-> "idle", notice |-> None, todo |-> <<>>, sha256 |-> None, id |-> None]

Init ==
    /\ RateInit
    /\ objects = [k \in Key |-> None]
    /\ unsent = <<>>
    /\ notices = [n \in 1..MaxNotices |-> None]
    /\ documents = [i \in Ids |-> None]
    /\ parseQueue = {}
    /\ request = [r \in Requests |-> NoRequest]
    /\ thread = [w \in Threads |-> NoJob]
    /\ submitted = {} /\ dropped = <<>>

--------------------------------------------------------------------------
(* The documents table, as a session bound to a tenant sees it.            *)

\* Row level security: the rows of the bound tenant.
Visible(t) == {i \in Ids : documents[i] # None /\ documents[i].tenant = t}

\* select(Document).where(sha256 = ...), in a session bound to t.
Existing(t, file) == {i \in Visible(t) : documents[i].sha256 = file}

\* uq_documents_tenant_sha256, whoever looks.
Taken(t, file) ==
    \E i \in Ids : documents[i] # None /\ documents[i].tenant = t /\ documents[i].sha256 = file

\* A new row under a fresh id; ids are handed out in order, which keeps TLC's states few.
Insert(i, t, key, file, doc_type, status) ==
    /\ \A j \in Ids : documents[j] = None <=> j >= i
    /\ documents' = [documents EXCEPT ![i] =
                       [tenant |-> t, s3_key |-> key, sha256 |-> file,
                        doc_type |-> doc_type, status |-> status]]

--------------------------------------------------------------------------
(* POST /documents.                                                        *)

To(r, p) == request' = [request EXCEPT ![r].at = p, ![r].now = 0]
Reply(r, code, i) == request' = [request EXCEPT ![r].at = code, ![r].id = i]
\* 400, 401, 429 or 500: no document is named.
Deny(r) == request' = [request EXCEPT ![r] = [NoRequest EXCEPT !.at = "denied"]]

\* bind_tenant: a key nobody issued and a revoked one are refused alike.
Resolves(key) == key # NoKey /\ ~key.revoked

Unauthorized(r, key) ==
    /\ request[r].at = "idle"
    /\ ~Resolves(key)
    /\ Deny(r)
    /\ UNCHANGED <<rateVars, storeVars, tableVars, thread, history>>

\* An unknown document type is refused before the bucket is asked.
Accept(r, key, file, doc_type) ==
    /\ request[r].at = "idle"
    /\ Resolves(key)
    /\ IF doc_type \notin Slugs THEN Deny(r)
       ELSE request' = [request EXCEPT ![r] =
              [at |-> "rate", tenant |-> key.tenant, file |-> file, doc_type |-> doc_type,
               now |-> clock, id |-> None]]
    /\ UNCHANGED <<rateVars, storeVars, tableVars, thread, history>>

\* check_rate_limit, then what the body holds: a token buys the look at it.
CheckRate(r) ==
    /\ request[r].at = "rate"
    /\ LET t == request[r].tenant now == request[r].now
       IN  \/ /\ Spend(t, now)
              /\ IF request[r].file \in Pdfs THEN To(r, "select") ELSE Deny(r)
           \/ Refuse(t, now) /\ Deny(r)
    /\ UNCHANGED <<storeVars, tableVars, thread, history>>

UploadSelect(r) ==
    /\ request[r].at = "select"
    /\ LET found == Existing(request[r].tenant, request[r].file)
       IN  \/ found = {} /\ To(r, "put")
           \/ \E i \in found : Reply(r, "200", i)
    /\ UNCHANGED <<rateVars, storeVars, tableVars, thread, history>>

UploadKey(r) == [tenant |-> request[r].tenant, area |-> "incoming", name |-> request[r].file]

\* put_object; the store notices it like any other object.
Put(key, file) ==
    /\ objects' = [objects EXCEPT ![key] = file]
    /\ unsent' = Append(unsent, [created |-> TRUE, minio |-> MinIO, key |-> key])

UploadPut(r) ==
    /\ request[r].at = "put"
    /\ Put(UploadKey(r), request[r].file)
    /\ submitted' = submitted \cup {[tenant |-> request[r].tenant, file |-> request[r].file,
                                     doc_type |-> request[r].doc_type]}
    /\ To(r, "insert")
    /\ UNCHANGED <<rateVars, notices, tableVars, thread, dropped>>

\* Mutant: an insert the constraint refuses is answered as if it had been made.
X_UploadInsert(r) ==
    /\ request[r].at = "insert"
    /\ LET t == request[r].tenant file == request[r].file
       IN  \E i \in Ids :
             /\ Insert(i, t, UploadKey(r), file, request[r].doc_type, "received")
             /\ Reply(r, "send", i)
    /\ UNCHANGED <<rateVars, storeVars, parseQueue, thread, history>>

\* The insert, or IntegrityError and the row that won.
UploadInsert(r) ==
    /\ request[r].at = "insert"
    /\ LET t == request[r].tenant file == request[r].file
       IN  \/ /\ ~Taken(t, file)
              /\ \E i \in Ids :
                   /\ Insert(i, t, UploadKey(r), file, request[r].doc_type, "received")
                   /\ Reply(r, "send", i)
           \/ /\ Taken(t, file)
              /\ \E i \in Existing(t, file) : Reply(r, "200", i)
              /\ UNCHANGED documents
    /\ UNCHANGED <<rateVars, storeVars, parseQueue, thread, history>>

UploadSend(r) ==
    /\ request[r].at = "send"
    /\ parseQueue' = parseQueue \cup {[document |-> request[r].id, tenant |-> request[r].tenant]}
    /\ To(r, "202")
    /\ UNCHANGED <<rateVars, storeVars, documents, thread, history>>

\* A call of the request raises or the API dies: what it put and committed stays.
UploadFails(r) ==
    /\ Failures
    /\ request[r].at \in {"insert", "send"}
    /\ Deny(r)
    /\ UNCHANGED <<rateVars, storeVars, tableVars, thread, history>>

--------------------------------------------------------------------------
(* Storage: customers drop files, and the store publishes what it saw.     *)

Drop(key, file) ==
    /\ Len(dropped) < MaxPuts
    /\ key.area = "dropbox"
    /\ Put(key, file)
    /\ dropped' = Append(dropped, key)
    /\ submitted' = submitted \cup
         {[tenant |-> key.tenant, file |-> file,
           doc_type |-> IF key.name \in Slugs THEN key.name ELSE "invoice"]}
    /\ UNCHANGED <<rateVars, notices, tableVars, request, thread>>

\* S3 to the queue, or MinIO to the API's bridge and from there: one event holds one
\* record or several, and may be published again.
Publish(n) ==
    /\ notices[n] = None
    /\ unsent # <<>>
    /\ notices' = [notices EXCEPT ![n] = [records |-> unsent, receives |-> 0, visible |-> TRUE]]
    /\ unsent' \in {unsent, <<>>}
    /\ UNCHANGED <<rateVars, objects, tableVars, request, thread, history>>

--------------------------------------------------------------------------
(* handle_ingest: the records of one event, one after the other.           *)

\* Mutant: only MinIO's form of the event name is recognised.
X_Wanted(record) == record.created /\ record.minio

\* parse_s3_events: the record says ObjectCreated, with or without MinIO's "s3:".
Wanted(record) == record.created

\* Mutant: any key of the bucket is taken for a drop.
X_Ours(key) == TRUE

\* route_key: the part after the tenant is the ingest prefix.
Ours(key) == key.area = "dropbox"

RouteType(key) == IF key.name \in Slugs THEN key.name ELSE "invoice"

Step(w, p) == thread' = [thread EXCEPT ![w].at = p]
Target(w) == Head(thread[w].todo).key

Receive(w, n) ==
    /\ thread[w].at = "idle"
    /\ notices[n] # None
    /\ notices[n].visible /\ notices[n].receives < MaxReceive
    /\ notices' = [notices EXCEPT ![n].visible = FALSE, ![n].receives = @ + 1]
    /\ thread' = [thread EXCEPT ![w].at = "route", ![w].notice = n,
                    ![w].todo = notices[n].records]
    /\ UNCHANGED <<rateVars, objects, unsent, tableVars, request, history>>

\* The record is done with: a key that is not ours, a duplicate, or a new document.
NextRecord(w) ==
    thread' = [thread EXCEPT ![w].at = "route", ![w].todo = Tail(@),
                 ![w].sha256 = None, ![w].id = None]

\* parse_s3_events drops what is not wanted before the first record is looked at, which
\* reads nothing else: here a record is dropped when its turn comes.
Skip(w) ==
    /\ thread[w].at = "route"
    /\ thread[w].todo # <<>>
    /\ ~(Wanted(Head(thread[w].todo)) /\ Ours(Target(w)))
    /\ NextRecord(w)
    /\ UNCHANGED <<rateVars, storeVars, tableVars, request, history>>

\* get_object and the hash of what the key holds now.
Fetch(w) ==
    /\ thread[w].at = "route"
    /\ thread[w].todo # <<>>
    /\ Wanted(Head(thread[w].todo)) /\ Ours(Target(w))
    /\ thread' = [thread EXCEPT ![w].at = "select", ![w].sha256 = objects[Target(w)]]
    /\ UNCHANGED <<rateVars, storeVars, tableVars, request, history>>

IngestSelect(w) ==
    /\ thread[w].at = "select"
    /\ IF Existing(Target(w).tenant, thread[w].sha256) # {} THEN NextRecord(w)
       ELSE Step(w, "insert")
    /\ UNCHANGED <<rateVars, storeVars, tableVars, request, history>>

\* A PDF is received; anything else is kept as a failed document, and is not sent on.
IngestInsert(w) ==
    /\ thread[w].at = "insert"
    /\ LET t == Target(w).tenant file == thread[w].sha256
       IN  \/ /\ ~Taken(t, file)
              /\ \E i \in Ids :
                   \/ /\ file \in Pdfs
                      /\ Insert(i, t, Target(w), file, RouteType(Target(w)), "received")
                      /\ thread' = [thread EXCEPT ![w].at = "send", ![w].id = i]
                   \/ /\ file \notin Pdfs
                      /\ Insert(i, t, Target(w), file, RouteType(Target(w)), "failed")
                      /\ NextRecord(w)
           \/ /\ Taken(t, file)
              /\ NextRecord(w)
              /\ UNCHANGED documents
    /\ UNCHANGED <<rateVars, storeVars, parseQueue, request, history>>

IngestSend(w) ==
    /\ thread[w].at = "send"
    /\ parseQueue' = parseQueue \cup {[document |-> thread[w].id, tenant |-> Target(w).tenant]}
    /\ NextRecord(w)
    /\ UNCHANGED <<rateVars, storeVars, documents, request, history>>

\* Every record is done: the handler returns and the event is deleted.
Acknowledge(w) ==
    /\ thread[w].at = "route"
    /\ thread[w].todo = <<>>
    /\ notices' = [notices EXCEPT ![thread[w].notice] = None]
    /\ thread' = [thread EXCEPT ![w] = NoJob]
    /\ UNCHANGED <<rateVars, objects, unsent, tableVars, request, history>>

\* The handler raises or the worker dies: the event comes back whole.
IngestFails(w) ==
    /\ Failures
    /\ thread[w].at # "idle"
    /\ notices' = [notices EXCEPT ![thread[w].notice].visible = TRUE]
    /\ thread' = [thread EXCEPT ![w] = NoJob]
    /\ UNCHANGED <<rateVars, objects, unsent, tableVars, request, history>>

--------------------------------------------------------------------------
(* What a row without a message meets: the API's sweep.                    *)

\* Mutant: the sweep leaves alone a row that came in from storage.
X_Sweep(i) ==
    /\ documents[i] # None
    /\ documents[i].status = "received" /\ documents[i].s3_key.area = "incoming"
    /\ parseQueue' = parseQueue \cup {[document |-> i, tenant |-> documents[i].tenant]}
    /\ UNCHANGED <<rateVars, storeVars, documents, request, thread, history>>

\* _reaper_loop: a stranded received row is sent to parse. Its age is left open.
Sweep(i) ==
    /\ documents[i] # None
    /\ documents[i].status = "received"
    /\ parseQueue' = parseQueue \cup {[document |-> i, tenant |-> documents[i].tenant]}
    /\ UNCHANGED <<rateVars, storeVars, documents, request, thread, history>>

Upload(r) ==
    \/ \E key \in ApiKeys \cup {NoKey} :
         \/ Unauthorized(r, key)
         \/ \E file \in Files, doc_type \in Folders : Accept(r, key, file, doc_type)
    \/ CheckRate(r) \/ UploadSelect(r) \/ UploadPut(r) \/ UploadInsert(r) \/ UploadSend(r)
    \/ UploadFails(r)

Ingest(w) == Skip(w) \/ Fetch(w) \/ IngestSelect(w) \/ IngestInsert(w) \/ IngestSend(w)
               \/ Acknowledge(w)

Storage ==
    \/ \E key \in Key, file \in Files : Drop(key, file)
    \/ \E n \in 1..MaxNotices : Publish(n)

Next ==
    \/ \E r \in Requests : Upload(r)
    \/ Storage
    \/ \E w \in Threads :
         Ingest(w) \/ IngestFails(w) \/ \E n \in 1..MaxNotices : Receive(w, n)
    \/ \E i \in Ids : Sweep(i)
    \/ Tick /\ UNCHANGED <<storeVars, tableVars, request, thread, history>>

Spec == Init /\ [][Next]_vars

\* The API is always awake and sweeps; nothing else has to be fair.
FairSpec == Spec /\ WF_vars(\E i \in Ids : Sweep(i))

--------------------------------------------------------------------------
(* Properties.                                                             *)

\* Every variable has its type, and a thread holds an event exactly while it works.
TypeOK ==
    /\ bucket \in [Tenants -> Bucket \cup {NoBucket}]
    /\ clock \in 0..MaxClock /\ granted \in [Tenants -> Nat]
    /\ objects \in [Key -> Files \cup {None}]
    /\ \A k \in 1..Len(unsent) : unsent[k] \in Ref
    /\ documents \in [Ids -> Row \cup {None}]
    /\ parseQueue \subseteq Message
    /\ \A w \in Threads : thread[w].at = "idle" <=> thread[w].notice = None

\* A key's event is still on its way: unpublished, or on the queue.
Announced(key) ==
    \/ \E k \in 1..Len(unsent) : unsent[k].key = key
    \/ \E n \in 1..MaxNotices :
         /\ notices[n] # None
         /\ \E k \in 1..Len(notices[n].records) : notices[n].records[k].key = key

\* Nothing dropped is lost without a trace: once its event is off the ingest queue (the
\* dead letters are still on it here), the tenant has a row for what the key holds,
\* whoever published the event, whatever the file is, and whatever other tenants hold.
DropsAreAccounted ==
    \A k \in 1..Len(dropped) :
        \/ Announced(dropped[k])
        \/ Taken(dropped[k].tenant, objects[dropped[k]])

\* A document is what somebody of its tenant handed in, under a type they asked for: no
\* path takes the pipeline's own objects, or one tenant's file, for another document.
RowsWereSubmitted ==
    \A i \in Ids : documents[i] # None =>
        [tenant |-> documents[i].tenant, file |-> documents[i].sha256,
         doc_type |-> documents[i].doc_type] \in submitted

\* A client is told the truth: the document named in a reply is its tenant's and holds
\* what it sent, and only one request ever created it.
RepliesNameTheDocument ==
    \A r \in Requests : request[r].at \in {"200", "202"} =>
        LET row == documents[request[r].id]
        IN  /\ row # None
            /\ row.tenant = request[r].tenant /\ row.sha256 = request[r].file
            /\ \A q \in Requests \ {r} :
                 request[r].at = "202" /\ request[q].at = "202"
                   /\ request[q].tenant = request[r].tenant => request[q].file # request[r].file

\* Every received document is sent to parse, though its request or its thread died before
\* it could and the redelivered event calls the document a duplicate.
Sent(i) == \E m \in parseQueue : m.document = i
ReceivedIsSent ==
    []<>(\A i \in Ids : documents[i] # None /\ documents[i].status = "received" => Sent(i))

==========================================================================
