--------------------------- MODULE IntakeProofs ---------------------------
(***************************************************************************)
(* The intake for any tenants, keys, requests, files, threads and rates,   *)
(* any burst and any clock. First the rate limit; then what is promised    *)
(* about documents.                                                        *)
(* GrantBound is not inductive: what a tenant may still be granted is in   *)
(* its bucket. The strengthening says that tokens and grants together are  *)
(* what a burst and the time up to the last fill have earned, and that no  *)
(* bucket was filled, and no request began, in the future.                 *)
(***************************************************************************)
EXTENDS Intake, SequenceTheorems, TLAPS

\* Where upload_document is, and what it was given.
Request == [at : {"idle", "denied", "rate", "select", "put", "insert", "send", "200", "202"},
            tenant : Tenants \cup {None}, file : Files \cup {None},
            doc_type : Folders \cup {None}, now : Nat, id : Ids \cup {None}]

RateType ==
    /\ bucket \in [Tenants -> Bucket \cup {NoBucket}]
    /\ clock \in 0..MaxClock
    /\ granted \in [Tenants -> Nat]

\* What a tenant's bucket and its grants add up to.
Earned(t) ==
    IF bucket[t] = NoBucket THEN granted[t] = 0
    ELSE /\ bucket[t].tokens >= 0
         /\ bucket[t].refilled_at <= clock
         /\ bucket[t].tokens + granted[t] <= Burst + Rate * bucket[t].refilled_at

RateInv == RateType /\ \A t \in Tenants : Earned(t)

\* A request that is checked has a tenant, and began when it may have.
RequestInv ==
    /\ request \in [Requests -> Request]
    /\ \A r \in Requests :
          request[r].now <= clock /\ (request[r].at = "rate" => request[r].tenant \in Tenants)

IInv == RateInv /\ RequestInv

--------------------------------------------------------------------------
(* The token bucket.                                                       *)

LEMMA Earning ==
    ASSUME NEW rate \in Nat, NEW from \in Nat, NEW to \in Nat
    PROVE  /\ rate * from \in Nat /\ rate * to \in Nat
           /\ rate * (to - from) = rate * to - rate * from
           /\ from <= to => rate * from <= rate * to
<1>1. rate * from \in Nat /\ rate * to \in Nat
  OBVIOUS
<1>2. rate * (to - from) = rate * to - rate * from
  OBVIOUS
<1>3. ASSUME from <= to PROVE rate * from <= rate * to
  <2>1. PICK d \in Nat : to = from + d
    <3>1. to - from \in Nat /\ to = from + (to - from)
      BY <1>3
    <3> QED BY <3>1
  <2>2. rate * to = rate * from + rate * d
    BY <2>1
  <2>3. rate * d \in Nat
    BY <2>1
  <2> QED BY <1>1, <2>2, <2>3
<1> QED BY <1>1, <1>2, <1>3

\* The row a check finds or makes keeps what Earned says of it.
LEMMA EnsuredRow ==
    ASSUME RateInv, NEW t \in Tenants, NEW now \in 0..clock
    PROVE  /\ Ensured(t, now) \in Bucket
           /\ Ensured(t, now).tokens >= 0
           /\ Ensured(t, now).refilled_at <= clock
           /\ Ensured(t, now).tokens + granted[t]
                 <= Burst + Rate * Ensured(t, now).refilled_at
<1>1. now \in Nat /\ now \in 0..MaxClock /\ Burst \in Nat /\ Rate \in Nat
  BY RateLimitAssumption DEF RateInv, RateType
<1>2. CASE bucket[t] = NoBucket
  <2>1. Ensured(t, now) = [tokens |-> Burst, refilled_at |-> now]
    BY <1>2 DEF Ensured
  <2>2. granted[t] = 0
    BY <1>2 DEF RateInv, Earned
  <2>3. Rate * now \in Nat
    BY <1>1, Earning
  <2> QED BY <1>1, <2>1, <2>2, <2>3 DEF Bucket
<1>3. CASE bucket[t] # NoBucket
  <2>1. Ensured(t, now) = bucket[t] /\ bucket[t] \in Bucket
    BY <1>3 DEF Ensured, RateInv, RateType
  <2> QED BY <1>3, <2>1 DEF RateInv, Earned
<1> QED BY <1>2, <1>3

\* Filling a row never gives it more than the time since it was filled has earned.
LEMMA FilledRow ==
    ASSUME NEW b \in Bucket, NEW now \in Nat
    PROVE  /\ Filled(b, now) \in Int
           /\ Filled(b, now) <= Burst
           /\ Filled(b, now) <= b.tokens + Rate * now - Rate * b.refilled_at
<1>1. Burst \in Nat /\ Rate \in Nat /\ b.tokens \in Int /\ b.refilled_at \in Nat
  BY RateLimitAssumption DEF Bucket
<1> DEFINE earned == Rate * now
           spent == Rate * b.refilled_at
<1>2. earned \in Nat /\ spent \in Nat /\ Rate * (now - b.refilled_at) = earned - spent
  BY <1>1, Earning
<1> HIDE DEF earned, spent
<1>3. Filled(b, now) = IF b.tokens + (earned - spent) < Burst
                         THEN b.tokens + (earned - spent) ELSE Burst
  BY <1>2 DEF Filled
<1>4. /\ Filled(b, now) \in Int
      /\ Filled(b, now) <= Burst
      /\ Filled(b, now) <= b.tokens + earned - spent
  BY <1>1, <1>2, <1>3
<1> QED BY <1>4 DEF earned, spent

LEMMA SpendKeeps ==
    ASSUME RateInv, NEW t \in Tenants, NEW now \in 0..clock, Spend(t, now)
    PROVE  RateInv'
<1> DEFINE b == Ensured(t, now)
           left == Filled(b, now) - 1
<1>1. now \in Nat /\ now \in 0..MaxClock /\ Rate \in Nat /\ Burst \in Nat /\ clock' = clock
  BY RateLimitAssumption DEF RateInv, RateType, Spend
<1>2. /\ b \in Bucket
      /\ b.tokens + granted[t] <= Burst + Rate * b.refilled_at
  BY EnsuredRow
<1>3. /\ Filled(b, now) \in Int
      /\ Filled(b, now) <= b.tokens + Rate * now - Rate * b.refilled_at
  BY <1>1, <1>2, FilledRow
<1>4. /\ Filled(b, now) >= 1
      /\ bucket' = [bucket EXCEPT ![t] = [tokens |-> left, refilled_at |-> now]]
      /\ granted' = [granted EXCEPT ![t] = @ + 1]
  BY DEF Spend
<1>5. left + (granted[t] + 1) <= Burst + Rate * now /\ left \in Int /\ left >= 0
  <2>1. Rate * now \in Nat /\ Rate * b.refilled_at \in Nat /\ b.tokens \in Int /\ granted[t] \in Nat
    BY <1>1, <1>2, Earning DEF Bucket, RateInv, RateType
  <2> HIDE DEF b
  <2> QED BY <1>1, <1>2, <1>3, <1>4, <2>1
<1> HIDE DEF b, left
<1>6. [tokens |-> left, refilled_at |-> now] \in Bucket
  BY <1>1, <1>5 DEF Bucket
<1>7. RateType'
  BY <1>1, <1>4, <1>6 DEF RateInv, RateType
<1>8. ASSUME NEW u \in Tenants PROVE Earned(u)'
  <2>1. CASE u = t
    <3>1. bucket'[u] = [tokens |-> left, refilled_at |-> now] /\ granted'[u] = granted[t] + 1
      BY <1>4, <2>1 DEF RateInv, RateType
    <3>2. bucket'[u] # NoBucket
      BY <1>6, <3>1, NoBucketAssumption
    <3> QED BY <1>1, <1>5, <3>1, <3>2 DEF Earned
  <2>2. CASE u # t
    <3>1. bucket'[u] = bucket[u] /\ granted'[u] = granted[u]
      BY <1>4, <2>2 DEF RateInv, RateType
    <3> QED BY <1>1, <3>1 DEF RateInv, Earned
  <2> QED BY <2>1, <2>2
<1> QED BY <1>7, <1>8 DEF RateInv

LEMMA RefuseKeeps ==
    ASSUME RateInv, NEW t \in Tenants, NEW now \in 0..clock, Refuse(t, now)
    PROVE  RateInv'
<1> DEFINE b == Ensured(t, now)
<1>1. bucket' = [bucket EXCEPT ![t] = b] /\ clock' = clock /\ granted' = granted
  BY DEF Refuse
<1>2. /\ b \in Bucket /\ b.tokens >= 0 /\ b.refilled_at <= clock
      /\ b.tokens + granted[t] <= Burst + Rate * b.refilled_at
  BY EnsuredRow
<1> HIDE DEF b
<1>3. RateType'
  BY <1>1, <1>2 DEF RateInv, RateType
<1>4. ASSUME NEW u \in Tenants PROVE Earned(u)'
  <2>1. CASE u = t
    <3>1. bucket'[u] = b /\ b # NoBucket
      BY <1>1, <1>2, <2>1, NoBucketAssumption DEF RateInv, RateType
    <3> QED BY <1>1, <1>2, <2>1, <3>1 DEF Earned
  <2>2. CASE u # t
    <3>1. bucket'[u] = bucket[u]
      BY <1>1, <2>2 DEF RateInv, RateType
    <3> QED BY <1>1, <3>1 DEF RateInv, Earned
  <2> QED BY <2>1, <2>2
<1> QED BY <1>3, <1>4 DEF RateInv

LEMMA TickKeeps ==
    ASSUME RateInv, Tick
    PROVE  RateInv' /\ clock <= clock'
<1>1. clock' = clock + 1 /\ clock < MaxClock /\ bucket' = bucket /\ granted' = granted
  BY DEF Tick
<1>2. RateType' /\ clock \in Int /\ clock' \in Int
  BY <1>1, RateLimitAssumption DEF RateInv, RateType
<1>3. ASSUME NEW u \in Tenants PROVE Earned(u)'
  <2>1. bucket[u] # NoBucket => bucket[u].refilled_at \in Int
    BY DEF RateInv, RateType, Bucket
  <2> QED BY <1>1, <1>2, <2>1 DEF RateInv, Earned
<1> QED BY <1>1, <1>2, <1>3 DEF RateInv

--------------------------------------------------------------------------
(* The requests.                                                           *)

\* A step that touches neither the buckets nor the requests.
LEMMA Elsewhere ==
    ASSUME IInv, UNCHANGED <<rateVars, request>>
    PROVE  IInv'
BY DEF IInv, RateInv, RateType, Earned, RequestInv, rateVars

\* The ways a handler moves its request on.
LEMMA RequestMoves ==
    ASSUME IInv, clock' = clock, NEW r \in Requests,
           \/ \E p \in {"select", "put", "insert", "send", "202"} : To(r, p)
           \/ \E i \in Ids : Reply(r, "200", i) \/ Reply(r, "send", i)
           \/ Deny(r)
    PROVE  RequestInv'
<1>1. ASSUME NEW q \in Request, q.now <= clock, q.at # "rate",
             request' = [request EXCEPT ![r] = q]
      PROVE  RequestInv'
  BY <1>1 DEF IInv, RequestInv
<1>2. request[r] \in Request /\ request[r].now <= clock
  BY DEF IInv, RequestInv
<1>3. clock \in Int /\ 0 <= clock
  BY RateLimitAssumption DEF IInv, RateInv, RateType
<1>4. ASSUME NEW p \in {"select", "put", "insert", "send", "202"}, To(r, p) PROVE RequestInv'
  <2> DEFINE q == [request[r] EXCEPT !.at = p, !.now = 0]
  <2>1. request' = [request EXCEPT ![r] = q]
    BY <1>4 DEF To, IInv, RequestInv
  <2>2. q \in Request /\ q.now <= clock /\ q.at # "rate"
    BY <1>2, <1>3 DEF Request
  <2> QED BY <1>1, <2>1, <2>2
<1>5. ASSUME NEW i \in Ids, Reply(r, "200", i) \/ Reply(r, "send", i) PROVE RequestInv'
  <2>1. PICK code \in {"200", "send"} : Reply(r, code, i)
    BY <1>5
  <2> DEFINE q == [request[r] EXCEPT !.at = code, !.id = i]
  <2>2. request' = [request EXCEPT ![r] = q]
    BY <2>1 DEF Reply, IInv, RequestInv
  <2>3. q \in Request /\ q.now <= clock /\ q.at # "rate"
    BY <1>2, <1>3 DEF Request
  <2> QED BY <1>1, <2>2, <2>3
<1>6. ASSUME Deny(r) PROVE RequestInv'
  <2> DEFINE q == [NoRequest EXCEPT !.at = "denied"]
  <2>1. request' = [request EXCEPT ![r] = q]
    BY <1>6 DEF Deny
  <2>2. q \in Request /\ q.now <= clock /\ q.at # "rate"
    BY <1>3 DEF Request, NoRequest
  <2> QED BY <1>1, <2>1, <2>2
<1> QED BY <1>4, <1>5, <1>6

\* A step of a request that touches no bucket.
LEMMA NoBucketTouched ==
    ASSUME RateInv, UNCHANGED rateVars
    PROVE  RateInv' /\ clock' = clock
BY DEF RateInv, RateType, Earned, rateVars

LEMMA AcceptKeeps ==
    ASSUME IInv, NEW r \in Requests, NEW key \in ApiKeys \cup {NoKey}, NEW file \in Files,
           NEW doc_type \in Folders, Accept(r, key, file, doc_type)
    PROVE  IInv'
<1>1. RateInv' /\ clock' = clock /\ clock \in Nat
  BY NoBucketTouched, RateLimitAssumption DEF Accept, IInv, RateInv, RateType
<1>2. CASE doc_type \notin Slugs
  BY <1>1, <1>2, RequestMoves DEF Accept, IInv
<1>3. CASE doc_type \in Slugs
  <2> DEFINE q == [at |-> "rate", tenant |-> key.tenant, file |-> file, doc_type |-> doc_type,
                   now |-> clock, id |-> None]
  <2>1. request' = [request EXCEPT ![r] = q]
    BY <1>3 DEF Accept
  <2>2. key.tenant \in Tenants
    BY IntakeAssumption DEF Accept, Resolves
  <2>3. q \in Request /\ q.now <= clock /\ q.tenant \in Tenants
    BY <1>1, <2>2 DEF Request
  <2>4. RequestInv'
    BY <1>1, <2>1, <2>3 DEF IInv, RequestInv
  <2> QED BY <1>1, <2>4 DEF IInv
<1> QED BY <1>2, <1>3

LEMMA CheckRateKeeps ==
    ASSUME IInv, NEW r \in Requests, CheckRate(r)
    PROVE  IInv'
<1> DEFINE t == request[r].tenant
           now == request[r].now
<1>1. t \in Tenants /\ now \in 0..clock
  <2>1. request[r] \in Request /\ now <= clock /\ clock \in Int
    BY DEF IInv, RequestInv, RateInv, RateType
  <2> QED BY <2>1 DEF CheckRate, IInv, RequestInv, Request
<1>2. /\ Spend(t, now) \/ Refuse(t, now)
      /\ To(r, "select") \/ Deny(r)
  BY DEF CheckRate
<1>3. clock' = clock
  BY <1>2 DEF Spend, Refuse
<1>4. RateInv'
  BY <1>1, <1>2, SpendKeeps, RefuseKeeps DEF IInv
<1>5. RequestInv'
  BY <1>2, <1>3, RequestMoves
<1> QED BY <1>4, <1>5 DEF IInv

\* Every other step of a request moves it on and leaves the buckets alone.
LEMMA UploadKeeps ==
    ASSUME IInv, NEW r \in Requests, Upload(r)
    PROVE  IInv'
<1>1. CASE \E key \in ApiKeys \cup {NoKey}, file \in Files, doc_type \in Folders :
              Accept(r, key, file, doc_type)
  BY <1>1, AcceptKeeps
<1>2. CASE CheckRate(r)
  BY <1>2, CheckRateKeeps
<1>3. ASSUME UNCHANGED rateVars,
             \/ \E p \in {"select", "put", "insert", "send", "202"} : To(r, p)
             \/ \E i \in Ids : Reply(r, "200", i) \/ Reply(r, "send", i)
             \/ Deny(r)
      PROVE  IInv'
  <2>1. RateInv' /\ clock' = clock
    BY <1>3, NoBucketTouched DEF IInv
  <2>2. RequestInv'
    BY <1>3, <2>1, RequestMoves
  <2> QED BY <2>1, <2>2 DEF IInv
<1>4. CASE \E key \in ApiKeys \cup {NoKey} : Unauthorized(r, key)
  BY <1>3, <1>4 DEF Unauthorized
<1>5. CASE UploadSelect(r)
  <2>1. PICK file, t : UNCHANGED rateVars
                        /\ (To(r, "put") \/ \E i \in Existing(t, file) : Reply(r, "200", i))
    BY <1>5 DEF UploadSelect
  <2>2. Existing(t, file) \subseteq Ids
    BY DEF Existing, Visible
  <2> QED BY <1>3, <2>1, <2>2
<1>6. CASE UploadPut(r)
  BY <1>3, <1>6 DEF UploadPut
<1>7. CASE UploadInsert(r)
  <2>1. PICK file, t : UNCHANGED rateVars
                        /\ \/ \E i \in Ids : Reply(r, "send", i)
                           \/ \E i \in Existing(t, file) : Reply(r, "200", i)
    BY <1>7 DEF UploadInsert
  <2>2. Existing(t, file) \subseteq Ids
    BY DEF Existing, Visible
  <2> QED BY <1>3, <2>1, <2>2
<1>8. CASE UploadSend(r)
  BY <1>3, <1>8 DEF UploadSend
<1>9. CASE UploadFails(r)
  BY <1>3, <1>9 DEF UploadFails
<1> QED BY <1>1, <1>2, <1>4, <1>5, <1>6, <1>7, <1>8, <1>9 DEF Upload

--------------------------------------------------------------------------
(* The invariant.                                                          *)

LEMMA InitIInv == Init => IInv
<1> SUFFICES ASSUME Init PROVE IInv
  OBVIOUS
<1>1. bucket = [t \in Tenants |-> NoBucket] /\ clock = 0 /\ granted = [t \in Tenants |-> 0]
  BY DEF Init, RateInit
<1>2. RateInv
  BY <1>1, RateLimitAssumption DEF RateInv, RateType, Earned
<1>3. NoRequest \in Request /\ NoRequest.now = 0 /\ NoRequest.at = "idle"
  BY DEF Request, NoRequest
<1>4. RequestInv
  BY <1>1, <1>3 DEF Init, RequestInv
<1> QED BY <1>2, <1>4 DEF IInv

LEMMA NextIInv == IInv /\ [Next]_vars => IInv'
<1> SUFFICES ASSUME IInv, [Next]_vars PROVE IInv'
  OBVIOUS
<1>1. ASSUME NEW r \in Requests, Upload(r) PROVE IInv'
  BY <1>1, UploadKeeps
<1>2. CASE Storage
  BY <1>2, Elsewhere DEF Storage, Drop, Publish
<1>3. ASSUME NEW w \in Threads,
             Ingest(w) \/ IngestFails(w) \/ \E n \in 1..MaxNotices : Receive(w, n)
      PROVE  IInv'
  BY <1>3, Elsewhere DEF Ingest, Skip, Fetch, IngestSelect, IngestInsert, IngestSend,
                         Acknowledge, IngestFails, Receive
<1>4. ASSUME NEW i \in Ids, Sweep(i) PROVE IInv'
  BY <1>4, Elsewhere DEF Sweep
<1>5. CASE Tick /\ UNCHANGED <<storeVars, tableVars, request, thread, history>>
  <2>1. RateInv' /\ clock <= clock' /\ clock \in Int /\ clock' \in Int
    BY <1>5, TickKeeps DEF IInv, RateInv, RateType
  <2>2. \A r \in Requests : request[r].now \in Int
    BY DEF IInv, RequestInv, Request
  <2>3. RequestInv'
    BY <1>5, <2>1, <2>2 DEF IInv, RequestInv
  <2> QED BY <2>1, <2>3 DEF IInv
<1>6. CASE UNCHANGED vars
  BY <1>6, Elsewhere DEF vars
<1> QED BY <1>1, <1>2, <1>3, <1>4, <1>5, <1>6 DEF Next

\* What is left in a bucket is not negative, so what was granted is what was earned.
LEMMA IInvGrantBound == IInv => GrantBound
<1> SUFFICES ASSUME IInv, NEW t \in Tenants PROVE granted[t] <= Burst + Rate * clock
  BY DEF GrantBound
<1>1. clock \in Nat /\ Burst \in Nat /\ Rate \in Nat /\ granted[t] \in Nat
  BY RateLimitAssumption DEF IInv, RateInv, RateType
<1>2. CASE bucket[t] = NoBucket
  <2>1. granted[t] = 0 /\ Rate * clock \in Nat
    BY <1>1, <1>2, Earning DEF IInv, RateInv, Earned
  <2> QED BY <1>1, <2>1
<1>3. CASE bucket[t] # NoBucket
  <2>1. bucket[t] \in Bucket
    BY <1>3 DEF IInv, RateInv, RateType
  <2>2. bucket[t].tokens \in Int /\ bucket[t].refilled_at \in Nat
    BY <2>1 DEF Bucket
  <2>3. /\ bucket[t].tokens >= 0 /\ bucket[t].refilled_at <= clock
        /\ bucket[t].tokens + granted[t] <= Burst + Rate * bucket[t].refilled_at
    BY <1>3 DEF IInv, RateInv, Earned
  <2> DEFINE earned == Rate * bucket[t].refilled_at
             bound == Rate * clock
  <2>4. earned \in Nat /\ bound \in Nat /\ earned <= bound
    BY <1>1, <2>2, <2>3, Earning
  <2> HIDE DEF earned, bound
  <2>5. bucket[t].tokens + granted[t] <= Burst + earned
    BY <2>3 DEF earned
  <2>6. granted[t] <= Burst + bound
    BY <1>1, <2>2, <2>3, <2>4, <2>5
  <2> QED BY <2>6 DEF bound
<1> QED BY <1>2, <1>3

\* No tenant's uploads ever exceed a burst and what its rate has earned (check_rate_limit),
\* though checks wait for one another and fill the bucket by times that have passed.
THEOREM GrantsAreEarned == Spec => []GrantBound
BY InitIInv, NextIInv, IInvGrantBound, PTL DEF Spec

--------------------------------------------------------------------------
(* Documents: the types, that a row is what its tenant handed in, that a   *)
(* reply names the right row, and that no drop is lost. Nobody holds a     *)
(* lock between the read and the insert, so the invariant says what        *)
(* survives the others' steps: rows, submissions and objects are never     *)
(* taken back, and an event belongs to one thread.                         *)

Job == [at : {"idle", "route", "select", "insert", "send"},
        notice : (1..MaxNotices) \cup {None}, todo : Seq(Ref),
        sha256 : Files \cup {None}, id : Ids \cup {None}]

SubmittedAs(t, f, d) == [tenant |-> t, file |-> f, doc_type |-> d] \in submitted

\* Records tell of objects that were created and are there.
Good(refs) ==
    \A k \in 1..Len(refs) : refs[k].created = TRUE /\ objects[refs[k].key] \in Files

Typed ==
    /\ objects \in [Key -> Files \cup {None}]
    /\ unsent \in Seq(Ref)
    /\ notices \in [1..MaxNotices -> Notice \cup {None}]
    /\ documents \in [Ids -> Row \cup {None}]
    /\ parseQueue \subseteq Message
    /\ thread \in [Threads -> Job]

\* Objects in the dropbox, and the records of the store's events, come from a submission.
StoreInv ==
    /\ \A key \in Key : key.area = "dropbox" /\ objects[key] # None =>
          SubmittedAs(key.tenant, objects[key], RouteType(key))
    /\ Good(unsent)
    /\ \A n \in 1..MaxNotices : notices[n] # None => Good(notices[n].records)

RowInv ==
    \A i \in Ids : documents[i] # None =>
        SubmittedAs(documents[i].tenant, documents[i].sha256, documents[i].doc_type)

\* The document a request names is its tenant's and holds its file.
Names(r) ==
    /\ request[r].id \in Ids /\ documents[request[r].id] # None
    /\ documents[request[r].id].tenant = request[r].tenant
    /\ documents[request[r].id].sha256 = request[r].file

\* What a request was given once it was accepted, and what it holds at each step.
RequestAt(r) ==
    /\ request[r].at \in {"rate", "select", "put", "insert", "send", "200", "202"} =>
          /\ request[r].tenant \in Tenants /\ request[r].file \in Files
          /\ request[r].doc_type \in Slugs
    /\ request[r].at = "insert" =>
          SubmittedAs(request[r].tenant, request[r].file, request[r].doc_type)
    /\ request[r].at \in {"send", "200", "202"} => Names(r)

Created(r) == request[r].at \in {"send", "202"}

\* Only one request creates the document of a tenant's file.
OneCreator ==
    \A r, q \in Requests :
        r # q /\ Created(r) /\ Created(q) /\ request[r].tenant = request[q].tenant
            => request[r].file # request[q].file

\* The event a thread holds, and the record of it that it has come to.
ThreadAt(w) ==
    /\ thread[w].at = "idle" => thread[w].notice = None
    /\ thread[w].at # "idle" =>
          /\ thread[w].notice \in 1..MaxNotices /\ notices[thread[w].notice] # None
          /\ notices[thread[w].notice].visible = FALSE
          /\ Good(thread[w].todo)
    /\ thread[w].at \in {"select", "insert", "send"} =>
          /\ thread[w].todo # <<>> /\ Target(w).area = "dropbox"
          /\ thread[w].sha256 \in Files
          /\ SubmittedAs(Target(w).tenant, thread[w].sha256, RouteType(Target(w)))
    /\ thread[w].at = "send" =>
          thread[w].id \in Ids /\ Taken(Target(w).tenant, thread[w].sha256)

\* An event is with one thread at a time.
OwnEvents ==
    \A w, v \in Threads :
        w # v /\ thread[w].at # "idle" /\ thread[v].at # "idle"
            => thread[w].notice # thread[v].notice

\* The thread will come to a record of the key, or is at one and holds what the key holds.
ToDo(w, key) ==
    \E k \in 1..Len(thread[w].todo) :
        /\ thread[w].todo[k].key = key
        /\ k = 1 /\ thread[w].at \in {"select", "insert", "send"} =>
              thread[w].sha256 = objects[key]

\* What the key holds is still to be ingested: its event is not published, or waits, or is
\* with a thread that has not passed it.
Waiting(n, key) ==
    /\ notices[n] # None
    /\ \E k \in 1..Len(notices[n].records) : notices[n].records[k].key = key
    /\ \A w \in Threads : thread[w].at # "idle" /\ thread[w].notice = n => ToDo(w, key)

Owed(key) ==
    \/ \E k \in 1..Len(unsent) : unsent[k].key = key
    \/ \E n \in 1..MaxNotices : Waiting(n, key)
    \/ Taken(key.tenant, objects[key])

DropInv ==
    /\ dropped \in Seq(Key)
    /\ \A k \in 1..Len(dropped) : dropped[k].area = "dropbox" /\ Owed(dropped[k])

TableInv ==
    /\ Typed /\ StoreInv /\ RowInv /\ OneCreator /\ OwnEvents
    /\ \A r \in Requests : RequestAt(r)
    /\ \A w \in Threads : ThreadAt(w)
    /\ DropInv

--------------------------------------------------------------------------
(* What no step takes back.                                                *)

\* A row that is there stays as it is, a submission was made, an object is not deleted.
Grows ==
    /\ \A i \in Ids : documents[i] # None => documents'[i] = documents[i]
    /\ submitted \subseteq submitted'
    /\ \A key \in Key : objects[key] \in Files => objects'[key] \in Files

LEMMA TakenStays ==
    ASSUME Grows
    PROVE  \A t, f : Taken(t, f) => Taken(t, f)'
BY DEF Grows, Taken

LEMMA SubmittedStays ==
    ASSUME Grows
    PROVE  \A t, f, d : SubmittedAs(t, f, d) => SubmittedAs(t, f, d)'
BY DEF Grows, SubmittedAs

\* What a record names is a key of the bucket.
LEMMA RefsHaveKeys ==
    ASSUME NEW refs \in Seq(Ref)
    PROVE  \A k \in 1..Len(refs) : refs[k] \in Ref /\ refs[k].key \in Key
<1>1. \A k \in 1..Len(refs) : refs[k] \in Ref
  OBVIOUS
<1> QED BY <1>1 DEF Ref

LEMMA GoodStays ==
    ASSUME Grows, NEW refs \in Seq(Ref), Good(refs)
    PROVE  Good(refs)'
BY RefsHaveKeys DEF Grows, Good

LEMMA RequestStays ==
    ASSUME Grows, NEW r \in Requests, RequestAt(r), request'[r] = request[r]
    PROVE  RequestAt(r)'
<1>1. SubmittedAs(request[r].tenant, request[r].file, request[r].doc_type) =>
        SubmittedAs(request[r].tenant, request[r].file, request[r].doc_type)'
  BY DEF SubmittedAs, Grows
<1>2. Names(r) => Names(r)'
  BY DEF Names, Grows
<1> QED BY <1>1, <1>2 DEF RequestAt

LEMMA ThreadStays ==
    ASSUME Grows, Typed, NEW w \in Threads, ThreadAt(w), thread'[w] = thread[w],
           thread[w].at # "idle" => notices'[thread[w].notice] = notices[thread[w].notice]
    PROVE  ThreadAt(w)'
<1> DEFINE job == thread[w]
<1>1. job \in Job
  BY DEF Typed
<1>2. Good(job.todo) => (thread'[w] = job => Good(thread[w].todo)')
  <2>1. job.todo \in Seq(Ref)
    BY <1>1 DEF Job
  <2>2. \A k \in 1..Len(job.todo) : job.todo[k].key \in Key
    BY <2>1, RefsHaveKeys
  <2> QED BY <2>2 DEF Good, Grows
<1>3. Target(w)' = Target(w)
  BY DEF Target
<1>4. SubmittedAs(Target(w).tenant, thread[w].sha256, RouteType(Target(w))) =>
        SubmittedAs(Target(w).tenant, thread[w].sha256, RouteType(Target(w)))'
  BY <1>3 DEF SubmittedAs, Grows, RouteType
<1>5. Taken(Target(w).tenant, thread[w].sha256) => Taken(Target(w).tenant, thread[w].sha256)'
  BY <1>3 DEF Taken, Grows
<1> QED BY <1>2, <1>3, <1>4, <1>5 DEF ThreadAt

\* A step that changes no row, no object and no submission.
LEMMA NothingGrows ==
    ASSUME UNCHANGED <<documents, submitted, objects>>
    PROVE  Grows
BY DEF Grows

\* A thread that moves leaves the others' events to them.
LEMMA OwnStays ==
    ASSUME TableInv, NEW w \in Threads, \A v \in Threads \ {w} : thread'[v] = thread[v],
           thread'[w].at # "idle" =>
              thread[w].at # "idle" /\ thread'[w].notice = thread[w].notice
    PROVE  OwnEvents'
BY DEF TableInv, OwnEvents

\* What is owed stays owed while the store and the threads are left alone.
LEMMA OwedStays ==
    ASSUME Grows, NEW key \in Key, Owed(key), objects'[key] = objects[key],
           UNCHANGED <<notices, thread>>,
           (\E k \in 1..Len(unsent) : unsent[k].key = key)
              => \E k \in 1..Len(unsent') : unsent'[k].key = key
    PROVE  Owed(key)'
<1>1. \A w : ToDo(w, key) => ToDo(w, key)'
  BY DEF ToDo
<1>2. \A n : Waiting(n, key) => Waiting(n, key)'
  BY <1>1 DEF Waiting
<1>3. Taken(key.tenant, objects[key]) => Taken(key.tenant, objects[key])'
  BY DEF Taken, Grows
<1> QED BY <1>2, <1>3 DEF Owed

LEMMA DropsStay ==
    ASSUME DropInv, Grows, UNCHANGED <<objects, unsent, notices, thread, dropped>>
    PROVE  DropInv'
<1>1. \A k \in 1..Len(dropped) : dropped[k] \in Key
  BY DEF DropInv
<1>2. ASSUME NEW k \in 1..Len(dropped) PROVE dropped[k].area = "dropbox" /\ Owed(dropped[k])'
  BY <1>1, OwedStays DEF DropInv
<1> QED BY <1>2 DEF DropInv

\* A step of one request that writes nothing.
LEMMA OnlyRequest ==
    ASSUME TableInv, NEW r \in Requests,
           UNCHANGED <<storeVars, tableVars, thread, history>>,
           \A q \in Requests \ {r} : request'[q] = request[q],
           RequestAt(r)', ~Created(r)'
    PROVE  TableInv'
<1>1. UNCHANGED <<objects, unsent, notices, documents, parseQueue, thread, submitted, dropped>>
  BY DEF storeVars, tableVars, history
<1>2. Grows
  BY <1>1, NothingGrows
<1>3. Typed' /\ OwnEvents'
  BY <1>1 DEF TableInv, Typed, OwnEvents
<1>4. StoreInv'
  BY <1>1 DEF TableInv, StoreInv, Good, SubmittedAs
<1>5. RowInv'
  BY <1>1 DEF TableInv, RowInv, SubmittedAs
<1>6. OneCreator'
  BY DEF TableInv, OneCreator, Created
<1>7. \A q \in Requests : RequestAt(q)'
  BY <1>2, RequestStays DEF TableInv
<1>8. \A w \in Threads : ThreadAt(w)'
  BY <1>1, <1>2, ThreadStays DEF TableInv
<1>9. DropInv'
  BY <1>1, <1>2, DropsStay DEF TableInv
<1> QED BY <1>3, <1>4, <1>5, <1>6, <1>7, <1>8, <1>9 DEF TableInv

--------------------------------------------------------------------------
(* The requests.                                                           *)

\* What the ways to move a request on change of it.
LEMMA Moved ==
    ASSUME IInv, NEW r \in Requests, NEW p, To(r, p)
    PROVE  /\ \A q \in Requests \ {r} : request'[q] = request[q]
           /\ request'[r].at = p /\ request'[r].id = request[r].id
           /\ request'[r].tenant = request[r].tenant /\ request'[r].file = request[r].file
           /\ request'[r].doc_type = request[r].doc_type
<1>1. request \in [Requests -> Request]
  BY DEF IInv, RequestInv
<1> QED BY <1>1 DEF To, Request

LEMMA Replied ==
    ASSUME IInv, NEW r \in Requests, NEW code, NEW i, Reply(r, code, i)
    PROVE  /\ \A q \in Requests \ {r} : request'[q] = request[q]
           /\ request'[r].at = code /\ request'[r].id = i
           /\ request'[r].tenant = request[r].tenant /\ request'[r].file = request[r].file
           /\ request'[r].doc_type = request[r].doc_type
<1>1. request \in [Requests -> Request]
  BY DEF IInv, RequestInv
<1> QED BY <1>1 DEF Reply, Request

LEMMA Denied ==
    ASSUME IInv, NEW r \in Requests, Deny(r)
    PROVE  /\ \A q \in Requests \ {r} : request'[q] = request[q]
           /\ request'[r].at = "denied"
BY DEF IInv, RequestInv, Deny, NoRequest

LEMMA DenyKeeps ==
    ASSUME IInv, TableInv, NEW r \in Requests, Deny(r),
           UNCHANGED <<storeVars, tableVars, thread, history>>
    PROVE  TableInv'
<1>1. RequestAt(r)' /\ ~Created(r)'
  BY Denied DEF RequestAt, Created
<1> QED BY <1>1, Denied, OnlyRequest

LEMMA AcceptTable ==
    ASSUME IInv, TableInv, NEW r \in Requests, NEW key \in ApiKeys \cup {NoKey},
           NEW file \in Files, NEW doc_type \in Folders, Accept(r, key, file, doc_type)
    PROVE  TableInv'
<1>1. UNCHANGED <<storeVars, tableVars, thread, history>>
  BY DEF Accept
<1>2. CASE doc_type \notin Slugs
  BY <1>1, <1>2, DenyKeeps DEF Accept
<1>3. CASE doc_type \in Slugs
  <2> DEFINE q == [at |-> "rate", tenant |-> key.tenant, file |-> file, doc_type |-> doc_type,
                   now |-> clock, id |-> None]
  <2>1. request' = [request EXCEPT ![r] = q] /\ key.tenant \in Tenants
    BY <1>3, IntakeAssumption DEF Accept, Resolves
  <2>2. request'[r] = q /\ \A p \in Requests \ {r} : request'[p] = request[p]
    BY <2>1 DEF IInv, RequestInv
  <2>3. RequestAt(r)' /\ ~Created(r)'
    BY <1>3, <2>1, <2>2 DEF RequestAt, Created
  <2> QED BY <1>1, <2>2, <2>3, OnlyRequest
<1> QED BY <1>2, <1>3

\* A row that was found is what the request asks for.
LEMMA FoundIsNamed ==
    ASSUME NEW r \in Requests, NEW i \in Existing(request[r].tenant, request[r].file)
    PROVE  /\ i \in Ids /\ documents[i] # None
           /\ documents[i].tenant = request[r].tenant /\ documents[i].sha256 = request[r].file
BY DEF Existing, Visible

LEMMA ReadKeeps ==
    ASSUME IInv, TableInv, NEW r \in Requests, CheckRate(r) \/ UploadSelect(r)
    PROVE  TableInv'
<1>1. UNCHANGED <<storeVars, tableVars, thread, history>> /\ RequestAt(r)
  BY DEF CheckRate, UploadSelect, TableInv
<1>2. request[r].at \in {"rate", "select"}
  BY DEF CheckRate, UploadSelect
<1>3. ASSUME NEW p \in {"select", "put"}, To(r, p) PROVE TableInv'
  <2>1. RequestAt(r)' /\ ~Created(r)'
    BY <1>1, <1>2, <1>3, Moved DEF RequestAt, Created
  <2> QED BY <1>1, <1>3, <2>1, Moved, OnlyRequest
<1>4. ASSUME NEW i \in Existing(request[r].tenant, request[r].file), Reply(r, "200", i)
      PROVE  TableInv'
  <2>1. documents' = documents
    BY <1>1 DEF tableVars
  <2>2. Names(r)'
    BY <1>4, <2>1, FoundIsNamed, Replied DEF Names
  <2>3. RequestAt(r)' /\ ~Created(r)'
    BY <1>1, <1>2, <1>4, <2>2, Replied DEF RequestAt, Created
  <2> QED BY <1>1, <1>4, <2>3, Replied, OnlyRequest
<1>5. CASE Deny(r)
  BY <1>1, <1>5, DenyKeeps
<1> QED BY <1>3, <1>4, <1>5 DEF CheckRate, UploadSelect

--------------------------------------------------------------------------
(* The object store.                                                       *)

\* An object is written and its record appended; what is written to the dropbox was handed
\* in under the type its key stands for.
LEMMA PutKeeps ==
    ASSUME Typed, StoreInv, NEW key \in Key, NEW file \in Files, Put(key, file),
           submitted \subseteq submitted',
           UNCHANGED <<notices, documents, thread>>,
           key.area = "dropbox" => SubmittedAs(key.tenant, file, RouteType(key))'
    PROVE  /\ Grows /\ StoreInv'
           /\ objects' \in [Key -> Files \cup {None}] /\ unsent' \in Seq(Ref)
           /\ objects'[key] = file /\ \A k \in Key \ {key} : objects'[k] = objects[k]
           /\ \A k \in 1..Len(unsent) : unsent'[k] = unsent[k]
           /\ Len(unsent') = Len(unsent) + 1 /\ unsent'[Len(unsent')].key = key
<1> DEFINE ref == [created |-> TRUE, minio |-> MinIO, key |-> key]
<1>1. objects' = [objects EXCEPT ![key] = file] /\ unsent' = Append(unsent, ref)
  BY DEF Put
<1>2. ref \in Ref /\ ref.key = key /\ ref.created = TRUE
  BY IntakeAssumption DEF Ref
<1> HIDE DEF ref
<1>3. /\ objects \in [Key -> Files \cup {None}] /\ unsent \in Seq(Ref)
      /\ None \notin Files
  BY NoneAssumption DEF Typed
<1>4. /\ objects' \in [Key -> Files \cup {None}]
      /\ objects'[key] = file /\ \A k \in Key \ {key} : objects'[k] = objects[k]
  BY <1>1, <1>3
<1>5. /\ unsent' \in Seq(Ref) /\ Len(unsent') = Len(unsent) + 1
      /\ \A k \in 1..Len(unsent) : unsent'[k] = unsent[k]
      /\ unsent'[Len(unsent) + 1] = ref
  BY <1>1, <1>2, <1>3, AppendProperties
<1>6. Grows
  BY <1>3, <1>4 DEF Grows
<1>7. Good(unsent)'
  <2>1. Len(unsent) \in Nat /\ Good(unsent)
    BY <1>3 DEF StoreInv
  <2>2. ASSUME NEW k \in 1..Len(unsent')
        PROVE  unsent'[k].created = TRUE /\ objects'[unsent'[k].key] \in Files
    <3>1. CASE k = Len(unsent) + 1
      BY <1>2, <1>4, <1>5, <3>1
    <3>2. CASE k # Len(unsent) + 1
      <4>1. k \in 1..Len(unsent)
        BY <1>5, <2>1, <3>2
      <4>2. unsent[k].key \in Key
        BY <1>3, <4>1, RefsHaveKeys
      <4>3. unsent[k].created = TRUE /\ objects[unsent[k].key] \in Files
        BY <2>1, <4>1 DEF Good
      <4> QED BY <1>5, <1>6, <4>1, <4>2, <4>3 DEF Grows
    <3> QED BY <3>1, <3>2
  <2> QED BY <2>2 DEF Good
<1>8. ASSUME NEW n \in 1..MaxNotices, notices'[n] # None PROVE Good(notices[n].records)'
  <2>1. notices[n].records \in Seq(Ref) /\ Good(notices[n].records) /\ notices'[n] = notices[n]
    BY <1>8 DEF Typed, Notice, StoreInv
  <2>2. \A k \in 1..Len(notices[n].records) : notices[n].records[k].key \in Key
    BY <2>1, RefsHaveKeys
  <2> QED BY <1>6, <2>1, <2>2 DEF Good, Grows
<1>9. ASSUME NEW k \in Key, k.area = "dropbox", objects'[k] # None
      PROVE  SubmittedAs(k.tenant, objects[k], RouteType(k))'
  <2>1. CASE k = key
    BY <1>4, <1>9, <2>1 DEF SubmittedAs
  <2>2. CASE k # key
    <3>1. objects'[k] = objects[k]
      BY <1>4, <2>2
    <3> QED BY <1>9, <3>1 DEF StoreInv, SubmittedAs
  <2> QED BY <2>1, <2>2
<1> QED BY <1>2, <1>4, <1>5, <1>6, <1>7, <1>8, <1>9 DEF StoreInv

\* A put owes its own key, and what other keys were owed stays.
LEMMA PutOwes ==
    ASSUME Typed, StoreInv, Grows, NEW key \in Key, NEW file \in Files,
           UNCHANGED <<notices, thread>>,
           \A k \in Key \ {key} : objects'[k] = objects[k],
           \A k \in 1..Len(unsent) : unsent'[k] = unsent[k],
           Len(unsent') = Len(unsent) + 1, unsent'[Len(unsent')].key = key,
           NEW k \in Key, k = key \/ Owed(k)
    PROVE  Owed(k)'
<1>1. Len(unsent) \in Nat /\ Len(unsent') \in 1..Len(unsent')
  BY DEF Typed
<1>2. CASE k = key
  BY <1>1, <1>2 DEF Owed
<1>3. CASE k # key
  <2>1. \A j \in 1..Len(unsent) : j \in 1..Len(unsent')
    BY <1>1
  <2> QED BY <1>3, <2>1, OwedStays
<1> QED BY <1>2, <1>3

LEMMA UploadPutKeeps ==
    ASSUME IInv, TableInv, NEW r \in Requests, UploadPut(r)
    PROVE  TableInv'
<1> DEFINE key == UploadKey(r)
           file == request[r].file
<1>1. /\ Put(key, file) /\ To(r, "insert") /\ request[r].at = "put"
      /\ UNCHANGED <<notices, documents, parseQueue, thread, dropped>>
      /\ submitted' = submitted \cup {[tenant |-> request[r].tenant, file |-> file,
                                       doc_type |-> request[r].doc_type]}
  BY DEF UploadPut, tableVars
<1>2. /\ request[r].tenant \in Tenants /\ file \in Files /\ request[r].doc_type \in Slugs
      /\ Typed /\ StoreInv
  BY <1>1 DEF TableInv, RequestAt
<1>3. key \in Key /\ key.area = "incoming"
  BY <1>2 DEF UploadKey, Key
<1> HIDE DEF key
<1>4. /\ Grows /\ StoreInv'
      /\ objects' \in [Key -> Files \cup {None}] /\ unsent' \in Seq(Ref)
      /\ \A k \in Key \ {key} : objects'[k] = objects[k]
      /\ \A k \in 1..Len(unsent) : unsent'[k] = unsent[k]
      /\ Len(unsent') = Len(unsent) + 1 /\ unsent'[Len(unsent')].key = key
  BY <1>1, <1>2, <1>3, PutKeeps
<1>5. Typed'
  BY <1>1, <1>2, <1>4 DEF Typed
<1>6. RowInv'
  BY <1>1, <1>4 DEF TableInv, RowInv, SubmittedAs, Grows
<1>7. ASSUME NEW q \in Requests PROVE RequestAt(q)'
  <2>1. CASE q = r
    BY <1>1, <1>2, <2>1, Moved DEF RequestAt, SubmittedAs
  <2>2. CASE q # r
    BY <1>1, <1>4, <2>2, Moved, RequestStays DEF TableInv
  <2> QED BY <2>1, <2>2
<1>8. OneCreator' /\ OwnEvents'
  BY <1>1, Moved DEF TableInv, OneCreator, OwnEvents, Created
<1>9. \A w \in Threads : ThreadAt(w)'
  BY <1>1, <1>2, <1>4, ThreadStays DEF TableInv
<1>10. DropInv'
  <2>1. \A k \in 1..Len(dropped) : dropped[k] \in Key /\ Owed(dropped[k])
    BY DEF TableInv, DropInv
  <2>2. ASSUME NEW k \in 1..Len(dropped) PROVE Owed(dropped[k])'
    <3>1. PICK d \in Key : d = dropped[k] /\ Owed(d)
      BY <2>1
    <3>2. dropped'[k] = d
      BY <1>1, <3>1
    <3>3. Owed(d)'
      BY <1>1, <1>2, <1>3, <1>4, <3>1, PutOwes
    <3> QED BY <3>2, <3>3 DEF Owed, Waiting, ToDo, Taken
  <2> QED BY <1>1, <2>2 DEF TableInv, DropInv
<1> QED BY <1>4, <1>5, <1>6, <1>7, <1>8, <1>9, <1>10 DEF TableInv

--------------------------------------------------------------------------
(* The documents table.                                                    *)

\* A row that is inserted is fresh, and is what was handed in.
LEMMA InsertKeeps ==
    ASSUME Typed, RowInv, NEW i \in Ids, NEW t \in Tenants, NEW key \in Key, NEW file \in Files,
           NEW doc_type \in Slugs, NEW status \in {"received", "failed"},
           Insert(i, t, key, file, doc_type, status),
           SubmittedAs(t, file, doc_type), UNCHANGED <<objects, submitted>>
    PROVE  /\ Grows /\ RowInv'
           /\ documents' \in [Ids -> Row \cup {None}]
           /\ documents'[i] # None
           /\ documents'[i].tenant = t /\ documents'[i].sha256 = file
           /\ Taken(t, file)'
<1> DEFINE row == [tenant |-> t, s3_key |-> key, sha256 |-> file, doc_type |-> doc_type,
                   status |-> status]
<1>1. row \in Row /\ row.tenant = t /\ row.sha256 = file /\ row.doc_type = doc_type
  BY DEF Row
<1>2. documents' = [documents EXCEPT ![i] = row] /\ documents[i] = None
  <2>1. i >= i
    BY DEF Ids
  <2> QED BY <2>1 DEF Insert
<1>3. documents \in [Ids -> Row \cup {None}] /\ row # None
  BY <1>1, NoneAssumption DEF Typed
<1> HIDE DEF row
<1>4. /\ documents' \in [Ids -> Row \cup {None}] /\ documents'[i] = row
      /\ \A j \in Ids \ {i} : documents'[j] = documents[j]
  BY <1>1, <1>2, <1>3
<1>5. Grows
  BY <1>2, <1>4 DEF Grows
<1>6. ASSUME NEW j \in Ids, documents'[j] # None
      PROVE  SubmittedAs(documents[j].tenant, documents[j].sha256, documents[j].doc_type)'
  <2>1. CASE j = i
    BY <1>1, <1>4, <2>1 DEF SubmittedAs
  <2>2. CASE j # i
    BY <1>4, <1>6, <2>2 DEF RowInv, SubmittedAs
  <2> QED BY <2>1, <2>2
<1>7. Taken(t, file)'
  BY <1>1, <1>3, <1>4 DEF Taken
<1> QED BY <1>1, <1>3, <1>4, <1>5, <1>6, <1>7 DEF RowInv

LEMMA UploadInsertKeeps ==
    ASSUME IInv, TableInv, NEW r \in Requests, UploadInsert(r)
    PROVE  TableInv'
<1> DEFINE t == request[r].tenant
           file == request[r].file
<1>1. /\ request[r].at = "insert"
      /\ UNCHANGED <<objects, unsent, notices, parseQueue, thread, submitted, dropped>>
  BY DEF UploadInsert, storeVars, history
<1>2. /\ t \in Tenants /\ file \in Files /\ request[r].doc_type \in Slugs
      /\ SubmittedAs(t, file, request[r].doc_type)
      /\ Typed /\ StoreInv /\ RowInv /\ DropInv
  BY <1>1 DEF TableInv, RequestAt
<1>3. CASE \E i \in Existing(t, file) : Reply(r, "200", i) /\ UNCHANGED documents
  <2>1. PICK i \in Existing(t, file) : Reply(r, "200", i) /\ documents' = documents
    BY <1>3
  <2>2. Names(r)'
    BY <2>1, FoundIsNamed, Replied DEF Names
  <2>3. RequestAt(r)' /\ ~Created(r)'
    BY <1>1, <1>2, <2>1, <2>2, Replied DEF RequestAt, Created
  <2>4. UNCHANGED <<storeVars, tableVars, thread, history>>
    BY <1>1, <2>1 DEF storeVars, tableVars, history
  <2> QED BY <2>1, <2>3, <2>4, Replied, OnlyRequest
<1>4. CASE /\ ~Taken(t, file)
           /\ \E i \in Ids : /\ Insert(i, t, UploadKey(r), file, request[r].doc_type, "received")
                             /\ Reply(r, "send", i)
  <2>1. PICK i \in Ids : /\ Insert(i, t, UploadKey(r), file, request[r].doc_type, "received")
                         /\ Reply(r, "send", i)
    BY <1>4
  <2>2. UploadKey(r) \in Key
    BY <1>2 DEF UploadKey, Key
  <2>3. /\ Grows /\ RowInv' /\ documents' \in [Ids -> Row \cup {None}]
        /\ documents'[i] # None /\ documents'[i].tenant = t /\ documents'[i].sha256 = file
    BY <1>1, <1>2, <2>1, <2>2, InsertKeeps
  <2>4. Typed' /\ StoreInv' /\ OwnEvents'
    BY <1>1, <1>2, <2>3 DEF Typed, StoreInv, Good, SubmittedAs, TableInv, OwnEvents
  <2>5. RequestAt(r)'
    BY <1>1, <1>2, <2>1, <2>3, Replied DEF RequestAt, Names
  <2>6. \A q \in Requests : RequestAt(q)'
    BY <2>1, <2>3, <2>5, Replied, RequestStays DEF TableInv
  <2>7. OneCreator'
    <3>1. ASSUME NEW q \in Requests, q # r, Created(q) PROVE ~(request[q].tenant = t /\ request[q].file = file)
      <4>1. Names(q)
        BY <3>1 DEF TableInv, RequestAt, Created
      <4> QED BY <1>4, <4>1 DEF Names, Taken
    <3>2. /\ \A q \in Requests \ {r} : request'[q] = request[q]
          /\ request'[r].tenant = t /\ request'[r].file = file
      BY <2>1, Replied
    <3> QED BY <3>1, <3>2 DEF TableInv, OneCreator, Created
  <2>8. \A w \in Threads : ThreadAt(w)'
    BY <1>1, <1>2, <2>3, ThreadStays DEF TableInv
  <2>9. DropInv'
    BY <1>1, <1>2, <2>3, DropsStay
  <2> QED BY <2>3, <2>4, <2>6, <2>7, <2>8, <2>9 DEF TableInv
<1> QED BY <1>3, <1>4 DEF UploadInsert

LEMMA UploadSendKeeps ==
    ASSUME IInv, TableInv, NEW r \in Requests, UploadSend(r)
    PROVE  TableInv'
<1>1. /\ request[r].at = "send" /\ To(r, "202")
      /\ parseQueue' = parseQueue \cup {[document |-> request[r].id, tenant |-> request[r].tenant]}
      /\ UNCHANGED <<objects, unsent, notices, documents, thread, submitted, dropped>>
  BY DEF UploadSend, storeVars, history
<1>2. RequestAt(r) /\ Typed /\ StoreInv /\ DropInv
  BY DEF TableInv
<1>3. request[r].id \in Ids /\ request[r].tenant \in Tenants
  BY <1>1, <1>2 DEF RequestAt, Names
<1>4. Typed' /\ StoreInv' /\ OwnEvents' /\ RowInv'
  BY <1>1, <1>2, <1>3 DEF Typed, Message, StoreInv, Good, SubmittedAs, TableInv, OwnEvents, RowInv
<1>5. Grows
  BY <1>1, NothingGrows
<1>6. RequestAt(r)'
  BY <1>1, <1>2, Moved DEF RequestAt, Names
<1>7. \A q \in Requests : RequestAt(q)'
  BY <1>1, <1>5, <1>6, Moved, RequestStays DEF TableInv
<1>8. OneCreator'
  BY <1>1, Moved DEF TableInv, OneCreator, Created
<1>9. \A w \in Threads : ThreadAt(w)'
  BY <1>1, <1>2, <1>5, ThreadStays DEF TableInv
<1>10. DropInv'
  BY <1>1, <1>2, <1>5, DropsStay
<1> QED BY <1>4, <1>7, <1>8, <1>9, <1>10 DEF TableInv

LEMMA UploadTable ==
    ASSUME IInv, TableInv, NEW r \in Requests, Upload(r)
    PROVE  TableInv'
<1>1. ASSUME NEW key \in ApiKeys \cup {NoKey}, Unauthorized(r, key) PROVE TableInv'
  BY <1>1, DenyKeeps DEF Unauthorized
<1>2. CASE UploadFails(r)
  BY <1>2, DenyKeeps DEF UploadFails
<1> QED BY <1>1, <1>2, AcceptTable, ReadKeeps, UploadPutKeeps, UploadInsertKeeps,
           UploadSendKeeps DEF Upload

--------------------------------------------------------------------------
(* The store's steps.                                                      *)

\* No drop is forgotten when none of the keys that were dropped is.
LEMMA AllOwed ==
    ASSUME DropInv, dropped' = dropped,
           \A key \in Key : key.area = "dropbox" /\ Owed(key) => Owed(key)'
    PROVE  DropInv'
<1>1. dropped \in Seq(Key) /\ \A k \in 1..Len(dropped) : dropped[k] \in Key
  BY DEF DropInv
<1>2. ASSUME NEW k \in 1..Len(dropped) PROVE Owed(dropped[k])'
  <2>1. PICK d \in Key : d = dropped[k]
    BY <1>1
  <2>2. d.area = "dropbox" /\ Owed(d)
    BY <2>1 DEF DropInv
  <2>3. Owed(d)'
    BY <2>2
  <2>4. dropped'[k] = d
    BY <2>1
  <2> QED BY <2>3, <2>4 DEF Owed, Waiting, ToDo, Taken
<1> QED BY <1>1, <1>2 DEF DropInv

\* With the store left alone, what is owed stays owed if no event of it is passed over.
LEMMA OwedBy ==
    ASSUME Grows, NEW key \in Key, Owed(key), UNCHANGED <<objects, unsent>>,
           \A n \in 1..MaxNotices : Waiting(n, key) =>
              Waiting(n, key)' \/ Taken(key.tenant, objects[key])'
    PROVE  Owed(key)'
<1>1. Taken(key.tenant, objects[key]) => Taken(key.tenant, objects[key])'
  BY DEF Taken, Grows
<1> QED BY <1>1 DEF Owed

LEMMA DropKeeps ==
    ASSUME TableInv, NEW key \in Key, NEW file \in Files, Drop(key, file)
    PROVE  TableInv'
<1>1. /\ Put(key, file) /\ key.area = "dropbox"
      /\ dropped' = Append(dropped, key)
      /\ UNCHANGED <<notices, documents, parseQueue, thread, request>>
      /\ submitted' = submitted \cup {[tenant |-> key.tenant, file |-> file,
                                       doc_type |-> RouteType(key)]}
  BY DEF Drop, tableVars, RouteType
<1>2. Typed /\ StoreInv /\ DropInv
  BY DEF TableInv
<1>3. /\ Grows /\ StoreInv'
      /\ objects' \in [Key -> Files \cup {None}] /\ unsent' \in Seq(Ref)
      /\ \A k \in Key \ {key} : objects'[k] = objects[k]
      /\ \A k \in 1..Len(unsent) : unsent'[k] = unsent[k]
      /\ Len(unsent') = Len(unsent) + 1 /\ unsent'[Len(unsent')].key = key
  BY <1>1, <1>2, PutKeeps DEF SubmittedAs
<1>4. Typed' /\ OwnEvents' /\ OneCreator'
  BY <1>1, <1>2, <1>3 DEF Typed, TableInv, OwnEvents, OneCreator, Created
<1>5. RowInv'
  BY <1>1, <1>3 DEF TableInv, RowInv, SubmittedAs, Grows
<1>6. \A r \in Requests : RequestAt(r)'
  BY <1>1, <1>3, RequestStays DEF TableInv
<1>7. \A w \in Threads : ThreadAt(w)'
  BY <1>1, <1>2, <1>3, ThreadStays DEF TableInv
<1>8. DropInv'
  <2>1. /\ dropped' \in Seq(Key) /\ dropped \in Seq(Key) /\ Len(dropped') = Len(dropped) + 1
        /\ \A k \in 1..Len(dropped) : dropped'[k] = dropped[k]
        /\ dropped'[Len(dropped) + 1] = key
    BY <1>1, <1>2, AppendProperties DEF DropInv
  <2>2. ASSUME NEW k \in 1..Len(dropped') PROVE dropped'[k].area = "dropbox" /\ Owed(dropped[k])'
    <3>1. PICK d \in Key : d = dropped'[k] /\ d.area = "dropbox" /\ (d = key \/ Owed(d))
      <4>1. CASE k = Len(dropped) + 1
        BY <1>1, <2>1, <4>1
      <4>2. CASE k # Len(dropped) + 1
        <5>1. k \in 1..Len(dropped)
          BY <2>1, <4>2
        <5>2. dropped[k] \in Key
          BY <2>1, <5>1
        <5> QED BY <1>2, <2>1, <5>1, <5>2 DEF DropInv
      <4> QED BY <4>1, <4>2
    <3>2. Owed(d)'
      BY <1>1, <1>2, <1>3, <3>1, PutOwes
    <3> QED BY <3>1, <3>2 DEF Owed, Waiting, ToDo, Taken
  <2> QED BY <2>1, <2>2 DEF DropInv
<1> QED BY <1>3, <1>4, <1>5, <1>6, <1>7, <1>8 DEF TableInv

\* The event that is published owes what its records tell of.
LEMMA PublishKeeps ==
    ASSUME TableInv, NEW n \in 1..MaxNotices, Publish(n)
    PROVE  TableInv'
<1> DEFINE event == [records |-> unsent, receives |-> 0, visible |-> TRUE]
<1>1. /\ notices[n] = None /\ notices' = [notices EXCEPT ![n] = event]
      /\ unsent' = unsent \/ unsent' = <<>>
      /\ UNCHANGED <<objects, documents, parseQueue, request, thread, submitted, dropped>>
  BY DEF Publish, tableVars, history
<1>2. /\ Typed /\ StoreInv /\ DropInv /\ Grows
      /\ notices \in [1..MaxNotices -> Notice \cup {None}] /\ unsent \in Seq(Ref)
  BY <1>1, NothingGrows DEF TableInv, Typed
<1>3. event \in Notice /\ event.records = unsent /\ event # None
  <2>1. 0 \in Nat /\ TRUE \in BOOLEAN
    OBVIOUS
  <2>2. event \in Notice
    BY <1>2, <2>1, Zenon DEF Notice
  <2> QED BY <2>2, NoneAssumption
<1> HIDE DEF event
<1>4. notices'[n] = event /\ \A m \in (1..MaxNotices) \ {n} : notices'[m] = notices[m]
  BY <1>1, <1>2
<1>5. Typed'
  <2>1. notices' \in [1..MaxNotices -> Notice \cup {None}] /\ unsent' \in Seq(Ref)
    BY <1>1, <1>2, <1>3, EmptySeq
  <2> QED BY <1>1, <1>2, <2>1 DEF Typed
<1>6. StoreInv'
  <2>1. Good(unsent)' /\ Good(unsent)
    BY <1>1, <1>2 DEF StoreInv, Good
  <2>2. ASSUME NEW m \in 1..MaxNotices, notices'[m] # None PROVE Good(notices[m].records)'
    BY <1>1, <1>2, <1>3, <1>4, <2>1, <2>2 DEF StoreInv, Good
  <2> QED BY <1>1, <1>2, <2>1, <2>2 DEF StoreInv, SubmittedAs
<1>7. RowInv' /\ OwnEvents' /\ OneCreator'
  BY <1>1 DEF TableInv, RowInv, SubmittedAs, OwnEvents, OneCreator, Created
<1>8. \A r \in Requests : RequestAt(r)'
  BY <1>1, <1>2, RequestStays DEF TableInv
<1>9. ASSUME NEW w \in Threads PROVE ThreadAt(w) /\ (thread[w].at # "idle" => thread[w].notice # n)
  BY <1>1, <1>9 DEF TableInv, ThreadAt
<1>10. ASSUME NEW w \in Threads PROVE ThreadAt(w)'
  <2>1. thread[w].at # "idle" => notices'[thread[w].notice] = notices[thread[w].notice]
    BY <1>4, <1>9 DEF ThreadAt
  <2> QED BY <1>1, <1>2, <1>9, <2>1, ThreadStays
<1>11. ASSUME NEW key \in Key, Owed(key) PROVE Owed(key)'
  <2>1. \A w : ToDo(w, key) => ToDo(w, key)'
    BY <1>1 DEF ToDo
  <2>2. (\E k \in 1..Len(unsent) : unsent[k].key = key) => Waiting(n, key)'
    BY <1>1, <1>3, <1>4, <1>9 DEF Waiting
  <2>3. \A m \in 1..MaxNotices : Waiting(m, key) => Waiting(m, key)'
    BY <1>1, <1>4, <2>1 DEF Waiting
  <2>4. Taken(key.tenant, objects[key]) => Taken(key.tenant, objects[key])'
    BY <1>1 DEF Taken
  <2> QED BY <1>11, <2>2, <2>3, <2>4 DEF Owed
<1>12. DropInv'
  BY <1>1, <1>2, <1>11, AllOwed
<1> QED BY <1>5, <1>6, <1>7, <1>8, <1>10, <1>12 DEF TableInv

--------------------------------------------------------------------------
(* The threads.                                                            *)

\* A step of a thread within its event. What is left to show is what the thread holds
\* after it, and that it passes over no drop.
LEMMA ThreadMoves ==
    ASSUME TableInv, NEW w \in Threads, thread[w].at # "idle",
           UNCHANGED <<objects, unsent, notices, request, submitted, dropped>>,
           Grows, documents' \in [Ids -> Row \cup {None}], RowInv', parseQueue' \subseteq Message,
           NEW job \in Job, thread' = [thread EXCEPT ![w] = job],
           job.at # "idle", job.notice = thread[w].notice, ThreadAt(w)',
           \A key \in Key : key.area = "dropbox" /\ ToDo(w, key) =>
              ToDo(w, key)' \/ Taken(key.tenant, objects[key])'
    PROVE  TableInv'
<1>1. /\ Typed /\ StoreInv /\ DropInv
      /\ thread \in [Threads -> Job]
  BY DEF TableInv, Typed
<1>2. thread'[w] = job /\ \A v \in Threads \ {w} : thread'[v] = thread[v]
  BY <1>1
<1>3. Typed'
  BY <1>1 DEF Typed
<1>4. StoreInv'
  BY <1>1 DEF StoreInv, Good, SubmittedAs
<1>5. OneCreator' /\ OwnEvents'
  BY <1>2, OwnStays DEF TableInv, OneCreator, Created
<1>6. \A r \in Requests : RequestAt(r)'
  BY RequestStays DEF TableInv
<1>7. \A v \in Threads : ThreadAt(v)'
  BY <1>1, <1>2, ThreadStays DEF TableInv
<1>8. ASSUME NEW key \in Key, key.area = "dropbox", Owed(key) PROVE Owed(key)'
  <2>1. \A v \in Threads \ {w} : ToDo(v, key) => ToDo(v, key)'
    BY <1>2 DEF ToDo
  <2>2. ASSUME NEW n \in 1..MaxNotices, Waiting(n, key), ~Taken(key.tenant, objects[key])'
        PROVE  Waiting(n, key)'
    <3>1. ASSUME NEW v \in Threads, thread'[v].at # "idle", thread'[v].notice = n
          PROVE  ToDo(v, key)'
      BY <1>2, <1>8, <2>1, <2>2, <3>1 DEF Waiting
    <3> QED BY <2>2, <3>1 DEF Waiting
  <2> QED BY <1>8, <2>2, OwedBy
<1>9. DropInv'
  BY <1>1, <1>8, AllOwed
<1> QED BY <1>3, <1>4, <1>5, <1>6, <1>7, <1>9 DEF TableInv

\* What a thread holds in its event.
LEMMA AtWork ==
    ASSUME TableInv, NEW w \in Threads, thread[w].at # "idle", thread[w].todo # <<>>
    PROVE  /\ thread[w] \in Job /\ thread[w].todo \in Seq(Ref) /\ Good(thread[w].todo)
           /\ Len(thread[w].todo) \in Nat \ {0}
           /\ Target(w) = thread[w].todo[1].key /\ Target(w) \in Key
           /\ objects[Target(w)] \in Files
           /\ Len(Tail(thread[w].todo)) = Len(thread[w].todo) - 1
           /\ Tail(thread[w].todo) \in Seq(Ref)
           /\ \A k \in 1..Len(Tail(thread[w].todo)) : Tail(thread[w].todo)[k] = thread[w].todo[k + 1]
<1>1. thread[w] \in Job /\ ThreadAt(w)
  BY DEF TableInv, Typed
<1>2. thread[w].todo \in Seq(Ref) /\ Good(thread[w].todo)
  BY <1>1 DEF Job, ThreadAt
<1> DEFINE todo == thread[w].todo
<1>3. todo \in Seq(Ref) /\ todo # <<>> /\ Good(todo) /\ Target(w) = Head(todo).key
  BY <1>2 DEF Target
<1> HIDE DEF todo
<1>4. Len(todo) \in Nat \ {0} /\ Head(todo) = todo[1] /\ todo[1] \in Ref
  BY <1>3
<1>5. /\ Len(Tail(todo)) = Len(todo) - 1 /\ Tail(todo) \in Seq(Ref)
      /\ \A k \in 1..Len(Tail(todo)) : Tail(todo)[k] = todo[k + 1]
  BY <1>3, HeadTailProperties
<1>6. todo[1].key \in Key /\ objects[todo[1].key] \in Files
  BY <1>3, <1>4, RefsHaveKeys DEF Good
<1> QED BY <1>1, <1>3, <1>4, <1>5, <1>6 DEF todo

\* A record that is done with was of another key, or its file has a row.
LEMMA PassedOver ==
    ASSUME TableInv, NEW w \in Threads, thread[w].at # "idle", thread[w].todo # <<>>,
           NextRecord(w), UNCHANGED <<objects, unsent, notices, request, submitted, dropped>>,
           Grows, documents' \in [Ids -> Row \cup {None}], RowInv', parseQueue' \subseteq Message,
           NEW t, NEW f, t = Target(w).tenant, f = thread[w].sha256,
           \/ Target(w).area # "dropbox"
           \/ thread[w].at \in {"select", "insert", "send"} /\ Taken(t, f)'
    PROVE  TableInv'
<1> DEFINE job == [thread[w] EXCEPT !.at = "route", !.todo = Tail(@), !.sha256 = None, !.id = None]
<1>1. /\ thread[w] \in Job /\ thread[w].todo \in Seq(Ref) /\ Good(thread[w].todo)
      /\ Len(thread[w].todo) \in Nat \ {0}
      /\ Target(w) = thread[w].todo[1].key
      /\ Len(Tail(thread[w].todo)) = Len(thread[w].todo) - 1
      /\ Tail(thread[w].todo) \in Seq(Ref)
      /\ \A k \in 1..Len(Tail(thread[w].todo)) : Tail(thread[w].todo)[k] = thread[w].todo[k + 1]
  BY AtWork
<1>2. /\ job \in Job /\ job.at = "route" /\ job.notice = thread[w].notice
      /\ job.todo = Tail(thread[w].todo)
  BY <1>1 DEF Job
<1>3. thread' = [thread EXCEPT ![w] = job] /\ thread \in [Threads -> Job]
  BY DEF NextRecord, TableInv, Typed
<1> HIDE DEF job
<1>4. thread'[w] = job
  BY <1>3
<1>5. Good(Tail(thread[w].todo))
  <2>1. ASSUME NEW k \in 1..Len(Tail(thread[w].todo))
        PROVE  k + 1 \in 1..Len(thread[w].todo)
    BY <1>1
  <2> QED BY <1>1, <2>1 DEF Good
<1>6. ThreadAt(w)'
  <2>1. ThreadAt(w)
    BY DEF TableInv
  <2>2. Good(thread[w].todo)'
    BY <1>2, <1>4, <1>5 DEF Good
  <2> QED BY <1>2, <1>4, <2>1, <2>2 DEF ThreadAt
<1>7. ASSUME NEW key \in Key, key.area = "dropbox", ToDo(w, key)
      PROVE  ToDo(w, key)' \/ Taken(key.tenant, objects[key])'
  <2>1. PICK k \in 1..Len(thread[w].todo) :
           /\ thread[w].todo[k].key = key
           /\ k = 1 /\ thread[w].at \in {"select", "insert", "send"} =>
                 thread[w].sha256 = objects[key]
    BY <1>7 DEF ToDo
  <2>2. CASE k = 1
    BY <1>1, <1>7, <2>1, <2>2
  <2>3. CASE k # 1
    <3>1. k - 1 \in 1..Len(Tail(thread[w].todo)) /\ (k - 1) + 1 = k
      BY <1>1, <2>3
    <3>2. thread'[w].todo[k - 1].key = key /\ thread'[w].at = "route"
      BY <1>1, <1>2, <1>4, <2>1, <3>1
    <3> QED BY <1>2, <1>4, <3>1, <3>2 DEF ToDo
  <2> QED BY <2>2, <2>3
<1> QED BY <1>2, <1>3, <1>6, <1>7, ThreadMoves

LEMMA SkipKeeps ==
    ASSUME TableInv, NEW w \in Threads, Skip(w)
    PROVE  TableInv'
<1>1. /\ thread[w].at = "route" /\ thread[w].todo # <<>> /\ NextRecord(w)
      /\ UNCHANGED <<objects, unsent, notices, documents, parseQueue, request, submitted, dropped>>
  BY DEF Skip, storeVars, tableVars, history
<1>2. Target(w).area # "dropbox"
  <2>1. Good(thread[w].todo) /\ 1 \in 1..Len(thread[w].todo)
    BY <1>1, AtWork
  <2>2. Wanted(Head(thread[w].todo))
    BY <1>1, <2>1, AtWork DEF Good, Wanted
  <2> QED BY <2>2 DEF Skip, Ours
<1>3. /\ Grows /\ documents' \in [Ids -> Row \cup {None}] /\ RowInv' /\ parseQueue' \subseteq Message
  BY <1>1, NothingGrows DEF TableInv, Typed, RowInv, SubmittedAs
<1> QED BY <1>1, <1>2, <1>3, PassedOver

\* The record is kept, and the thread goes on with it.
LEMMA KeepsRecord ==
    ASSUME TableInv, NEW w \in Threads, thread[w].at # "idle", thread[w].todo # <<>>,
           UNCHANGED <<objects, unsent, notices, request, submitted, dropped>>,
           Grows, documents' \in [Ids -> Row \cup {None}], RowInv', parseQueue' = parseQueue,
           NEW job \in Job, thread' = [thread EXCEPT ![w] = job],
           job.at \in {"select", "insert", "send"}, job.notice = thread[w].notice,
           job.todo = thread[w].todo, ThreadAt(w)',
           \/ job.sha256 = objects[Target(w)]
           \/ thread[w].at \in {"select", "insert", "send"} /\ job.sha256 = thread[w].sha256
    PROVE  TableInv'
<1>1. thread'[w] = job /\ parseQueue' \subseteq Message
  BY DEF TableInv, Typed
<1>2. Target(w) = thread[w].todo[1].key /\ Len(thread[w].todo) \in Nat
  BY AtWork
<1>3. ASSUME NEW key \in Key, ToDo(w, key) PROVE ToDo(w, key)'
  BY <1>1, <1>2, <1>3 DEF ToDo
<1> QED BY <1>1, <1>3, ThreadMoves

LEMMA FetchKeeps ==
    ASSUME TableInv, NEW w \in Threads, Fetch(w)
    PROVE  TableInv'
<1> DEFINE file == objects[Target(w)]
           job == [thread[w] EXCEPT !.at = "select", !.sha256 = file]
<1>1. /\ thread[w].at = "route" /\ thread[w].todo # <<>> /\ Target(w).area = "dropbox"
      /\ UNCHANGED <<objects, unsent, notices, documents, parseQueue, request, submitted, dropped>>
  BY DEF Fetch, Ours, storeVars, tableVars, history
<1>2. /\ thread[w] \in Job /\ Target(w) \in Key /\ file \in Files
      /\ ThreadAt(w) /\ StoreInv
  BY <1>1, AtWork DEF TableInv
<1>3. /\ job \in Job /\ job.at = "select" /\ job.notice = thread[w].notice
      /\ job.todo = thread[w].todo /\ job.sha256 = file
  BY <1>2 DEF Job
<1>4. SubmittedAs(Target(w).tenant, file, RouteType(Target(w)))
  BY <1>1, <1>2, NoneAssumption DEF StoreInv
<1>5. thread' = [thread EXCEPT ![w] = job] /\ thread \in [Threads -> Job]
  BY DEF Fetch, TableInv, Typed
<1> HIDE DEF job
<1>6. thread'[w] = job
  BY <1>5
<1>7. ThreadAt(w)'
  <2>1. Target(w)' = Target(w)
    BY <1>3, <1>6 DEF Target
  <2>2. thread'[w].sha256 \in Files
        /\ SubmittedAs(Target(w).tenant, thread[w].sha256, RouteType(Target(w)))'
    BY <1>1, <1>2, <1>3, <1>4, <1>6, <2>1 DEF SubmittedAs, RouteType
  <2>3. Good(thread[w].todo)'
    BY <1>1, <1>2, <1>3, <1>6 DEF Good, ThreadAt
  <2> QED BY <1>1, <1>2, <1>3, <1>6, <2>1, <2>2, <2>3 DEF ThreadAt
<1>8. /\ Grows /\ documents' \in [Ids -> Row \cup {None}] /\ RowInv'
  BY <1>1, NothingGrows DEF TableInv, Typed, RowInv, SubmittedAs
<1> QED BY <1>1, <1>3, <1>5, <1>7, <1>8, KeepsRecord

LEMMA IngestSelectKeeps ==
    ASSUME TableInv, NEW w \in Threads, IngestSelect(w)
    PROVE  TableInv'
<1> DEFINE job == [thread[w] EXCEPT !.at = "insert"]
<1>1. /\ thread[w].at = "select"
      /\ UNCHANGED <<objects, unsent, notices, documents, parseQueue, request, submitted, dropped>>
  BY DEF IngestSelect, storeVars, tableVars, history
<1>2. /\ Grows /\ documents' \in [Ids -> Row \cup {None}] /\ RowInv' /\ parseQueue' \subseteq Message
  BY <1>1, NothingGrows DEF TableInv, Typed, RowInv, SubmittedAs
<1>3. ThreadAt(w) /\ thread[w].todo # <<>>
  BY <1>1 DEF TableInv, ThreadAt
<1>4. CASE Existing(Target(w).tenant, thread[w].sha256) # {} /\ NextRecord(w)
  <2>1. PICK t, f : t = Target(w).tenant /\ f = thread[w].sha256
    OBVIOUS
  <2>2. Taken(t, f)
    BY <1>4, <2>1 DEF Existing, Visible, Taken
  <2>3. Taken(t, f)'
    BY <1>2, <2>2, TakenStays
  <2> QED BY <1>1, <1>2, <1>3, <1>4, <2>1, <2>3, PassedOver
<1>5. CASE Step(w, "insert")
  <2>1. thread[w] \in Job /\ thread \in [Threads -> Job]
    BY DEF TableInv, Typed
  <2>2. /\ job \in Job /\ job.at = "insert" /\ job.notice = thread[w].notice
        /\ job.todo = thread[w].todo /\ job.sha256 = thread[w].sha256
    BY <2>1 DEF Job
  <2>3. thread' = [thread EXCEPT ![w] = job]
    BY <1>5, <2>1 DEF Step
  <2> HIDE DEF job
  <2>4. thread'[w] = job
    BY <2>1, <2>3
  <2>5. ThreadAt(w)'
    <3>1. Target(w)' = Target(w)
      BY <2>2, <2>4 DEF Target
    <3>2. SubmittedAs(Target(w).tenant, thread[w].sha256, RouteType(Target(w)))'
      BY <1>1, <1>3, <2>2, <2>4, <3>1 DEF ThreadAt, SubmittedAs, RouteType
    <3>3. Good(thread[w].todo)'
      BY <1>1, <1>3, <2>2, <2>4 DEF Good, ThreadAt
    <3> QED BY <1>1, <1>3, <2>2, <2>4, <3>1, <3>2, <3>3 DEF ThreadAt
  <2> QED BY <1>1, <1>2, <1>3, <2>2, <2>3, <2>5, KeepsRecord
<1> QED BY <1>4, <1>5 DEF IngestSelect

LEMMA IngestInsertKeeps ==
    ASSUME TableInv, NEW w \in Threads, IngestInsert(w)
    PROVE  TableInv'
<1> DEFINE key == Target(w)
           file == thread[w].sha256
<1>1. /\ thread[w].at = "insert"
      /\ UNCHANGED <<objects, unsent, notices, parseQueue, request, submitted, dropped>>
  BY DEF IngestInsert, storeVars, history
<1>2. /\ ThreadAt(w) /\ thread[w].todo # <<>> /\ key.area = "dropbox" /\ file \in Files
      /\ SubmittedAs(key.tenant, file, RouteType(key)) /\ Typed /\ RowInv
      /\ parseQueue \subseteq Message
  BY <1>1 DEF TableInv, ThreadAt, Typed
<1>3. key \in Key /\ key.tenant \in Tenants /\ RouteType(key) \in Slugs
  <2>1. key \in Key
    BY <1>1, <1>2, AtWork
  <2> QED BY <2>1, IntakeAssumption DEF Key, RouteType
<1>4. PICK t, f : t = key.tenant /\ f = file
  OBVIOUS
<1>5. CASE Taken(t, f) /\ NextRecord(w) /\ UNCHANGED documents
  <2>1. /\ Grows /\ documents' \in [Ids -> Row \cup {None}] /\ RowInv'
    BY <1>1, <1>2, <1>5, NothingGrows DEF Typed, RowInv, SubmittedAs
  <2>2. Taken(t, f)'
    BY <1>5, <2>1, TakenStays
  <2> QED BY <1>1, <1>2, <1>4, <1>5, <2>1, <2>2, PassedOver
<1>6. ASSUME NEW i \in Ids, NEW status \in {"received", "failed"},
             Insert(i, t, key, f, RouteType(key), status)
      PROVE  /\ Grows /\ RowInv' /\ documents' \in [Ids -> Row \cup {None}] /\ Taken(t, f)'
  BY <1>1, <1>2, <1>3, <1>4, <1>6, InsertKeeps
<1>7. ASSUME NEW i \in Ids, Insert(i, t, key, f, RouteType(key), "failed"), NextRecord(w)
      PROVE  TableInv'
  BY <1>1, <1>2, <1>4, <1>6, <1>7, PassedOver
<1>8. ASSUME NEW i \in Ids, Insert(i, t, key, f, RouteType(key), "received"),
             thread' = [thread EXCEPT ![w].at = "send", ![w].id = i]
      PROVE  TableInv'
  <2> DEFINE job == [thread[w] EXCEPT !.at = "send", !.id = i]
  <2>1. thread[w] \in Job /\ thread \in [Threads -> Job]
    BY <1>2 DEF Typed
  <2>2. /\ job \in Job /\ job.at = "send" /\ job.notice = thread[w].notice
        /\ job.todo = thread[w].todo /\ job.sha256 = thread[w].sha256 /\ job.id = i
    BY <2>1 DEF Job
  <2>3. thread' = [thread EXCEPT ![w] = job]
    BY <1>8, <2>1
  <2> HIDE DEF job
  <2>4. thread'[w] = job
    BY <2>1, <2>3
  <2>5. Grows /\ RowInv' /\ documents' \in [Ids -> Row \cup {None}] /\ Taken(t, f)'
    BY <1>6, <1>8
  <2>6. ThreadAt(w)'
    <3>1. Target(w)' = Target(w)
      BY <2>2, <2>4 DEF Target
    <3>2. SubmittedAs(Target(w).tenant, thread[w].sha256, RouteType(Target(w)))'
      BY <1>1, <1>2, <2>2, <2>4, <3>1 DEF SubmittedAs, RouteType
    <3>3. Good(thread[w].todo)'
      BY <1>1, <1>2, <2>2, <2>4 DEF Good, ThreadAt
    <3>4. Taken(Target(w).tenant, thread[w].sha256)'
      BY <1>4, <2>2, <2>4, <2>5, <3>1 DEF Taken
    <3> QED BY <1>1, <1>2, <2>2, <2>4, <3>1, <3>2, <3>3, <3>4 DEF ThreadAt
  <2> QED BY <1>1, <1>2, <2>2, <2>3, <2>5, <2>6, KeepsRecord
<1> QED BY <1>4, <1>5, <1>7, <1>8 DEF IngestInsert

LEMMA IngestSendKeeps ==
    ASSUME TableInv, NEW w \in Threads, IngestSend(w)
    PROVE  TableInv'
<1>1. /\ thread[w].at = "send" /\ NextRecord(w)
      /\ parseQueue' = parseQueue \cup {[document |-> thread[w].id, tenant |-> Target(w).tenant]}
      /\ UNCHANGED <<objects, unsent, notices, documents, request, submitted, dropped>>
  BY DEF IngestSend, storeVars, history
<1>2. ThreadAt(w) /\ thread[w].todo # <<>> /\ thread[w].id \in Ids /\ parseQueue \subseteq Message
  BY <1>1 DEF TableInv, ThreadAt, Typed
<1>3. Target(w).tenant \in Tenants
  <2>1. Target(w) \in Key
    BY <1>1, <1>2, AtWork
  <2> QED BY <2>1 DEF Key
<1>4. /\ Grows /\ documents' \in [Ids -> Row \cup {None}] /\ RowInv' /\ parseQueue' \subseteq Message
  BY <1>1, <1>2, <1>3, NothingGrows DEF TableInv, Typed, RowInv, SubmittedAs, Message
<1>5. PICK t, f : t = Target(w).tenant /\ f = thread[w].sha256
  OBVIOUS
<1>6. Taken(t, f)'
  BY <1>1, <1>2, <1>4, <1>5, TakenStays DEF ThreadAt
<1> QED BY <1>1, <1>2, <1>4, <1>5, <1>6, PassedOver

\* A thread takes an event, or is done with it: nobody else has that event.
LEMMA EventMoves ==
    ASSUME TableInv, NEW w \in Threads, NEW n \in 1..MaxNotices,
           UNCHANGED <<objects, unsent, documents, parseQueue, request, submitted, dropped>>,
           NEW event \in Notice \cup {None}, notices' = [notices EXCEPT ![n] = event],
           event # None => notices[n] # None /\ event.records = notices[n].records,
           NEW job \in Job, thread' = [thread EXCEPT ![w] = job],
           job.at # "idle" => job.notice = n,
           \A v \in Threads \ {w} : thread[v].at # "idle" => thread[v].notice # n,
           ThreadAt(w)',
           \A key \in Key : Waiting(n, key) => Waiting(n, key)'
    PROVE  TableInv'
<1>1. /\ Typed /\ StoreInv /\ DropInv /\ Grows
      /\ thread \in [Threads -> Job] /\ notices \in [1..MaxNotices -> Notice \cup {None}]
  BY NothingGrows DEF TableInv, Typed
<1>2. /\ thread'[w] = job /\ \A v \in Threads \ {w} : thread'[v] = thread[v]
      /\ notices'[n] = event /\ \A m \in (1..MaxNotices) \ {n} : notices'[m] = notices[m]
  BY <1>1
<1>3. Typed'
  <2>1. notices' \in [1..MaxNotices -> Notice \cup {None}] /\ thread' \in [Threads -> Job]
    BY <1>1
  <2> QED BY <1>1, <2>1 DEF Typed
<1>4. StoreInv'
  <2>1. ASSUME NEW m \in 1..MaxNotices, notices'[m] # None PROVE Good(notices[m].records)'
    BY <1>1, <1>2, <2>1 DEF StoreInv, Good
  <2> QED BY <1>1, <2>1 DEF StoreInv, Good, SubmittedAs
<1>5. RowInv' /\ OneCreator'
  BY DEF TableInv, RowInv, SubmittedAs, OneCreator, Created
<1>6. OwnEvents'
  BY <1>2 DEF TableInv, OwnEvents
<1>7. \A r \in Requests : RequestAt(r)'
  BY <1>1, RequestStays DEF TableInv
<1>8. ASSUME NEW v \in Threads, v # w PROVE ThreadAt(v)'
  <2>1. ThreadAt(v)
    BY DEF TableInv
  <2>2. thread[v].at # "idle" => notices'[thread[v].notice] = notices[thread[v].notice]
    BY <1>2, <1>8, <2>1 DEF ThreadAt
  <2> QED BY <1>1, <1>2, <1>8, <2>1, <2>2, ThreadStays
<1>9. ASSUME NEW key \in Key, Owed(key) PROVE Owed(key)'
  <2>1. \A v \in Threads \ {w} : ToDo(v, key) => ToDo(v, key)'
    BY <1>2 DEF ToDo
  <2>2. \A m \in (1..MaxNotices) \ {n} : Waiting(m, key) => Waiting(m, key)'
    BY <1>2, <2>1 DEF Waiting
  <2> QED BY <1>1, <1>9, <2>2, OwedBy
<1>10. DropInv'
  BY <1>1, <1>9, AllOwed
<1> QED BY <1>3, <1>4, <1>5, <1>6, <1>7, <1>8, <1>10 DEF TableInv

LEMMA NoJobType == NoJob \in Job /\ NoJob.at = "idle" /\ NoJob.notice = None
<1>1. <<>> \in Seq(Ref)
  OBVIOUS
<1> QED BY <1>1 DEF NoJob, Job

(* A notice stays a notice, with its records, when it is delivered or handed back. *)
LEMMA NoticeChanges ==
    ASSUME NEW e \in Notice, NEW k \in Nat
    PROVE  /\ [e EXCEPT !.visible = FALSE, !.receives = k] \in Notice
           /\ [e EXCEPT !.visible = FALSE, !.receives = k].records = e.records
           /\ [e EXCEPT !.visible = FALSE, !.receives = k].visible = FALSE
           /\ [e EXCEPT !.visible = TRUE] \in Notice
           /\ [e EXCEPT !.visible = TRUE].records = e.records
<1>1. TRUE \in BOOLEAN
  OBVIOUS
<1>2. [e EXCEPT !.visible = FALSE, !.receives = k] \in Notice
  BY Zenon DEF Notice
<1>3. /\ [e EXCEPT !.visible = FALSE, !.receives = k].records = e.records
      /\ [e EXCEPT !.visible = FALSE, !.receives = k].visible = FALSE
  BY SMT DEF Notice
<1>4. [e EXCEPT !.visible = TRUE] \in Notice /\ [e EXCEPT !.visible = TRUE].records = e.records
  BY <1>1, Zenon DEF Notice
<1> QED BY <1>2, <1>3, <1>4

LEMMA ReceiveKeeps ==
    ASSUME TableInv, NEW w \in Threads, NEW n \in 1..MaxNotices, Receive(w, n)
    PROVE  TableInv'
<1> DEFINE event == [notices[n] EXCEPT !.visible = FALSE, !.receives = notices[n].receives + 1]
           job == [thread[w] EXCEPT !.at = "route", !.notice = n, !.todo = notices[n].records]
<1>1. /\ thread[w].at = "idle" /\ notices[n] # None /\ notices[n].visible
      /\ UNCHANGED <<objects, unsent, documents, parseQueue, request, submitted, dropped>>
  BY DEF Receive, tableVars, history
<1>2. /\ thread \in [Threads -> Job] /\ notices \in [1..MaxNotices -> Notice \cup {None}]
      /\ notices[n] \in Notice /\ thread[w] \in Job
  BY <1>1 DEF TableInv, Typed
<1>3. notices' = [notices EXCEPT ![n] = event] /\ thread' = [thread EXCEPT ![w] = job]
  BY <1>2 DEF Receive
<1>4. /\ notices[n].receives + 1 \in Nat /\ notices[n].records \in Seq(Ref)
      /\ FALSE \in BOOLEAN
  BY <1>2 DEF Notice
<1>5. event \in Notice /\ event.records = notices[n].records /\ event.visible = FALSE
  BY <1>2, <1>4, NoticeChanges
<1>6. job \in Job /\ job.at = "route" /\ job.notice = n /\ job.todo = notices[n].records
  BY <1>2, <1>4 DEF Job
<1> HIDE DEF event, job
<1>7. event # None
  BY <1>5, NoneAssumption
<1>8. thread'[w] = job /\ notices'[n] = event
  BY <1>2, <1>3
<1>9. ThreadAt(w)'
  <2>1. Good(notices[n].records)
    BY <1>1 DEF TableInv, StoreInv
  <2>2. Good(thread[w].todo)'
    BY <1>1, <1>6, <1>8, <2>1 DEF Good
  <2> QED BY <1>5, <1>6, <1>7, <1>8, <2>2 DEF ThreadAt
<1>10. \A v \in Threads : thread[v].at # "idle" => thread[v].notice # n
  BY <1>1 DEF TableInv, ThreadAt
<1>11. ASSUME NEW key \in Key, Waiting(n, key) PROVE Waiting(n, key)'
  <2>1. ToDo(w, key)'
    BY <1>6, <1>8, <1>11 DEF Waiting, ToDo
  <2>2. \A v \in Threads \ {w} : thread'[v] = thread[v]
    BY <1>3, <1>2
  <2> QED BY <1>5, <1>7, <1>8, <1>10, <1>11, <2>1, <2>2 DEF Waiting
<1> QED BY <1>1, <1>3, <1>5, <1>6, <1>9, <1>10, <1>11, EventMoves

LEMMA AcknowledgeKeeps ==
    ASSUME TableInv, NEW w \in Threads, Acknowledge(w)
    PROVE  TableInv'
<1> DEFINE n == thread[w].notice
<1>1. /\ thread[w].at = "route" /\ thread[w].todo = <<>>
      /\ notices' = [notices EXCEPT ![n] = None] /\ thread' = [thread EXCEPT ![w] = NoJob]
      /\ UNCHANGED <<objects, unsent, documents, parseQueue, request, submitted, dropped>>
  BY DEF Acknowledge, tableVars, history
<1>2. n \in 1..MaxNotices /\ thread \in [Threads -> Job]
  BY <1>1 DEF TableInv, ThreadAt, Typed
<1>3. \A v \in Threads \ {w} : thread[v].at # "idle" => thread[v].notice # n
  BY <1>1 DEF TableInv, OwnEvents
<1>4. ThreadAt(w)'
  BY <1>1, <1>2, NoJobType DEF ThreadAt
<1>5. ASSUME NEW key \in Key PROVE ~Waiting(n, key)
  BY <1>1 DEF Waiting, ToDo
<1> HIDE DEF n
<1> QED BY <1>1, <1>2, <1>3, <1>4, <1>5, NoJobType, EventMoves

LEMMA IngestFailsKeeps ==
    ASSUME TableInv, NEW w \in Threads, IngestFails(w)
    PROVE  TableInv'
<1>1. PICK n : n = thread[w].notice
  OBVIOUS
<1> DEFINE event == [notices[n] EXCEPT !.visible = TRUE]
<1>2. /\ thread[w].at # "idle"
      /\ thread' = [thread EXCEPT ![w] = NoJob]
      /\ UNCHANGED <<objects, unsent, documents, parseQueue, request, submitted, dropped>>
  BY DEF IngestFails, tableVars, history
<1>3. /\ thread \in [Threads -> Job] /\ notices \in [1..MaxNotices -> Notice \cup {None}]
      /\ n \in 1..MaxNotices /\ notices[n] # None
  BY <1>1, <1>2 DEF TableInv, ThreadAt, Typed
<1>4. notices' = [notices EXCEPT ![n] = event] /\ notices[n] \in Notice
  BY <1>1, <1>3 DEF IngestFails
<1>5. event \in Notice /\ event.records = notices[n].records
  BY <1>4, NoticeChanges
<1> HIDE DEF event
<1>6. \A v \in Threads \ {w} : thread[v].at # "idle" => thread[v].notice # n
  BY <1>1, <1>2 DEF TableInv, OwnEvents
<1>7. thread'[w] = NoJob /\ notices'[n] = event /\ event # None
      /\ \A v \in Threads \ {w} : thread'[v] = thread[v]
  BY <1>2, <1>3, <1>4, <1>5, NoneAssumption
<1>8. ThreadAt(w)'
  BY <1>7, NoJobType DEF ThreadAt
<1>9. ASSUME NEW key \in Key, Waiting(n, key) PROVE Waiting(n, key)'
  <2>1. \A v \in Threads : thread'[v].at # "idle" => thread'[v].notice # n
    BY <1>6, <1>7, NoJobType
  <2> QED BY <1>5, <1>7, <1>9, <2>1 DEF Waiting
<1> QED BY <1>2, <1>3, <1>4, <1>5, <1>6, <1>8, <1>9, NoJobType, EventMoves

LEMMA SweepKeeps ==
    ASSUME TableInv, NEW i \in Ids, Sweep(i)
    PROVE  TableInv'
<1>1. /\ documents[i] # None
      /\ parseQueue' = parseQueue \cup {[document |-> i, tenant |-> documents[i].tenant]}
      /\ UNCHANGED <<objects, unsent, notices, documents, request, thread, submitted, dropped>>
  BY DEF Sweep, storeVars, history
<1>2. Typed /\ StoreInv /\ DropInv /\ Grows
  BY <1>1, NothingGrows DEF TableInv
<1>3. documents[i].tenant \in Tenants
  <2>1. documents[i] \in Row
    BY <1>1, <1>2 DEF Typed
  <2> QED BY <2>1 DEF Row
<1>4. Typed' /\ StoreInv' /\ RowInv' /\ OneCreator' /\ OwnEvents'
  BY <1>1, <1>2, <1>3 DEF Typed, Message, StoreInv, Good, SubmittedAs, TableInv, RowInv,
                          OneCreator, Created, OwnEvents
<1>5. \A r \in Requests : RequestAt(r)'
  BY <1>1, <1>2, RequestStays DEF TableInv
<1>6. \A w \in Threads : ThreadAt(w)'
  BY <1>1, <1>2, ThreadStays DEF TableInv
<1>7. DropInv'
  BY <1>1, <1>2, DropsStay
<1> QED BY <1>4, <1>5, <1>6, <1>7 DEF TableInv

\* A step of the clock, or none.
LEMMA NothingWritten ==
    ASSUME TableInv, UNCHANGED <<storeVars, tableVars, request, thread, history>>
    PROVE  TableInv'
<1>1. UNCHANGED <<objects, unsent, notices, documents, parseQueue, request, thread, submitted,
                  dropped>>
  BY DEF storeVars, tableVars, history
<1>2. Typed /\ StoreInv /\ DropInv /\ Grows
  BY <1>1, NothingGrows DEF TableInv
<1>3. Typed' /\ StoreInv' /\ RowInv' /\ OneCreator' /\ OwnEvents'
  BY <1>1, <1>2 DEF Typed, StoreInv, Good, SubmittedAs, TableInv, RowInv, OneCreator, Created,
                    OwnEvents
<1>4. \A r \in Requests : RequestAt(r)'
  BY <1>1, <1>2, RequestStays DEF TableInv
<1>5. \A w \in Threads : ThreadAt(w)'
  BY <1>1, <1>2, ThreadStays DEF TableInv
<1>6. DropInv'
  BY <1>1, <1>2, DropsStay
<1> QED BY <1>3, <1>4, <1>5, <1>6 DEF TableInv

--------------------------------------------------------------------------
(* The invariant, and what follows from it.                                *)

LEMMA InitTable == Init => TableInv
<1> SUFFICES ASSUME Init PROVE TableInv
  OBVIOUS
<1>1. /\ objects = [k \in Key |-> None] /\ unsent = <<>>
      /\ notices = [n \in 1..MaxNotices |-> None] /\ documents = [i \in Ids |-> None]
      /\ parseQueue = {} /\ dropped = <<>>
      /\ thread = [w \in Threads |-> NoJob] /\ request = [r \in Requests |-> NoRequest]
  BY DEF Init
<1>2. <<>> \in Seq(Ref) /\ <<>> \in Seq(Key) /\ Len(<<>>) = 0
  OBVIOUS
<1>3. Typed
  BY <1>1, <1>2, NoJobType DEF Typed
<1>4. StoreInv
  BY <1>1, <1>2 DEF StoreInv, Good
<1>5. \A r \in Requests : request[r].at = "idle"
  BY <1>1 DEF NoRequest
<1>6. \A w \in Threads : thread[w].at = "idle" /\ thread[w].notice = None
  BY <1>1, NoJobType
<1>7. RowInv /\ OneCreator /\ OwnEvents
  BY <1>1, <1>5, <1>6 DEF RowInv, OneCreator, Created, OwnEvents
<1>8. (\A r \in Requests : RequestAt(r)) /\ (\A w \in Threads : ThreadAt(w))
  BY <1>5, <1>6 DEF RequestAt, ThreadAt
<1>9. DropInv
  BY <1>1, <1>2 DEF DropInv
<1> QED BY <1>3, <1>4, <1>7, <1>8, <1>9 DEF TableInv

LEMMA NextTable == IInv /\ TableInv /\ [Next]_vars => TableInv'
<1> SUFFICES ASSUME IInv, TableInv, [Next]_vars PROVE TableInv'
  OBVIOUS
<1>1. ASSUME NEW r \in Requests, Upload(r) PROVE TableInv'
  BY <1>1, UploadTable
<1>2. CASE Storage
  BY <1>2, DropKeeps, PublishKeeps DEF Storage
<1>3. ASSUME NEW w \in Threads, Ingest(w) PROVE TableInv'
  BY <1>3, SkipKeeps, FetchKeeps, IngestSelectKeeps, IngestInsertKeeps, IngestSendKeeps,
     AcknowledgeKeeps DEF Ingest
<1>4. ASSUME NEW w \in Threads, IngestFails(w) \/ \E n \in 1..MaxNotices : Receive(w, n)
      PROVE  TableInv'
  BY <1>4, IngestFailsKeeps, ReceiveKeeps
<1>5. ASSUME NEW i \in Ids, Sweep(i) PROVE TableInv'
  BY <1>5, SweepKeeps
<1>6. CASE UNCHANGED <<storeVars, tableVars, request, thread, history>>
  BY <1>6, NothingWritten
<1>7. UNCHANGED vars => UNCHANGED <<storeVars, tableVars, request, thread, history>>
  BY DEF vars
<1> QED BY <1>1, <1>2, <1>3, <1>4, <1>5, <1>6, <1>7 DEF Next

LEMMA Invariance == Spec => [](IInv /\ TableInv)
BY InitIInv, NextIInv, InitTable, NextTable, PTL DEF Spec

\* Every variable has its type, and a thread holds an event exactly while it works on it.
THEOREM IntakeTyping == Spec => []TypeOK
<1>1. IInv /\ TableInv => TypeOK
  <2> SUFFICES ASSUME IInv, TableInv PROVE TypeOK
    OBVIOUS
  <2>1. \A k \in 1..Len(unsent) : unsent[k] \in Ref
    BY RefsHaveKeys DEF TableInv, Typed
  <2>2. ASSUME NEW w \in Threads PROVE thread[w].at = "idle" <=> thread[w].notice = None
    BY NoneAssumption DEF TableInv, ThreadAt
  <2> QED BY <2>1, <2>2 DEF IInv, RateInv, RateType, TableInv, Typed, TypeOK
<1> QED BY <1>1, Invariance, PTL

\* A row is what somebody of its tenant handed in, under the type asked for, whichever of
\* upload_document and ingest_object made it and whatever ran between its read and insert.
THEOREM RowsComeFromSubmissions == Spec => []RowsWereSubmitted
<1>1. TableInv => RowsWereSubmitted
  BY DEF TableInv, RowInv, RowsWereSubmitted, SubmittedAs
<1> QED BY <1>1, Invariance, PTL

\* The document upload_document names in its reply is its tenant's and holds what was
\* sent, and of the requests that sent it only one is told that it created the document.
THEOREM RepliesAreTrue == Spec => []RepliesNameTheDocument
<1>1. TableInv => RepliesNameTheDocument
  BY DEF TableInv, RequestAt, Names, OneCreator, Created, RepliesNameTheDocument
<1> QED BY <1>1, Invariance, PTL

\* No drop is lost: what a dropped key holds has a row, or an event of the key is still
\* unpublished or on the queue, for any number of threads, overwrites and redeliveries.
THEOREM NoDropIsLost == Spec => []DropsAreAccounted
<1>1. TableInv => DropsAreAccounted
  BY DEF TableInv, DropInv, Owed, Waiting, DropsAreAccounted, Announced
<1> QED BY <1>1, Invariance, PTL

==========================================================================
