---------------------------- MODULE RateLimit ----------------------------
(***************************************************************************)
(* The token bucket in front of the upload endpoint: one row per tenant,   *)
(* filled and spent by a single conditional UPDATE. Postgres' now() is the *)
(* start of the transaction, so a check that waited for the row's lock     *)
(* fills the bucket by a time that has passed, and moves refilled_at back. *)
(***************************************************************************)
EXTENDS Integers

CONSTANTS
    Tenants,   \* the tenants that upload
    NoBucket,  \* a tenant with no row in tenant_rate_limits yet
    Burst,     \* settings.rate_limit_burst
    Rate,      \* tokens a bucket gains per tick of the clock
    MaxClock   \* bound on the clock

ASSUME RateLimitAssumption == Burst \in Nat /\ Rate \in Nat /\ MaxClock \in Nat

VARIABLES
    bucket,  \* tenant_rate_limits: the tokens of each tenant and refilled_at
    clock,   \* the database's clock
    granted  \* history: uploads allowed per tenant

rateVars == <<bucket, clock, granted>>

Bucket == [tokens : Int, refilled_at : 0..MaxClock]
ASSUME NoBucketAssumption == NoBucket \notin Bucket

RateInit ==
    /\ bucket = [t \in Tenants |-> NoBucket]
    /\ clock = 0
    /\ granted = [t \in Tenants |-> 0]

\* _ENSURE_BUCKET: the row a transaction begun at `now` finds or makes.
Ensured(t, now) ==
    IF bucket[t] = NoBucket THEN [tokens |-> Burst, refilled_at |-> now] ELSE bucket[t]

\* Mutant: a time before refilled_at earns nothing, instead of giving back what that
\* time had earned: the same tick is credited again by the next check.
X_Filled(b, now) ==
    LET elapsed == IF now > b.refilled_at THEN now - b.refilled_at ELSE 0
        tokens == b.tokens + Rate * elapsed
    IN  IF tokens < Burst THEN tokens ELSE Burst

\* LEAST(tokens + elapsed * refill_per_second, burst).
Filled(b, now) ==
    LET tokens == b.tokens + Rate * (now - b.refilled_at)
    IN  IF tokens < Burst THEN tokens ELSE Burst

\* _SPEND: fill, check and take in one statement.
Spend(t, now) ==
    /\ Filled(Ensured(t, now), now) >= 1
    /\ bucket' = [bucket EXCEPT ![t] =
                    [tokens |-> Filled(Ensured(t, now), now) - 1, refilled_at |-> now]]
    /\ granted' = [granted EXCEPT ![t] = @ + 1]
    /\ UNCHANGED clock

\* check_rate_limit says no: the row it ensured is kept, nothing else is written.
Refuse(t, now) ==
    /\ Filled(Ensured(t, now), now) < 1
    /\ bucket' = [bucket EXCEPT ![t] = Ensured(t, now)]
    /\ UNCHANGED <<clock, granted>>

Tick ==
    /\ clock < MaxClock
    /\ clock' = clock + 1
    /\ UNCHANGED <<bucket, granted>>

\* A tenant is never let through faster than its rate allows, however long its checks
\* wait for the row and in whatever order they get it: since the first upload no more
\* than a burst and what the clock has earned.
GrantBound == \A t \in Tenants : granted[t] <= Burst + Rate * clock

==========================================================================
