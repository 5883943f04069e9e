------------------------------ MODULE Budget -----------------------------
(***************************************************************************)
(* One tenant's budget: the tenant_spend counter, the cap it is charged    *)
(* against, and the workers whose metered model calls reserve the worst    *)
(* case, call the provider, settle to the real cost and log the usage      *)
(* event. Every transaction and every provider call is a step.             *)
(*                                                                         *)
(* Money is counted in whole units.                                        *)
(***************************************************************************)
EXTENDS Integers, FiniteSetsExt

CONSTANTS
    Workers,       \* extract threads of the fleet that work for the tenant
    Cap,           \* tenants.budget_usd at the start
    MaxCap,        \* bound on what an operator raises it to
    WorstCases,    \* worst-case prices a call may have (document size, model tier)
    Costs,         \* what one provider call may really cost
    Calls,         \* provider calls of one run_extraction: 2, the call and its correction
    Tries,         \* RetryPolicy.attempts of the metered call
    MaxGrants,     \* bound on the reservations granted
    StageErrors,   \* a transaction may raise
    ProviderFails, \* a provider call may raise
    Crashes        \* a worker may die between two steps

ASSUME BudgetAssumption ==
    /\ Cap \in Nat /\ MaxCap \in Nat
    /\ IsFiniteSet(Workers)
    /\ WorstCases \subseteq Nat /\ Costs \subseteq Nat
    /\ Calls \in Nat \ {0} /\ Tries \in Nat \ {0} /\ MaxGrants \in Nat
    /\ {StageErrors, ProviderFails, Crashes} \subseteq BOOLEAN

VARIABLES
    cap,       \* tenants.budget_usd
    spent,     \* tenant_spend.spent_usd
    unsettled, \* tenant_spend.unsettled_calls
    events,    \* SUM(usage_events.cost_usd)
    pc,        \* per worker: the step of _metered_extraction it is at
    held,      \* per worker: Reservation.reserved_usd
    cost,      \* per worker: price of the tokens the current run_extraction was billed
    nth, try,  \* per worker: the provider call of the run, the run of the retry
    granted,   \* bounding counter: reservations granted
    billed,    \* history: what the provider charged
    overrun    \* history: what settlements charged above their reservations

counters == <<spent, unsettled, events>>
callVars == <<held, cost, nth, try>>
vars == <<cap, counters, pc, callVars, granted, billed, overrun>>

Larger(x, y) == IF x >= y THEN x ELSE y

Init ==
    /\ cap = Cap
    /\ spent = 0 /\ unsettled = 0 /\ events = 0
    /\ pc = [w \in Workers |-> "idle"]
    /\ held = [w \in Workers |-> 0] /\ cost = [w \in Workers |-> 0]
    /\ nth = [w \in Workers |-> 1] /\ try = [w \in Workers |-> 1]
    /\ granted = 0 /\ billed = 0 /\ overrun = 0

At(w, p) == pc[w] = p
Goto(w, p) == pc' = [pc EXCEPT ![w] = p]

\* The worker is done with the call: its locals are gone.
Done(w) ==
    /\ Goto(w, "idle")
    /\ held' = [held EXCEPT ![w] = 0] /\ cost' = [cost EXCEPT ![w] = 0]
    /\ nth' = [nth EXCEPT ![w] = 1] /\ try' = [try EXCEPT ![w] = 1]

\* Mutant: the check asks whether the cap is reached, not whether the call fits.
X_Reserve(w, amount) ==
    /\ At(w, "idle") /\ granted < MaxGrants
    /\ spent < cap
    /\ spent' = spent + amount
    /\ unsettled' = unsettled + 1
    /\ held' = [held EXCEPT ![w] = amount]
    /\ granted' = granted + 1
    /\ Goto(w, "calling")
    /\ UNCHANGED <<cap, events, cost, nth, try, billed, overrun>>

\* reserve: check and charge in one UPDATE. A refused call changes nothing.
Reserve(w, amount) ==
    /\ At(w, "idle") /\ granted < MaxGrants
    /\ spent + amount <= cap
    /\ spent' = spent + amount
    /\ unsettled' = unsettled + 1
    /\ held' = [held EXCEPT ![w] = amount]
    /\ granted' = granted + 1
    /\ Goto(w, "calling")
    /\ UNCHANGED <<cap, events, cost, nth, try, billed, overrun>>

\* One provider call of run_extraction answers: a valid record, a refusal, or an
\* answer to be corrected by the next call, which repeats the prompt and adds to it.
\* Any call may cost more than the worst case it was priced at: the estimate is four
\* characters to a token and leaves out the schema that is sent with the text.
ProviderAnswers(w, c) ==
    /\ At(w, "calling")
    /\ billed' = billed + c
    /\ cost' = [cost EXCEPT ![w] = @ + c]
    /\ \/ Goto(w, "settle") /\ UNCHANGED nth
       \/ nth[w] < Calls /\ nth' = [nth EXCEPT ![w] = @ + 1] /\ UNCHANGED pc
    /\ UNCHANGED <<cap, counters, held, try, granted, overrun>>

\* A provider call raises and retry_transient starts run_extraction again, which
\* counts its tokens from zero; or the retries are over, or not worth it, or the
\* circuit is open.
ProviderRaises(w) ==
    /\ ProviderFails
    /\ At(w, "calling")
    /\ \/ /\ try[w] < Tries
          /\ try' = [try EXCEPT ![w] = @ + 1]
          /\ cost' = [cost EXCEPT ![w] = 0] /\ nth' = [nth EXCEPT ![w] = 1]
          /\ UNCHANGED pc
       \/ Goto(w, "release") /\ UNCHANGED <<try, cost, nth>>
    /\ UNCHANGED <<cap, counters, held, granted, billed, overrun>>

\* _SETTLE: the counter moves from the reservation to the actual cost.
SettleTo(w, actual) ==
    /\ spent' = Larger(spent + (actual - held[w]), 0)
    /\ unsettled' = Larger(unsettled - 1, 0)
    /\ overrun' = overrun + Larger(actual - held[w], 0)
    /\ UNCHANGED <<cap, events, granted, billed>>

\* Mutant: a failed call leaves the books without giving its money back.
X_Release(w) ==
    /\ At(w, "release")
    /\ unsettled' = Larger(unsettled - 1, 0)
    /\ Done(w)
    /\ UNCHANGED <<cap, spent, events, granted, billed, overrun>>

Release(w) ==
    /\ At(w, "release")
    /\ SettleTo(w, 0)
    /\ Done(w)

\* Mutant: settling gives the reservation back and forgets the cost.
X_Settle(w) ==
    /\ At(w, "settle")
    /\ SettleTo(w, 0)
    /\ Goto(w, "record")
    /\ UNCHANGED callVars

Settle(w) ==
    /\ At(w, "settle")
    /\ SettleTo(w, cost[w])
    /\ Goto(w, "record")
    /\ UNCHANGED callVars

RecordUsage(w) ==
    /\ At(w, "record")
    /\ events' = events + cost[w]
    /\ Done(w)
    /\ UNCHANGED <<cap, spent, unsettled, granted, billed, overrun>>

\* A transaction of release, settle or record_usage raises, or the worker dies.
Abandon(w) ==
    /\ \/ StageErrors /\ pc[w] \in {"release", "settle", "record"}
       \/ Crashes /\ pc[w] # "idle"
    /\ Done(w)
    /\ UNCHANGED <<cap, counters, granted, billed, overrun>>

\* An operator raises the cap.
RaiseCap ==
    /\ cap < MaxCap
    /\ cap' = cap + 1
    /\ UNCHANGED <<counters, pc, callVars, granted, billed, overrun>>

Next ==
    \/ \E w \in Workers :
         \/ \E amount \in WorstCases : Reserve(w, amount)
         \/ \E c \in Costs : ProviderAnswers(w, c)
         \/ ProviderRaises(w) \/ Release(w) \/ Settle(w) \/ RecordUsage(w) \/ Abandon(w)
    \/ RaiseCap

Spec == Init /\ [][Next]_vars

--------------------------------------------------------------------------
(* Properties.                                                             *)

\* Every amount is a natural number, and a worker is within its calls and its tries.
TypeOK ==
    /\ {cap, spent, unsettled, events, granted, billed, overrun} \subseteq Nat
    /\ pc \in [Workers -> {"idle", "calling", "release", "settle", "record"}]
    /\ held \in [Workers -> Nat] /\ cost \in [Workers -> Nat]
    /\ nth \in [Workers -> 1..Calls] /\ try \in [Workers -> 1..Tries]

Outstanding == {w \in Workers : pc[w] \in {"calling", "release", "settle"}}
Reserved   == MapThenSumSet(LAMBDA w : held[w], Outstanding)
Unrecorded == MapThenSumSet(LAMBDA w : cost[w], {w \in Workers : pc[w] = "record"})

\* However many workers race for what is left of the budget, the counter passes the cap
\* by no more than what finished calls cost above their reservations.
OverCapOnlyByOverrun == spent <= cap + overrun

\* The counter over-counts, the safe direction: whichever steps are lost to crashes and
\* exceptions, it covers every usage event, every call that is still to be logged, and
\* every reservation in flight.
CounterCovers == spent >= events + Unrecorded + Reserved

\* What a lost worker leaves charged is visible: the counter holds more than the
\* provider billed and the running reservations only while a call stays unsettled.
OvercountIsVisible ==
    spent > billed + Reserved => unsettled > Cardinality(Outstanding)

==========================================================================
