----------------------------- MODULE Breaker -----------------------------
(***************************************************************************)
(* The circuit breaker in front of the model provider, and the bounded     *)
(* retry inside it, in one worker process. A caller asks the breaker,      *)
(* sends up to Attempts calls, and records the outcome; every one of those *)
(* is a step, so callers and the clock interleave between them.            *)
(*                                                                         *)
(* The clock is one bit: the cooldown since opened_at has run out or not.  *)
(***************************************************************************)
EXTENDS Errors

CONSTANTS
    Callers,       \* threads of the process that call the provider
    Threshold,     \* settings.breaker_threshold
    Attempts,      \* RetryPolicy.attempts of the metered call
    RequestErrors, \* what is raised while the provider can answer
    OutageErrors,  \* what is raised while it cannot: it is down, or too busy
    Resets         \* an operator may reset the breaker

ASSUME BreakerAssumption ==
    /\ Threshold \in Nat \ {0}
    /\ Attempts \in Nat \ {0}
    /\ RequestErrors \cup OutageErrors \subseteq Exceptions
    /\ Resets \in BOOLEAN

VARIABLES
    failures, \* BreakerState.failures
    circuit,  \* CircuitBreaker.state: what opened_at and the clock make of it
    probe,    \* BreakerState.half_open_probe
    pc,       \* per caller: what it is doing
    tried,    \* per caller: the attempt of retry_transient it is in
    up,       \* the provider answers
    wasted    \* history: calls the provider failed since it last answered one, or
              \* since the circuit last opened or was reset

breakerVars == <<failures, circuit, probe>>
vars == <<breakerVars, pc, tried, up, wasted>>

Init ==
    /\ failures = 0
    /\ circuit = "closed" /\ probe = FALSE
    /\ pc = [c \in Callers |-> "idle"]
    /\ tried = [c \in Callers |-> 0]
    /\ up = TRUE
    /\ wasted = 0

Goto(c, p) == pc' = [pc EXCEPT ![c] = p]

\* call: allow() says yes, and in half-open takes the one probe.
Allow(c) ==
    /\ pc[c] = "idle"
    /\ \/ circuit = "closed" /\ UNCHANGED probe
       \/ circuit = "half_open" /\ ~probe /\ probe' = TRUE
    /\ Goto(c, "calling")
    /\ tried' = [tried EXCEPT ![c] = 1]
    /\ UNCHANGED <<failures, circuit, up, wasted>>

\* retry_transient: the provider answers.
Answered(c) ==
    /\ pc[c] = "calling"
    /\ up
    /\ wasted' = 0
    /\ Goto(c, "succeeded")
    /\ UNCHANGED <<breakerVars, tried, up>>

\* A transient failure is tried again, up to Attempts times.
Retry(c) ==
    IF tried[c] < Attempts
      THEN tried' = [tried EXCEPT ![c] = @ + 1] /\ UNCHANGED pc
      ELSE Goto(c, "failed") /\ UNCHANGED tried

\* An attempt raises, and its verdict decides whether there is another.
Raised(c) ==
    /\ pc[c] = "calling"
    /\ \E e \in IF up THEN RequestErrors ELSE OutageErrors :
          IF Classify(e) = "permanent"
            THEN Goto(c, "rejected") /\ UNCHANGED tried
            ELSE Retry(c)
    /\ wasted' = IF up THEN 0 ELSE wasted + 1
    /\ UNCHANGED <<breakerVars, up>>

Return(c) == Goto(c, "idle") /\ tried' = [tried EXCEPT ![c] = 0]

RecordSuccess(c) ==
    /\ pc[c] = "succeeded"
    /\ failures' = 0
    /\ circuit' = "closed" /\ probe' = FALSE
    /\ Return(c)
    /\ UNCHANGED <<up, wasted>>

\* Mutant: a failed probe re-opens the circuit and stays the probe.
X_RecordFailure(c) ==
    /\ pc[c] = "failed"
    /\ \/ /\ probe
          /\ circuit' = "open"
          /\ UNCHANGED <<failures, probe>>
       \/ /\ ~probe
          /\ failures' = failures + 1
          /\ circuit' = IF circuit = "closed" /\ failures + 1 >= Threshold
                          THEN "open" ELSE circuit
          /\ UNCHANGED probe
    /\ wasted' = IF circuit' = "open" THEN 0 ELSE wasted
    /\ Return(c)
    /\ UNCHANGED up

\* record_failure of a transient error: a failed probe re-opens, another counts.
RecordFailure(c) ==
    /\ pc[c] = "failed"
    /\ \/ /\ probe
          /\ probe' = FALSE
          /\ circuit' = "open"
          /\ UNCHANGED failures
       \/ /\ ~probe
          /\ failures' = failures + 1
          /\ circuit' = IF circuit = "closed" /\ failures + 1 >= Threshold
                          THEN "open" ELSE circuit
          /\ UNCHANGED probe
    /\ wasted' = IF circuit' = "open" THEN 0 ELSE wasted
    /\ Return(c)
    /\ UNCHANGED up

\* record_failure of a permanent error returns at once: nothing is recorded.
RecordRejection(c) ==
    /\ pc[c] = "rejected"
    /\ Return(c)
    /\ UNCHANGED <<breakerVars, up, wasted>>

Reset ==
    /\ Resets
    /\ failures' = 0
    /\ circuit' = "closed" /\ probe' = FALSE
    /\ wasted' = 0
    /\ UNCHANGED <<pc, tried, up>>

\* cooldown_seconds have passed since opened_at.
CoolDown ==
    /\ circuit = "open"
    /\ circuit' = "half_open"
    /\ UNCHANGED <<failures, probe, pc, tried, up, wasted>>

Provider ==
    /\ up' = ~up
    /\ UNCHANGED <<breakerVars, pc, tried, wasted>>

Record(c) == RecordSuccess(c) \/ RecordFailure(c) \/ RecordRejection(c)

Next ==
    \/ \E c \in Callers :
         Allow(c) \/ Answered(c) \/ Raised(c) \/ Record(c)
    \/ Reset \/ CoolDown \/ Provider

Spec == Init /\ [][Next]_vars

\* Time passes, work keeps arriving, a call returns; and a provider that answers does
\* not reject every call for ever.
Fairness ==
    /\ WF_vars(CoolDown)
    /\ \A c \in Callers :
         /\ WF_vars(Allow(c))
         /\ WF_vars(Answered(c) \/ Raised(c))
         /\ SF_vars(Answered(c))
         /\ WF_vars(Record(c))

FairSpec == Spec /\ Fairness

--------------------------------------------------------------------------
(* Properties.                                                             *)

\* Every variable has its type, and a retried call is within its attempts.
TypeOK ==
    /\ failures \in Nat
    /\ circuit \in {"closed", "open", "half_open"}
    /\ probe \in BOOLEAN
    /\ pc \in [Callers -> {"idle", "calling", "succeeded", "rejected", "failed"}]
    /\ tried \in [Callers -> 0..Attempts]
    /\ up \in BOOLEAN
    /\ wasted \in Nat

\* The three fields of BreakerState agree: the circuit is closed exactly while too few
\* failures are on the count, and a probe is out only once the cooldown has run out.
FieldsAgree ==
    /\ circuit = "closed" <=> failures < Threshold
    /\ probe => circuit = "half_open"

\* An outage costs the provider a bounded number of calls before the worker stops,
\* however its calls fail, succeed and are rejected before it: each worker, with its
\* one calling thread, stops hammering a dead provider within `threshold` failures.
WastedBounded == circuit = "closed" => wasted <= Threshold * Attempts

\* Requests that fail on their merits, however many and of whatever class, never open the
\* circuit for the documents behind them: it opens on a failure the provider is to blame
\* for, within the one calling thread's last attempts.
MistakesDoNotOpen == [][circuit = "closed" /\ circuit' = "open" => wasted > 0]_vars

\* A half-open probe that was rejected on its merits records nothing and is out for good.
ProbeRejected == probe /\ \E c \in Callers : pc[c] = "rejected"

\* The circuit closes: once the provider is back for good, so is the breaker, unless a
\* probe was rejected on its merits.
ClosesAfterOutage == (<>[]up /\ []~ProbeRejected) => <>[](circuit = "closed")

==========================================================================
