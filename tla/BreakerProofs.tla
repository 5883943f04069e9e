-------------------------- MODULE BreakerProofs --------------------------
(***************************************************************************)
(* The breaker's fields agree for every number of calling threads, every   *)
(* threshold and every number of attempts.                                 *)
(***************************************************************************)
EXTENDS Breaker, TLAPS

\* FieldsAgree is inductive once the breaker's own fields are typed. Its two halves, one
\* arithmetic and one propositional, go to different provers.
Counted ==
    /\ failures \in Nat
    /\ circuit \in {"closed", "open", "half_open"}
    /\ circuit = "closed" <=> failures < Threshold
Probing ==
    /\ probe \in BOOLEAN
    /\ probe => circuit = "half_open"

\* What happens to the fields in a step that writes them under the lock.
LEMMA AllowFields ==
    ASSUME Counted, Probing, NEW c \in Callers, Allow(c)
    PROVE  Counted' /\ Probing'
  <1>1. UNCHANGED <<failures, circuit>>
    BY DEF Allow
  <1>2. CASE circuit = "half_open"
    <2>1. Probing'
      BY <1>1, <1>2, Zenon DEF Allow, Probing
    <2> QED BY <1>1, <2>1 DEF Counted
  <1>3. CASE circuit # "half_open"
    <2>1. UNCHANGED probe
      BY <1>3, Zenon DEF Allow
    <2>2. Probing'
      BY <1>1, <2>1, Zenon DEF Probing
    <2> QED BY <1>1, <2>2 DEF Counted
  <1> QED BY <1>2, <1>3

LEMMA ClosedFields ==
    ASSUME (Reset \/ \E c \in Callers : RecordSuccess(c))
    PROVE  Counted' /\ Probing'
  <1>1. failures' = 0 /\ circuit' = "closed"
    BY DEF Reset, RecordSuccess
  <1>2. probe' = FALSE
    BY Zenon DEF Reset, RecordSuccess
  <1>3. Counted'
    BY <1>1, BreakerAssumption DEF Counted
  <1>4. Probing'
    BY <1>2, Zenon DEF Probing
  <1> QED BY <1>3, <1>4

LEMMA FailureFields ==
    ASSUME Counted, Probing, NEW c \in Callers, RecordFailure(c)
    PROVE  Counted' /\ Probing'
  <1>1. CASE probe
    <2>1. circuit' = "open" /\ UNCHANGED failures /\ circuit = "half_open"
      BY <1>1, Zenon DEF RecordFailure, Probing
    <2>2. probe' = FALSE
      BY <1>1, Zenon DEF RecordFailure
    <2>3. Counted'
      BY <2>1 DEF Counted
    <2>4. Probing'
      BY <2>2, Zenon DEF Probing
    <2> QED BY <2>3, <2>4
  <1>2. CASE ~probe
    <2>1. /\ failures' = failures + 1
          /\ circuit' = IF circuit = "closed" /\ failures + 1 >= Threshold
                          THEN "open" ELSE circuit
      BY <1>2, Zenon DEF RecordFailure
    <2>2. UNCHANGED probe
      BY <1>2, Zenon DEF RecordFailure
    <2>3. Counted'
      BY <2>1, BreakerAssumption DEF Counted
    <2>4. Probing'
      BY <1>2, <2>2, Zenon DEF Probing
    <2> QED BY <2>3, <2>4
  <1> QED BY <1>1, <1>2

LEMMA InitFields == Init => Counted /\ Probing
  <1>1. Init => Counted
    BY BreakerAssumption DEF Init, Counted
  <1>2. Init => Probing
    BY Zenon DEF Init, Probing
  <1> QED BY <1>1, <1>2

LEMMA StepFields == Counted /\ Probing /\ [Next]_vars => Counted' /\ Probing'
  <1> SUFFICES ASSUME Counted, Probing, [Next]_vars PROVE Counted' /\ Probing'
    OBVIOUS
  <1>1. CASE UNCHANGED breakerVars
    BY <1>1 DEF breakerVars, Counted, Probing
  <1>2. ASSUME NEW c \in Callers,
               Answered(c) \/ Raised(c) \/ RecordRejection(c)
        PROVE  UNCHANGED breakerVars
    BY <1>2 DEF Answered, Raised, RecordRejection, breakerVars
  <1>3. CASE \E c \in Callers : Allow(c)
    BY <1>3, AllowFields
  <1>4. CASE Reset \/ \E c \in Callers : RecordSuccess(c)
    BY <1>4, ClosedFields
  <1>5. CASE \E c \in Callers : RecordFailure(c)
    BY <1>5, FailureFields
  <1>6. CASE CoolDown
    BY <1>6 DEF CoolDown, Counted, Probing
  <1>7. CASE Provider \/ UNCHANGED vars
    BY <1>1, <1>7 DEF Provider, vars, breakerVars
  <1> QED BY <1>1, <1>2, <1>3, <1>4, <1>5, <1>6, <1>7 DEF Next, Record

\* The circuit is closed exactly while the count of failures is below the threshold, and
\* the probe flag is set only in half-open, whatever the interleaving of allow,
\* record_success, record_failure, reset and the clock.
THEOREM BreakerFieldsAgree == Spec => []FieldsAgree
  <1>1. Init => Counted /\ Probing
    BY InitFields
  <1>2. Counted /\ Probing => FieldsAgree
    BY DEF Counted, Probing, FieldsAgree
  <1> QED BY <1>1, <1>2, StepFields, PTL DEF Spec

\* The two halves of TypeOK, again one for each prover.
Numbers ==
    /\ failures \in Nat /\ wasted \in Nat
    /\ circuit \in {"closed", "open", "half_open"}
    /\ pc \in [Callers -> {"idle", "calling", "succeeded", "rejected", "failed"}]
    /\ tried \in [Callers -> 0..Attempts]
Flags == probe \in BOOLEAN /\ up \in BOOLEAN

LEMMA StepNumbers == Numbers /\ [Next]_vars => Numbers'
  <1> SUFFICES ASSUME Numbers, [Next]_vars PROVE Numbers'
    OBVIOUS
  <1> USE BreakerAssumption DEF Numbers, Goto, Return, breakerVars
  <1>1. ASSUME NEW c \in Callers, Allow(c) PROVE Numbers'
    BY <1>1 DEF Allow
  <1>2. ASSUME NEW c \in Callers, Answered(c) PROVE Numbers'
    BY <1>2 DEF Answered
  <1>3. ASSUME NEW c \in Callers, Raised(c) PROVE Numbers'
    <2>1. wasted' \in Nat
      BY <1>3 DEF Raised
    <2>2. (Goto(c, "rejected") /\ UNCHANGED tried) \/ Retry(c)
      BY <1>3, Zenon DEF Raised
    <2> QED BY <1>3, <2>1, <2>2 DEF Raised, Retry
  <1>4. ASSUME NEW c \in Callers, RecordSuccess(c) PROVE Numbers'
    BY <1>4 DEF RecordSuccess
  <1>5. ASSUME NEW c \in Callers, RecordFailure(c) PROVE Numbers'
    BY <1>5 DEF RecordFailure
  <1>6. ASSUME NEW c \in Callers, RecordRejection(c) PROVE Numbers'
    BY <1>6 DEF RecordRejection
  <1>7. CASE Reset \/ CoolDown \/ Provider \/ UNCHANGED vars
    BY <1>7 DEF Reset, CoolDown, Provider, vars
  <1> QED BY <1>1, <1>2, <1>3, <1>4, <1>5, <1>6, <1>7 DEF Next, Record

LEMMA StepFlags == Flags /\ [Next]_vars => Flags'
  <1> SUFFICES ASSUME Flags, [Next]_vars PROVE Flags'
    OBVIOUS
  <1> USE DEF Flags, breakerVars
  <1>1. ASSUME NEW c \in Callers, Allow(c) \/ Answered(c) \/ Raised(c) PROVE Flags'
    BY <1>1, Zenon DEF Allow, Answered, Raised
  <1>2. ASSUME NEW c \in Callers, Record(c) PROVE Flags'
    BY <1>2, Zenon DEF Record, RecordSuccess, RecordFailure, RecordRejection
  <1>3. CASE Reset \/ CoolDown \/ Provider \/ UNCHANGED vars
    BY <1>3, Zenon DEF Reset, CoolDown, Provider, vars
  <1> QED BY <1>1, <1>2, <1>3, Zenon DEF Next

\* Every variable of the breaker has its type, and a retried call is within its attempts,
\* for any number of callers: no exception, reset or outage takes the retry past its bound.
THEOREM BreakerTyping == Spec => []TypeOK
  <1>1. TypeOK <=> Numbers /\ Flags
    BY Zenon DEF TypeOK, Numbers, Flags
  <1>2. Init => Numbers
    BY BreakerAssumption DEF Init, Numbers
  <1>3. Init => Flags
    BY Zenon DEF Init, Flags
  <1> QED BY <1>1, <1>2, <1>3, StepNumbers, StepFlags, PTL DEF Spec

--------------------------------------------------------------------------
(* One calling thread, as each worker has.                                 *)

OneCaller == \A c, d \in Callers : c = d
OutagesLookTransient == \A e \in OutageErrors : Classify(e) = "transient"
MistakesLookPermanent == \A e \in RequestErrors : Classify(e) = "permanent"

\* Failed attempts of the caller's current call that no failure on the count stands for.
Uncounted(c) ==
    CASE pc[c] = "calling" -> tried[c] - 1
      [] pc[c] = "failed" -> Attempts
      [] OTHER -> 0

\* The strengthening of WastedBounded: every failure on the count stands for at most
\* Attempts wasted calls, and the rest are the current call's. A call that was answered
\* or rejected has just found the provider up.
WastedInv ==
    /\ \A c \in Callers : pc[c] \in {"calling", "failed"} => tried[c] >= 1
    /\ \A c \in Callers : pc[c] \in {"succeeded", "rejected"} => wasted = 0
    /\ circuit = "closed" => \A c \in Callers : wasted <= failures * Attempts + Uncounted(c)
    /\ Callers = {} => wasted = 0

\* Raising is one of three things, by the verdict and the attempts that are left.
LEMMA RaisedIs ==
    ASSUME NEW c \in Callers, Raised(c), Numbers
    PROVE  /\ pc[c] = "calling" /\ UNCHANGED <<failures, circuit>>
           /\ \/ /\ Goto(c, "rejected") /\ UNCHANGED tried
                 /\ OutagesLookTransient => wasted' = 0
              \/ /\ wasted' \in {0, wasted + 1}
                 /\ MistakesLookPermanent => wasted' = wasted + 1
                 /\ Retry(c)
  <1>1. pc[c] = "calling" /\ UNCHANGED <<failures, circuit>>
    BY DEF Raised, breakerVars
  <1>2. PICK e \in IF up THEN RequestErrors ELSE OutageErrors :
          IF Classify(e) = "permanent" THEN Goto(c, "rejected") /\ UNCHANGED tried ELSE Retry(c)
    BY Zenon DEF Raised
  <1>3. CASE up
    <2>1. e \in RequestErrors /\ wasted' = 0
      BY <1>2, <1>3, Zenon DEF Raised
    <2> QED BY <1>1, <1>2, <2>1, Zenon DEF MistakesLookPermanent
  <1>4. CASE ~up
    <2>1. e \in OutageErrors /\ wasted' = wasted + 1
      BY <1>2, <1>4, Zenon DEF Raised
    <2>2. "transient" # "permanent"
      OBVIOUS
    <2> QED BY <1>1, <1>2, <2>1, <2>2, Zenon DEF OutagesLookTransient
  <1> QED BY <1>3, <1>4

LEMMA StepWasted ==
    ASSUME OneCaller, OutagesLookTransient
    PROVE  Numbers /\ Counted /\ WastedInv /\ [Next]_vars => WastedInv'
  <1> SUFFICES ASSUME Numbers, Counted, WastedInv, [Next]_vars PROVE WastedInv'
    OBVIOUS
  <1>0. ASSUME NEW c \in Callers, Raised(c)
        PROVE  /\ pc[c] = "calling" /\ UNCHANGED <<failures, circuit>>
               /\ \/ Goto(c, "rejected") /\ UNCHANGED tried /\ wasted' = 0
                  \/ wasted' \in {0, wasted + 1} /\ Retry(c)
    BY <1>0, RaisedIs
  <1> USE BreakerAssumption DEF Numbers, Goto, Return, breakerVars, OneCaller
  <1>1. CASE Callers = {}
    <2>1. wasted' = 0
      BY <1>1 DEF WastedInv, Next, Reset, CoolDown, Provider, vars
    <2> QED BY <1>1, <2>1 DEF WastedInv
  <1>2. ASSUME NEW c \in Callers, Callers = {c} PROVE WastedInv'
    <2>1. CASE Allow(c)
      <3>1. /\ pc[c] = "idle" /\ pc'[c] = "calling" /\ tried'[c] = 1
            /\ UNCHANGED <<failures, circuit, wasted>>
        BY <2>1 DEF Allow
      <3> QED BY <1>2, <3>1 DEF WastedInv, Uncounted
    <2>2. CASE Answered(c)
      <3>1. /\ pc'[c] = "succeeded" /\ wasted' = 0 /\ UNCHANGED <<failures, circuit, tried>>
        BY <2>2 DEF Answered
      <3>2. failures * Attempts \in Nat
        OBVIOUS
      <3> QED BY <1>2, <3>1, <3>2 DEF WastedInv, Uncounted
    <2>3. CASE Raised(c)
      <3>1. failures * Attempts \in Nat
        OBVIOUS
      <3>2. /\ pc[c] = "calling" /\ UNCHANGED <<failures, circuit>> /\ tried[c] \in 1..Attempts
            /\ circuit = "closed" => wasted <= failures * Attempts + (tried[c] - 1)
        BY <2>3, <1>0 DEF WastedInv, Uncounted
      <3>3. CASE Goto(c, "rejected") /\ UNCHANGED tried /\ wasted' = 0
        <4>1. pc'[c] = "rejected"
          BY <3>3
        <4> QED BY <1>2, <3>1, <3>2, <3>3, <4>1 DEF WastedInv, Uncounted
      <3>4. CASE wasted' \in {0, wasted + 1} /\ Retry(c)
        <4>1. CASE tried[c] < Attempts
          <5>1. tried'[c] = tried[c] + 1 /\ pc'[c] = "calling"
            BY <3>2, <3>4, <4>1 DEF Retry
          <5> QED BY <1>2, <3>1, <3>2, <3>4, <5>1 DEF WastedInv, Uncounted
        <4>2. CASE tried[c] = Attempts
          <5>1. tried'[c] = tried[c] /\ pc'[c] = "failed"
            BY <3>2, <3>4, <4>2 DEF Retry
          <5> QED BY <1>2, <3>1, <3>2, <3>4, <4>2, <5>1 DEF WastedInv, Uncounted
        <4> QED BY <3>2, <4>1, <4>2
      <3> QED BY <1>0, <2>3, <3>3, <3>4
    <2>4. CASE RecordSuccess(c)
      <3>1. /\ pc[c] = "succeeded" /\ pc'[c] = "idle" /\ failures' = 0 /\ UNCHANGED wasted
        BY <2>4 DEF RecordSuccess
      <3> QED BY <1>2, <3>1 DEF WastedInv, Uncounted
    <2>5. CASE RecordFailure(c)
      <3>1. /\ pc[c] = "failed" /\ pc'[c] = "idle"
            /\ wasted' = IF circuit' = "open" THEN 0 ELSE wasted
        BY <2>5 DEF RecordFailure
      <3>2. circuit' = "closed" => circuit = "closed" /\ failures' = failures + 1
        BY <2>5, Zenon DEF RecordFailure
      <3>3. (failures + 1) * Attempts = failures * Attempts + Attempts
        OBVIOUS
      <3> QED BY <1>2, <3>1, <3>2, <3>3 DEF WastedInv, Uncounted
    <2>6. CASE RecordRejection(c)
      <3>1. pc[c] = "rejected" /\ pc'[c] = "idle" /\ UNCHANGED <<failures, circuit, wasted>>
        BY <2>6 DEF RecordRejection
      <3> QED BY <1>2, <3>1 DEF WastedInv, Uncounted
    <2>7. CASE Reset
      <3>1. wasted' = 0 /\ failures' = 0 /\ UNCHANGED <<pc, tried>>
        BY <2>7 DEF Reset
      <3> QED BY <1>2, <3>1 DEF WastedInv, Uncounted
    <2>8. CASE CoolDown \/ Provider \/ UNCHANGED vars
      <3>1. /\ UNCHANGED <<failures, pc, tried, wasted>>
            /\ circuit' = "closed" => circuit = "closed"
        BY <2>8 DEF CoolDown, Provider, vars
      <3> QED BY <1>2, <3>1 DEF WastedInv, Uncounted
    <2> QED BY <1>2, <2>1, <2>2, <2>3, <2>4, <2>5, <2>6, <2>7, <2>8 DEF Next, Record
  <1> QED BY <1>1, <1>2

\* A worker with one calling thread gives up on a dead provider within Threshold * Attempts
\* failed calls, however its calls fail, succeed and are rejected before and between, as
\* long as what an outage raises is taken for transient.
THEOREM OutageCostsLittle ==
    ASSUME OneCaller, OutagesLookTransient
    PROVE  Spec => []WastedBounded
  <1>1. Init => Numbers /\ WastedInv
    BY BreakerAssumption DEF Init, Numbers, WastedInv, Uncounted
  <1>2. Numbers /\ Counted /\ WastedInv => WastedBounded
    <2> SUFFICES ASSUME Numbers, Counted, WastedInv, circuit = "closed"
                 PROVE  wasted <= Threshold * Attempts
      BY DEF WastedBounded
    <2>1. failures + 1 <= Threshold
      BY BreakerAssumption DEF Counted
    <2>2. failures * Attempts + Attempts <= Threshold * Attempts
      BY <2>1, BreakerAssumption DEF Numbers
    <2> QED BY <2>2, BreakerAssumption DEF WastedInv, Uncounted, Numbers
  <1> QED BY <1>1, <1>2, InitFields, StepFields, StepNumbers, StepWasted, PTL DEF Spec

\* The strengthening of MistakesDoNotOpen: a caller about to record a failure has wasted
\* a call since, unless an operator's reset has come between and cleared the count too.
BlamedInv ==
    \A c \in Callers : pc[c] = "failed" => wasted > 0 \/ (failures = 0 /\ Resets)

LEMMA StepBlamed ==
    ASSUME OneCaller, MistakesLookPermanent
    PROVE  Numbers /\ BlamedInv /\ [Next]_vars => BlamedInv'
  <1> SUFFICES ASSUME Numbers, BlamedInv, [Next]_vars PROVE BlamedInv'
    OBVIOUS
  <1>0. ASSUME NEW c \in Callers, Raised(c)
        PROVE  Goto(c, "rejected") \/ wasted' = wasted + 1
    BY <1>0, RaisedIs
  <1> USE BreakerAssumption DEF Numbers, Goto, Return, breakerVars
  <1>1. ASSUME NEW c \in Callers, Raised(c) PROVE BlamedInv'
    <2>1. CASE Goto(c, "rejected")
      <3>1. pc'[c] = "rejected" /\ \A d \in Callers : d = c
        BY <2>1 DEF OneCaller
      <3> QED BY <3>1 DEF BlamedInv
    <2>2. CASE wasted' = wasted + 1
      BY <2>2 DEF BlamedInv
    <2> QED BY <1>0, <1>1, <2>1, <2>2
  <1>2. ASSUME NEW c \in Callers, Allow(c) \/ Answered(c) \/ Record(c) PROVE BlamedInv'
    <2>1. pc'[c] # "failed" /\ \A d \in Callers : d = c
      BY <1>2 DEF Allow, Answered, Record, RecordSuccess, RecordFailure, RecordRejection, OneCaller
    <2> QED BY <2>1 DEF BlamedInv
  <1>3. CASE Reset \/ CoolDown \/ Provider \/ UNCHANGED vars
    BY <1>3 DEF Reset, CoolDown, Provider, vars, BlamedInv
  <1> QED BY <1>1, <1>2, <1>3 DEF Next

\* Requests that fail on their merits never open the circuit of a worker with one calling
\* thread. A threshold of one is excluded where an operator resets the breaker: the failure
\* of a call that began before the reset then opens it, with no wasted call on the books.
THEOREM OnlyOutagesOpen ==
    ASSUME OneCaller, MistakesLookPermanent, Threshold > 1 \/ ~Resets
    PROVE  Spec => MistakesDoNotOpen
  <1>1. Init => Numbers /\ BlamedInv
    BY BreakerAssumption DEF Init, Numbers, BlamedInv
  <1>2. Numbers /\ Counted /\ Probing /\ BlamedInv /\ [Next]_vars =>
          [circuit = "closed" /\ circuit' = "open" => wasted > 0]_vars
    <2> SUFFICES ASSUME Numbers, Counted, Probing, BlamedInv, [Next]_vars,
                        circuit = "closed", circuit' = "open"
                 PROVE  wasted > 0
      OBVIOUS
    <2>1. PICK c \in Callers : RecordFailure(c)
      BY DEF Next, Allow, Answered, Raised, Record, RecordSuccess, RecordRejection, Reset, CoolDown,
             Provider, vars, breakerVars
    <2>2. pc[c] = "failed"
      BY <2>1 DEF RecordFailure
    <2>3. ~probe => circuit' = IF circuit = "closed" /\ failures + 1 >= Threshold THEN "open" ELSE circuit
      BY <2>1, Zenon DEF RecordFailure
    <2>4. ~probe
      BY Zenon DEF Probing
    <2>5. failures + 1 >= Threshold
      BY <2>3, <2>4
    <2> QED BY <2>2, <2>5, BreakerAssumption DEF BlamedInv, Numbers
  <1> QED BY <1>1, <1>2, InitFields, StepFields, StepNumbers, StepBlamed, PTL
         DEF Spec, MistakesDoNotOpen

==========================================================================
