-------------------------- MODULE BudgetProofs ---------------------------
(***************************************************************************)
(* The budget counter for every number of workers, every cap and every     *)
(* price: concurrency alone never carries it past the cap, it covers       *)
(* whatever is logged or still may be, and a charge nobody settles shows.  *)
(***************************************************************************)
EXTENDS Budget, SumTheorems

\* The amounts the counter is computed from are numbers; with that OverCapOnlyByOverrun
\* is inductive, because a reservation charges only what fits under the cap and a
\* settlement adds at most what it also adds to the overrun.
Amounts ==
    /\ cap \in Nat /\ spent \in Nat /\ overrun \in Nat
    /\ held \in [Workers -> Nat] /\ cost \in [Workers -> Nat]

BudgetInv == Amounts /\ OverCapOnlyByOverrun

\* The arithmetic of _SETTLE: whatever the call cost, the counter stays a number and
\* stays under the cap plus the overrun.
LEMMA SettleArithmetic ==
    ASSUME BudgetInv, NEW w \in Workers, NEW actual \in Nat, SettleTo(w, actual)
    PROVE  cap' \in Nat /\ spent' \in Nat /\ overrun' \in Nat /\ OverCapOnlyByOverrun'
  <1>1. held[w] \in Nat
    BY DEF BudgetInv, Amounts
  <1>2. /\ spent' = Larger(spent + (actual - held[w]), 0)
        /\ overrun' = overrun + Larger(actual - held[w], 0)
        /\ cap' = cap
    BY DEF SettleTo
  <1> QED BY <1>1, <1>2 DEF Larger, BudgetInv, Amounts, OverCapOnlyByOverrun

\* A worker that is done keeps no amounts.
LEMMA DoneAmounts ==
    ASSUME Amounts, NEW w \in Workers, Done(w)
    PROVE  held' \in [Workers -> Nat] /\ cost' \in [Workers -> Nat]
  BY DEF Amounts, Done

LEMMA InitBudget == Init => BudgetInv
  BY BudgetAssumption DEF Init, BudgetInv, Amounts, OverCapOnlyByOverrun

LEMMA StepBudget == BudgetInv /\ [Next]_vars => BudgetInv'
  <1> SUFFICES ASSUME BudgetInv, [Next]_vars PROVE BudgetInv'
    OBVIOUS
  <1> USE BudgetAssumption DEF BudgetInv, counters, callVars
  <1>1. ASSUME NEW w \in Workers, NEW amount \in WorstCases, Reserve(w, amount)
        PROVE  BudgetInv'
    BY <1>1 DEF Reserve, Amounts, OverCapOnlyByOverrun
  <1>2. ASSUME NEW w \in Workers, NEW c \in Costs, ProviderAnswers(w, c)
        PROVE  BudgetInv'
    BY <1>2 DEF ProviderAnswers, Amounts, OverCapOnlyByOverrun
  <1>3. ASSUME NEW w \in Workers, ProviderRaises(w) PROVE BudgetInv'
    BY <1>3 DEF ProviderRaises, Amounts, OverCapOnlyByOverrun
  <1>4. ASSUME NEW w \in Workers, Release(w) PROVE BudgetInv'
    BY <1>4, SettleArithmetic, DoneAmounts DEF Release, Amounts
  <1>5. ASSUME NEW w \in Workers, Settle(w) PROVE BudgetInv'
    <2>1. cost[w] \in Nat
      BY DEF Amounts
    <2> QED BY <1>5, <2>1, SettleArithmetic DEF Settle, Amounts
  <1>6. ASSUME NEW w \in Workers, RecordUsage(w) \/ Abandon(w) PROVE BudgetInv'
    BY <1>6, DoneAmounts DEF RecordUsage, Abandon, Amounts, OverCapOnlyByOverrun
  <1>7. CASE RaiseCap
    BY <1>7 DEF RaiseCap, Amounts, OverCapOnlyByOverrun
  <1>8. CASE UNCHANGED vars
    BY <1>8 DEF vars, Amounts, OverCapOnlyByOverrun
  <1> QED BY <1>1, <1>2, <1>3, <1>4, <1>5, <1>6, <1>7, <1>8 DEF Next

\* However many workers race to reserve, the counter passes the cap by no more than what
\* settled calls cost above their reservations.
THEOREM RacingWorkersKeepTheCap == Spec => []OverCapOnlyByOverrun
  <1>1. BudgetInv => OverCapOnlyByOverrun
    BY DEF BudgetInv
  <1> QED BY InitBudget, StepBudget, <1>1, PTL DEF Spec

LEMMA StepType == TypeOK /\ [Next]_vars => TypeOK'
  <1> SUFFICES ASSUME TypeOK, [Next]_vars PROVE TypeOK'
    OBVIOUS
  <1> USE BudgetAssumption DEF TypeOK, Goto, At, counters, callVars
  <1>1. ASSUME NEW w \in Workers, NEW amount \in WorstCases, Reserve(w, amount)
        PROVE  TypeOK'
    <2>1. /\ amount \in Nat /\ spent' = spent + amount /\ unsettled' = unsettled + 1
          /\ granted' = granted + 1 /\ UNCHANGED <<cap, events, billed, overrun>>
      BY <1>1 DEF Reserve
    <2>2. {cap, spent, unsettled, events, granted, billed, overrun}' \subseteq Nat
      BY <2>1
    <2>3. /\ held' = [held EXCEPT ![w] = amount] /\ pc' = [pc EXCEPT ![w] = "calling"]
          /\ UNCHANGED <<cost, nth, try>>
      BY <1>1 DEF Reserve
    <2> QED BY <2>1, <2>2, <2>3
  <1>2. ASSUME NEW w \in Workers, NEW c \in Costs, ProviderAnswers(w, c) PROVE TypeOK'
    BY <1>2 DEF ProviderAnswers
  <1>3. ASSUME NEW w \in Workers, ProviderRaises(w) PROVE TypeOK'
    BY <1>3 DEF ProviderRaises
  <1>4. ASSUME NEW w \in Workers, Release(w) PROVE TypeOK'
    BY <1>4 DEF Release, SettleTo, Larger, Done
  <1>5. ASSUME NEW w \in Workers, Settle(w) PROVE TypeOK'
    BY <1>5 DEF Settle, SettleTo, Larger
  <1>6. ASSUME NEW w \in Workers, RecordUsage(w) \/ Abandon(w) PROVE TypeOK'
    BY <1>6 DEF RecordUsage, Abandon, Done
  <1>7. CASE RaiseCap \/ UNCHANGED vars
    BY <1>7 DEF RaiseCap, vars
  <1> QED BY <1>1, <1>2, <1>3, <1>4, <1>5, <1>6, <1>7 DEF Next

\* Every amount stays a natural number, and a worker within its calls and its tries: no
\* failure, correction, crash or late settlement takes the counter below zero.
THEOREM BudgetTyping == Spec => []TypeOK
  <1>1. Init => TypeOK
    BY BudgetAssumption DEF Init, TypeOK
  <1> QED BY <1>1, StepType, PTL DEF Spec

--------------------------------------------------------------------------
(* The books: what the counter covers, and what shows that it covers more. *)

Out == {"calling", "release", "settle"}
Recording == {w \in Workers : pc[w] = "record"}

\* What calls in flight have cost so far.
InFlight == SumOver(cost, Outstanding)

\* The strengthening of OvercountIsVisible: the calls in flight are the least that is
\* unsettled, and they are all of it only while the counter, less what they reserve,
\* holds no more than finished calls were billed.
Visible ==
    /\ unsettled >= Cardinality(Outstanding)
    /\ spent + InFlight > billed + Reserved => unsettled > Cardinality(Outstanding)

LedgerInv ==
    /\ \A w \in Workers : pc[w] = "idle" => cost[w] = 0
    /\ CounterCovers /\ Visible

LEMMA SumsOf ==
    /\ Reserved = SumOver(held, Outstanding)
    /\ Unrecorded = SumOver(cost, Recording)
  BY DEF Reserved, Unrecorded, Recording, SumOver

\* What a worker's own step does to the sums over all workers: it changes its own terms.
LEMMA WorkerStep ==
    ASSUME TypeOK, TypeOK', NEW w \in Workers,
           \A v \in Workers \ {w} : pc'[v] = pc[v] /\ held'[v] = held[v] /\ cost'[v] = cost[v]
    PROVE  \E reserved, unrecorded, spending, k \in Nat :
             /\ Reserved = reserved + (IF pc[w] \in Out THEN held[w] ELSE 0)
             /\ Reserved' = reserved + (IF pc'[w] \in Out THEN held'[w] ELSE 0)
             /\ Unrecorded = unrecorded + (IF pc[w] = "record" THEN cost[w] ELSE 0)
             /\ Unrecorded' = unrecorded + (IF pc'[w] = "record" THEN cost'[w] ELSE 0)
             /\ InFlight = spending + (IF pc[w] \in Out THEN cost[w] ELSE 0)
             /\ InFlight' = spending + (IF pc'[w] \in Out THEN cost'[w] ELSE 0)
             /\ Cardinality(Outstanding) = k + (IF pc[w] \in Out THEN 1 ELSE 0)
             /\ Cardinality(Outstanding') = k + (IF pc'[w] \in Out THEN 1 ELSE 0)
  <1>1. /\ \A v \in Workers : held[v] \in Nat /\ cost[v] \in Nat
        /\ \A v \in Workers : held'[v] \in Nat /\ cost'[v] \in Nat
    BY DEF TypeOK
  <1>2. /\ IsFiniteSet(Outstanding) /\ IsFiniteSet(Outstanding')
        /\ IsFiniteSet(Recording) /\ IsFiniteSet(Recording')
    BY BudgetAssumption, FS_Subset DEF Outstanding, Recording
  <1>3. /\ Outstanding \ {w} = Outstanding' \ {w} /\ Recording \ {w} = Recording' \ {w}
        /\ Outstanding \subseteq Workers /\ Outstanding' \subseteq Workers
        /\ Recording \subseteq Workers /\ Recording' \subseteq Workers
    BY DEF Outstanding, Recording
  <1>4. /\ w \in Outstanding <=> pc[w] \in Out
        /\ w \in Outstanding' <=> pc'[w] \in Out
        /\ w \in Recording <=> pc[w] = "record"
        /\ w \in Recording' <=> pc'[w] = "record"
    BY DEF Outstanding, Recording, Out
  <1>5. PICK reserved \in Nat :
          /\ SumOver(held, Outstanding) = reserved + (IF w \in Outstanding THEN held[w] ELSE 0)
          /\ SumOver(held', Outstanding') = reserved + (IF w \in Outstanding' THEN held'[w] ELSE 0)
    <2>1. /\ \A x \in Outstanding : held[x] \in Nat
          /\ \A x \in Outstanding' : held'[x] \in Nat
          /\ \A x \in Outstanding \ {w} : held[x] = held'[x]
      BY <1>1, <1>3
    <2>2. /\ SumOver(held, Outstanding \ {w}) \in Nat
          /\ SumOver(held, Outstanding) = SumOver(held, Outstanding \ {w}) + (IF w \in Outstanding THEN held[w] ELSE 0)
      BY <1>2, <2>1, SumSplit
    <2>3. SumOver(held', Outstanding') = SumOver(held', Outstanding' \ {w}) + (IF w \in Outstanding' THEN held'[w] ELSE 0)
      BY <1>2, <2>1, SumSplit
    <2>4. SumOver(held, Outstanding \ {w}) = SumOver(held', Outstanding' \ {w})
      <3>1. IsFiniteSet(Outstanding \ {w})
        BY <1>2, FS_Subset
      <3>2. SumOver(held, Outstanding \ {w}) = SumOver(held', Outstanding \ {w})
        BY <2>1, <3>1, SumSame
      <3> QED BY <1>3, <3>2
    <2> QED BY <2>2, <2>3, <2>4
  <1>6. PICK unrecorded \in Nat :
          /\ SumOver(cost, Recording) = unrecorded + (IF w \in Recording THEN cost[w] ELSE 0)
          /\ SumOver(cost', Recording') = unrecorded + (IF w \in Recording' THEN cost'[w] ELSE 0)
    <2>1. /\ \A x \in Recording : cost[x] \in Nat
          /\ \A x \in Recording' : cost'[x] \in Nat
          /\ \A x \in Recording \ {w} : cost[x] = cost'[x]
      BY <1>1, <1>3
    <2>2. /\ SumOver(cost, Recording \ {w}) \in Nat
          /\ SumOver(cost, Recording) = SumOver(cost, Recording \ {w}) + (IF w \in Recording THEN cost[w] ELSE 0)
      BY <1>2, <2>1, SumSplit
    <2>3. SumOver(cost', Recording') = SumOver(cost', Recording' \ {w}) + (IF w \in Recording' THEN cost'[w] ELSE 0)
      BY <1>2, <2>1, SumSplit
    <2>4. SumOver(cost, Recording \ {w}) = SumOver(cost', Recording' \ {w})
      <3>1. IsFiniteSet(Recording \ {w})
        BY <1>2, FS_Subset
      <3>2. SumOver(cost, Recording \ {w}) = SumOver(cost', Recording \ {w})
        BY <2>1, <3>1, SumSame
      <3> QED BY <1>3, <3>2
    <2> QED BY <2>2, <2>3, <2>4
  <1>7. PICK spending \in Nat :
          /\ SumOver(cost, Outstanding) = spending + (IF w \in Outstanding THEN cost[w] ELSE 0)
          /\ SumOver(cost', Outstanding') = spending + (IF w \in Outstanding' THEN cost'[w] ELSE 0)
    <2>1. /\ \A x \in Outstanding : cost[x] \in Nat
          /\ \A x \in Outstanding' : cost'[x] \in Nat
          /\ \A x \in Outstanding \ {w} : cost[x] = cost'[x]
      BY <1>1, <1>3
    <2>2. /\ SumOver(cost, Outstanding \ {w}) \in Nat
          /\ SumOver(cost, Outstanding) = SumOver(cost, Outstanding \ {w}) + (IF w \in Outstanding THEN cost[w] ELSE 0)
      BY <1>2, <2>1, SumSplit
    <2>3. SumOver(cost', Outstanding') = SumOver(cost', Outstanding' \ {w}) + (IF w \in Outstanding' THEN cost'[w] ELSE 0)
      BY <1>2, <2>1, SumSplit
    <2>4. SumOver(cost, Outstanding \ {w}) = SumOver(cost', Outstanding' \ {w})
      <3>1. IsFiniteSet(Outstanding \ {w})
        BY <1>2, FS_Subset
      <3>2. SumOver(cost, Outstanding \ {w}) = SumOver(cost', Outstanding \ {w})
        BY <2>1, <3>1, SumSame
      <3> QED BY <1>3, <3>2
    <2> QED BY <2>2, <2>3, <2>4
  <1> DEFINE k == Cardinality(Outstanding \ {w})
  <1>8. k \in Nat
    BY <1>2, FS_Subset, FS_CardinalityType
  <1>9. Cardinality(Outstanding) = k + (IF w \in Outstanding THEN 1 ELSE 0)
    <2>1. CASE w \in Outstanding
      <3>1. Cardinality(Outstanding) \in Nat \ {0} /\ k = Cardinality(Outstanding) - 1
        BY <1>2, <2>1, Smaller
      <3> QED BY <2>1, <3>1
    <2>2. CASE w \notin Outstanding
      <3>1. k = Cardinality(Outstanding)
        <4>1. Outstanding \ {w} = Outstanding
          BY <2>2
        <4> QED BY <4>1
      <3> HIDE DEF k
      <3> QED BY <1>8, <2>2, <3>1
    <2> QED BY <2>1, <2>2
  <1>10. Cardinality(Outstanding') = k + (IF w \in Outstanding' THEN 1 ELSE 0)
    <2>0. k = Cardinality(Outstanding' \ {w})
      BY <1>3
    <2>1. CASE w \in Outstanding'
      <3>1. /\ Cardinality(Outstanding') \in Nat \ {0}
            /\ Cardinality(Outstanding' \ {w}) = Cardinality(Outstanding') - 1
        BY <1>2, <2>1, Smaller
      <3> QED BY <2>0, <2>1, <3>1
    <2>2. CASE w \notin Outstanding'
      <3>1. k = Cardinality(Outstanding')
        <4>1. Outstanding' \ {w} = Outstanding'
          BY <2>2
        <4> QED BY <2>0, <4>1
      <3> HIDE DEF k
      <3> QED BY <1>8, <2>2, <3>1
    <2> QED BY <2>1, <2>2
  <1>11. /\ Reserved = SumOver(held, Outstanding) /\ Reserved' = SumOver(held', Outstanding')
         /\ Unrecorded = SumOver(cost, Recording) /\ Unrecorded' = SumOver(cost', Recording')
         /\ InFlight = SumOver(cost, Outstanding) /\ InFlight' = SumOver(cost', Outstanding')
    <2>1. (Reserved = SumOver(held, Outstanding) /\ Unrecorded = SumOver(cost, Recording))'
      BY SumsOf, PTL
    <2> QED BY SumsOf, <2>1 DEF InFlight
  <1> HIDE DEF k
  <1> QED BY <1>4, <1>5, <1>6, <1>7, <1>8, <1>9, <1>10, <1>11


\* A worker's own step leaves the amounts of the others alone.
LEMMA OthersKeep ==
    ASSUME TypeOK, NEW w \in Workers,
           \/ \E amount \in WorstCases : Reserve(w, amount)
           \/ \E c \in Costs : ProviderAnswers(w, c)
           \/ ProviderRaises(w) \/ Release(w) \/ Settle(w) \/ RecordUsage(w) \/ Abandon(w)
    PROVE  \A v \in Workers \ {w} : pc'[v] = pc[v] /\ held'[v] = held[v] /\ cost'[v] = cost[v]
  <1> USE DEF TypeOK, Goto
  <1>1. CASE \E amount \in WorstCases : Reserve(w, amount)
    BY <1>1 DEF Reserve
  <1>2. CASE \E c \in Costs : ProviderAnswers(w, c)
    BY <1>2 DEF ProviderAnswers
  <1>3. CASE ProviderRaises(w)
    BY <1>3 DEF ProviderRaises
  <1>4. CASE Release(w) \/ RecordUsage(w) \/ Abandon(w)
    BY <1>4 DEF Release, RecordUsage, Abandon, Done
  <1>5. CASE Settle(w)
    BY <1>5 DEF Settle, callVars
  <1> QED BY <1>1, <1>2, <1>3, <1>4, <1>5

\* The idle have no cost: a call that ends clears it.
LEMMA IdleCost ==
    ASSUME TypeOK, TypeOK', LedgerInv, NEW w \in Workers,
           \A v \in Workers \ {w} : pc'[v] = pc[v] /\ held'[v] = held[v] /\ cost'[v] = cost[v],
           pc'[w] # "idle" \/ cost'[w] = 0
    PROVE  \A v \in Workers : pc'[v] = "idle" => cost'[v] = 0
  BY DEF LedgerInv

LEMMA SumsAreNat ==
    ASSUME TypeOK
    PROVE  Reserved \in Nat /\ Unrecorded \in Nat /\ InFlight \in Nat /\ Cardinality(Outstanding) \in Nat
  <1>1. /\ IsFiniteSet(Outstanding) /\ IsFiniteSet(Recording)
        /\ Outstanding \subseteq Workers /\ Recording \subseteq Workers
    BY BudgetAssumption, FS_Subset DEF Outstanding, Recording
  <1>2. \A v \in Workers : held[v] \in Nat /\ cost[v] \in Nat
    BY DEF TypeOK
  <1>3. SumOver(held, Outstanding) \in Nat
    BY <1>1, <1>2, SumIsNat
  <1>4. SumOver(cost, Outstanding) \in Nat
    BY <1>1, <1>2, SumIsNat
  <1>5. SumOver(cost, Recording) \in Nat
    BY <1>1, <1>2, SumIsNat
  <1> QED BY <1>1, <1>3, <1>4, <1>5, SumsOf, FS_CardinalityType DEF InFlight

LEMMA StepLedger == TypeOK /\ LedgerInv /\ [Next]_vars => LedgerInv'
  <1> SUFFICES ASSUME TypeOK, LedgerInv, [Next]_vars PROVE LedgerInv'
    OBVIOUS
  <1>1. TypeOK'
    BY StepType
  <1>2. /\ spent \in Nat /\ unsettled \in Nat /\ events \in Nat /\ billed \in Nat
        /\ spent >= events + Unrecorded + Reserved
        /\ unsettled >= Cardinality(Outstanding)
        /\ spent + InFlight > billed + Reserved => unsettled > Cardinality(Outstanding)
    BY DEF LedgerInv, TypeOK, CounterCovers, Visible
  <1>3. \A v \in Workers : held[v] \in Nat /\ cost[v] \in Nat /\ held'[v] \in Nat /\ cost'[v] \in Nat
    BY <1>1 DEF TypeOK
  <1>4. ASSUME NEW w \in Workers, NEW amount \in WorstCases, Reserve(w, amount) PROVE LedgerInv'
    <2>1. /\ pc[w] = "idle" /\ pc'[w] = "calling" /\ held'[w] = amount /\ amount \in Nat
          /\ cost' = cost /\ spent' = spent + amount /\ unsettled' = unsettled + 1
          /\ events' = events /\ billed' = billed
      BY <1>4, BudgetAssumption DEF Reserve, At, Goto, TypeOK
    <2>2. cost'[w] = 0
      BY <2>1 DEF LedgerInv
    <2>3. \A v \in Workers \ {w} : pc'[v] = pc[v] /\ held'[v] = held[v] /\ cost'[v] = cost[v]
      BY <1>4, OthersKeep
    <2>4. \A v \in Workers : pc'[v] = "idle" => cost'[v] = 0
      BY <1>1, <2>2, <2>3, IdleCost
    <2>5. PICK reserved, unrecorded, spending, k \in Nat :
            /\ Reserved = reserved /\ Reserved' = reserved + amount
            /\ Unrecorded = unrecorded /\ Unrecorded' = unrecorded
            /\ InFlight = spending /\ InFlight' = spending
            /\ Cardinality(Outstanding) = k /\ Cardinality(Outstanding') = k + 1
      BY <1>1, <2>1, <2>2, <2>3, WorkerStep DEF Out
    <2>6. CounterCovers'
      BY <1>2, <2>1, <2>5 DEF CounterCovers
    <2>7. Visible'
      BY <1>2, <2>1, <2>5 DEF Visible
    <2> QED BY <2>4, <2>6, <2>7 DEF LedgerInv
  <1>5. ASSUME NEW w \in Workers, NEW c \in Costs, ProviderAnswers(w, c) PROVE LedgerInv'
    <2>1. /\ pc[w] = "calling" /\ pc'[w] \in {"calling", "settle"} /\ held' = held /\ c \in Nat
          /\ cost'[w] = cost[w] + c /\ billed' = billed + c
          /\ spent' = spent /\ unsettled' = unsettled /\ events' = events
      BY <1>5, BudgetAssumption DEF ProviderAnswers, At, Goto, TypeOK, counters
    <2>2. cost[w] \in Nat /\ held[w] \in Nat
      BY <1>3
    <2>3. \A v \in Workers \ {w} : pc'[v] = pc[v] /\ held'[v] = held[v] /\ cost'[v] = cost[v]
      BY <1>5, OthersKeep
    <2>4. \A v \in Workers : pc'[v] = "idle" => cost'[v] = 0
      BY <1>1, <2>1, <2>3, IdleCost
    <2>5. PICK reserved, unrecorded, spending, k \in Nat :
            /\ Reserved = reserved + held[w] /\ Reserved' = reserved + held[w]
            /\ Unrecorded = unrecorded /\ Unrecorded' = unrecorded
            /\ InFlight = spending + cost[w] /\ InFlight' = spending + (cost[w] + c)
            /\ Cardinality(Outstanding) = k + 1 /\ Cardinality(Outstanding') = k + 1
      BY <1>1, <2>1, <2>2, <2>3, WorkerStep DEF Out
    <2>6. CounterCovers'
      BY <1>2, <2>1, <2>2, <2>5 DEF CounterCovers
    <2>7. Visible'
      BY <1>2, <2>1, <2>2, <2>5 DEF Visible
    <2> QED BY <2>4, <2>6, <2>7 DEF LedgerInv
  <1>6. ASSUME NEW w \in Workers, ProviderRaises(w) PROVE LedgerInv'
    <2>1. /\ pc[w] = "calling" /\ pc'[w] \in {"calling", "release"} /\ held' = held
          /\ cost'[w] \in {0, cost[w]}
          /\ billed' = billed /\ spent' = spent /\ unsettled' = unsettled /\ events' = events
      BY <1>6 DEF ProviderRaises, At, Goto, TypeOK, counters
    <2>2. cost[w] \in Nat /\ cost'[w] \in Nat /\ cost'[w] <= cost[w] /\ held[w] \in Nat
      BY <1>3, <2>1
    <2>3. \A v \in Workers \ {w} : pc'[v] = pc[v] /\ held'[v] = held[v] /\ cost'[v] = cost[v]
      BY <1>6, OthersKeep
    <2>4. \A v \in Workers : pc'[v] = "idle" => cost'[v] = 0
      BY <1>1, <2>1, <2>3, IdleCost
    <2>5. PICK reserved, unrecorded, spending, k \in Nat :
            /\ Reserved = reserved + held[w] /\ Reserved' = reserved + held[w]
            /\ Unrecorded = unrecorded /\ Unrecorded' = unrecorded
            /\ InFlight = spending + cost[w] /\ InFlight' = spending + cost'[w]
            /\ Cardinality(Outstanding) = k + 1 /\ Cardinality(Outstanding') = k + 1
      BY <1>1, <2>1, <2>2, <2>3, WorkerStep DEF Out
    <2>6. CounterCovers'
      BY <1>2, <2>1, <2>2, <2>5 DEF CounterCovers
    <2>7. Visible'
      BY <1>2, <2>1, <2>2, <2>5 DEF Visible
    <2> QED BY <2>4, <2>6, <2>7 DEF LedgerInv
  <1>7. ASSUME NEW w \in Workers, Release(w) PROVE LedgerInv'
    <2>1. /\ pc[w] = "release" /\ pc'[w] = "idle" /\ held'[w] = 0 /\ cost'[w] = 0
          /\ spent' = Larger(spent + (0 - held[w]), 0)
          /\ unsettled' = Larger(unsettled - 1, 0)
          /\ billed' = billed /\ events' = events
      BY <1>7 DEF Release, SettleTo, Done, At, Goto, TypeOK
    <2>2. cost[w] \in Nat /\ held[w] \in Nat
      BY <1>3
    <2>3. \A v \in Workers \ {w} : pc'[v] = pc[v] /\ held'[v] = held[v] /\ cost'[v] = cost[v]
      BY <1>7, OthersKeep
    <2>4. \A v \in Workers : pc'[v] = "idle" => cost'[v] = 0
      BY <1>1, <2>1, <2>3, IdleCost
    <2>5. PICK reserved, unrecorded, spending, k \in Nat :
            /\ Reserved = reserved + held[w] /\ Reserved' = reserved
            /\ Unrecorded = unrecorded /\ Unrecorded' = unrecorded
            /\ InFlight = spending + cost[w] /\ InFlight' = spending
            /\ Cardinality(Outstanding) = k + 1 /\ Cardinality(Outstanding') = k
      BY <1>1, <2>1, <2>2, <2>3, WorkerStep DEF Out
    <2>6. spent' = spent - held[w] /\ unsettled' = unsettled - 1
      BY <1>2, <2>1, <2>2, <2>5 DEF Larger
    <2>7. CounterCovers'
      BY <1>2, <2>1, <2>2, <2>5, <2>6 DEF CounterCovers
    <2>8. Visible'
      BY <1>2, <2>1, <2>2, <2>5, <2>6 DEF Visible
    <2> QED BY <2>4, <2>7, <2>8 DEF LedgerInv
  <1>8. ASSUME NEW w \in Workers, Settle(w) PROVE LedgerInv'
    <2>1. /\ pc[w] = "settle" /\ pc'[w] = "record" /\ held' = held /\ cost' = cost
          /\ spent' = Larger(spent + (cost[w] - held[w]), 0)
          /\ unsettled' = Larger(unsettled - 1, 0)
          /\ billed' = billed /\ events' = events
      BY <1>8 DEF Settle, SettleTo, At, Goto, TypeOK, callVars
    <2>2. cost[w] \in Nat /\ held[w] \in Nat
      BY <1>3
    <2>3. \A v \in Workers \ {w} : pc'[v] = pc[v] /\ held'[v] = held[v] /\ cost'[v] = cost[v]
      BY <1>8, OthersKeep
    <2>4. \A v \in Workers : pc'[v] = "idle" => cost'[v] = 0
      BY <1>1, <2>1, <2>3, IdleCost
    <2>5. PICK reserved, unrecorded, spending, k \in Nat :
            /\ Reserved = reserved + held[w] /\ Reserved' = reserved
            /\ Unrecorded = unrecorded /\ Unrecorded' = unrecorded + cost[w]
            /\ InFlight = spending + cost[w] /\ InFlight' = spending
            /\ Cardinality(Outstanding) = k + 1 /\ Cardinality(Outstanding') = k
      BY <1>1, <2>1, <2>2, <2>3, WorkerStep DEF Out
    <2>6. spent' = spent + (cost[w] - held[w]) /\ unsettled' = unsettled - 1
      BY <1>2, <2>1, <2>2, <2>5 DEF Larger
    <2>7. CounterCovers'
      BY <1>2, <2>1, <2>2, <2>5, <2>6 DEF CounterCovers
    <2>8. Visible'
      BY <1>2, <2>1, <2>2, <2>5, <2>6 DEF Visible
    <2> QED BY <2>4, <2>7, <2>8 DEF LedgerInv
  <1>9. ASSUME NEW w \in Workers, RecordUsage(w) PROVE LedgerInv'
    <2>1. /\ pc[w] = "record" /\ pc'[w] = "idle" /\ held'[w] = 0 /\ cost'[w] = 0
          /\ events' = events + cost[w]
          /\ billed' = billed /\ spent' = spent /\ unsettled' = unsettled
      BY <1>9 DEF RecordUsage, Done, At, Goto, TypeOK
    <2>2. cost[w] \in Nat /\ held[w] \in Nat
      BY <1>3
    <2>3. \A v \in Workers \ {w} : pc'[v] = pc[v] /\ held'[v] = held[v] /\ cost'[v] = cost[v]
      BY <1>9, OthersKeep
    <2>4. \A v \in Workers : pc'[v] = "idle" => cost'[v] = 0
      BY <1>1, <2>1, <2>3, IdleCost
    <2>5. PICK reserved, unrecorded, spending, k \in Nat :
            /\ Reserved = reserved /\ Reserved' = reserved
            /\ Unrecorded = unrecorded + cost[w] /\ Unrecorded' = unrecorded
            /\ InFlight = spending /\ InFlight' = spending
            /\ Cardinality(Outstanding) = k /\ Cardinality(Outstanding') = k
      BY <1>1, <2>1, <2>2, <2>3, WorkerStep DEF Out
    <2>6. CounterCovers'
      BY <1>2, <2>1, <2>2, <2>5 DEF CounterCovers
    <2>7. Visible'
      BY <1>2, <2>1, <2>2, <2>5 DEF Visible
    <2> QED BY <2>4, <2>6, <2>7 DEF LedgerInv
  <1>10. ASSUME NEW w \in Workers, Abandon(w) PROVE LedgerInv'
    <2>1. /\ pc[w] \in Out \cup {"record"} /\ pc'[w] = "idle" /\ held'[w] = 0 /\ cost'[w] = 0
          /\ events' = events /\ billed' = billed /\ spent' = spent /\ unsettled' = unsettled
      BY <1>10 DEF Abandon, Done, Goto, TypeOK, counters, Out
    <2>2. cost[w] \in Nat /\ held[w] \in Nat
      BY <1>3
    <2>3. \A v \in Workers \ {w} : pc'[v] = pc[v] /\ held'[v] = held[v] /\ cost'[v] = cost[v]
      BY <1>10, OthersKeep
    <2>4. \A v \in Workers : pc'[v] = "idle" => cost'[v] = 0
      BY <1>1, <2>1, <2>3, IdleCost
    <2>5. PICK reserved, unrecorded, spending, k \in Nat :
            /\ Reserved = reserved + (IF pc[w] \in Out THEN held[w] ELSE 0) /\ Reserved' = reserved
            /\ Unrecorded = unrecorded + (IF pc[w] = "record" THEN cost[w] ELSE 0)
            /\ Unrecorded' = unrecorded
            /\ InFlight = spending + (IF pc[w] \in Out THEN cost[w] ELSE 0) /\ InFlight' = spending
            /\ Cardinality(Outstanding) = k + (IF pc[w] \in Out THEN 1 ELSE 0)
            /\ Cardinality(Outstanding') = k
      BY <1>1, <2>1, <2>2, <2>3, WorkerStep DEF Out
    <2>6. CASE pc[w] \in Out
      <3>1. CounterCovers'
        BY <1>2, <2>1, <2>2, <2>5, <2>6 DEF CounterCovers, Out
      <3>2. Visible'
        BY <1>2, <2>1, <2>2, <2>5, <2>6 DEF Visible
      <3> QED BY <2>4, <3>1, <3>2 DEF LedgerInv
    <2>7. CASE pc[w] = "record"
      <3>0. pc[w] \notin Out
        BY <2>7 DEF Out
      <3>1. CounterCovers'
        BY <1>2, <2>1, <2>2, <2>5, <2>7, <3>0 DEF CounterCovers
      <3>2. Visible'
        BY <1>2, <2>1, <2>2, <2>5, <2>7, <3>0 DEF Visible
      <3> QED BY <2>4, <3>1, <3>2 DEF LedgerInv
    <2> QED BY <2>1, <2>6, <2>7
  <1>11. CASE RaiseCap \/ UNCHANGED vars
    <2>1. UNCHANGED <<pc, held, cost, spent, unsettled, events, billed>>
      BY <1>11 DEF RaiseCap, vars, counters, callVars
    <2>2. UNCHANGED <<Outstanding, Recording>>
      BY <2>1 DEF Outstanding, Recording
    <2>3. UNCHANGED <<Reserved, Unrecorded, InFlight>>
      <3>1. (Reserved = SumOver(held, Outstanding) /\ Unrecorded = SumOver(cost, Recording))'
        BY SumsOf, PTL
      <3> QED BY <2>1, <2>2, <3>1, SumsOf DEF InFlight
    <2> QED BY <2>1, <2>2, <2>3 DEF LedgerInv, CounterCovers, Visible
  <1> QED BY <1>4, <1>5, <1>6, <1>7, <1>8, <1>9, <1>10, <1>11 DEF Next

LEMMA InitLedger == Init => LedgerInv
  <1> SUFFICES ASSUME Init PROVE LedgerInv
    OBVIOUS
  <1>1. Outstanding = {} /\ Recording = {}
    BY DEF Init, Outstanding, Recording
  <1>2. Reserved = 0 /\ Unrecorded = 0 /\ InFlight = 0
    <2>1. IsFiniteSet({}) /\ SumOver(held, {}) = 0 /\ SumOver(cost, {}) = 0
      BY FS_EmptySet, SumUnfolds
    <2> QED BY <1>1, <2>1, SumsOf DEF InFlight
  <1>3. Cardinality(Outstanding) = 0
    BY <1>1, FS_EmptySet
  <1> QED BY <1>2, <1>3 DEF Init, LedgerInv, CounterCovers, Visible

\* However many workers call, fail, die or are refused, and at whatever step, the counter
\* covers every usage event, every call still to be logged and every running reservation.
THEOREM TheCounterCovers == Spec => []CounterCovers
  <1>1. LedgerInv => CounterCovers
    BY DEF LedgerInv
  <1> QED BY <1>1, BudgetTyping, InitLedger, StepLedger, PTL DEF Spec

\* What the counter holds above the bills and the running reservations always shows as an
\* unsettled call that no worker runs any more.
THEOREM LostCallsAreVisible == Spec => []OvercountIsVisible
  <1>1. TypeOK /\ LedgerInv => OvercountIsVisible
    <2> SUFFICES ASSUME TypeOK, LedgerInv PROVE OvercountIsVisible
      OBVIOUS
    <2>1. InFlight \in Nat /\ spent \in Nat /\ billed \in Nat /\ Reserved \in Nat
      BY SumsAreNat DEF TypeOK
    <2> QED BY <2>1 DEF LedgerInv, Visible, OvercountIsVisible
  <1> QED BY <1>1, BudgetTyping, InitLedger, StepLedger, PTL DEF Spec

==========================================================================
