---------------------------- MODULE DriftStat ----------------------------
(***************************************************************************)
(* One tenant's drift_stats row for one document type, and what observing  *)
(* a document does to it. The first BaselineN documents define what is     *)
(* normal; from then on each signal of a document is compared with it, and *)
(* K breaching documents in a row on one signal are drift.                 *)
(* Numbers are exact: a value is a whole number of 1/Unit, and instead of  *)
(* a mean and a sum of squared deviations, m2, a signal keeps its sum and  *)
(* spread = n * m2. The centroid's vector is left out: a document brings   *)
(* the distance it would be measured at, with any centroid of its size.    *)
(***************************************************************************)
EXTENDS Integers, FiniteSets

CONSTANTS
    BaselineN, \* drift.json: documents that define the baseline
    K,         \* drift.json: consecutive breaching documents that are drift
    Threshold, \* drift.json: standard deviations that are a breach
    MinStd,    \* drift.json: least deviation of a signal that is not a rate
    Unit,      \* the value 1
    None       \* no row, no value, no centroid

ASSUME DriftAssumption ==
    /\ BaselineN \in Nat \ {0} /\ K \in Nat \ {0}
    /\ Threshold \in Nat \ {0} /\ MinStd \in Nat \ {0} /\ Unit \in Nat \ {0}

SIGNAL_DIRECTION == [doc_confidence |-> "down", validation_failure |-> "up", text_distance |-> "up"]
Signals == DOMAIN SIGNAL_DIRECTION
RATE_SIGNALS == {"validation_failure"}

Value == Int \cup {None}
Stat == [n : Nat, sum : Int, spread : Int, consecutive : Nat]
Row == [status : {"baseline", "stable", "drifting"}, n_observed : Nat,
        stats : [Signals -> Stat], centroid : [dim : Nat, folded : Nat] \cup {None},
        flagged_signals : SUBSET Signals, flagged_document : Nat \cup {None}]

ASSUME NoneAssumption == None \notin Int \cup Row \cup [dim : Nat, folded : Nat]

NoStat == [n |-> 0, sum |-> 0, spread |-> 0, consecutive |-> 0]

NewRow == [status |-> "baseline", n_observed |-> 0, stats |-> [s \in Signals |-> NoStat],
           centroid |-> None, flagged_signals |-> {}, flagged_document |-> None]

\* One Welford step: m2 grows by (v - mean) * (v - the new mean).
WelfordUpdate(stat, v) ==
    LET delta == stat.n * v - stat.sum
    IN  [stat EXCEPT !.n = @ + 1, !.sum = @ + v,
                     !.spread = IF stat.n = 0 THEN 0
                                  ELSE ((stat.n + 1) * @ + delta * delta) \div stat.n]

\* The square of the baseline's deviation, as a fraction: Bernoulli's with Laplace's
\* smoothing for a rate, the sample's for the others, and never under the floor.
BaselineVariance(s, stat) ==
    LET n == stat.n
        twice == 2 * stat.sum + Unit
        raw == IF s \in RATE_SIGNALS
                 THEN [num |-> twice * (2 * Unit * (n + 1) - twice), den |-> 4 * (n + 1) * (n + 1)]
                 ELSE [num |-> stat.spread, den |-> n * (n - 1)]
    IN  IF raw.num >= MinStd * MinStd * raw.den THEN raw ELSE [num |-> MinStd * MinStd, den |-> 1]

\* |z| >= threshold, on the side that is bad.
Breaches(s, stat, v) ==
    LET delta == stat.n * v - stat.sum
        sigma2 == BaselineVariance(s, stat)
    IN  /\ IF SIGNAL_DIRECTION[s] = "down" THEN delta < 0 ELSE delta > 0
        /\ delta * delta * sigma2.den >= Threshold * Threshold * stat.n * stat.n * sigma2.num

\* What a document says on each signal. Its text is measured against the centroid as it
\* stood before it, and not at all when there is none or its size is another.
SignalValues(row, doc, dim) ==
    [s \in Signals |->
        IF s # "text_distance" THEN doc[s]
        ELSE IF row.centroid = None \/ row.centroid.dim # dim THEN None ELSE doc[s]]

\* Mutant: an ordinary document does not end the run.
X_Judged(s, stat, v) ==
    IF v = None \/ stat.n < 2 THEN stat
    ELSE [stat EXCEPT !.consecutive = IF Breaches(s, stat, v) THEN @ + 1 ELSE @]

\* A signal the document lacks, or the baseline hardly saw, is left as it is.
Judged(s, stat, v) ==
    IF v = None \/ stat.n < 2 THEN stat
    ELSE [stat EXCEPT !.consecutive = IF Breaches(s, stat, v) THEN @ + 1 ELSE 0]

Collected(stat, v) == IF v = None THEN stat ELSE WelfordUpdate(stat, v)

Collecting(n) == n <= BaselineN

\* A mean of n_observed profiles; a profile of another size starts it again.
Centroid(row, n, dim) ==
    IF ~Collecting(n) THEN row.centroid
    ELSE IF row.centroid = None \/ row.centroid.dim # dim THEN [dim |-> dim, folded |-> 1]
    ELSE [row.centroid EXCEPT !.folded = @ + 1]

Flagged(stats) == {s \in Signals : stats[s].consecutive >= K}

\* Mutant: the document named is the last one that flagged.
X_FirstFlag(row, id) == id

FirstFlag(row, id) == IF row.flagged_document = None THEN id ELSE row.flagged_document

\* _observe: the row after document doc, with identity id, is folded into it.
Observe(row, doc, id, dim) ==
    LET v == SignalValues(row, doc, dim)
        n == row.n_observed + 1
        stats == [s \in Signals |-> IF Collecting(n) THEN Collected(row.stats[s], v[s])
                                     ELSE Judged(s, row.stats[s], v[s])]
        flagged == Flagged(stats)
    IN  [status |-> IF flagged # {} THEN "drifting"
                    ELSE IF ~Collecting(n) THEN row.status
                    ELSE IF n >= BaselineN THEN "stable" ELSE "baseline",
         n_observed |-> n,
         stats |-> stats,
         centroid |-> Centroid(row, n, dim),
         flagged_signals |-> IF flagged # {} THEN flagged ELSE row.flagged_signals,
         flagged_document |-> IF flagged # {} THEN FirstFlag(row, id) ELSE row.flagged_document]

\* newly_flagged: the one time the caller logs the drift.
NewlyFlagged(row, after) == Flagged(after.stats) # {} /\ row.flagged_signals = {}

==========================================================================
