--------------------------- MODULE DriftProofs ---------------------------
(***************************************************************************)
(* The drift detector for any workers, shapes of documents, lengths of     *)
(* baseline and run, and thresholds. The row is committed with the         *)
(* extraction it describes, under a lock only its reader holds, so a fold  *)
(* starts from the row as it is; each fold is one Welford step, and the    *)
(* invariant says what a pass over the stored documents would find.        *)
(***************************************************************************)
EXTENDS Drift, SumTheorems, SequenceTheorems

Message == [id : Nat, doc : Shapes, receives : Nat]
Stored == [id : Nat, doc : Shapes, dim : Nat, values : [Signals -> Value]]

Typed ==
    /\ row \in Row \cup {None}
    /\ dim \in Nat /\ arrived \in Nat /\ crashes \in Nat
    /\ waiting \subseteq Message /\ announced \in Nat
    /\ at \in [Workers -> {"idle", "first", "fold", "commit"}]
    /\ tx \in [Workers -> [message : Message \cup {None}, row : Row \cup {None}]]
    /\ holder \in Workers \cup {None}
    /\ stored \in Seq(Stored)

\* The row an observation starts from: the one committed, or the one it inserts.
Base == IF row = None THEN NewRow ELSE row

\* Only the lock's holder folds, so the row it read is the row.
LockInv ==
    \A w \in Workers :
        /\ at[w] # "idle" => tx[w].message \in Message
        /\ at[w] \in {"fold", "commit"} => holder = w /\ tx[w].row = Base

\* Deliveries so far: each crash costs one, and the race for the first row one more.
DeliveryInv ==
    /\ \A m \in waiting : m.receives <= 1 + crashes /\ (row = None => m.receives <= crashes)
    /\ \A w \in Workers :
        /\ at[w] = "first" => tx[w].message.receives <= 1 + crashes
        /\ at[w] \in {"fold", "commit"} =>
              /\ tx[w].message.receives <= 2 + crashes
              /\ row = None => tx[w].message.receives <= 1 + crashes

Squares(s) == [i \in DOMAIN stored |-> stored[i].values[s] * stored[i].values[s]]

\* One statistic, as the code streams it: spread is what n times the sum of squares
\* exceeds the square of the sum by, and consecutive is the length of the run.
Streamed(s, stat) ==
    /\ stat.n = Cardinality(Baseline(s))
    /\ stat.sum = Total(Column(s), Baseline(s))
    /\ stat.spread = stat.n * Total(Squares(s), Baseline(s)) - stat.sum * stat.sum
    /\ stat.consecutive = IF stat.n >= 2 THEN Cardinality(Run(s, Len(stored))) ELSE 0

StatsInv ==
    /\ row = None <=> stored = << >>
    /\ Base.n_observed = Len(stored)
    /\ \A s \in Signals : Streamed(s, Base.stats[s])

FlagInv ==
    LET drifted == \E i \in DOMAIN stored : Drifted(i)
    IN  /\ Base.status = "drifting" <=> drifted
        /\ Base.flagged_signals = {} <=> ~drifted
        /\ Base.flagged_document = None <=> ~drifted
        /\ \A i \in DOMAIN stored :
              Drifted(i) /\ (\A j \in 1..(i - 1) : ~Drifted(j)) =>
                  Base.flagged_document = stored[i].id

\* The centroid has the size of the last document that went into it.
MeasuredInv ==
    /\ \A i \in DOMAIN stored : \A s \in Signals : stored[i].values[s] = Measured(i, s)
    /\ Len(stored) = 0 => Base.centroid = None
    /\ Len(stored) > 0 => /\ Base.centroid # None
                          /\ Base.centroid.dim = stored[Reference(Len(stored) + 1)].dim

\* Drift that is on record, or about to be, was logged; a line more is a lost transaction's.
Pending == \E w \in Workers : at[w] = "commit" /\ Announces(w)
OnRecord == Base.flagged_signals # {}
AnnounceInv ==
    /\ OnRecord \/ Pending => announced >= 1
    /\ announced <= crashes + (IF OnRecord \/ Pending THEN 1 ELSE 0)

--------------------------------------------------------------------------
(* The arithmetic of a baseline.                                           *)

Scaled(f, S, a, b) == [i \in S |-> (a * f[i] + b) * (a * f[i] + b)]
Squared(f, S) == [i \in S |-> f[i] * f[i]]

\* What is to be summed over a set, each member squared after a change of scale.
LEMMA ScaledSquares ==
    ASSUME NEW S, IsFiniteSet(S), NEW f, \A i \in S : f[i] \in Int, NEW a \in Int, NEW b \in Int
    PROVE  SumOver(Scaled(f, S, a, b), S)
             = a * a * SumOver(Squared(f, S), S)
                 + 2 * a * b * SumOver(f, S) + Cardinality(S) * b * b
  <1> DEFINE off == [i \in S |-> (a * f[i] + b) * (a * f[i] + b)]
             square == [i \in S |-> f[i] * f[i]]
             Claim(s) == SumOver(off, s) = a * a * SumOver(square, s)
                                             + 2 * a * b * SumOver(f, s) + Cardinality(s) * b * b
             Bad == {n \in Nat : \E s \in SUBSET S : Cardinality(s) = n /\ ~Claim(s)}
  <1>1. \A s \in SUBSET S : IsFiniteSet(s) /\ Cardinality(s) \in Nat
    BY FS_Subset, FS_CardinalityType
  <1>2. \A i \in S : off[i] \in Int /\ square[i] \in Int
    <2> TAKE i \in S
    <2>1. PICK v \in Int : v = f[i]
      OBVIOUS
    <2>2. off[i] = (a * v + b) * (a * v + b) /\ square[i] = v * v
      BY <2>1
    <2> QED BY <2>2
  <1>3. \A s \in SUBSET S : \A x \in s :
          /\ SumOver(off, s) = off[x] + SumOver(off, s \ {x})
          /\ SumOver(square, s) = square[x] + SumOver(square, s \ {x})
          /\ SumOver(f, s) = f[x] + SumOver(f, s \ {x})
    <2> TAKE s \in SUBSET S
    <2> TAKE x \in s
    <2> HIDE DEF off, square
    <2>1. IsFiniteSet(s) /\ \A i \in s : off[i] \in Int /\ square[i] \in Int /\ f[i] \in Int
      BY <1>1, <1>2
    <2>2. SumOver(off, s) = off[x] + SumOver(off, s \ {x})
      BY <2>1, SumRemove
    <2>3. SumOver(square, s) = square[x] + SumOver(square, s \ {x})
      BY <2>1, SumRemove
    <2>4. SumOver(f, s) = f[x] + SumOver(f, s \ {x})
      BY <2>1, SumRemove
    <2> QED BY <2>2, <2>3, <2>4
  <1>4. \A s \in SUBSET S : SumOver(square, s) \in Int /\ SumOver(f, s) \in Int
    <2> TAKE s \in SUBSET S
    <2> HIDE DEF off, square
    <2>1. IsFiniteSet(s) /\ \A i \in s : square[i] \in Int /\ f[i] \in Int
      BY <1>1, <1>2
    <2>2. SumOver(square, s) \in Int
      BY <2>1, SumIsInt
    <2>3. SumOver(f, s) \in Int
      BY <2>1, SumIsInt
    <2> QED BY <2>2, <2>3
  <1>5. Bad = {}
    <2> SUFFICES ASSUME Bad # {} PROVE FALSE
      OBVIOUS
    <2>1. PICK n \in Bad : \A m \in Bad : n <= m
      BY LeastNumber
    <2>2. PICK s \in SUBSET S : Cardinality(s) = n /\ ~Claim(s)
      BY <2>1
    <2>3. CASE s = {}
      <3>1. SumOver(off, {}) = 0
        <4> HIDE DEF off
        <4> QED BY SumUnfolds, FS_EmptySet
      <3>2. SumOver(square, {}) = 0
        <4> HIDE DEF square
        <4> QED BY SumUnfolds, FS_EmptySet
      <3>3. SumOver(f, {}) = 0 /\ Cardinality({}) = 0
        BY SumUnfolds, FS_EmptySet
      <3> HIDE DEF off, square
      <3> QED BY <2>2, <2>3, <3>1, <3>2, <3>3
    <2>4. CASE s # {}
      <3>1. PICK x \in s : TRUE
        BY <2>4
      <3> DEFINE r == s \ {x}
      <3>2. r \in SUBSET S /\ Cardinality(r) = n - 1 /\ n - 1 \in Nat
        BY <1>1, <2>2, <3>1, Smaller
      <3>3. Claim(r)
        <4>1. n \in Int /\ ~(n <= n - 1)
          BY <2>1
        <4>2. n - 1 \notin Bad
          <5> HIDE DEF Bad
          <5> QED BY <2>1, <4>1
        <4> HIDE DEF Claim
        <4> QED BY <3>2, <4>2
      <3>4. PICK v \in Int : v = f[x]
        OBVIOUS
      <3>5. off[x] = (a * v + b) * (a * v + b) /\ square[x] = v * v
        BY <3>4
      <3>6. PICK q \in Int : q = SumOver(square, r)
        BY <1>4, <3>2
      <3>7. PICK t \in Int : t = SumOver(f, r)
        BY <1>4, <3>2
      <3>8. PICK c \in Int : c = Cardinality(r)
        BY <3>2
      <3> HIDE DEF off, square, r
      <3>9. SumOver(off, s) = (a * v + b) * (a * v + b) + (a * a * q + 2 * a * b * t + c * b * b)
        BY <1>3, <3>1, <3>3, <3>5, <3>6, <3>7, <3>8 DEF r
      <3>10. SumOver(square, s) = v * v + q /\ SumOver(f, s) = v + t /\ Cardinality(s) = c + 1
        BY <1>3, <2>2, <3>1, <3>2, <3>4, <3>5, <3>6, <3>7, <3>8 DEF r
      <3>11. (a * v + b) * (a * v + b) + (a * a * q + 2 * a * b * t + c * b * b)
               = a * a * (v * v + q) + 2 * a * b * (v + t) + (c + 1) * b * b
        BY SMTT(30)
      <3> QED BY <2>2, <3>9, <3>10, <3>11
    <2> QED BY <2>3, <2>4
  <1>6. Cardinality(S) \in Nat /\ S \in SUBSET S
    BY <1>1
  <1>7. Claim(S)
    <2> HIDE DEF Claim
    <2> QED BY <1>5, <1>6
  <1> QED BY <1>7 DEF Scaled, Squared

\* The squares of the deviations, summed in a second pass, are what the spread says.
LEMMA Deviations ==
    ASSUME NEW S, IsFiniteSet(S), NEW f, \A i \in S : f[i] \in Int, NEW n, n = Cardinality(S),
           NEW t, t = SumOver(f, S)
    PROVE  n * (n * SumOver([i \in S |-> f[i] * f[i]], S) - t * t)
             = SumOver([i \in S |-> (n * f[i] - t) * (n * f[i] - t)], S)
  <1>1. n \in Int /\ t \in Int
    BY SumIsInt, FS_CardinalityType
  <1> DEFINE square == [i \in S |-> f[i] * f[i]]
  <1>2. PICK q \in Int : q = SumOver(square, S)
    <2>1. \A i \in S : square[i] \in Int
      <3> TAKE i \in S
      <3>1. PICK v \in Int : v = f[i]
        OBVIOUS
      <3> QED BY <3>1
    <2> HIDE DEF square
    <2> QED BY <2>1, SumIsInt
  <1>3. PICK b \in Int : b = -t
    BY <1>1
  <1>4. SumOver([i \in S |-> (n * f[i] + b) * (n * f[i] + b)], S)
          = n * n * q + 2 * n * b * t + n * b * b
    <2>1. SumOver(Scaled(f, S, n, b), S)
            = n * n * SumOver(Squared(f, S), S)
                + 2 * n * b * SumOver(f, S) + Cardinality(S) * b * b
      BY <1>1, <1>3, ScaledSquares
    <2>2. /\ Scaled(f, S, n, b) = [i \in S |-> (n * f[i] + b) * (n * f[i] + b)]
          /\ Squared(f, S) = square
      BY DEF Scaled, Squared
    <2> HIDE DEF square
    <2> QED BY <1>2, <2>1, <2>2
  <1>5. [i \in S |-> (n * f[i] + b) * (n * f[i] + b)] = [i \in S |-> (n * f[i] - t) * (n * f[i] - t)]
    <2>1. ASSUME NEW i \in S
          PROVE  (n * f[i] + b) * (n * f[i] + b) = (n * f[i] - t) * (n * f[i] - t)
      <3>1. PICK v \in Int : v = f[i]
        OBVIOUS
      <3>2. PICK p \in Int : p = n * v
        BY <1>1
      <3>3. p + b = p - t
        BY <1>1, <1>3
      <3> QED BY <3>1, <3>2, <3>3
    <2> QED BY <2>1
  <1>6. n * n * q + 2 * n * b * t + n * b * b = n * (n * q - t * t)
    BY <1>1, <1>3, SMTT(30)
  <1> HIDE DEF square
  <1> QED BY <1>2, <1>4, <1>5, <1>6 DEF square

--------------------------------------------------------------------------
(* Types.                                                                  *)

LEMMA SignalFacts ==
    /\ "text_distance" \in Signals /\ NewRow \in Row /\ NewRow # None /\ None \notin Row
    /\ \A s \in Signals : NewRow.stats[s] = NoStat
    /\ NewRow.n_observed = 0 /\ NewRow.status = "baseline"
    /\ NewRow.flagged_signals = {} /\ NewRow.flagged_document = None
  <1>1. NoStat \in Stat
    BY DEF NoStat, Stat
  <1>2. NewRow \in Row
    BY <1>1 DEF NewRow, Row
  <1> QED BY <1>1, <1>2, NoneAssumption DEF Signals, SIGNAL_DIRECTION, NewRow

LEMMA ValuesType ==
    ASSUME NEW r, NEW doc \in Shapes, NEW d
    PROVE  SignalValues(r, doc, d) \in [Signals -> Value]
  BY ShapesAssumption DEF SignalValues, Value

LEMMA WelfordType ==
    ASSUME NEW stat \in Stat, NEW v \in Int
    PROVE  WelfordUpdate(stat, v) \in Stat
  <1> DEFINE delta == stat.n * v - stat.sum
             spread == IF stat.n = 0 THEN 0
                       ELSE ((stat.n + 1) * stat.spread + delta * delta) \div stat.n
  <1>1. /\ stat.n \in Nat /\ stat.sum \in Int /\ stat.spread \in Int /\ stat.consecutive \in Nat
        /\ stat = [n |-> stat.n, sum |-> stat.sum, spread |-> stat.spread,
                   consecutive |-> stat.consecutive]
    BY DEF Stat
  <1>2. spread \in Int
    <2>1. PICK p \in Int : p = stat.n * v
      BY <1>1
    <2>2. PICK e \in Int : e = delta
      BY <1>1, <2>1
    <2>3. PICK x \in Int : x = (stat.n + 1) * stat.spread + e * e
      BY <1>1, <2>2
    <2>4. stat.n # 0 => x \div stat.n \in Int
      BY <1>1, <2>3
    <2> QED BY <2>2, <2>3, <2>4
  <1>3. WelfordUpdate(stat, v) = [n |-> stat.n + 1, sum |-> stat.sum + v, spread |-> spread,
                                  consecutive |-> stat.consecutive]
    <2>1. WelfordUpdate(stat, v)
            = [stat EXCEPT !.n = stat.n + 1, !.sum = stat.sum + v, !.spread = spread]
      BY DEF WelfordUpdate
    <2> HIDE DEF spread
    <2> QED BY <1>1, <2>1 DEF Stat
  <1> HIDE DEF spread
  <1> QED BY <1>1, <1>2, <1>3 DEF Stat

LEMMA CollectedType ==
    ASSUME NEW stat \in Stat, NEW v \in Value PROVE Collected(stat, v) \in Stat
  BY WelfordType DEF Collected, Value

LEMMA JudgedType ==
    ASSUME NEW stat \in Stat, NEW v \in Value, NEW s PROVE Judged(s, stat, v) \in Stat
  BY DEF Judged, Stat

\* The statistics after an observation.
StatsAfter(r, doc, d) ==
    [s \in Signals |-> IF Collecting(r.n_observed + 1)
                         THEN Collected(r.stats[s], SignalValues(r, doc, d)[s])
                         ELSE Judged(s, r.stats[s], SignalValues(r, doc, d)[s])]

\* What an observation leaves in the row.
LEMMA Observed ==
    ASSUME NEW r, NEW doc, NEW id, NEW d
    PROVE  /\ Observe(r, doc, id, d).stats = StatsAfter(r, doc, d)
           /\ Observe(r, doc, id, d).n_observed = r.n_observed + 1
           /\ Observe(r, doc, id, d).status =
                 IF Flagged(StatsAfter(r, doc, d)) # {} THEN "drifting"
                 ELSE IF ~Collecting(r.n_observed + 1) THEN r.status
                 ELSE IF r.n_observed + 1 >= BaselineN THEN "stable" ELSE "baseline"
           /\ Observe(r, doc, id, d).flagged_signals =
                 IF Flagged(StatsAfter(r, doc, d)) # {} THEN Flagged(StatsAfter(r, doc, d))
                 ELSE r.flagged_signals
           /\ Observe(r, doc, id, d).flagged_document =
                 IF Flagged(StatsAfter(r, doc, d)) # {} THEN FirstFlag(r, id)
                 ELSE r.flagged_document
  BY DEF Observe, StatsAfter

LEMMA ObserveType ==
    ASSUME NEW r \in Row, NEW doc \in Shapes, NEW id \in Nat, NEW d \in Nat
    PROVE  Observe(r, doc, id, d) \in Row
  <1>1. StatsAfter(r, doc, d) \in [Signals -> Stat]
    <2>1. ASSUME NEW s \in Signals
          PROVE  /\ Collected(r.stats[s], SignalValues(r, doc, d)[s]) \in Stat
                 /\ Judged(s, r.stats[s], SignalValues(r, doc, d)[s]) \in Stat
      <3>1. r.stats[s] \in Stat /\ SignalValues(r, doc, d)[s] \in Value
        BY ValuesType DEF Row
      <3> QED BY <3>1, CollectedType, JudgedType
    <2> QED BY <2>1 DEF StatsAfter
  <1>2. Centroid(r, r.n_observed + 1, d) \in [dim : Nat, folded : Nat] \cup {None}
    BY DEF Centroid, Row
  <1>3. Flagged(StatsAfter(r, doc, d)) \subseteq Signals
    BY DEF Flagged
  <1>4. FirstFlag(r, id) \in Nat \cup {None}
    BY DEF FirstFlag, Row
  <1>5. Observe(r, doc, id, d) =
          [status |-> Observe(r, doc, id, d).status,
           n_observed |-> Observe(r, doc, id, d).n_observed,
           stats |-> Observe(r, doc, id, d).stats,
           centroid |-> Centroid(r, r.n_observed + 1, d),
           flagged_signals |-> Observe(r, doc, id, d).flagged_signals,
           flagged_document |-> Observe(r, doc, id, d).flagged_document]
    BY DEF Observe
  <1>6. /\ r.n_observed \in Nat /\ r.status \in {"baseline", "stable", "drifting"}
        /\ r.flagged_signals \subseteq Signals /\ r.flagged_document \in Nat \cup {None}
    BY DEF Row
  <1>7. /\ Observe(r, doc, id, d).stats \in [Signals -> Stat]
        /\ Observe(r, doc, id, d).n_observed \in Nat
        /\ Observe(r, doc, id, d).status \in {"baseline", "stable", "drifting"}
        /\ Observe(r, doc, id, d).flagged_signals \in SUBSET Signals
        /\ Observe(r, doc, id, d).flagged_document \in Nat \cup {None}
    BY <1>1, <1>3, <1>4, <1>6, Observed
  <1> QED BY <1>2, <1>5, <1>7 DEF Row

--------------------------------------------------------------------------
(* The lock: whoever folds has read the row as it is.                      *)

Tx == [message : Message \cup {None}, row : Row \cup {None}]

RowInv == Typed /\ LockInv /\ DeliveryInv

LEMMA InitRow == Init => RowInv
  <1> SUFFICES ASSUME Init PROVE RowInv
    OBVIOUS
  <1>1. Idle \in Tx
    BY DEF Idle, Tx
  <1>2. Typed
    BY <1>1 DEF Init, Typed, Tx
  <1> QED BY <1>2 DEF Init, RowInv, LockInv, DeliveryInv

\* Reading the row takes its lock, when there is a row to lock.
LEMMA ReadRowTakes ==
    ASSUME Typed, LockInv, NEW w \in Workers, NEW m \in Message, at[w] = "idle",
           row' = row, ReadRow(w, m)
    PROVE  /\ at' \in [Workers -> {"idle", "first", "fold", "commit"}]
           /\ tx' \in [Workers -> Tx] /\ holder' \in Workers \cup {None}
           /\ LockInv'
           /\ tx'[w].message = m /\ at'[w] = (IF row = None THEN "first" ELSE "fold")
           /\ \A v \in Workers \ {w} : at'[v] = at[v] /\ tx'[v] = tx[v]
  <1>1. /\ at \in [Workers -> {"idle", "first", "fold", "commit"}] /\ tx \in [Workers -> Tx]
        /\ holder \in Workers \cup {None} /\ row \in Row \cup {None}
    BY DEF Typed, Tx
  <1>2. /\ tx' = [tx EXCEPT ![w] = [message |-> m, row |-> row]]
        /\ [message |-> m, row |-> row] \in Tx
        /\ \/ row = None /\ at' = [at EXCEPT ![w] = "first"] /\ holder' = holder
           \/ row # None /\ holder = None /\ holder' = w /\ at' = [at EXCEPT ![w] = "fold"]
    BY <1>1 DEF ReadRow, Goto, Tx
  <1>3. /\ at' \in [Workers -> {"idle", "first", "fold", "commit"}]
        /\ tx' \in [Workers -> Tx] /\ holder' \in Workers \cup {None}
        /\ tx'[w] = [message |-> m, row |-> row]
        /\ at'[w] = (IF row = None THEN "first" ELSE "fold")
        /\ \A v \in Workers \ {w} : at'[v] = at[v] /\ tx'[v] = tx[v]
    BY <1>1, <1>2
  <1>4. Base' = Base
    BY DEF Base
  <1>5. ASSUME NEW v \in Workers
        PROVE  /\ at'[v] # "idle" => tx'[v].message \in Message
               /\ at'[v] \in {"fold", "commit"} => holder' = v /\ tx'[v].row = Base'
    <2>1. CASE v = w
      BY <1>2, <1>3, <1>4, <2>1 DEF Base
    <2>2. CASE v # w
      BY <1>2, <1>3, <1>4, <2>2, ShapesAssumption DEF LockInv
    <2> QED BY <2>1, <2>2
  <1> QED BY <1>3, <1>5 DEF LockInv

\* A transaction that ends leaves the others where they were, and the lock to nobody who
\* thinks to hold it.
LEMMA EndFrees ==
    ASSUME Typed, LockInv, NEW w \in Workers, at[w] # "idle",
           holder' = (IF holder = w THEN None ELSE holder),
           tx' = [tx EXCEPT ![w] = Idle], Goto(w, "idle")
    PROVE  /\ at' \in [Workers -> {"idle", "first", "fold", "commit"}]
           /\ tx' \in [Workers -> Tx] /\ holder' \in Workers \cup {None}
           /\ at'[w] = "idle"
           /\ \A v \in Workers \ {w} : at'[v] = at[v] /\ tx'[v] = tx[v]
           /\ \A v \in Workers \ {w} : at[v] \in {"fold", "commit"} =>
                holder' = v /\ at[w] \notin {"fold", "commit"}
           /\ tx[w].message \in Message
  <1>1. /\ at \in [Workers -> {"idle", "first", "fold", "commit"}] /\ tx \in [Workers -> Tx]
        /\ holder \in Workers \cup {None}
    BY DEF Typed, Tx
  <1>2. Idle \in Tx
    BY DEF Idle, Tx
  <1>3. at' = [at EXCEPT ![w] = "idle"]
    BY DEF Goto
  <1>4. /\ at' \in [Workers -> {"idle", "first", "fold", "commit"}]
        /\ tx' \in [Workers -> Tx] /\ holder' \in Workers \cup {None}
        /\ at'[w] = "idle"
        /\ \A v \in Workers \ {w} : at'[v] = at[v] /\ tx'[v] = tx[v]
    BY <1>1, <1>2, <1>3
  <1>5. \A v \in Workers \ {w} : at[v] \in {"fold", "commit"} => holder = v
    BY DEF LockInv
  <1>6. /\ tx[w].message \in Message /\ (at[w] \in {"fold", "commit"} => holder = w)
    BY DEF LockInv
  <1> QED BY <1>4, <1>5, <1>6

\* A message that comes to a worker has been received once more.
LEMMA Received ==
    ASSUME Typed, NEW m \in waiting
    PROVE  /\ [m EXCEPT !.receives = @ + 1] \in Message
           /\ [m EXCEPT !.receives = @ + 1].receives = m.receives + 1
           /\ m.receives \in Nat
  BY DEF Typed, Message

LEMMA StepRow == RowInv /\ [Next]_vars => RowInv'
  <1> SUFFICES ASSUME RowInv, [Next]_vars PROVE RowInv'
    OBVIOUS
  <1>0. /\ Typed /\ LockInv /\ DeliveryInv
        /\ at \in [Workers -> {"idle", "first", "fold", "commit"}] /\ tx \in [Workers -> Tx]
        /\ holder \in Workers \cup {None} /\ row \in Row \cup {None} /\ waiting \subseteq Message
        /\ crashes \in Nat
        /\ \A m \in waiting : m.receives \in Nat
        /\ \A w \in Workers : at[w] # "idle" => tx[w].message \in Message
    BY DEF RowInv, Typed, LockInv, Tx, Message
  <1>1. ASSUME NEW w \in Workers, NEW doc \in Shapes, Arrive(w, doc) PROVE RowInv'
    <2> DEFINE m == [id |-> arrived + 1, doc |-> doc, receives |-> 1]
    <2>1. m \in Message /\ m.receives = 1
      BY <1>0 DEF Typed, Message
    <2>2. /\ at[w] = "idle" /\ ReadRow(w, m) /\ arrived' = arrived + 1
          /\ UNCHANGED <<row, dim, waiting, stored, announced, crashes>>
      BY <1>1 DEF Arrive
    <2> HIDE DEF m
    <2>3. /\ at' \in [Workers -> {"idle", "first", "fold", "commit"}]
          /\ tx' \in [Workers -> Tx] /\ holder' \in Workers \cup {None}
          /\ LockInv'
          /\ tx'[w].message = m /\ at'[w] = (IF row = None THEN "first" ELSE "fold")
          /\ \A v \in Workers \ {w} : at'[v] = at[v] /\ tx'[v] = tx[v]
      BY <1>0, <2>1, <2>2, ReadRowTakes
    <2>4. Typed'
      BY <1>0, <2>2, <2>3 DEF Typed, Tx
    <2>5. DeliveryInv'
      BY <1>0, <2>1, <2>2, <2>3 DEF DeliveryInv
    <2> QED BY <2>3, <2>4, <2>5 DEF RowInv
  <1>2. ASSUME NEW w \in Workers, NEW k \in waiting, Redeliver(w, k) PROVE RowInv'
    <2> DEFINE m == [k EXCEPT !.receives = @ + 1]
    <2>1. m \in Message /\ m.receives = k.receives + 1 /\ k.receives \in Nat
      BY <1>0, Received
    <2>2. /\ at[w] = "idle" /\ ReadRow(w, m) /\ waiting' = waiting \ {k}
          /\ UNCHANGED <<row, dim, arrived, stored, announced, crashes>>
      BY <1>2 DEF Redeliver
    <2> HIDE DEF m
    <2>3. /\ at' \in [Workers -> {"idle", "first", "fold", "commit"}]
          /\ tx' \in [Workers -> Tx] /\ holder' \in Workers \cup {None}
          /\ LockInv'
          /\ tx'[w].message = m /\ at'[w] = (IF row = None THEN "first" ELSE "fold")
          /\ \A v \in Workers \ {w} : at'[v] = at[v] /\ tx'[v] = tx[v]
      BY <1>0, <2>1, <2>2, ReadRowTakes
    <2>4. Typed'
      BY <1>0, <2>2, <2>3 DEF Typed, Tx
    <2>5. DeliveryInv'
      BY <1>0, <2>1, <2>2, <2>3 DEF DeliveryInv
    <2> QED BY <2>3, <2>4, <2>5 DEF RowInv
  <1>3. ASSUME NEW w \in Workers, InsertRow(w) PROVE RowInv'
    <2>1. /\ at[w] = "first" /\ holder = None /\ row = None /\ holder' = w
          /\ tx' = [tx EXCEPT ![w] = [tx[w] EXCEPT !.row = NewRow]]
          /\ at' = [at EXCEPT ![w] = "fold"]
          /\ UNCHANGED <<row, dim, arrived, waiting, stored, announced, crashes>>
      BY <1>3 DEF InsertRow, Goto
    <2>2. /\ [tx[w] EXCEPT !.row = NewRow] \in Tx
          /\ [tx[w] EXCEPT !.row = NewRow].row = NewRow
          /\ [tx[w] EXCEPT !.row = NewRow].message = tx[w].message
      BY <1>0, SignalFacts DEF Tx
    <2>3. /\ at' \in [Workers -> {"idle", "first", "fold", "commit"}]
          /\ tx' \in [Workers -> Tx] /\ holder' \in Workers \cup {None}
          /\ at'[w] = "fold" /\ tx'[w].row = NewRow /\ tx'[w].message = tx[w].message
          /\ \A v \in Workers \ {w} : at'[v] = at[v] /\ tx'[v] = tx[v]
      BY <1>0, <2>1, <2>2
    <2>4. \A v \in Workers : at[v] \notin {"fold", "commit"}
      BY <1>0, <2>1, ShapesAssumption DEF LockInv
    <2>5. Typed'
      BY <1>0, <2>1, <2>3 DEF Typed, Tx
    <2>6. LockInv'
      BY <1>0, <2>1, <2>3, <2>4 DEF LockInv, Base
    <2>7. DeliveryInv'
      <3>1. tx[w].message.receives \in Nat /\ tx[w].message.receives <= 1 + crashes
        BY <1>0, <2>1 DEF DeliveryInv, Message
      <3>2. tx'[w].message.receives <= 2 + crashes' /\ tx'[w].message.receives <= 1 + crashes'
        BY <1>0, <2>1, <2>3, <3>1
      <3> QED BY <1>0, <2>1, <2>3, <3>2 DEF DeliveryInv
    <2> QED BY <2>5, <2>6, <2>7 DEF RowInv
  <1>4. ASSUME NEW w \in Workers, InsertFails(w) \/ Crash(w) PROVE RowInv'
    <2>1. /\ at[w] # "idle"
          /\ holder' = (IF holder = w THEN None ELSE holder)
          /\ tx' = [tx EXCEPT ![w] = Idle] /\ Goto(w, "idle")
          /\ waiting' = waiting \cup {tx[w].message}
          /\ UNCHANGED <<row, dim, arrived, stored, announced>>
          /\ \/ crashes' = crashes /\ at[w] = "first" /\ row # None
             \/ crashes' = crashes + 1
      BY <1>4 DEF InsertFails, Crash, Rollback
    <2>2. /\ at' \in [Workers -> {"idle", "first", "fold", "commit"}]
          /\ tx' \in [Workers -> Tx] /\ holder' \in Workers \cup {None}
          /\ at'[w] = "idle"
          /\ \A v \in Workers \ {w} : at'[v] = at[v] /\ tx'[v] = tx[v]
          /\ \A v \in Workers \ {w} : at[v] \in {"fold", "commit"} =>
                holder' = v /\ at[w] \notin {"fold", "commit"}
          /\ tx[w].message \in Message
      BY <1>0, <2>1, EndFrees
    <2>3. Typed'
      BY <1>0, <2>1, <2>2 DEF Typed, Tx
    <2>4. LockInv'
      BY <1>0, <2>1, <2>2 DEF LockInv, Base
    <2>5. DeliveryInv'
      <3>1. /\ crashes' \in Nat /\ crashes <= crashes' /\ tx[w].message.receives \in Nat
            /\ \A v \in Workers : at[v] # "idle" => tx[v].message.receives \in Nat
        BY <1>0, <2>1, <2>2 DEF Message
      <3>2. \A m \in waiting : m.receives <= 1 + crashes' /\ (row' = None => m.receives <= crashes')
        BY <1>0, <2>1, <3>1 DEF DeliveryInv
      <3>3. /\ tx[w].message.receives <= 1 + crashes'
            /\ row' = None => tx[w].message.receives <= crashes'
        BY <1>0, <2>1, <3>1 DEF DeliveryInv
      <3>4. \A v \in Workers \ {w} :
              /\ at'[v] = "first" => tx'[v].message.receives <= 1 + crashes'
              /\ at'[v] \in {"fold", "commit"} =>
                    /\ tx'[v].message.receives <= 2 + crashes'
                    /\ row' = None => tx'[v].message.receives <= 1 + crashes'
        BY <1>0, <2>1, <2>2, <3>1 DEF DeliveryInv
      <3> QED BY <2>1, <2>2, <3>2, <3>3, <3>4 DEF DeliveryInv
    <2> QED BY <2>3, <2>4, <2>5 DEF RowInv
  <1>5. ASSUME NEW w \in Workers, Fold(w) PROVE RowInv'
    <2>1. /\ at[w] = "fold" /\ at' = [at EXCEPT ![w] = "commit"]
          /\ announced' \in Nat
          /\ UNCHANGED <<row, dim, arrived, waiting, tx, holder, stored, crashes>>
      BY <1>0, <1>5 DEF Fold, Goto, Typed
    <2>2. /\ at' \in [Workers -> {"idle", "first", "fold", "commit"}]
          /\ at'[w] = "commit" /\ \A v \in Workers \ {w} : at'[v] = at[v]
      BY <1>0, <2>1
    <2>3. Typed'
      BY <1>0, <2>1, <2>2 DEF Typed
    <2>4. LockInv'
      BY <1>0, <2>1, <2>2 DEF LockInv, Base
    <2>5. DeliveryInv'
      BY <1>0, <2>1, <2>2 DEF DeliveryInv
    <2> QED BY <2>3, <2>4, <2>5 DEF RowInv
  <1>6. ASSUME NEW w \in Workers, Commit(w) PROVE RowInv'
    <2> DEFINE m == tx[w].message
    <2>1. /\ at[w] = "commit"
          /\ row' = Observe(tx[w].row, m.doc, m.id, dim)
          /\ stored' = Append(stored, [id |-> m.id, doc |-> m.doc, dim |-> dim,
                                       values |-> SignalValues(tx[w].row, m.doc, dim)])
          /\ holder' = (IF holder = w THEN None ELSE holder)
          /\ tx' = [tx EXCEPT ![w] = Idle] /\ Goto(w, "idle")
          /\ UNCHANGED <<dim, arrived, waiting, announced, crashes>>
      BY <1>6 DEF Commit, Folded
    <2>2. /\ at' \in [Workers -> {"idle", "first", "fold", "commit"}]
          /\ tx' \in [Workers -> Tx] /\ holder' \in Workers \cup {None}
          /\ at'[w] = "idle"
          /\ \A v \in Workers \ {w} : at'[v] = at[v] /\ tx'[v] = tx[v]
          /\ \A v \in Workers \ {w} : at[v] \in {"fold", "commit"} =>
                holder' = v /\ at[w] \notin {"fold", "commit"}
          /\ tx[w].message \in Message
      BY <1>0, <2>1, EndFrees
    <2>3. /\ tx[w].row \in Row /\ m.doc \in Shapes /\ m.id \in Nat /\ dim \in Nat
      BY <1>0, <2>1, <2>2, SignalFacts DEF LockInv, Base, Typed, Message
    <2>4. row' \in Row /\ row' # None
      BY <2>1, <2>3, ObserveType, NoneAssumption
    <2>5. stored' \in Seq(Stored)
      <3>1. [id |-> m.id, doc |-> m.doc, dim |-> dim,
             values |-> SignalValues(tx[w].row, m.doc, dim)] \in Stored
        BY <2>3, ValuesType DEF Stored
      <3> QED BY <1>0, <2>1, <3>1, AppendProperties DEF Typed
    <2>6. Typed'
      BY <1>0, <2>1, <2>2, <2>4, <2>5 DEF Typed, Tx
    <2>7. LockInv'
      BY <1>0, <2>1, <2>2 DEF LockInv
    <2>8. DeliveryInv'
      BY <1>0, <2>1, <2>2, <2>4 DEF DeliveryInv
    <2> QED BY <2>6, <2>7, <2>8 DEF RowInv
  <1>7. CASE Deploy \/ UNCHANGED vars
    <2>1. /\ UNCHANGED <<row, arrived, waiting, at, tx, holder, stored, announced, crashes>>
          /\ dim' \in Nat
      BY <1>0, <1>7 DEF Deploy, vars, Typed
    <2> QED BY <2>1 DEF RowInv, Typed, LockInv, DeliveryInv, Base
  <1> QED BY <1>1, <1>2, <1>3, <1>4, <1>5, <1>6, <1>7 DEF Next, Work

\* Monitoring costs a document at most the delivery that loses the race for the first
\* row: any more deliveries are those of workers that died.
THEOREM RaceIsCheap == Spec => []RaceCostsOneDelivery
  <1>1. RowInv => RaceCostsOneDelivery
    BY DEF RowInv, DeliveryInv, RaceCostsOneDelivery
  <1> QED BY InitRow, StepRow, <1>1, PTL DEF Spec

--------------------------------------------------------------------------
(* The documents stored, and one more.                                     *)

StoresOneMore(V, id) ==
    /\ V \in [Signals -> Value] /\ id \in Nat
    /\ Len(stored) \in Nat /\ Len(stored') = Len(stored) + 1
    /\ DOMAIN stored = 1..Len(stored) /\ DOMAIN stored' = 1..(Len(stored) + 1)
    /\ stored'[Len(stored) + 1].id = id /\ stored'[Len(stored) + 1].values = V
    /\ \A i \in 1..Len(stored) : stored'[i] = stored[i]
    /\ \A i \in 1..Len(stored) : \A s \in Signals : stored[i].values[s] \in Value

LEMMA CommitStores ==
    ASSUME RowInv, NEW w \in Workers, Commit(w)
    PROVE  \E m \in Message :
             /\ row' = Observe(Base, m.doc, m.id, dim) /\ row' # None
             /\ StoresOneMore(SignalValues(Base, m.doc, dim), m.id)
             /\ stored'[Len(stored) + 1].doc = m.doc /\ stored'[Len(stored) + 1].dim = dim
  <1>1. /\ at[w] = "commit" /\ tx[w].message \in Message /\ tx[w].row = Base
        /\ stored \in Seq(Stored) /\ row \in Row \cup {None} /\ dim \in Nat
    BY DEF RowInv, Typed, LockInv, Commit
  <1>2. PICK m \in Message : m = tx[w].message
    BY <1>1
  <1> DEFINE d == [id |-> m.id, doc |-> m.doc, dim |-> dim,
                  values |-> SignalValues(Base, m.doc, dim)]
  <1>3. row' = Observe(Base, m.doc, m.id, dim) /\ stored' = Append(stored, d)
    BY <1>1, <1>2 DEF Commit, Folded
  <1>4. m.doc \in Shapes /\ m.id \in Nat /\ Base \in Row
    BY <1>1, SignalFacts DEF Message, Base
  <1>5. row' # None
    BY <1>1, <1>3, <1>4, ObserveType, NoneAssumption
  <1>6. SignalValues(Base, m.doc, dim) \in [Signals -> Value]
    BY <1>4, ValuesType
  <1>7. d \in Stored
    BY <1>1, <1>4, <1>6 DEF Stored
  <1>8. /\ Len(stored) \in Nat /\ Len(stored') = Len(stored) + 1
        /\ DOMAIN stored = 1..Len(stored) /\ DOMAIN stored' = 1..(Len(stored) + 1)
        /\ stored'[Len(stored) + 1] = d
        /\ \A i \in 1..Len(stored) : stored'[i] = stored[i]
    <2> HIDE DEF d
    <2> QED BY <1>1, <1>3, <1>7, AppendProperties, LenProperties
  <1>9. \A i \in 1..Len(stored) : \A s \in Signals : stored[i].values[s] \in Value
    <2>1. \A i \in 1..Len(stored) : stored[i] \in Stored
      BY <1>1, ElementOfSeq
    <2> QED BY <2>1 DEF Stored
  <1> QED BY <1>2, <1>3, <1>4, <1>5, <1>6, <1>8, <1>9 DEF StoresOneMore

\* Which documents carry a signal, and which of them the baseline is made of.
LEMMA CarriersGrow ==
    ASSUME NEW V, NEW id, StoresOneMore(V, id), NEW s \in Signals
    PROVE  /\ Carriers(s) \subseteq 1..Len(stored) /\ Len(stored) + 1 \notin Carriers(s)
           /\ Carriers(s)' = Carriers(s) \cup (IF V[s] = None THEN {} ELSE {Len(stored) + 1})
           /\ Baseline(s)' = Baseline(s) \cup (IF V[s] = None \/ Len(stored) + 1 > BaselineN
                                                 THEN {} ELSE {Len(stored) + 1})
           /\ IsFiniteSet(Baseline(s)) /\ Cardinality(Baseline(s)) \in Nat
           /\ \A i \in Carriers(s) : stored[i].values[s] \in Int /\ stored'[i] = stored[i]
           /\ Baseline(s) \subseteq Carriers(s)
  <1> DEFINE L == Len(stored)
  <1>1. /\ L \in Nat /\ DOMAIN stored = 1..L /\ DOMAIN stored' = 1..(L + 1)
        /\ stored'[L + 1].values = V
        /\ \A i \in 1..L : stored'[i] = stored[i] /\ stored[i].values[s] \in Value
    BY DEF StoresOneMore
  <1> HIDE DEF L
  <1>2. Carriers(s) \subseteq 1..L /\ L + 1 \notin Carriers(s)
    BY <1>1 DEF Carriers
  <1>3. Carriers(s)' = Carriers(s) \cup (IF V[s] = None THEN {} ELSE {L + 1})
    BY <1>1 DEF Carriers
  <1>4. Baseline(s)' = Baseline(s) \cup (IF V[s] = None \/ L + 1 > BaselineN THEN {} ELSE {L + 1})
    BY <1>1, <1>3, DriftAssumption DEF Baseline
  <1>5. IsFiniteSet(Baseline(s)) /\ Cardinality(Baseline(s)) \in Nat
    <2>1. IsFiniteSet(1..L)
      BY <1>1, FS_Interval
    <2>2. Baseline(s) \subseteq 1..L
      BY <1>2 DEF Baseline
    <2> QED BY <2>1, <2>2, FS_Subset, FS_CardinalityType
  <1>6. \A i \in Carriers(s) : stored[i].values[s] \in Int /\ stored'[i] = stored[i]
    BY <1>1, <1>2 DEF Carriers, Value
  <1> QED BY <1>2, <1>3, <1>4, <1>5, <1>6 DEF L, Baseline

LEMMA TotalIsSum == \A f, docs : Total(f, docs) = SumOver(f, docs)
  BY DEF Total, SumOver

\* A document outside the baseline leaves its sums alone.
LEMMA SumsStay ==
    ASSUME NEW V, NEW id, StoresOneMore(V, id), NEW s \in Signals, Baseline(s)' = Baseline(s)
    PROVE  /\ Total(Column(s), Baseline(s))' = Total(Column(s), Baseline(s))
           /\ Total(Squares(s), Baseline(s))' = Total(Squares(s), Baseline(s))
  <1>1. /\ IsFiniteSet(Baseline(s))
        /\ \A i \in Baseline(s) : i \in DOMAIN stored /\ i \in DOMAIN stored' /\ stored'[i] = stored[i]
    BY CarriersGrow DEF StoresOneMore
  <1>2. \A i \in Baseline(s) : Column(s)'[i] = Column(s)[i] /\ Squares(s)'[i] = Squares(s)[i]
    BY <1>1 DEF Column, Squares
  <1>3. PICK B : B = Baseline(s)
    OBVIOUS
  <1>4. ASSUME NEW f, NEW g, \A i \in B : g[i] = f[i] PROVE Total(g, B) = Total(f, B)
    BY <1>1, <1>3, <1>4, SumSame, TotalIsSum
  <1>5. PICK f, g : f = Column(s) /\ g = Column(s)'
    OBVIOUS
  <1>6. Total(g, B) = Total(f, B)
    BY <1>2, <1>3, <1>4, <1>5
  <1>7. PICK h, k : h = Squares(s) /\ k = Squares(s)'
    OBVIOUS
  <1>8. Total(k, B) = Total(h, B)
    BY <1>2, <1>3, <1>4, <1>7
  <1> QED BY <1>3, <1>5, <1>6, <1>7, <1>8

\* A document of the baseline adds its value, and its square.
LEMMA SumsGrow ==
    ASSUME NEW V, NEW id, StoresOneMore(V, id), NEW s \in Signals, V[s] # None,
           Len(stored) + 1 <= BaselineN
    PROVE  /\ V[s] \in Int
           /\ Cardinality(Baseline(s))' = Cardinality(Baseline(s)) + 1
           /\ Total(Column(s), Baseline(s)) \in Int
           /\ Total(Column(s), Baseline(s))' = Total(Column(s), Baseline(s)) + V[s]
           /\ Total(Squares(s), Baseline(s)) \in Int
           /\ Total(Squares(s), Baseline(s))' = Total(Squares(s), Baseline(s)) + V[s] * V[s]
  <1> DEFINE p == Len(stored) + 1
             B == Baseline(s)
  <1>1. /\ IsFiniteSet(B) /\ p \notin B /\ Baseline(s)' = B \cup {p}
        /\ \A i \in B : i \in DOMAIN stored /\ i \in DOMAIN stored' /\ stored'[i] = stored[i]
        /\ \A i \in B : stored[i].values[s] \in Int
        /\ p \in DOMAIN stored' /\ stored'[p].values = V
    BY CarriersGrow, DriftAssumption DEF StoresOneMore
  <1>2. V[s] \in Int
    BY DEF StoresOneMore, Value
  <1> HIDE DEF p, B
  <1>3. Cardinality(Baseline(s))' = Cardinality(B) + 1
    BY <1>1, FS_AddElement
  <1>4. /\ \A i \in B : Column(s)[i] \in Int /\ Column(s)'[i] = Column(s)[i]
        /\ Column(s)'[p] = V[s]
    BY <1>1 DEF Column
  <1>9. PICK C : C = B
    OBVIOUS
  <1>10. ASSUME NEW f, \A i \in C : f[i] \in Int, NEW g, g[p] \in Int, \A i \in C : g[i] = f[i]
         PROVE  Total(g, C \cup {p}) = Total(f, C) + g[p] /\ Total(f, C) \in Int
    <2>1. IsFiniteSet(C) /\ p \notin C
      BY <1>1, <1>9
    <2>2. SumOver(g, C \cup {p}) = SumOver(f, C) + g[p] /\ SumOver(f, C) \in Int
      BY <1>10, <2>1, SumGrows
    <2> QED BY <2>2, TotalIsSum
  <1>5. /\ Total(Column(s), B) \in Int
        /\ Total(Column(s)', B \cup {p}) = Total(Column(s), B) + V[s]
    <2>1. PICK f, g : f = Column(s) /\ g = Column(s)'
      OBVIOUS
    <2>2. Total(g, C \cup {p}) = Total(f, C) + g[p] /\ Total(f, C) \in Int
      BY <1>2, <1>4, <1>9, <1>10, <2>1
    <2> QED BY <1>4, <1>9, <2>1, <2>2
  <1>6. /\ \A i \in B : Squares(s)[i] = stored[i].values[s] * stored[i].values[s]
        /\ \A i \in B : Squares(s)'[i] = Squares(s)[i]
        /\ Squares(s)'[p] = V[s] * V[s]
    BY <1>1 DEF Squares
  <1>7. /\ V[s] * V[s] \in Int
        /\ \A i \in B : Squares(s)[i] \in Int
    <2>1. \A v \in Int : v * v \in Int
      OBVIOUS
    <2> QED BY <1>1, <1>2, <1>6, <2>1
  <1>8. /\ Total(Squares(s), B) \in Int
        /\ Total(Squares(s)', B \cup {p}) = Total(Squares(s), B) + V[s] * V[s]
    <2>1. PICK f, g : f = Squares(s) /\ g = Squares(s)'
      OBVIOUS
    <2>2. Total(g, C \cup {p}) = Total(f, C) + g[p] /\ Total(f, C) \in Int
      BY <1>6, <1>7, <1>9, <1>10, <2>1
    <2> QED BY <1>6, <1>9, <2>1, <2>2
  <1> QED BY <1>1, <1>2, <1>3, <1>5, <1>8 DEF B

--------------------------------------------------------------------------
(* One observation of one signal.                                          *)

\* A Welford step is exact: what it divides, n divides.
LEMMA WelfordIsExact ==
    ASSUME NEW stat \in Stat, NEW v \in Int, NEW q \in Int,
           stat.spread = stat.n * q - stat.sum * stat.sum,
           stat.n = 0 => stat.sum = 0 /\ q = 0
    PROVE  /\ WelfordUpdate(stat, v).n = stat.n + 1
           /\ WelfordUpdate(stat, v).sum = stat.sum + v
           /\ WelfordUpdate(stat, v).spread
                = (stat.n + 1) * (q + v * v) - (stat.sum + v) * (stat.sum + v)
           /\ WelfordUpdate(stat, v).consecutive = stat.consecutive
  <1> DEFINE delta == stat.n * v - stat.sum
             spread == IF stat.n = 0 THEN 0
                       ELSE ((stat.n + 1) * stat.spread + delta * delta) \div stat.n
  <1>1. WelfordUpdate(stat, v)
          = [stat EXCEPT !.n = stat.n + 1, !.sum = stat.sum + v, !.spread = spread]
    BY DEF WelfordUpdate
  <1>2. /\ WelfordUpdate(stat, v).n = stat.n + 1 /\ WelfordUpdate(stat, v).sum = stat.sum + v
        /\ WelfordUpdate(stat, v).spread = spread
        /\ WelfordUpdate(stat, v).consecutive = stat.consecutive
    <2> HIDE DEF spread
    <2> QED BY <1>1 DEF Stat
  <1>3. PICK n \in Nat : n = stat.n
    BY DEF Stat
  <1>4. PICK t \in Int : t = stat.sum
    BY DEF Stat
  <1>5. CASE n = 0
    <2>1. spread = 0 /\ t = 0 /\ q = 0
      BY <1>3, <1>4, <1>5
    <2>2. (0 + 1) * (0 + v * v) - (0 + v) * (0 + v) = 0
      BY SMTT(30)
    <2> HIDE DEF spread
    <2> QED BY <1>2, <1>3, <1>4, <1>5, <2>1, <2>2
  <1>6. CASE n # 0
    <2>1. PICK x \in Int : x = (n + 1) * (q + v * v) - (t + v) * (t + v)
      <3>1. (n + 1) * (q + v * v) - (t + v) * (t + v) \in Int
        BY SMTT(30)
      <3> QED BY <3>1
    <2>2. (n + 1) * (n * q - t * t) + (n * v - t) * (n * v - t)
            = n * ((n + 1) * (q + v * v) - (t + v) * (t + v))
      BY SMTT(30)
    <2>3. PICK y \in Int : y = (n + 1) * (n * q - t * t) + (n * v - t) * (n * v - t)
      <3>1. (n + 1) * (n * q - t * t) + (n * v - t) * (n * v - t) \in Int
        BY SMTT(30)
      <3> QED BY <3>1
    <2>4. y = n * x
      BY <2>1, <2>2, <2>3
    <2>5. y \div n = x
      BY <1>6, <2>4
    <2>6. stat.spread = n * q - t * t /\ delta = n * v - t
      BY <1>3, <1>4
    <2>7. spread = y \div n
      <3> HIDE DEF delta
      <3> QED BY <1>3, <1>6, <2>3, <2>6
    <2> HIDE DEF spread
    <2> QED BY <1>2, <1>3, <1>4, <2>1, <2>5, <2>7
  <1> QED BY <1>5, <1>6

\* A signal no document of the baseline carries has no sums.
LEMMA NothingSummed ==
    ASSUME NEW s, Cardinality(Baseline(s)) = 0, IsFiniteSet(Baseline(s))
    PROVE  Total(Column(s), Baseline(s)) = 0 /\ Total(Squares(s), Baseline(s)) = 0
  <1>1. Baseline(s) = {}
    BY FS_EmptySet
  <1>2. \A f : SumOver(f, {}) = 0
    BY SumUnfolds, FS_EmptySet
  <1> QED BY <1>1, <1>2, TotalIsSum

\* Whether a value breaches depends on the baseline, not on the run.
LEMMA SameBreaches ==
    ASSUME NEW s, NEW a, NEW b, a.n = b.n, a.sum = b.sum, a.spread = b.spread, NEW v
    PROVE  Breaches(s, a, v) = Breaches(s, b, v)
  BY DEF Breaches, BaselineVariance

SameBaseline(a, b) == a.n = b.n /\ a.sum = b.sum /\ a.spread = b.spread

\* What a document does to the runs: one that breaches lengthens the last, another ends
\* it, and the runs up to the earlier documents are what they were.
LEMMA RunGrows ==
    ASSUME NEW V, NEW id, StoresOneMore(V, id), NEW s \in Signals,
           NEW L, L = Len(stored), Len(stored) + 1 > BaselineN => SameBaseline(row'.stats[s], row.stats[s])
    PROVE  /\ \A i \in 1..L : Run(s, i)' = Run(s, i)
           /\ L + 1 <= BaselineN => Run(s, L) = {} /\ Run(s, L + 1)' = {}
           /\ L + 1 > BaselineN =>
                 Run(s, L + 1)' = IF V[s] = None THEN Run(s, L)
                                  ELSE IF Breaches(s, row'.stats[s], V[s])
                                    THEN Run(s, L) \cup {L + 1} ELSE {}
           /\ Run(s, L) \subseteq 1..L
  <1>1. /\ L \in Nat /\ stored'[L + 1].values = V
        /\ Carriers(s) \subseteq 1..L
        /\ Carriers(s)' = Carriers(s) \cup (IF V[s] = None THEN {} ELSE {L + 1})
        /\ \A i \in Carriers(s) : stored'[i] = stored[i]
    BY CarriersGrow DEF StoresOneMore
  <1>2. ASSUME L + 1 > BaselineN, NEW k \in Carriers(s) PROVE Breached(s, k)' = Breached(s, k)
    <2>1. SameBaseline(row'.stats[s], row.stats[s]) /\ stored'[k] = stored[k]
      BY <1>1, <1>2
    <2> QED BY <2>1, SameBreaches DEF Breached, SameBaseline
  <1>3. Breached(s, L + 1)' = Breaches(s, row'.stats[s], V[s])
    BY <1>1 DEF Breached
  <1>4. Run(s, L) \subseteq 1..L
    BY <1>1 DEF Run
  <1>5. ASSUME L + 1 <= BaselineN
        PROVE  /\ \A i \in 1..(L + 1) : Run(s, i)' = {}
               /\ \A i \in 0..L : Run(s, i) = {}
    BY <1>1, <1>5, DriftAssumption DEF Run
  <1>6. ASSUME L + 1 > BaselineN, NEW i \in 1..L PROVE Run(s, i)' = Run(s, i)
    <2>1. {j \in Carriers(s)' : BaselineN < j /\ j <= i} = {j \in Carriers(s) : BaselineN < j /\ j <= i}
      BY <1>1, <1>6
    <2> QED BY <1>2, <1>6, <2>1 DEF Run
  <1>7. ASSUME L + 1 > BaselineN
        PROVE  Run(s, L + 1)' = IF V[s] = None THEN Run(s, L)
                                ELSE IF Breaches(s, row'.stats[s], V[s])
                                  THEN Run(s, L) \cup {L + 1} ELSE {}
    <2> DEFINE old == {j \in Carriers(s) : BaselineN < j /\ j <= L}
               new == {j \in Carriers(s)' : BaselineN < j /\ j <= L + 1}
    <2>1. new = old \cup (IF V[s] = None THEN {} ELSE {L + 1})
      BY <1>1, <1>7, DriftAssumption
    <2>2. /\ Run(s, L) = {j \in old : \A k \in old : j <= k => Breached(s, k)}
          /\ Run(s, L + 1)' = {j \in new : \A k \in new : j <= k => Breached(s, k)'}
      BY DEF Run
    <2>3. /\ \A k \in old : Breached(s, k)' = Breached(s, k)
          /\ \A k \in old : k <= L /\ k <= L + 1 /\ ~(L + 1 <= k)
          /\ L + 1 <= L + 1
      BY <1>1, <1>2, <1>7
    <2> HIDE DEF old, new
    <2>4. CASE V[s] = None
      BY <2>1, <2>2, <2>3, <2>4
    <2>5. CASE V[s] # None /\ Breaches(s, row'.stats[s], V[s])
      <3>1. new = old \cup {L + 1} /\ Breached(s, L + 1)'
        BY <1>3, <2>1, <2>5
      <3>2. \A j \in old : (\A k \in new : j <= k => Breached(s, k)')
                            <=> (\A k \in old : j <= k => Breached(s, k))
        BY <2>3, <3>1
      <3>3. \A k \in new : L + 1 <= k => Breached(s, k)'
        BY <2>3, <3>1
      <3>4. Run(s, L + 1)' = Run(s, L) \cup {L + 1}
        BY <2>2, <3>1, <3>2, <3>3
      <3> QED BY <2>5, <3>4
    <2>6. CASE V[s] # None /\ ~Breaches(s, row'.stats[s], V[s])
      BY <1>3, <2>1, <2>2, <2>3, <2>6
    <2> QED BY <2>4, <2>5, <2>6
  <1>8. ASSUME NEW i \in 1..L PROVE Run(s, i)' = Run(s, i)
    <2>1. CASE L + 1 <= BaselineN
      <3>1. i \in 1..(L + 1) /\ i \in 0..L
        BY <1>1
      <3> QED BY <1>5, <2>1, <3>1
    <2>2. CASE L + 1 > BaselineN
      BY <1>6, <2>2
    <2> QED BY <1>1, <2>1, <2>2, DriftAssumption
  <1>9. L \in 0..L /\ L + 1 \in 1..(L + 1)
    BY <1>1
  <1> QED BY <1>4, <1>5, <1>7, <1>8, <1>9

\* What Judged does to the run, and that it does nothing else.
LEMMA JudgedFields ==
    ASSUME NEW stat \in Stat, NEW v, NEW s
    PROVE  /\ SameBaseline(Judged(s, stat, v), stat)
           /\ Judged(s, stat, v).consecutive =
                IF v = None \/ stat.n < 2 THEN stat.consecutive
                ELSE IF Breaches(s, stat, v) THEN stat.consecutive + 1 ELSE 0
  BY DEF Judged, Stat, SameBaseline

LEMMA RunIsFinite ==
    ASSUME NEW s, NEW L \in Nat, Run(s, L) \subseteq 1..L
    PROVE  /\ IsFiniteSet(Run(s, L)) /\ Cardinality(Run(s, L)) \in Nat
           /\ Cardinality(Run(s, L) \cup {L + 1}) = Cardinality(Run(s, L)) + 1
  <1>1. IsFiniteSet(1..L)
    BY FS_Interval
  <1>2. IsFiniteSet(Run(s, L)) /\ L + 1 \notin Run(s, L)
    BY <1>1, FS_Subset
  <1> QED BY <1>2, FS_CardinalityType, FS_AddElement

\* While the baseline is collected, an observation is a Welford step and no run begins.
LEMMA CollectedStreams ==
    ASSUME NEW V, NEW id, StoresOneMore(V, id), NEW s \in Signals,
           NEW L, L = Len(stored), L + 1 <= BaselineN,
           NEW stat \in Stat, Streamed(s, stat), NEW after, after = Collected(stat, V[s]),
           after = row'.stats[s]
    PROVE  Streamed(s, after)'
  <1>1. L \in Nat /\ Len(stored)' = L + 1 /\ BaselineN \in Nat
    BY DriftAssumption DEF StoresOneMore
  <1>2. Run(s, L) = {} /\ Run(s, L + 1)' = {}
    <2>1. Len(stored) + 1 > BaselineN => SameBaseline(row'.stats[s], row.stats[s])
      BY <1>1
    <2> QED BY <1>1, <2>1, RunGrows
  <1>3. stat.consecutive = 0
    BY <1>2, FS_EmptySet DEF Streamed
  <1>4. PICK B : B = Baseline(s)
    OBVIOUS
  <1>5. IsFiniteSet(Baseline(s)) /\ Cardinality(Baseline(s)) \in Nat
    BY CarriersGrow
  <1>6. PICK t, q : t = Total(Column(s), Baseline(s)) /\ q = Total(Squares(s), Baseline(s))
    OBVIOUS
  <1>7. /\ stat.n = Cardinality(Baseline(s)) /\ stat.sum = t
        /\ stat.spread = stat.n * q - stat.sum * stat.sum
    BY <1>6 DEF Streamed
  <1>8. ASSUME after.n = Cardinality(Baseline(s))', after.sum = Total(Column(s), Baseline(s))',
               after.spread = after.n * Total(Squares(s), Baseline(s))' - after.sum * after.sum,
               after.consecutive = 0
        PROVE  Streamed(s, after)'
    <2>1. Cardinality(Run(s, Len(stored)))' = 0
      BY <1>1, <1>2, FS_EmptySet
    <2> QED BY <1>8, <2>1 DEF Streamed
  <1>9. CASE V[s] = None
    <2>1. Baseline(s)' = Baseline(s)
      BY <1>9, CarriersGrow
    <2>2. /\ Total(Column(s), Baseline(s))' = t /\ Total(Squares(s), Baseline(s))' = q
      BY <1>6, <2>1, SumsStay
    <2>3. after = stat
      BY <1>9 DEF Collected
    <2> QED BY <1>3, <1>7, <1>8, <2>1, <2>2, <2>3
  <1>10. CASE V[s] # None
    <2>1. /\ V[s] \in Int /\ t \in Int /\ q \in Int
          /\ Cardinality(Baseline(s))' = Cardinality(Baseline(s)) + 1
          /\ Total(Column(s), Baseline(s))' = t + V[s]
          /\ Total(Squares(s), Baseline(s))' = q + V[s] * V[s]
      BY <1>6, <1>10, SumsGrow
    <2>2. stat.n = 0 => stat.sum = 0 /\ q = 0
      BY <1>5, <1>6, <1>7, NothingSummed
    <2>3. /\ after.n = stat.n + 1 /\ after.sum = stat.sum + V[s]
          /\ after.spread = (stat.n + 1) * (q + V[s] * V[s]) - (stat.sum + V[s]) * (stat.sum + V[s])
          /\ after.consecutive = stat.consecutive
      <3>1. after = WelfordUpdate(stat, V[s])
        BY <1>10 DEF Collected
      <3>2. /\ WelfordUpdate(stat, V[s]).n = stat.n + 1
            /\ WelfordUpdate(stat, V[s]).sum = stat.sum + V[s]
            /\ WelfordUpdate(stat, V[s]).spread
                 = (stat.n + 1) * (q + V[s] * V[s]) - (stat.sum + V[s]) * (stat.sum + V[s])
            /\ WelfordUpdate(stat, V[s]).consecutive = stat.consecutive
        BY <1>7, <2>1, <2>2, WelfordIsExact
      <3> QED BY <3>1, <3>2
    <2> QED BY <1>3, <1>7, <1>8, <2>1, <2>3
  <1> QED BY <1>9, <1>10

\* Afterwards the baseline stays, and the counter follows the run.
LEMMA JudgedStreams ==
    ASSUME NEW V, NEW id, StoresOneMore(V, id), NEW s \in Signals,
           NEW L, L = Len(stored), L + 1 > BaselineN,
           NEW stat \in Stat, Streamed(s, stat), stat = row.stats[s],
           NEW after, after = Judged(s, stat, V[s]), after = row'.stats[s]
    PROVE  Streamed(s, after)'
  <1>1. L \in Nat /\ Len(stored)' = L + 1
    BY DEF StoresOneMore
  <1>2. /\ SameBaseline(after, stat)
        /\ after.consecutive = IF V[s] = None \/ stat.n < 2 THEN stat.consecutive
                               ELSE IF Breaches(s, stat, V[s]) THEN stat.consecutive + 1 ELSE 0
    <2>1. /\ SameBaseline(Judged(s, stat, V[s]), stat)
          /\ Judged(s, stat, V[s]).consecutive =
                IF V[s] = None \/ stat.n < 2 THEN stat.consecutive
                ELSE IF Breaches(s, stat, V[s]) THEN stat.consecutive + 1 ELSE 0
      BY JudgedFields
    <2> QED BY <2>1
  <1>3. /\ Run(s, L + 1)' = IF V[s] = None THEN Run(s, L)
                            ELSE IF Breaches(s, after, V[s]) THEN Run(s, L) \cup {L + 1} ELSE {}
        /\ Run(s, L) \subseteq 1..L
    <2>1. SameBaseline(row'.stats[s], row.stats[s])
      BY <1>2
    <2>2. /\ Run(s, L + 1)' = IF V[s] = None THEN Run(s, L)
                               ELSE IF Breaches(s, row'.stats[s], V[s])
                                 THEN Run(s, L) \cup {L + 1} ELSE {}
          /\ Run(s, L) \subseteq 1..L
      BY <2>1, RunGrows
    <2> QED BY <2>2
  <1>4. Breaches(s, after, V[s]) = Breaches(s, stat, V[s])
    BY <1>2, SameBreaches DEF SameBaseline
  <1>5. /\ Baseline(s)' = Baseline(s) /\ Cardinality(Baseline(s)) \in Nat
    BY <1>1, CarriersGrow
  <1>6. /\ Total(Column(s), Baseline(s))' = Total(Column(s), Baseline(s))
        /\ Total(Squares(s), Baseline(s))' = Total(Squares(s), Baseline(s))
    BY <1>5, SumsStay
  <1>7. /\ stat.n = Cardinality(Baseline(s))
        /\ stat.consecutive = IF stat.n >= 2 THEN Cardinality(Run(s, L)) ELSE 0
    BY DEF Streamed
  <1>8. after.consecutive = IF after.n >= 2 THEN Cardinality(Run(s, L + 1)') ELSE 0
    <2>1. /\ after.consecutive = IF V[s] = None \/ stat.n < 2 THEN stat.consecutive
                                 ELSE IF Breaches(s, stat, V[s]) THEN stat.consecutive + 1 ELSE 0
          /\ after.n = stat.n
      BY <1>2 DEF SameBaseline
    <2>2. /\ Cardinality(Run(s, L) \cup {L + 1}) = Cardinality(Run(s, L)) + 1
          /\ Cardinality({}) = 0
      BY <1>1, <1>3, RunIsFinite, FS_EmptySet
    <2>3. CASE stat.n < 2
      BY <1>5, <1>7, <2>1, <2>3
    <2>4. CASE stat.n >= 2 /\ V[s] = None
      BY <1>3, <1>5, <1>7, <2>1, <2>4
    <2>5. CASE stat.n >= 2 /\ V[s] # None
      BY <1>3, <1>4, <1>5, <1>7, <2>1, <2>2, <2>5
    <2> QED BY <1>5, <1>7, <2>3, <2>4, <2>5
  <1>9. /\ stat.sum = Total(Column(s), Baseline(s))
        /\ stat.spread = stat.n * Total(Squares(s), Baseline(s)) - stat.sum * stat.sum
    BY DEF Streamed
  <1>10. Cardinality(Run(s, Len(stored)))' = Cardinality(Run(s, L + 1)')
    BY <1>1
  <1> QED BY <1>2, <1>5, <1>6, <1>7, <1>8, <1>9, <1>10 DEF Streamed, SameBaseline

--------------------------------------------------------------------------
(* The row says what a pass over the stored documents finds.               *)

DriftInv == StatsInv /\ FlagInv

\* A row whose statistics are streamed right flags a signal exactly when the last
\* document leaves a run.
LEMMA FlaggedIsDrifted ==
    StatsInv => (Flagged(Base.stats) # {} <=> Drifted(Len(stored)))
  <1> SUFFICES ASSUME StatsInv PROVE Flagged(Base.stats) # {} <=> Drifted(Len(stored))
    OBVIOUS
  <1>1. ASSUME NEW s \in Signals
        PROVE  Base.stats[s].consecutive >= K
                 <=> Cardinality(Baseline(s)) >= 2 /\ Cardinality(Run(s, Len(stored))) >= K
    <2>1. /\ Base.stats[s].n = Cardinality(Baseline(s))
          /\ Base.stats[s].consecutive =
               IF Base.stats[s].n >= 2 THEN Cardinality(Run(s, Len(stored))) ELSE 0
      BY DEF StatsInv, Streamed
    <2>2. K \in Nat \ {0} /\ ~(0 >= K)
      BY DriftAssumption
    <2> QED BY <2>1, <2>2
  <1> QED BY <1>1 DEF Flagged, Drifted

\* No document of the baseline ends a run.
LEMMA NoRunYet ==
    ASSUME NEW s, Len(stored) \in Nat, DOMAIN stored = 1..Len(stored), NEW i \in Nat, i <= BaselineN
    PROVE  Run(s, i) = {}
  BY DriftAssumption DEF Run, Carriers

LEMMA NoDriftYet ==
    ASSUME Len(stored) \in Nat, DOMAIN stored = 1..Len(stored), NEW i \in Nat, i <= BaselineN
    PROVE  ~Drifted(i)
  <1>1. \A s \in Signals : Cardinality(Run(s, i)) = 0
    BY NoRunYet, FS_EmptySet
  <1> QED BY <1>1, DriftAssumption DEF Drifted

\* Folding a document: the statistics stay streamed, and earlier documents stay as they
\* were judged.
LEMMA FoldStreams ==
    ASSUME StatsInv, Base \in Row, NEW V, NEW id, StoresOneMore(V, id), NEW L, L = Len(stored),
           row' # None, row'.n_observed = L + 1,
           \A s \in Signals : row'.stats[s] = IF Collecting(L + 1) THEN Collected(Base.stats[s], V[s])
                                              ELSE Judged(s, Base.stats[s], V[s])
    PROVE  /\ StatsInv'
           /\ \A i \in 1..L : Drifted(i)' = Drifted(i)
  <1>1. /\ L \in Nat /\ Len(stored)' = L + 1 /\ Base' = row' /\ BaselineN \in Nat \ {0}
        /\ DOMAIN stored = 1..L /\ DOMAIN stored' = 1..(L + 1)
    BY DriftAssumption DEF StoresOneMore, Base
  <1>2. /\ (row = None <=> stored = << >>) /\ stored' # << >>
    BY <1>1 DEF StatsInv, StoresOneMore
  <1>3. L + 1 > BaselineN => row = Base
    BY <1>1, <1>2 DEF Base
  <1>4. ASSUME NEW s \in Signals
        PROVE  /\ Base.stats[s] \in Stat /\ Streamed(s, Base.stats[s])
               /\ L + 1 > BaselineN => row'.stats[s] = Judged(s, Base.stats[s], V[s])
               /\ L + 1 <= BaselineN => row'.stats[s] = Collected(Base.stats[s], V[s])
    BY <1>1 DEF StatsInv, Row, Collecting
  <1>5. ASSUME NEW s \in Signals PROVE Streamed(s, Base.stats[s])'
    <2>1. PICK stat \in Stat : stat = Base.stats[s] /\ Streamed(s, stat)
      BY <1>4, <1>5
    <2>2. PICK after : after = row'.stats[s]
      OBVIOUS
    <2>3. CASE L + 1 <= BaselineN
      <3>1. after = Collected(stat, V[s])
        BY <1>4, <2>1, <2>2, <2>3
      <3>2. Streamed(s, after)'
        BY <2>1, <2>2, <2>3, <3>1, CollectedStreams
      <3> QED BY <1>1, <2>2, <3>2
    <2>4. CASE L + 1 > BaselineN
      <3>1. after = Judged(s, stat, V[s]) /\ stat = row.stats[s]
        BY <1>3, <1>4, <2>1, <2>2, <2>4
      <3>2. Streamed(s, after)'
        BY <2>1, <2>2, <2>4, <3>1, JudgedStreams
      <3> QED BY <1>1, <2>2, <3>2
    <2> QED BY <1>1, <2>3, <2>4
  <1>6. StatsInv'
    BY <1>1, <1>2, <1>5 DEF StatsInv
  <1>7. ASSUME NEW i \in 1..L, L + 1 > BaselineN PROVE Drifted(i)' = Drifted(i)
    <2>1. ASSUME NEW s \in Signals
          PROVE  Run(s, i)' = Run(s, i) /\ Baseline(s)' = Baseline(s)
      <3>1. SameBaseline(row'.stats[s], row.stats[s])
        <4>1. PICK stat \in Stat : stat = row.stats[s] /\ row'.stats[s] = Judged(s, stat, V[s])
          BY <1>3, <1>4, <1>7
        <4>2. SameBaseline(Judged(s, stat, V[s]), stat)
          BY JudgedFields
        <4> QED BY <4>1, <4>2
      <3>2. Run(s, i)' = Run(s, i)
        BY <1>7, <3>1, RunGrows
      <3>3. Baseline(s)' = Baseline(s)
        <4>1. Len(stored) + 1 > BaselineN
          BY <1>7
        <4>2. Baseline(s)' = Baseline(s) \cup (IF V[s] = None \/ Len(stored) + 1 > BaselineN
                                                 THEN {} ELSE {Len(stored) + 1})
          BY CarriersGrow
        <4> QED BY <4>1, <4>2
      <3> QED BY <3>2, <3>3
    <2> QED BY <2>1 DEF Drifted
  <1>8. ASSUME NEW i \in 1..L, L + 1 <= BaselineN PROVE ~Drifted(i) /\ ~Drifted(i)'
    <2>1. i \in Nat /\ i <= BaselineN
      BY <1>1, <1>8
    <2>2. ~Drifted(i)
      BY <1>1, <2>1, NoDriftYet
    <2>3. \A s \in Signals : Run(s, i)' = {}
      <3> TAKE s \in Signals
      <3>1. Len(stored) + 1 > BaselineN => SameBaseline(row'.stats[s], row.stats[s])
        BY <1>1, <1>8
      <3>2. Run(s, i)' = Run(s, i)
        BY <3>1, RunGrows
      <3> QED BY <1>1, <2>1, <3>2, NoRunYet
    <2>4. \A s \in Signals : ~(Cardinality(Run(s, i)') >= K)
      <3>1. Cardinality({}) = 0 /\ ~(0 >= K)
        BY FS_EmptySet, DriftAssumption
      <3> QED BY <2>3, <3>1
    <2> QED BY <2>2, <2>4 DEF Drifted
  <1>9. ASSUME NEW i \in 1..L PROVE Drifted(i)' = Drifted(i)
    <2>1. Drifted(i) \in BOOLEAN /\ Drifted(i)' \in BOOLEAN
      BY DEF Drifted
    <2>2. CASE L + 1 <= BaselineN
      BY <1>8, <2>1, <2>2
    <2>3. CASE L + 1 > BaselineN
      BY <1>7, <2>3
    <2> QED BY <1>1, <2>2, <2>3
  <1> QED BY <1>6, <1>9

LEMMA CommitKeepsDrift ==
    ASSUME RowInv, DriftInv, NEW w \in Workers, Commit(w) PROVE DriftInv'
  <1>1. PICK m \in Message :
             /\ row' = Observe(Base, m.doc, m.id, dim) /\ row' # None
             /\ StoresOneMore(SignalValues(Base, m.doc, dim), m.id)
    BY CommitStores
  <1>2. PICK V, id : V = SignalValues(Base, m.doc, dim) /\ id = m.id
    OBVIOUS
  <1>3. PICK L \in Nat : L = Len(stored)
    BY <1>1 DEF StoresOneMore
  <1>4. PICK r : r = Base
    OBVIOUS
  <1>5. PICK d : d = dim
    OBVIOUS
  <1>6. r \in Row /\ r.n_observed = L /\ StatsInv
    BY <1>3, <1>4, SignalFacts DEF RowInv, Typed, Base, DriftInv, StatsInv
  <1>7. /\ StoresOneMore(V, id) /\ id \in Nat
        /\ Len(stored') = L + 1 /\ DOMAIN stored = 1..L /\ DOMAIN stored' = 1..(L + 1)
        /\ stored'[L + 1].id = id /\ \A i \in 1..L : stored'[i] = stored[i]
        /\ Base' = row'
    BY <1>1, <1>2, <1>3 DEF StoresOneMore, Base
  <1>8. PICK stats : stats = StatsAfter(r, m.doc, d)
    OBVIOUS
  <1>9. /\ row'.stats = stats /\ row'.n_observed = L + 1
        /\ row'.status = IF Flagged(stats) # {} THEN "drifting"
                         ELSE IF ~Collecting(L + 1) THEN r.status
                         ELSE IF L + 1 >= BaselineN THEN "stable" ELSE "baseline"
        /\ row'.flagged_signals = IF Flagged(stats) # {} THEN Flagged(stats) ELSE r.flagged_signals
        /\ row'.flagged_document = IF Flagged(stats) # {} THEN FirstFlag(r, id)
                                   ELSE r.flagged_document
    <2>1. row' = Observe(r, m.doc, id, d)
      BY <1>1, <1>2, <1>4, <1>5
    <2>2. row'.stats = stats
      BY <1>8, <2>1, Observed
    <2> QED BY <1>1, <1>4, <1>6, <1>8, <2>1, <2>2, Observed
  <1>10. \A s \in Signals : row'.stats[s] = IF Collecting(L + 1) THEN Collected(r.stats[s], V[s])
                                             ELSE Judged(s, r.stats[s], V[s])
    BY <1>2, <1>4, <1>5, <1>6, <1>8, <1>9 DEF StatsAfter
  <1>11. StatsInv' /\ \A i \in 1..L : Drifted(i)' = Drifted(i)
    BY <1>1, <1>3, <1>4, <1>6, <1>7, <1>9, <1>10, FoldStreams
  <1>12. Drifted(L + 1)' <=> Flagged(stats) # {}
    <2>1. (StatsInv => (Flagged(Base.stats) # {} <=> Drifted(Len(stored))))'
      BY FlaggedIsDrifted, PTL
    <2>2. Flagged(Base'.stats) # {} <=> Drifted(Len(stored))'
      BY <1>11, <2>1 DEF Flagged
    <2>3. PICK p : p = L + 1
      OBVIOUS
    <2>4. Drifted(Len(stored))' <=> Drifted(p)'
      BY <1>7, <2>3 DEF Drifted
    <2> QED BY <1>7, <1>9, <2>2, <2>3, <2>4
  <1>13. PICK before \in BOOLEAN : before <=> \E i \in 1..L : Drifted(i)
    OBVIOUS
  <1>14. L + 1 <= BaselineN => ~before
    <2>1. ASSUME L + 1 <= BaselineN, NEW i \in 1..L PROVE ~Drifted(i)
      <3>1. i \in Nat /\ i <= BaselineN
        BY <2>1, DriftAssumption
      <3> QED BY <1>3, <1>7, <3>1, NoDriftYet
    <2> QED BY <1>13, <2>1
  <1>15. PICK flags \in BOOLEAN : flags <=> Flagged(stats) # {}
    OBVIOUS
  <1>16. /\ r.status = "drifting" <=> before
         /\ r.flagged_signals = {} <=> ~before
         /\ r.flagged_document = None <=> ~before
         /\ \A i \in 1..L : Drifted(i) /\ (\A j \in 1..(i - 1) : ~Drifted(j)) =>
               r.flagged_document = stored[i].id
    BY <1>4, <1>7, <1>13 DEF DriftInv, FlagInv
  <1>17. id # None
    BY <1>7, NoneAssumption
  <1>18. (\E i \in DOMAIN stored' : Drifted(i)') <=> before \/ flags
    <2>1. (\E i \in DOMAIN stored' : Drifted(i)')
            <=> (\E i \in 1..L : Drifted(i)') \/ Drifted(L + 1)'
      <3>1. \A i : i \in 1..(L + 1) <=> i \in 1..L \/ i = L + 1
        BY <1>3
      <3>2. PICK p : p = L + 1
        OBVIOUS
      <3>3. (\E i \in 1..p : Drifted(i)') <=> (\E i \in 1..L : Drifted(i)') \/ Drifted(p)'
        BY <3>1, <3>2
      <3> QED BY <1>7, <3>2, <3>3
    <2> QED BY <1>11, <1>12, <1>13, <1>15, <2>1
  <1>19. /\ row'.status = "drifting" <=> before \/ flags
         /\ row'.flagged_signals = {} <=> ~(before \/ flags)
         /\ row'.flagged_document = None <=> ~(before \/ flags)
         /\ row'.flagged_document = IF before THEN r.flagged_document
                                    ELSE IF flags THEN id ELSE None
    <2>1. row'.status = "drifting" <=> before \/ flags
      BY <1>9, <1>14, <1>15, <1>16 DEF Collecting
    <2>3. row'.flagged_signals = {} <=> ~(before \/ flags)
      BY <1>9, <1>15, <1>16
    <2>4. row'.flagged_document = IF before THEN r.flagged_document
                                  ELSE IF flags THEN id ELSE None
      BY <1>9, <1>15, <1>16 DEF FirstFlag
    <2> QED BY <1>16, <1>17, <2>1, <2>3, <2>4
  <1>20. ASSUME NEW i \in DOMAIN stored', Drifted(i)', \A j \in 1..(i - 1) : ~Drifted(j)'
         PROVE  row'.flagged_document = stored'[i].id
    <2>1. CASE i \in 1..L
      <3>1. Drifted(i) /\ before
        BY <1>11, <1>13, <1>20, <2>1
      <3>2. \A j \in 1..(i - 1) : j \in 1..L /\ ~Drifted(j)
        BY <1>3, <1>11, <1>20, <2>1
      <3>3. r.flagged_document = stored[i].id
        BY <1>16, <2>1, <3>1, <3>2
      <3> QED BY <1>7, <1>19, <2>1, <3>1, <3>3
    <2>2. CASE i = L + 1
      <3>1. \A j \in 1..L : ~Drifted(j)'
        BY <1>3, <1>20, <2>2
      <3>2. ~before
        BY <1>11, <1>13, <3>1
      <3>3. before \/ flags
        BY <1>18, <1>20
      <3> QED BY <1>7, <1>19, <2>2, <3>2, <3>3
    <2>3. i \in 1..L \/ i = L + 1
      BY <1>3, <1>7, <1>20
    <2> QED BY <2>1, <2>2, <2>3
  <1>21. FlagInv'
    BY <1>7, <1>18, <1>19, <1>20 DEF FlagInv
  <1> QED BY <1>11, <1>21 DEF DriftInv

LEMMA OthersKeepDrift == DriftInv /\ UNCHANGED <<row, stored>> => DriftInv'
  <1> SUFFICES ASSUME DriftInv, UNCHANGED <<row, stored>> PROVE DriftInv'
    OBVIOUS
  <1>1. \A s, i : Run(s, i)' = Run(s, i)
    BY DEF Run, Carriers, Breached
  <1>2. \A s : Baseline(s)' = Baseline(s) /\ Column(s)' = Column(s) /\ Squares(s)' = Squares(s)
    BY DEF Baseline, Carriers, Column, Squares
  <1>3. \A i : Drifted(i)' <=> Drifted(i)
    BY <1>1, <1>2 DEF Drifted
  <1>4. Base' = Base
    BY DEF Base
  <1>5. FlagInv'
    BY <1>3, <1>4 DEF DriftInv, FlagInv
  <1>6. \A s, stat : Streamed(s, stat)' <=> Streamed(s, stat)
    <2> TAKE s, stat
    <2>1. PICK L : L = Len(stored)
      OBVIOUS
    <2>2. Run(s, L)' = Run(s, L)
      BY <1>1
    <2>3. /\ Total(Column(s), Baseline(s))' = Total(Column(s), Baseline(s))
          /\ Total(Squares(s), Baseline(s))' = Total(Squares(s), Baseline(s))
          /\ Cardinality(Baseline(s))' = Cardinality(Baseline(s))
      BY <1>2
    <2> QED BY <2>1, <2>2, <2>3 DEF Streamed
  <1>7. StatsInv'
    BY <1>4, <1>6 DEF DriftInv, StatsInv
  <1> QED BY <1>5, <1>7 DEF DriftInv

LEMMA StepDrift == RowInv /\ DriftInv /\ [Next]_vars => DriftInv'
  <1> SUFFICES ASSUME RowInv, DriftInv, [Next]_vars PROVE DriftInv'
    OBVIOUS
  <1>1. ASSUME NEW w \in Workers, Commit(w) PROVE DriftInv'
    BY <1>1, CommitKeepsDrift
  <1>2. (\E w \in Workers : Commit(w)) \/ UNCHANGED <<row, stored>>
    BY DEF Next, Fold, Work, Deploy, Arrive, Redeliver, InsertRow, InsertFails, Crash, Rollback, vars
  <1> QED BY <1>1, <1>2, OthersKeepDrift

LEMMA InitDrift == Init => DriftInv
  <1> SUFFICES ASSUME Init PROVE DriftInv
    OBVIOUS
  <1>1. /\ row = None /\ stored = << >> /\ Len(stored) = 0 /\ DOMAIN stored = {}
        /\ Base = NewRow
    BY DEF Init, Base
  <1>2. \A s : /\ Baseline(s) = {} /\ IsFiniteSet(Baseline(s)) /\ Cardinality(Baseline(s)) = 0
               /\ Run(s, 0) = {}
    BY <1>1, FS_EmptySet DEF Baseline, Carriers, Run
  <1>3. \A s \in Signals : Streamed(s, NoStat)
    <2> TAKE s \in Signals
    <2>1. Total(Column(s), Baseline(s)) = 0 /\ Total(Squares(s), Baseline(s)) = 0
      BY <1>2, NothingSummed
    <2> QED BY <1>1, <1>2, <2>1 DEF Streamed, NoStat
  <1>4. StatsInv
    BY <1>1, <1>3, SignalFacts DEF StatsInv
  <1>5. FlagInv
    BY <1>1, SignalFacts DEF FlagInv
  <1> QED BY <1>4, <1>5 DEF DriftInv

--------------------------------------------------------------------------
(* How a text is measured, and how drift is logged.                        *)

LEMMA StepMeasured == RowInv /\ DriftInv /\ MeasuredInv /\ [Next]_vars => MeasuredInv'
  <1> SUFFICES ASSUME RowInv, DriftInv, MeasuredInv, [Next]_vars PROVE MeasuredInv'
    OBVIOUS
  <1>1. ASSUME NEW w \in Workers, Commit(w) PROVE MeasuredInv'
    <2>1. PICK m \in Message :
             /\ row' = Observe(Base, m.doc, m.id, dim) /\ row' # None
             /\ StoresOneMore(SignalValues(Base, m.doc, dim), m.id)
             /\ stored'[Len(stored) + 1].doc = m.doc /\ stored'[Len(stored) + 1].dim = dim
      BY <1>1, CommitStores
    <2>2. PICK L \in Nat : L = Len(stored)
      BY <2>1 DEF StoresOneMore
    <2>3. /\ DOMAIN stored = 1..L /\ DOMAIN stored' = 1..(L + 1) /\ Len(stored') = L + 1
          /\ stored'[L + 1].values = SignalValues(Base, m.doc, dim)
          /\ stored'[L + 1].doc = m.doc /\ stored'[L + 1].dim = dim
          /\ \A i \in 1..L : stored'[i] = stored[i]
          /\ Base' = row' /\ Base.n_observed = L
      BY <2>1, <2>2 DEF StoresOneMore, Base, DriftInv, StatsInv
    <2>4. /\ L = 0 => Base.centroid = None
          /\ L > 0 => Base.centroid # None /\ Base.centroid.dim = stored[Reference(L + 1)].dim
      BY <2>2 DEF MeasuredInv
    <2>5. BaselineN \in Nat /\ BaselineN >= 1
      BY DriftAssumption
    <2>6. ASSUME NEW i \in Nat, i > 1, i <= L + 1 PROVE Reference(i) \in 1..L
      BY <2>5, <2>6 DEF Reference
    <2>7. ASSUME NEW i \in 1..(L + 1), NEW s \in Signals
          PROVE  stored'[i].values[s] = Measured(i, s)'
      <3>1. CASE i <= L
        <4>1. stored'[i] = stored[i] /\ stored[i].values[s] = Measured(i, s)
          BY <2>2, <2>3, <3>1 DEF MeasuredInv
        <4>2. i > 1 => stored'[Reference(i)] = stored[Reference(i)]
          BY <2>3, <2>6, <3>1
        <4> QED BY <4>1, <4>2 DEF Measured, Reference
      <3>2. CASE i = L + 1
        <4>1. stored'[i].values[s] =
                IF s # "text_distance" THEN m.doc[s]
                ELSE IF Base.centroid = None \/ Base.centroid.dim # dim THEN None ELSE m.doc[s]
          BY <2>3, <3>2 DEF SignalValues
        <4>2. Measured(i, s)' =
                IF s = "text_distance" /\ (i = 1 \/ stored'[Reference(i)].dim # dim)
                  THEN None ELSE m.doc[s]
          BY <2>3, <3>2 DEF Measured, Reference
        <4>3. CASE L = 0
          BY <2>4, <3>2, <4>1, <4>2, <4>3
        <4>4. CASE L > 0
          <5>1. i # 1 /\ stored'[Reference(i)] = stored[Reference(i)]
            BY <2>3, <2>6, <3>2, <4>4
          <5> QED BY <2>4, <3>2, <4>1, <4>2, <4>4, <5>1
        <4> QED BY <4>3, <4>4
      <3> QED BY <3>1, <3>2
    <2>8. row'.centroid = Centroid(Base, L + 1, dim)
      BY <2>1, <2>3 DEF Observe
    <2>9. row'.centroid # None /\ row'.centroid.dim = stored'[Reference(L + 2)].dim
      <3>1. Base.centroid \in [dim : Nat, folded : Nat] \cup {None}
        BY SignalFacts DEF RowInv, Typed, Base, Row
      <3>2. CASE L + 1 <= BaselineN
        <4>1. Reference(L + 2) = L + 1
          BY <2>2, <3>2 DEF Reference
        <4>2. row'.centroid \in [dim : Nat, folded : Nat] /\ row'.centroid.dim = dim
          BY <2>8, <3>1, <3>2 DEF Centroid, Collecting, RowInv, Typed
        <4>3. None \notin [dim : Nat, folded : Nat]
          BY NoneAssumption
        <4> QED BY <2>3, <4>1, <4>2, <4>3
      <3>3. CASE L + 1 > BaselineN
        <4>1. Reference(L + 2) = BaselineN /\ Reference(L + 1) = BaselineN /\ BaselineN \in 1..L
          BY <2>2, <2>5, <3>3 DEF Reference
        <4>2. row'.centroid = Base.centroid
          BY <2>2, <2>5, <2>8, <3>3 DEF Centroid, Collecting
        <4> QED BY <2>3, <2>4, <4>1, <4>2
      <3> QED BY <2>2, <2>5, <3>2, <3>3
    <2> QED BY <2>2, <2>3, <2>7, <2>9 DEF MeasuredInv
  <1>2. ASSUME UNCHANGED <<row, stored>> PROVE MeasuredInv'
    BY <1>2 DEF MeasuredInv, Measured, Base
  <1>3. (\E w \in Workers : Commit(w)) \/ UNCHANGED <<row, stored>>
    BY DEF Next, Fold, Work, Deploy, Arrive, Redeliver, InsertRow, InsertFails, Crash, Rollback, vars
  <1> QED BY <1>1, <1>2, <1>3

\* A transaction that has logged holds the lock, so it is the only one that has.
LEMMA OneIsOpen ==
    ASSUME RowInv, NEW w \in Workers, at[w] \in {"fold", "commit"}
    PROVE  /\ tx[w].row = Base /\ \A v \in Workers \ {w} : at[v] \notin {"fold", "commit"}
           /\ Pending <=> at[w] = "commit" /\ Announces(w)
  BY DEF RowInv, LockInv, Pending

LEMMA StepAnnounce == RowInv /\ AnnounceInv /\ [Next]_vars => AnnounceInv'
  <1> SUFFICES ASSUME RowInv, AnnounceInv, [Next]_vars PROVE AnnounceInv'
    OBVIOUS
  <1>0. /\ announced \in Nat /\ crashes \in Nat
        /\ at \in [Workers -> {"idle", "first", "fold", "commit"}]
        /\ OnRecord \in BOOLEAN /\ Pending \in BOOLEAN
    BY DEF RowInv, Typed, OnRecord, Pending
  <1>1. ASSUME NEW w \in Workers, Fold(w) PROVE AnnounceInv'
    <2>1. /\ at[w] = "fold" /\ at' = [at EXCEPT ![w] = "commit"]
          /\ announced' = IF Announces(w) THEN announced + 1 ELSE announced
          /\ UNCHANGED <<row, dim, tx, crashes>>
      BY <1>1 DEF Fold, Goto
    <2>2. tx[w].row = Base /\ ~Pending /\ \A v \in Workers \ {w} : at[v] # "commit"
      BY <2>1, OneIsOpen
    <2>3. Pending' <=> Announces(w)
      BY <1>0, <2>1, <2>2 DEF Pending, Announces, Folded
    <2>4. Announces(w) => ~OnRecord
      BY <2>2 DEF Announces, NewlyFlagged, OnRecord
    <2>5. OnRecord' <=> OnRecord
      BY <2>1 DEF OnRecord, Base
    <2> QED BY <1>0, <2>1, <2>2, <2>3, <2>4, <2>5 DEF AnnounceInv
  <1>2. ASSUME NEW w \in Workers, Commit(w) PROVE AnnounceInv'
    <2>1. /\ at[w] = "commit" /\ at' = [at EXCEPT ![w] = "idle"]
          /\ row' = Folded(w) /\ UNCHANGED <<announced, crashes>>
      BY <1>2 DEF Commit, Goto
    <2>2. /\ tx[w].row = Base /\ \A v \in Workers \ {w} : at[v] # "commit"
          /\ Pending <=> Announces(w)
      BY <2>1, OneIsOpen
    <2>3. ~Pending'
      BY <1>0, <2>1, <2>2 DEF Pending
    <2>4. Base' = Folded(w)
      <3>1. row' # None
        BY <1>2, CommitStores
      <3> QED BY <2>1, <3>1 DEF Base
    <2>5. PICK m : m = tx[w].message
      OBVIOUS
    <2>6. Folded(w) = Observe(Base, m.doc, m.id, dim)
      BY <2>2, <2>5 DEF Folded
    <2>7. PICK stats : stats = StatsAfter(Base, m.doc, dim)
      OBVIOUS
    <2>8. /\ Folded(w).stats = stats
          /\ Folded(w).flagged_signals =
               IF Flagged(stats) # {} THEN Flagged(stats) ELSE Base.flagged_signals
      BY <2>6, <2>7, Observed
    <2>9. Announces(w) <=> Flagged(stats) # {} /\ ~OnRecord
      BY <2>2, <2>8 DEF Announces, NewlyFlagged, OnRecord
    <2>10. OnRecord' <=> OnRecord \/ Pending
      BY <2>2, <2>4, <2>8, <2>9 DEF OnRecord
    <2> QED BY <1>0, <2>1, <2>3, <2>10 DEF AnnounceInv
  <1>3. ASSUME NEW w \in Workers, InsertFails(w) \/ Crash(w) PROVE AnnounceInv'
    <2>1. /\ at[w] # "idle" /\ at' = [at EXCEPT ![w] = "idle"]
          /\ tx' = [tx EXCEPT ![w] = Idle] /\ UNCHANGED <<row, dim, announced>>
          /\ \/ crashes' = crashes /\ at[w] = "first"
             \/ crashes' = crashes + 1
      BY <1>3 DEF InsertFails, Crash, Rollback, Goto
    <2>2. OnRecord' <=> OnRecord
      BY <2>1 DEF OnRecord, Base
    <2>3. tx \in [Workers -> Tx]
      BY DEF RowInv, Typed, Tx
    <2>4. \A v \in Workers \ {w} : at'[v] = at[v] /\ tx'[v] = tx[v] /\ at'[w] = "idle"
      BY <1>0, <2>1, <2>3
    <2>5. Pending' => Pending
      BY <1>0, <2>1, <2>4 DEF Pending, Announces, Folded
    <2>6. at[w] = "first" => (Pending => Pending')
      BY <1>0, <2>1, <2>4 DEF Pending, Announces, Folded
    <2> QED BY <1>0, <2>1, <2>2, <2>5, <2>6 DEF AnnounceInv
  <1>4. ASSUME NEW w \in Workers, at[w] \in {"idle", "first"}, at'[w] # "commit",
               \A v \in Workers \ {w} : at'[v] = at[v] /\ tx'[v] = tx[v],
               UNCHANGED <<row, dim, announced, crashes>>
        PROVE  AnnounceInv'
    <2>1. Pending' <=> Pending
      BY <1>4 DEF Pending, Announces, Folded
    <2>2. OnRecord' <=> OnRecord
      BY <1>4 DEF OnRecord, Base
    <2> QED BY <1>0, <1>4, <2>1, <2>2 DEF AnnounceInv
  <1>5. ASSUME NEW w \in Workers,
               \/ InsertRow(w)
               \/ \E k \in waiting : Redeliver(w, k)
               \/ \E doc \in Shapes : Arrive(w, doc)
        PROVE  AnnounceInv'
    <2>1. /\ at[w] \in {"idle", "first"} /\ UNCHANGED <<row, dim, announced, crashes>>
          /\ \E p \in {"first", "fold"} : at' = [at EXCEPT ![w] = p]
          /\ \E t : tx' = [tx EXCEPT ![w] = t]
      BY <1>5 DEF InsertRow, Redeliver, Arrive, ReadRow, Goto
    <2>2. tx \in [Workers -> Tx]
      BY DEF RowInv, Typed, Tx
    <2>3. at'[w] # "commit" /\ \A v \in Workers \ {w} : at'[v] = at[v] /\ tx'[v] = tx[v]
      BY <1>0, <2>1, <2>2
    <2> QED BY <1>4, <2>1, <2>3
  <1>6. CASE Deploy \/ UNCHANGED vars
    <2>1. /\ UNCHANGED <<row, at, tx, announced, crashes>>
          /\ dim' = dim \/ \A w \in Workers : at[w] = "idle"
      BY <1>6 DEF Deploy, vars
    <2>2. (Pending' <=> Pending) /\ (OnRecord' <=> OnRecord)
      BY <2>1 DEF Pending, Announces, Folded, OnRecord, Base
    <2> QED BY <1>0, <2>1, <2>2 DEF AnnounceInv
  <1> QED BY <1>1, <1>2, <1>3, <1>5, <1>6 DEF Next, Work

LEMMA InitOpen == Init => MeasuredInv /\ AnnounceInv
  <1> SUFFICES ASSUME Init PROVE MeasuredInv /\ AnnounceInv
    OBVIOUS
  <1>1. /\ stored = << >> /\ Len(stored) = 0 /\ DOMAIN stored = {} /\ Base = NewRow
        /\ announced = 0 /\ crashes = 0 /\ \A w \in Workers : at[w] = "idle"
    BY DEF Init, Base
  <1>2. ~OnRecord /\ ~Pending
    BY <1>1 DEF OnRecord, Pending, NewRow
  <1> QED BY <1>1, <1>2 DEF MeasuredInv, AnnounceInv, NewRow

LEMMA DriftHolds == Spec => [](RowInv /\ DriftInv /\ MeasuredInv /\ AnnounceInv)
  <1>1. Init => RowInv /\ DriftInv /\ MeasuredInv /\ AnnounceInv
    BY InitRow, InitDrift, InitOpen
  <1>2. RowInv /\ DriftInv /\ MeasuredInv /\ AnnounceInv /\ [Next]_vars
          => (RowInv /\ DriftInv /\ MeasuredInv /\ AnnounceInv)'
    BY StepRow, StepDrift, StepMeasured, StepAnnounce
  <1> QED BY <1>1, <1>2, PTL DEF Spec

\* However the workers interleave, crash and are delivered messages again, the baseline
\* of each signal is the one two passes over the first BaselineN stored documents give:
\* the streamed sums count each document once, and dividing by n loses nothing.
THEOREM BaselineIsExact == Spec => []BaselineIsTheFirstDocuments
  <1>1. ASSUME RowInv, DriftInv, row # None, NEW s \in Signals PROVE TwoPass(s, row.stats[s])
    <2>1. PICK stat \in Stat : stat = row.stats[s] /\ Streamed(s, stat)
      BY <1>1 DEF RowInv, Typed, Row, DriftInv, StatsInv, Base
    <2>2. PICK B : B = Baseline(s)
      OBVIOUS
    <2>3. PICK f : f = Column(s)
      OBVIOUS
    <2>4. \A i \in B : i \in DOMAIN stored /\ f[i] = stored[i].values[s] /\ f[i] \in Int
      <3>1. stored \in Seq(Stored) /\ DOMAIN stored = 1..Len(stored)
        BY <1>1, LenProperties DEF RowInv, Typed
      <3>2. \A i \in DOMAIN stored : stored[i] \in Stored
        BY <3>1, ElementOfSeq
      <3>3. \A i \in B : i \in DOMAIN stored /\ stored[i].values[s] # None
        BY <2>2 DEF Baseline, Carriers
      <3>4. \A i \in B : stored[i].values[s] \in Int
        BY <3>2, <3>3 DEF Stored, Value
      <3> QED BY <2>3, <3>3, <3>4 DEF Column
    <2>5. IsFiniteSet(B)
      <3>1. stored \in Seq(Stored) /\ Len(stored) \in Nat /\ DOMAIN stored = 1..Len(stored)
        BY <1>1, LenProperties DEF RowInv, Typed
      <3>2. IsFiniteSet(DOMAIN stored) /\ B \subseteq DOMAIN stored
        BY <2>4, <3>1, FS_Interval
      <3> QED BY <3>2, FS_Subset
    <2>6. PICK n, t, q : n = Cardinality(B) /\ t = SumOver(f, B) /\ q = SumOver([i \in B |-> f[i] * f[i]], B)
      OBVIOUS
    <2>7. Total(Column(s), Baseline(s)) = t
      BY <2>2, <2>3, <2>6, TotalIsSum
    <2>8. Total(Squares(s), Baseline(s)) = q
      <3>1. PICK g : g = [i \in B |-> f[i] * f[i]]
        OBVIOUS
      <3>2. PICK h : h = Squares(s)
        OBVIOUS
      <3>3. \A i \in B : h[i] = g[i]
        BY <2>4, <3>1, <3>2 DEF Squares
      <3>4. SumOver(h, B) = SumOver(g, B)
        BY <2>5, <3>3, SumSame
      <3> QED BY <2>2, <2>6, <3>1, <3>2, <3>4, TotalIsSum
    <2>9. n * (n * q - t * t) = SumOver([i \in B |-> (n * f[i] - t) * (n * f[i] - t)], B)
      BY <2>4, <2>5, <2>6, Deviations
    <2>10. stat.n = n /\ stat.sum = t /\ stat.spread = n * q - t * t
      BY <2>1, <2>2, <2>6, <2>7, <2>8 DEF Streamed
    <2>11. [i \in B |-> (n * f[i] - t) * (n * f[i] - t)]
             = [i \in B |-> (n * stored[i].values[s] - t) * (n * stored[i].values[s] - t)]
      BY <2>4
    <2>12. stat.n * stat.spread
             = Total([i \in B |-> (n * stored[i].values[s] - t) * (n * stored[i].values[s] - t)], B)
      BY <2>9, <2>10, <2>11, TotalIsSum
    <2> QED BY <2>1, <2>2, <2>6, <2>7, <2>10, <2>12 DEF TwoPass
  <1>2. RowInv /\ DriftInv /\ MeasuredInv => BaselineIsTheFirstDocuments
    BY <1>1 DEF MeasuredInv, DriftInv, StatsInv, Base, BaselineIsTheFirstDocuments
  <1> QED BY DriftHolds, <1>2, PTL

\* "Drifting" is said exactly when some signal has been breached by K documents in a row.
THEOREM OnlyARunIsDrift == Spec => []DriftIsARun
  <1>1. DriftInv => DriftIsARun
    BY DEF DriftInv, FlagInv, Base, DriftIsARun
  <1> QED BY DriftHolds, <1>1, PTL

\* The row names the document that completed the first run; drift on record was logged, and
\* every line beyond the one is that of an observation lost with its transaction.
THEOREM TheFirstIsNamed == Spec => []FlagNamesTheFirst
  <1>1. ASSUME RowInv, DriftInv, AnnounceInv PROVE FlagNamesTheFirst
    <2>1. (\E i \in DOMAIN stored : Drifted(i)) <=> OnRecord
      BY <1>1 DEF DriftInv, FlagInv, OnRecord
    <2>2. Pending => \E w \in Workers : at[w] = "commit"
      BY DEF Pending
    <2>3. announced \in Nat /\ crashes \in Nat
      BY <1>1 DEF RowInv, Typed
    <2>4. row # None =>
            /\ ~(\E i \in DOMAIN stored : Drifted(i)) => row.flagged_document = None
            /\ \A i \in DOMAIN stored :
                  Drifted(i) /\ (\A j \in 1..(i - 1) : ~Drifted(j)) =>
                      row.flagged_document = stored[i].id
      BY <1>1 DEF DriftInv, FlagInv, Base
    <2>5. OnRecord \/ Pending => announced >= 1
      BY <1>1 DEF AnnounceInv
    <2>6. announced <= crashes + (IF OnRecord \/ Pending THEN 1 ELSE 0)
      BY <1>1 DEF AnnounceInv
    <2> QED BY <2>1, <2>2, <2>3, <2>4, <2>5, <2>6 DEF FlagNamesTheFirst
  <1> QED BY DriftHolds, <1>1, PTL

==========================================================================
