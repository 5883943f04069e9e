----------------------------- MODULE Experiment -----------------------------
(***************************************************************************)
(* The staged format change: one more job the shipped definition is put    *)
(* through. Each arm is a stream of documents, stable ones and then those  *)
(* of the redesign, or for the control arm more of the same; every one is  *)
(* extracted under the routing policy and observed by the drift detector,  *)
(* and the report says how the flag and the loss of precision compare in   *)
(* time. Both arms use one tenant, so one drift row.                       *)
(* Means that are only printed are left out; what their printing needs is  *)
(* not. Shares are compared in 1/100.                                      *)
(***************************************************************************)
EXTENDS Study

CONSTANTS
    Shipped,        \* the definition in config/pipelines that the job loads
    Arms,           \* the streams: [stable, drifted], sequences of documents
    Distance,       \* how far each document's text is from the baseline's
    Probability(_), \* the confidence of a logit
    BaselineN, K, ZThreshold, MinStd, Unit, \* drift.json, as in DriftStat
    Floor,          \* --floor, in 1/100
    Window          \* --window: approved documents

ASSUME ExperimentAssumption ==
    /\ Floor \in 0..100 /\ Window \in Nat \ {0} /\ BaselineN \in Nat \ {0} /\ K \in Nat \ {0}
    /\ Arms \in Seq([stable : Seq(Documents), drifted : Seq(Documents)]) /\ Arms # << >>

VARIABLES
    row,      \* the tenant's drift_stats row
    arm,      \* the arm that runs
    stream,   \* the documents it has left
    steps,    \* what became of those it has had
    summaries \* of the arms that are over

armVars == <<row, arm, stream, steps, summaries>>

Monitor == INSTANCE DriftStat WITH Threshold <- ZThreshold

ExperimentInit ==
    Init /\ row = None /\ arm = 0 /\ stream = << >> /\ steps = << >> /\ summaries = << >>

--------------------------------------------------------------------------
(* summarize: detection and precision of a finished arm.                   *)

First(positions) == IF positions = {} THEN None ELSE Min(positions)

SwapIndex(ran) == First({i \in DOMAIN ran : ran[i].phase = "drifted"})
DetectionIndex(ran) == First({i \in DOMAIN ran : ran[i].flagged # {}})

\* The approved documents up to the n-th: the last Window of them, or fewer.
Recent(ran, n) ==
    {i \in 1..n : ran[i].approved /\ Cardinality({j \in i..n : ran[j].approved}) <= Window}
Precise(ran, positions) ==
    100 * MapThenSumSet(LAMBDA i : ran[i].right, positions)
      >= Floor * MapThenSumSet(LAMBDA i : ran[i].total, positions)

\* Mutant: a window is over documents, approved or not.
X_BelowFloor(ran) ==
    {i \in Window..Len(ran) :
        ~Precise(ran, {j \in (i - Window + 1)..i : ran[j].approved})}

\* The documents at which the last Window approved ones fall under the floor.
BelowFloor(ran) ==
    {n \in DOMAIN ran : /\ ran[n].approved /\ Cardinality(Recent(ran, n)) = Window
                        /\ ~Precise(ran, Recent(ran, n))}

FirstBreach(ran, from) == First({i \in BelowFloor(ran) : from = None \/ i >= from})

Lag(index, swap) == IF index = None \/ swap = None THEN None ELSE index - swap + 1

\* Every mean the report prints without asking is of something.
Printable(ran) ==
    LET Phase(p) == {i \in DOMAIN ran : ran[i].phase = p} IN
    /\ \A p \in {"stable", "drifted"} : \E i \in Phase(p) : ran[i].scored
    /\ \A s \in UNION {ran[i].judged : i \in Phase("drifted")} :
          \E i \in Phase("stable") : s \in ran[i].judged

Summary(ran) ==
    [detected |-> DetectionIndex(ran),
     lag |-> Lag(DetectionIndex(ran), SwapIndex(ran)),
     breach_lag |-> Lag(FirstBreach(ran, SwapIndex(ran)), SwapIndex(ran)),
     printable |-> Printable(ran)]

\* render_report: the numbers of the headline and of the sentence about the detector.
\* `lag` is printed whatever it is: as "flagged the change {lag} documents after the swap"
\* if the floor was never breached, as "Detected {lag} documents after the swap" if it was,
\* and as "{lag} documents in". Only the words on what came first ask whether it is None.
Headline(summary) ==
    LET lag == summary.lag
        breach == summary.breach_lag
    IN  IF breach = None
          THEN [verdict |-> "never_breached", lag |-> lag, breach |-> None, lead |-> None]
        ELSE IF lag # None /\ lag < breach
          THEN [verdict |-> "preceded", lag |-> lag, breach |-> breach, lead |-> breach - lag]
        ELSE [verdict |-> "too_late", lag |-> lag, breach |-> breach, lead |-> None]

--------------------------------------------------------------------------
(* run_stream.                                                             *)

\* Mutant: the row of the arm before is still there.
X_Reset == UNCHANGED row

\* _reset_tenant.
Reset == row' = None

StartArm(n) ==
    /\ arm' = n /\ steps' = << >>
    /\ stream' = [i \in DOMAIN Arms[n].stable |-> [phase |-> "stable", doc |-> Arms[n].stable[i]]]
                   \o [i \in DOMAIN Arms[n].drifted |->
                         [phase |-> "drifted", doc |-> Arms[n].drifted[i]]]

Launch ==
    /\ job = "define" /\ definition = Shipped /\ ParseDefinition(definition)
    /\ job' = "experiment"
    /\ StartArm(1) /\ Reset
    /\ UNCHANGED <<definition, model, work, todo, results, dataset, verdict, summaries>>

\* _run_document, on the path the eval harness routes by.
Feed ==
    /\ job = "experiment" /\ work = Idle /\ stream # << >>
    /\ Begin(Head(stream).doc, "routed")
    /\ UNCHANGED <<definition, model, job, todo, results, dataset, verdict, armVars>>

\* What the detector is told; a failed extraction has no confidence.
Observed(outcome, doc) ==
    IF outcome.record = None
      THEN [doc_confidence |-> None, validation_failure |-> Unit, text_distance |-> Distance[doc]]
    ELSE [doc_confidence |-> Probability(Routing(outcome, doc).doc_confidence),
          validation_failure |-> IF FALSE \in Range(Validation(outcome)) THEN Unit ELSE 0,
          text_distance |-> Distance[doc]]

StepOf(outcome, doc, phase, before, after) ==
    LET right == IF outcome.record = None THEN {}
                 ELSE {f \in ScoredFields(definition) : Compare(outcome.record, doc)[f]}
        values == Monitor!SignalValues(before, Observed(outcome, doc), 1)
    IN  [phase |-> phase,
         approved |-> outcome.record # None /\ Routing(outcome, doc).decision = "approved",
         right |-> Cardinality(right), total |-> Cardinality(ScoredFields(definition)),
         scored |-> outcome.record # None,
         judged |-> IF Monitor!Collecting(after.n_observed) THEN {}
                    ELSE {s \in Monitor!Signals : values[s] # None /\ before.stats[s].n >= 2},
         flagged |-> Monitor!Flagged(after.stats)]

Watch ==
    /\ job = "experiment" /\ work.stage = "decided"
    /\ LET outcome == Kept(work)
           doc == work.doc
           before == IF row = None THEN Monitor!NewRow ELSE row
           after == Monitor!Observe(before, Observed(outcome, doc), None, 1)
       IN  IF ~Assessable(outcome, doc) THEN EndJob("crashed", None) /\ UNCHANGED <<work, armVars>>
           ELSE /\ row' = after
                /\ steps' = Append(steps, StepOf(outcome, doc, Head(stream).phase, before, after))
                /\ stream' = Tail(stream)
                /\ work' = Idle
                /\ UNCHANGED <<job, verdict, arm, summaries>>
    /\ UNCHANGED <<definition, model, todo, results, dataset>>

ArmDone == job = "experiment" /\ work = Idle /\ stream = << >>

NextArm ==
    /\ ArmDone /\ arm < Len(Arms)
    /\ summaries' = Append(summaries, Summary(steps))
    /\ StartArm(arm + 1) /\ Reset
    /\ UNCHANGED vars

\* The report, and the end of the drift row. The first arm is the swap's, the last the control.
WriteReport ==
    /\ ArmDone /\ arm = Len(Arms)
    /\ LET all == Append(summaries, Summary(steps)) IN
       IF all[1].printable
         THEN /\ EndJob("done", [status |-> "reported", headline |-> Headline(all[1]),
                                 false_positive |-> all[Len(all)].detected # None])
              /\ row' = None
         ELSE EndJob("crashed", None) /\ UNCHANGED row
    /\ UNCHANGED <<definition, model, work, todo, results, dataset, arm, stream, steps, summaries>>

ExperimentNext ==
    \/ Next /\ UNCHANGED armVars
    \/ Launch \/ Feed \/ Watch \/ NextArm \/ WriteReport

ExperimentSpec == ExperimentInit /\ [][ExperimentNext]_<<vars, armVars>>

--------------------------------------------------------------------------
(* Properties.                                                             *)

\* Some Window approved documents in a row that end between the two are under the floor.
Fell(ran, from, to) ==
    \E a \in 1..to : \E b \in Max({a, from})..to :
        LET run == {i \in a..b : ran[i].approved} IN
        ran[b].approved /\ Cardinality(run) = Window /\ ~Precise(ran, run)

\* The numbers of a headline about the arm that ran. Counted from the first document of the redesign,
\* `breach` is the first at which Window approved documents in a row are under the floor,
\* or none ever are; and `lag` is the first of the arm that was flagged: None if nothing
\* was, and below one if a stable document was, though the sentence speaks of a detection
\* after the swap all the same. What it says of the order is so: `lead` documents lie
\* between the first flag and the breach, or the breach was there when the flag came, if
\* one ever came.
HeadlineIsSo(ran) ==
    LET swap == SwapIndex(ran)
        flag == DetectionIndex(ran)
        says == Headline(Summary(ran))
        Document(count) == swap + count - 1
    IN  /\ IF says.lag = None
             THEN \A i \in DOMAIN ran : ran[i].flagged = {}
             ELSE /\ ran[Document(says.lag)].flagged # {}
                  /\ \A i \in 1..(Document(says.lag) - 1) : ran[i].flagged = {}
        /\ IF says.breach = None
             THEN ~Fell(ran, swap, Len(ran))
             ELSE /\ Fell(ran, swap, Document(says.breach))
                  /\ ~Fell(ran, swap, Document(says.breach) - 1)
        /\ says.verdict = "preceded" =>
             says.lead > 0 /\ Document(says.breach) = flag + says.lead
        /\ says.verdict = "too_late" => flag = None \/ Document(says.breach) <= flag

\* The numbers the headline prints for a finished arm, and the order of flag and breach it
\* names, are so: render_report counts from the swap what summarize found in the stream.
TimingClaimHolds == ArmDone => HeadlineIsSo(steps)

\* The arms are apart: no document is flagged before its own arm has had a baseline and
\* a run of documents after it, so that what one arm leaves in the drift row is never a
\* detection, or a false positive, of the next.
ArmsAreApart == \A i \in DOMAIN steps : steps[i].flagged # {} => i >= BaselineN + K

\* What there is left to do, as a number: documents, and calls and attempts at the one in
\* hand.
WorkLeft ==
    IF work = Idle \/ job \in Ended THEN 0
    ELSE IF work.stage = "calling" THEN 8 - 3 * Len(work.outcomes) - work.attempt
    ELSE IF work.stage = "assessing" THEN 5 ELSE 1

PhasesLeft ==
    CASE job = "define" -> 4 [] job = "frontier" -> 3 [] job \in Ended -> 0 [] OTHER -> 1

ArmSize == [n \in DOMAIN Arms |-> 1 + Len(Arms[n].stable) + Len(Arms[n].drifted)]
StreamLeft ==
    IF job \in Ended THEN 0
    ELSE Len(stream) - When(job = "experiment" /\ work # Idle, 1)
           + MapThenSumSet(LAMBDA n : ArmSize[n], (arm + 1)..Len(Arms))

Remaining ==
    10 * (Len(Corpus) + 1) * PhasesLeft + 10 * Len(todo) + 10 * StreamLeft + WorkLeft

\* Every job comes to an end, whatever the model answers: each step leaves less to do, so
\* that no retry, escalation, pass or arm repeats for ever. That a job never stops short
\* of its end is the run's deadlock check.
JobsAdvance == [][Remaining' < Remaining]_<<vars, armVars>>

==========================================================================
