------------------------------- MODULE Study ------------------------------
(***************************************************************************)
(* What a pipeline definition is put through: it is parsed, and then a     *)
(* document is served under it, or the eval gate grades the golden         *)
(* documents on the frontier model and under the routing policy, or the    *)
(* calibration study builds its data set, fits a model and chooses the     *)
(* threshold. Each is one job; a job runs until its verdict.               *)
(* The corpus is listed in the order of the hashes of its documents' ids;  *)
(* the fit is any of Models, and only its threshold is worked out.         *)
(***************************************************************************)
EXTENDS Extraction

CONSTANTS
    Configs,           \* the configs that are submitted
    Served,            \* the documents a worker may be handed
    Corpus,            \* the labelled documents, in the order of the golden split
    Truth,             \* their labels
    GoldenSize,        \* how many documents are asked for as golden
    Floors,            \* the gate's floors by slug: overall, routed, and by field
    Deployed,          \* the confidence model in force before any study
    Models,            \* what a fit may come to
    Thresholds,        \* the thresholds the sweep tries
    Target,            \* the precision asked of what is approved, in 1/100
    MIN_USEFUL_RATE,   \* the share of fields worth operating on, in 1/100
    COVERAGE_TOLERANCE \* the share of fields given up for precision, in 1/100

ASSUME StudyAssumption ==
    /\ GoldenSize \in Nat \ {0} /\ Target \in 0..100
    /\ MIN_USEFUL_RATE \in 0..100 /\ COVERAGE_TOLERANCE \in 0..100
    /\ Corpus \in Seq(Documents) /\ Served \subseteq Documents \ Scanned
    /\ Models \cup {Deployed} \subseteq ConfidenceModel
    /\ Thresholds \subseteq Int /\ IsFiniteSet(Thresholds)
    /\ \A c \in Configs : /\ IsFiniteSet(ScoredFields(c))
                          /\ Floors[c.slug].overall \in Int /\ Floors[c.slug].routed \in Int

\* What normalization leaves of a value of each kind: none, or one that is canonical.
Canonical(value, kind, page) ==
    value = None \/ /\ kind \in {"date", "money", "rate", "quantity"} => value \in Int
                    /\ kind = "text" => value \in DOMAIN page.grounds

CanonicalRows(rows, spec, page) ==
    /\ rows \in Seq(Range(rows))
    /\ \A row \in Range(rows) : \A c \in DOMAIN row \cap DOMAIN spec.item_fields :
          Canonical(row[c], spec.item_fields[c], page)

\* The fit of what a model answers to the definitions, and what a page can say.
ASSUME AnswersAssumption ==
    /\ \A d \in Served : /\ Range(Page[d].grounds) \subseteq 0..100
                         /\ Page[d].dates \subseteq Int /\ Page[d].term \in Int \cup {None}
    /\ \A def \in Configs :
          /\ def.rules \in Seq(Rules(def))
          /\ \A rule \in Rules(def) : "terms" \in DOMAIN rule => IsFiniteSet(DOMAIN rule.terms)
    /\ \A def \in Configs, d \in Served : \A record \in Answers[d] : \A f \in ScoredFields(def) :
          LET spec == def.fields[f] IN
          IF spec.kind = "table"
            THEN record[f] = None \/ CanonicalRows(record[f], spec, Page[d])
          ELSE Canonical(record[f], spec.kind, Page[d])

VARIABLES
    job,     \* "define", a mode, or how it ended
    todo,    \* the documents the job has left
    results, \* the DocResults of each pass of the gate
    dataset, \* the study's extractions: their signals, and which fields are right
    verdict  \* what the job came to

vars == <<definition, model, work, job, todo, results, dataset, verdict>>

NoResults == [frontier |-> << >>, routed |-> << >>]
Ended == {"rejected", "done", "crashed", "exited"}

Init ==
    /\ definition \in Configs /\ model = Deployed
    /\ work = Idle /\ job = "define" /\ todo = << >>
    /\ results = NoResults /\ dataset = << >> /\ verdict = None

--------------------------------------------------------------------------
(* The golden split, and grading against the labels.                       *)

\* The gate never takes more than a third of the corpus; the study does not cap.
Capped(records) == Least(GoldenSize, Max({1, Len(records) \div 3}))
Golden(records, size) == SubSeq(records, 1, Least(size, Len(records)))
EvalGolden == Golden(Corpus, Capped(Corpus))
HeldOut == ToSet(Golden(Corpus, GoldenSize))

CellsEqual(row, want) == \A c \in DOMAIN want : row[c] # None /\ row[c] = want[c]

TableEqual(extracted, expected) ==
    /\ Len(extracted) = Len(expected)
    /\ \A i \in DOMAIN expected : CellsEqual(extracted[i], expected[i])

Compare(record, doc) ==
    [f \in ScoredFields(definition) |->
        IF f \in TableFields(definition)
          THEN TableEqual(Rows(record, f), Rows(Truth[doc], f))
          ELSE record[f] # None /\ record[f] = Truth[doc][f]]

\* One more document's result.
Recorded(pass, doc, result) ==
    [d \in (DOMAIN pass) \cup {doc} |-> IF d = doc THEN result ELSE pass[d]]

NeedsOcr == [needs_ocr |-> TRUE, fields |-> << >>]

\* Mutant: a document that could not be extracted has no fields to get wrong.
X_DocResult(w) ==
    [needs_ocr |-> FALSE,
     fields |-> IF Kept(w).record = None THEN << >> ELSE Compare(Kept(w).record, w.doc)]

\* A failed extraction has every field wrong.
DocResult(w) ==
    [needs_ocr |-> FALSE,
     fields |-> IF Kept(w).record = None THEN [f \in ScoredFields(definition) |-> FALSE]
                ELSE Compare(Kept(w).record, w.doc)]

--------------------------------------------------------------------------
(* The gate.                                                               *)

Cells(pass, fields) ==
    {cell \in (DOMAIN pass) \X fields : /\ ~pass[cell[1]].needs_ocr
                                       /\ cell[2] \in DOMAIN pass[cell[1]].fields}

\* No cells is an accuracy of zero.
Clears(pass, fields, floor) ==
    LET cells == Cells(pass, fields)
        right == {c \in cells : pass[c[1]].fields[c[2]]}
    IN  IF cells = {} THEN floor <= 0 ELSE 100 * Cardinality(right) >= floor * Cardinality(cells)

CheckType ==
    LET floors == Floors[definition.slug] IN
    /\ Clears(results.frontier, ScoredFields(definition), floors.overall)
    /\ Escalates => Clears(results.routed, ScoredFields(definition), floors.routed)
    /\ \A f \in DOMAIN floors.fields : Clears(results.frontier, {f}, floors.fields[f])

--------------------------------------------------------------------------
(* The study's threshold.                                                  *)

\* The rows of the held-out documents, a field each, as a fitted model scores them.
HeldRows(m) ==
    {[doc |-> d, field |-> f, correct |-> dataset[d].correct[f],
      score |-> Logit(FeaturesFor(f, dataset[d].signals, definition), m)] :
        d \in HeldOut \cap DOMAIN dataset, f \in ScoredFields(definition)}

\* One point of the sweep: how many fields it approves, and how many of them are right.
Point(threshold, rows) ==
    LET approved == {r \in rows : r.score >= threshold}
    IN  [threshold |-> threshold, approved |-> Cardinality(approved),
         right |-> Cardinality({r \in approved : r.correct})]

Sweep(rows) == {Point(t, rows) : t \in Thresholds}

Useful(p, n) == 100 * p.approved >= MIN_USEFUL_RATE * n
\* The precision of a point that approves nothing is 1.
Meets(p) == 100 * p.right >= Target * p.approved
MorePrecise(p, q) ==
    LET Right(x) == IF x.approved = 0 THEN 1 ELSE x.right
        Total(x) == IF x.approved = 0 THEN 1 ELSE x.approved
    IN  Right(p) * Total(q) > Right(q) * Total(p)
Better(p, q) == MorePrecise(p, q) \/ (~MorePrecise(q, p) /\ p.approved > q.approved)

\* max: the first of the points that none of them is better than.
Best(points) ==
    CHOOSE p \in points : \A q \in points :
        ~Better(q, p) /\ (Better(p, q) \/ p.threshold <= q.threshold)

Widest(points) == Max({p.approved : p \in points})

\* Mutant: the widest coverage that meets the target.
X_OperatingPoint(curve, n) ==
    LET usable == {p \in curve : Useful(p, n)}
        feasible == {p \in usable : Meets(p)}
    IN  IF feasible # {}
          THEN [point |-> CHOOSE p \in feasible : p.approved = Widest(feasible), met |-> TRUE]
        ELSE IF usable # {} THEN [point |-> Best(usable), met |-> FALSE]
        ELSE [point |-> [threshold |-> Max(Thresholds), approved |-> 0, right |-> 0], met |-> FALSE]

\* The most precise of the points that give up little of the widest coverage there is.
OperatingPoint(curve, n) ==
    LET usable == {p \in curve : Useful(p, n)}
        feasible == {p \in usable : Meets(p)}
        affordable == {p \in feasible :
                         100 * p.approved >= 100 * Widest(feasible) - COVERAGE_TOLERANCE * n}
    IN  IF feasible # {} THEN [point |-> Best(affordable), met |-> TRUE]
        ELSE IF usable # {} THEN [point |-> Best(usable), met |-> FALSE]
        ELSE [point |-> [threshold |-> Max(Thresholds), approved |-> 0, right |-> 0], met |-> FALSE]

--------------------------------------------------------------------------
(* The jobs.                                                               *)

EndJob(how, what) == job' = how /\ verdict' = what

\* parse_definition, and the job the accepted definition is for.
Define ==
    /\ job = "define"
    /\ IF ParseDefinition(definition)
         THEN /\ \/ job' = "serve" /\ \E d \in Served : todo' = <<d>>
                 \/ job' = "frontier" /\ todo' = EvalGolden
                 \/ definition.slug = "invoice" /\ job' = "build" /\ todo' = Corpus
              /\ UNCHANGED verdict
         ELSE EndJob("rejected", None) /\ UNCHANGED todo
    /\ UNCHANGED <<definition, model, work, results, dataset>>

\* Takes up the next document; one without a text layer is set aside.
Take ==
    /\ work = Idle /\ todo # << >>
    /\ todo' = Tail(todo)
    /\ IF Head(todo) \in Scanned
         THEN /\ results' = IF job \in {"frontier", "routed"}
                            THEN [results EXCEPT ![job] = Recorded(@, Head(todo), NeedsOcr)]
                            ELSE results
              /\ UNCHANGED work
         ELSE Begin(Head(todo), job) /\ UNCHANGED results
    /\ UNCHANGED <<definition, model, job, dataset, verdict>>

Extract == Step /\ UNCHANGED <<definition, model, job, todo, results, dataset, verdict>>

\* The row _store_extraction writes.
StoredRow(w) ==
    IF Kept(w).record = None
      THEN [status |-> "failed", record |-> None, cost |-> w.spend, flagged |-> {}]
      ELSE LET routing == Routing(Kept(w), w.doc)
           IN  [status |-> routing.decision, record |-> Kept(w).record, cost |-> w.spend,
                flagged |-> routing.flagged_fields]

\* The worker assesses an escalated answer as it did the first, and stores what it kept.
Store ==
    /\ job = "serve" /\ work.stage = "decided"
    /\ IF Assessable(Kept(work), work.doc) THEN EndJob("done", StoredRow(work))
       ELSE EndJob("crashed", None)
    /\ UNCHANGED <<definition, model, work, todo, results, dataset>>

Pause ==
    /\ work.stage = "paused"
    /\ EndJob("done", [status |-> "budget_exceeded"])
    /\ UNCHANGED <<definition, model, work, todo, results, dataset>>

Grade ==
    /\ job \in {"frontier", "routed"} /\ work.stage = "decided"
    /\ results' = [results EXCEPT ![job] = Recorded(@, work.doc, DocResult(work))]
    /\ work' = Idle
    /\ UNCHANGED <<definition, model, job, todo, dataset, verdict>>

\* A failed extraction has no row in the study.
Build ==
    /\ job = "build" /\ work.stage = "decided"
    /\ LET record == Kept(work).record IN
       dataset' = IF record = None THEN dataset
                  ELSE Recorded(dataset, work.doc,
                         [signals |-> Report(Kept(work), work.doc).signals,
                          correct |-> Compare(record, work.doc)])
    /\ work' = Idle
    /\ UNCHANGED <<definition, model, job, todo, results, verdict>>

\* An exception is redelivered by the worker's queue, and ends the harness and the study.
Raise ==
    /\ work.stage = "raised"
    /\ EndJob("crashed", None)
    /\ UNCHANGED <<definition, model, work, todo, results, dataset>>

PassDone == work = Idle /\ todo = << >>

\* The second pass is what production runs.
Reroute ==
    /\ job = "frontier" /\ PassDone /\ Escalates
    /\ job' = "routed" /\ todo' = EvalGolden
    /\ UNCHANGED <<definition, model, work, results, dataset, verdict>>

Gate ==
    /\ job = (IF Escalates THEN "routed" ELSE "frontier") /\ PassDone
    /\ EndJob("done", [status |-> IF CheckType THEN "passed" ELSE "below_floor"])
    /\ UNCHANGED <<definition, model, work, todo, results, dataset>>

\* Fitted on the documents that are not golden; the threshold is chosen on those that
\* are. The config that is written does not say which pipeline it was fitted for.
Fit ==
    /\ job = "build" /\ PassDone
    /\ IF DOMAIN dataset \subseteq HeldOut \/ DOMAIN dataset \cap HeldOut = {}
         THEN EndJob("exited", None) /\ UNCHANGED model
         ELSE \E m \in Models :
                LET chosen == OperatingPoint(Sweep(HeldRows(m)), Cardinality(HeldRows(m))) IN
                /\ EndJob("done", [status |-> "fitted", met |-> chosen.met])
                /\ model' = [m EXCEPT !.threshold = chosen.point.threshold,
                                      !.calibrated_for = None]
    /\ UNCHANGED <<definition, work, todo, results, dataset>>

\* A job that has ended.
Rest == job \in Ended /\ UNCHANGED vars

Next ==
    \/ Define \/ Take \/ Extract \/ Store \/ Pause \/ Grade \/ Build \/ Raise
    \/ Reroute \/ Gate \/ Fit \/ Rest

Spec == Init /\ [][Next]_vars

--------------------------------------------------------------------------
(* Properties                                                              *)

\* Escalation never loses an answer: what is stored for a document is the last usable
\* answer any of its calls gave, and it fails only if none did.
NoAnswerIsLost ==
    (job = "done" /\ work.stage = "decided") =>
        LET usable == {i \in DOMAIN work.outcomes : work.outcomes[i].record # None}
        IN  IF usable = {} THEN verdict.status = "failed"
            ELSE verdict.record = work.outcomes[Max(usable)].record

\* A model by which a failed rule, a suspect shape or a broken row each outweighs the bias.
Decisive(m) ==
    /\ \A n \in FEATURES : m.weights[n] >= 0
    /\ \A n \in {"implicating_rules_failed", "shape_suspect", "row_arithmetic_broken"} :
          m.bias - m.weights[n] < m.threshold

\* A record is approved unseen only if every rule kept for its document holds of it, no row
\* fails the rule of its table, no text is in fragments and no amount that must be positive
\* is not; and what is not on the page, of a text, a table, an enum, a date or a stated
\* term, is no more than the fitted model's margin bears. That is so of every definition
\* that is accepted, under a model that is decisive, as the deployed one is.
ApprovedIsVouchedFor ==
    (job = "done" /\ verdict.status = "approved" /\ Decisive(model)) =>
        LET record == verdict.record
            page == Page[work.doc]
            checked == EvaluateRules(record, definition)
            Borne(feature, lack) == model.weights[feature] * lack <= model.bias - model.threshold
        IN  /\ \A n \in DOMAIN checked : checked[n]
            /\ \A t \in TableFields(definition) :
                  /\ InconsistentRows(record, definition, t) = {}
                  /\ Borne("groundedness", 100 - TableGroundedness(record, definition, page, t))
            /\ \A f \in TextFields(definition) :
                  /\ record[f] \notin Fragmented
                  /\ Borne("groundedness", 100 - Groundedness(record[f], page))
            /\ \A f \in GroundedEnumFields(definition) : record[f] # None =>
                  Borne("groundedness", 100 - EnumGrounded(definition, f, record[f], page))
            /\ \A f \in PositiveFields(definition) : record[f] # None /\ record[f] > 0
            /\ \A f \in DateFields(definition) :
                  \A s \in {CorroborateDate(record[f], page)}
                             \cup TermScores(record, definition, page) :
                     Borne("date_corroboration", 100 - s)

\* A pass of the gate clears its floor over every field of every golden document that has
\* a text layer: the documents whose extraction failed are not left out of it.
GateCountsFailures ==
    (job = "done" /\ verdict.status = "passed") =>
        \A mode \in {"frontier"} \cup (IF Escalates THEN {"routed"} ELSE {}) :
            LET readable == ToSet(EvalGolden) \ Scanned
                right == {c \in Cells(results[mode], ScoredFields(definition)) :
                            results[mode][c[1]].fields[c[2]]}
                floor == IF mode = "routed" THEN Floors[definition.slug].routed
                         ELSE Floors[definition.slug].overall
            IN  100 * Cardinality(right)
                  >= floor * Cardinality(ScoredFields(definition)) * Cardinality(readable)

\* No date of the page, and no term it states, is at odds with the extraction.
DatesAgree(signals) ==
    /\ "issued" \notin Uncorroborated(signals)
    /\ signals.term # None => signals.term >= DATE_CORROBORATION_THRESHOLD

\* The study's data set says what it is for. What it calls wrong is what one class of
\* error made wrong; a drifted total fails a rule, and nothing else does; a false vendor is
\* fragmented or not on the page; a date that was moved goes unseen only where it landed
\* on another date of a page that states no term; and amounts that were transposed show in
\* the rows alone. (A row on its own hides them: its product is the same.)
ErrorsLeaveTheirMark ==
    \A d \in DOMAIN dataset :
        LET signals == dataset[d].signals
            wrong == {f \in DOMAIN dataset[d].correct : ~dataset[d].correct[f]}
            landings == {MockReads[d].issued - days : days \in Shifts} \cap Page[d].dates
        IN  wrong # {} =>
              /\ \E class \in ERROR_CLASSES : wrong = ERROR_CLASS_FIELDS[class]
              /\ wrong = {"total"} <=> FailedRules(signals) # {}
              /\ wrong = {"vendor"} => \/ "vendor" \in signals.fragmented
                                      \/ signals.groundedness["vendor"] < GROUNDEDNESS_THRESHOLD
              /\ wrong = {"issued"} /\ DatesAgree(signals) =>
                    Page[d].term = None /\ landings # {}
              /\ "items" \in signals.inconsistent
                   <=> wrong = {"items"} /\ Len(MockReads[d].items) > 1

\* The threshold the study deploys holds on the held-out fields as the fitted model
\* scores them. If it says the target is met, what it approves is that precise and worth
\* approving, it gives up no more coverage than is tolerated, and nothing as affordable is
\* more precise; if it says not, no threshold that is worth using meets the target.
ThresholdHoldsOnHeldOut ==
    (job = "done" /\ verdict.status = "fitted") =>
        LET rows == HeldRows(model)
            n == Cardinality(rows)
            deployed == Point(model.threshold, rows)
            candidates == {p \in Sweep(rows) : Useful(p, n) /\ Meets(p)}
            Costs(p) == 100 * (Widest(candidates) - p.approved)
        IN  IF verdict.met
              THEN /\ Useful(deployed, n) /\ Meets(deployed)
                   /\ Costs(deployed) <= COVERAGE_TOLERANCE * n
                   /\ \A p \in candidates :
                         Costs(p) <= COVERAGE_TOLERANCE * n => ~MorePrecise(p, deployed)
              ELSE candidates = {}

==========================================================================
