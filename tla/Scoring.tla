----------------------------- MODULE Scoring -----------------------------
(***************************************************************************)
(* The signals of an extraction, the uncalibrated confidence they give,    *)
(* and the calibrated one the document is routed by. A page says what can  *)
(* be traced to it: how much of a text is printed on it, which surface     *)
(* forms, which dates, and a payment term if it states one.                *)
(* Penalties are counted in 1/200; groundedness and corroboration in       *)
(* 1/100. The fitted model is logistic: what decides is its logit, so the  *)
(* threshold is a logit too, and the weights have the standardization in   *)
(* them. The logarithm of a residual is taken to be its argument, which    *)
(* bounds it.                                                              *)
(***************************************************************************)
EXTENDS Definition

CONSTANTS
    GROUNDEDNESS_THRESHOLD,       \* in 1/100
    DATE_CORROBORATION_THRESHOLD, \* in 1/100
    Fragmented, Short             \* texts that look fragmented, or are implausibly short

PENALTY_ARITHMETIC_RULE == 60
PENALTY_DATE_RULE == 30
PENALTY_RETRY == 20
PENALTY_TEXT_FRAGMENTED == 20
PENALTY_NONPOSITIVE_AMOUNT == 50
PENALTY_SUSPECT_FIELD_SHAPE == 40
PENALTY_UNGROUNDED_FIELD == 70
PENALTY_UNGROUNDED_ENUM == 70
PENALTY_UNCORROBORATED_DATE == 70

Clamp(n) == IF n < 0 THEN 0 ELSE n
Least(a, b) == IF a <= b THEN a ELSE b

--------------------------------------------------------------------------
(* What is read off the page.                                              *)

Groundedness(value, page) == page.grounds[value]

\* A currency counts as named when one of its surface forms is printed.
EnumGrounded(def, field, value, page) ==
    IF def.fields[field].surface_forms[value] \cap page.forms # {} THEN 100 ELSE 0

\* 1 / (1 + days); a page with no dates has no opinion.
Decay(days) == 100 \div (1 + Magnitude(days))
CorroborateDate(value, page) ==
    IF page.dates = {} THEN 100 ELSE Max({Decay(value - d) : d \in page.dates})
CorroborateTerm(earlier, later, page) == Decay(later - earlier - page.term)

DateOrders(def) == {rule \in Rules(def) : rule.type = "date_order"}

\* Scoring reads texts, the dates it compares with the page's, and the parameters of date
\* and row rules, without asking whether they are there.
Scorable(record, page, def) ==
    /\ \A f \in TextFields(def) : record[f] # None
    /\ \A t \in TableFields(def) : \A row \in Range(Rows(record, t)) :
          \A c \in TextColumns(def, t) : Value(row, c) # None
    /\ page.dates # {} => \A f \in DateFields(def) : record[f] # None
    /\ \A rule \in DateOrders(def) :
          /\ Complete(rule)
          /\ page.term # None => \A f \in {rule.earlier, rule.later} :
                                    f \in DateFields(def) /\ record[f] # None
    /\ \A rule \in Rules(def) : IsRowRule(rule) => Complete(rule)

--------------------------------------------------------------------------
(* score_extraction                                                        *)

TableGroundedness(record, def, page, table) ==
    Min({100} \cup {Groundedness(record[table][i][c], page) :
                       i \in DOMAIN Rows(record, table), c \in TextColumns(def, table)})

\* Under the key every field's groundedness has, an enum's included, so that the fitted
\* features read it.
GroundSignal(f, record, def, page) ==
    CASE f \in TextFields(def) -> Groundedness(record[f], page)
      [] f \in TableFields(def) -> TableGroundedness(record, def, page, f)
      [] OTHER -> EnumGrounded(def, f, record[f], page)

Traced(record, def) ==
    TextFields(def) \cup TableFields(def) \cup {f \in GroundedEnumFields(def) : record[f] # None}

MoneyValues(record, def) ==
    {Magnitude(record[f]) : f \in {g \in OfKind(def, "money") : record[g] # None}}

TermScores(record, def, page) ==
    IF page.term = None THEN {}
    ELSE {CorroborateTerm(record[r.earlier], record[r.later], page) : r \in DateOrders(def)}

RuleResidual(name, record, def) ==
    LET rules == {r \in DocumentRules(def) : IsArithmetic(r) /\ r.name = name}
    IN  IF rules = {} THEN 0 ELSE Magnitude(Residual(LastNamed(def, rules, name), record, def))

\* The raw vector that is stored with the extraction.
Signals(record, validation, attempts, page, def) ==
    [attempts |-> attempts,
     rules |-> validation,
     residuals |-> [n \in DOMAIN validation |-> RuleResidual(n, record, def)],
     scale |-> Max({1} \cup MoneyValues(record, def)),
     fragmented |-> {f \in TextFields(def) : record[f] \in Fragmented},
     short |-> {f \in TextFields(def) : record[f] \in Short},
     nonpositive |-> {f \in PositiveFields(def) : record[f] = None \/ record[f] <= 0},
     inconsistent |-> {t \in TableFields(def) : InconsistentRows(record, def, t) # {}},
     groundedness |-> [f \in Traced(record, def) |-> GroundSignal(f, record, def, page)],
     dates |-> [f \in DateFields(def) |-> CorroborateDate(record[f], page)],
     term |-> IF TermScores(record, def, page) = {} THEN None
              ELSE Min(TermScores(record, def, page))]

FailedRules(signals) == {n \in DOMAIN signals.rules : ~signals.rules[n]}
Implicating(f, signals, def) == {n \in FailedRules(signals) : f \in RuleFields(def, n)}

RuleWeight(name, def) ==
    IF \E r \in Rules(def) : r.name = name /\ r.type \in {"date_order", "required"}
      THEN PENALTY_DATE_RULE ELSE PENALTY_ARITHMETIC_RULE

\* Free text, enums and tables whose text cannot be traced to the page.
Ungrounded(record, page, def) ==
    {f \in TextFields(def) : Groundedness(record[f], page) < GROUNDEDNESS_THRESHOLD}
      \cup {f \in GroundedEnumFields(def) :
              record[f] # None /\ EnumGrounded(def, f, record[f], page) = 0}
      \cup {t \in TableFields(def) :
              TableGroundedness(record, def, page, t) < GROUNDEDNESS_THRESHOLD}

Uncorroborated(signals) ==
    {f \in DOMAIN signals.dates : signals.dates[f] < DATE_CORROBORATION_THRESHOLD}

TermMismatches(record, def, page) ==
    IF page.term = None THEN {}
    ELSE {r \in DateOrders(def) :
            CorroborateTerm(record[r.earlier], record[r.later], page)
              < DATE_CORROBORATION_THRESHOLD}

When(condition, penalty) == IF condition THEN penalty ELSE 0

FieldPenalty(f, record, signals, page, def) ==
    MapThenSumSet(LAMBDA n : RuleWeight(n, def), Implicating(f, signals, def))
      + When(f \in signals.fragmented, PENALTY_SUSPECT_FIELD_SHAPE)
      + When(f \in signals.nonpositive, PENALTY_SUSPECT_FIELD_SHAPE)
      + When(f \in signals.short, PENALTY_SUSPECT_FIELD_SHAPE)
      + When(f \in signals.inconsistent, PENALTY_SUSPECT_FIELD_SHAPE)
      + When(f \in Ungrounded(record, page, def), PENALTY_UNGROUNDED_FIELD)
      + When(f \in Uncorroborated(signals), PENALTY_UNCORROBORATED_DATE)
      + (PENALTY_UNCORROBORATED_DATE \div 2) *
          Cardinality({r \in TermMismatches(record, def, page) :
                         f \in r.fields \cap DateFields(def)})

DocPenalty(record, signals, page, def) ==
    MapThenSumSet(LAMBDA n : RuleWeight(n, def), FailedRules(signals))
      + When(signals.attempts > 1, PENALTY_RETRY)
      + PENALTY_TEXT_FRAGMENTED * Cardinality(signals.fragmented)
      + PENALTY_NONPOSITIVE_AMOUNT * Cardinality(signals.nonpositive)
      + PENALTY_UNGROUNDED_FIELD * Cardinality(Ungrounded(record, page, def))
      + PENALTY_UNCORROBORATED_DATE *
          (Cardinality(Uncorroborated(signals)) + Cardinality(TermMismatches(record, def, page)))

ScoreExtraction(record, validation, attempts, page, def) ==
    LET signals == Signals(record, validation, attempts, page, def)
    IN  [signals |-> signals,
         doc_confidence |-> Clamp(200 - DocPenalty(record, signals, page, def)),
         fields |-> [f \in ScoredFields(def) |->
                       Clamp(200 - FieldPenalty(f, record, signals, page, def))]]

--------------------------------------------------------------------------
(* The fitted model.                                                       *)

GroundedSignal(f, signals) ==
    IF f \in DOMAIN signals.groundedness THEN signals.groundedness[f] ELSE 100

\* A stated term counts against every date of the document.
DateScore(f, signals, def) ==
    IF f \notin DateFields(def) THEN 100
    ELSE IF signals.term = None THEN signals.dates[f] ELSE Least(signals.dates[f], signals.term)

FeaturesFor(f, signals, def) ==
    [implicating_rules_failed |-> Cardinality(Implicating(f, signals, def)),
     log_residual_magnitude |->
        (100 * Max({0} \cup {signals.residuals[n] : n \in Implicating(f, signals, def)}))
          \div signals.scale,
     groundedness |-> 100 - GroundedSignal(f, signals),
     shape_suspect |-> When(f \in signals.fragmented \cup signals.nonpositive, 1),
     row_arithmetic_broken |-> When(f \in signals.inconsistent, 1),
     needed_retry |-> When(signals.attempts > 1, 1),
     date_corroboration |-> 100 - DateScore(f, signals, def)]

FEATURES ==
    {"implicating_rules_failed", "log_residual_magnitude", "groundedness", "shape_suspect",
     "row_arithmetic_broken", "needed_retry", "date_corroboration"}

ConfidenceModel ==
    [bias : Int, threshold : Int, weights : [FEATURES -> Int], calibrated_for : STRING \cup {None}]

\* probability, as its logit: features count against a field, and the bias for it.
Logit(features, model) ==
    LET weighted == [n \in FEATURES |-> model.weights[n] * features[n]]
    IN  model.bias - MapThenSumSet(LAMBDA n : weighted[n], FEATURES)

CalibrationFor(model, slug) ==
    IF model.calibrated_for = None THEN <<"uncalibrated">>
    ELSE IF model.calibrated_for = slug THEN <<slug>> ELSE <<"borrowed", model.calibrated_for>>

\* Mutant: the mean field decides for the document.
X_RouteExtraction(signals, model, def) ==
    LET confidence == [f \in ScoredFields(def) |-> Logit(FeaturesFor(f, signals, def), model)]
        flagged == {f \in ScoredFields(def) : confidence[f] < model.threshold}
        total == MapThenSumSet(LAMBDA f : confidence[f], ScoredFields(def))
    IN  [decision |-> IF total >= model.threshold * Cardinality(ScoredFields(def))
                        THEN "approved" ELSE "needs_review",
         field_confidence |-> confidence, flagged_fields |-> flagged,
         doc_confidence |-> Min({confidence[f] : f \in ScoredFields(def)}),
         calibration |-> CalibrationFor(model, def.slug)]

\* One field under the threshold sends the document to review.
RouteExtraction(signals, model, def) ==
    LET confidence == [f \in ScoredFields(def) |-> Logit(FeaturesFor(f, signals, def), model)]
        flagged == {f \in ScoredFields(def) : confidence[f] < model.threshold}
    IN  [decision |-> IF flagged = {} THEN "approved" ELSE "needs_review",
         field_confidence |-> confidence, flagged_fields |-> flagged,
         doc_confidence |-> Min({confidence[f] : f \in ScoredFields(def)}),
         calibration |-> CalibrationFor(model, def.slug)]

==========================================================================
