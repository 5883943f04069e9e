--------------------------- MODULE Definition ----------------------------
(***************************************************************************)
(* A pipeline definition: what a document type is, as data. Parsing a      *)
(* submitted config accepts or rejects it, and the rules of an accepted    *)
(* definition are evaluated over normalized records.                       *)
(* A record maps each field to its canonical value: an amount is a number  *)
(* of cents, a date a day, a text and an enum value a name, a table a      *)
(* sequence of rows, and None a value that is not there or is empty.       *)
(***************************************************************************)
EXTENDS Integers, Sequences, FiniteSets, FiniteSetsExt, SequencesExt

CONSTANTS
    Tolerance, \* by how much an arithmetic rule may miss
    Tiers,     \* model tiers that every configured provider has
    None       \* no value

ASSUME DefinitionAssumption == Tolerance \in Nat /\ None \notin Int

FieldKind == {"text", "date", "money", "rate", "quantity", "enum", "table"}
RULE_TYPES == {"sum_equals", "terms_equal", "product_equals", "date_order", "regex", "required"}
ESCALATION_TRIGGERS == {"validation_failed", "needs_review", "extraction_failed"}

--------------------------------------------------------------------------
(* parse_definition: what is rejected when it is written.                  *)

\* Surface forms are for enums, for the values it allows, and for all of them or none.
ParseField(spec) ==
    /\ spec.kind \in FieldKind
    /\ spec.kind = "enum" => spec.values # {}
    /\ DOMAIN spec.surface_forms # {} => /\ spec.kind = "enum"
                                         /\ DOMAIN spec.surface_forms = spec.values
    /\ spec.positive => spec.kind \in {"money", "quantity", "rate"}
    /\ spec.kind = "table" => DOMAIN spec.item_fields # {}

\* Mutant: a rule need not say which fields it implicates.
X_ParseRule(rule, fields) == rule.type \in RULE_TYPES /\ rule.fields \subseteq DOMAIN fields

\* Only the fields it implicates are checked, and not those its parameters name.
ParseRule(rule, fields) ==
    /\ rule.type \in RULE_TYPES
    /\ rule.fields # {} /\ rule.fields \subseteq DOMAIN fields

\* parse_policy.
ParsePolicy(policy) ==
    /\ policy.escalate_on \subseteq ESCALATION_TRIGGERS
    /\ {policy.primary_tier, policy.escalate_to} \subseteq Tiers \cup {None}
    /\ policy.escalate_on # {} => policy.escalate_to # None

ParseDefinition(config) ==
    /\ DOMAIN config.fields # {}
    /\ \A f \in DOMAIN config.fields : ParseField(config.fields[f])
    /\ \A rule \in ToSet(config.rules) : ParseRule(rule, config.fields)
    /\ config.properties \subseteq DOMAIN config.fields
    /\ config.prompt_notes \subseteq DOMAIN config.fields
    /\ ParsePolicy(config.routing)

--------------------------------------------------------------------------
(* The views the scorer uses instead of field names.                       *)

OfKind(def, kind) == {f \in DOMAIN def.fields : def.fields[f].kind = kind}
ScoredFields(def) == DOMAIN def.fields
TableFields(def) == OfKind(def, "table")
ScalarFields(def) == ScoredFields(def) \ TableFields(def)
TextFields(def) == OfKind(def, "text")
DateFields(def) == OfKind(def, "date")
PositiveFields(def) == {f \in DOMAIN def.fields : def.fields[f].positive}
GroundedEnumFields(def) == {f \in DOMAIN def.fields : DOMAIN def.fields[f].surface_forms # {}}
TextColumns(def, table) ==
    {c \in DOMAIN def.fields[table].item_fields : def.fields[table].item_fields[c] = "text"}

Rules(def) == ToSet(def.rules)
IsRowRule(rule) == rule.type = "product_equals" /\ "items" \in DOMAIN rule
DocumentRules(def) == {rule \in Rules(def) : ~IsRowRule(rule)}

\* What is kept of rules is kept under their names: the last of those with the name.
LastNamed(def, rules, name) ==
    def.rules[Max({i \in DOMAIN def.rules : def.rules[i] \in rules /\ def.rules[i].name = name})]

\* rule_fields.
RuleFields(def, name) == LastNamed(def, Rules(def), name).fields

--------------------------------------------------------------------------
(* The rule engine. A rule's parameters may name fields that are not there *)
(* or are of another kind: it is evaluated over what it finds.             *)

Magnitude(n) == IF n < 0 THEN -n ELSE n

Value(record, name) == IF name \in DOMAIN record THEN record[name] ELSE None

Rows(record, table) == IF Value(record, table) = None THEN << >> ELSE record[table]

\* A value that is not a table has no cells that can be read.
Column(record, def, table, column) ==
    IF table \in TableFields(def) \/ Value(record, table) = None
      THEN [i \in DOMAIN Rows(record, table) |-> Value(record[table][i], column)]
    ELSE <<None>>

\* The values an arithmetic rule reads.
Operands(rule, record, def) ==
    CASE rule.type = "sum_equals" ->
           {Value(record, rule.target)} \cup Range(Column(record, def, rule.items, rule.item_field))
      [] rule.type = "terms_equal" ->
           {Value(record, rule.target)} \cup {Value(record, t) : t \in Range(rule.terms)}
      [] OTHER -> {Value(record, name) : name \in {rule.result, rule.factors[1], rule.factors[2]}}

AddUp(numbers) == MapThenSumSet(LAMBDA i : numbers[i], DOMAIN numbers)

ArithmeticResidual(rule, record, def) ==
    CASE rule.type = "sum_equals" ->
           AddUp(Column(record, def, rule.items, rule.item_field)) - record[rule.target]
      [] rule.type = "terms_equal" ->
           AddUp([i \in DOMAIN rule.terms |-> record[rule.terms[i]]]) - record[rule.target]
      [] OTHER -> record[rule.factors[1]] * record[rule.factors[2]] - record[rule.result]

IsArithmetic(rule) == rule.type \in {"sum_equals", "terms_equal", "product_equals"}

\* Whether the rule has the parameters its type reads.
Complete(rule) ==
    CASE rule.type = "sum_equals" -> {"items", "item_field", "target"} \subseteq DOMAIN rule
      [] rule.type = "terms_equal" -> {"terms", "target"} \subseteq DOMAIN rule
      [] rule.type = "product_equals" -> {"factors", "result"} \subseteq DOMAIN rule
      [] rule.type = "date_order" -> {"earlier", "later"} \subseteq DOMAIN rule
      [] rule.type = "regex" -> {"field", "matches"} \subseteq DOMAIN rule
      [] OTHER -> TRUE

\* Whether every value it reads is there, and is a number.
Readable(rule, record, def) == Complete(rule) /\ Operands(rule, record, def) \subseteq Int

\* residuals: 0 where the rule cannot be evaluated.
Residual(rule, record, def) ==
    IF IsArithmetic(rule) /\ Readable(rule, record, def)
      THEN ArithmeticResidual(rule, record, def) ELSE 0

\* A rule that cannot be evaluated has failed.
Evaluate(rule, record, def) ==
    Complete(rule) /\
    CASE IsArithmetic(rule) ->
           /\ Readable(rule, record, def)
           /\ Magnitude(ArithmeticResidual(rule, record, def)) <= Tolerance
      [] rule.type = "date_order" ->
           /\ None \notin {Value(record, rule.earlier), Value(record, rule.later)}
           /\ record[rule.later] >= record[rule.earlier]
      [] rule.type = "regex" -> Value(record, rule.field) \in rule.matches
      [] rule.type = "required" -> \A f \in rule.fields : Value(record, f) # None
      [] OTHER -> FALSE

\* evaluate_rules: each document-level rule's name and whether it holds.
EvaluateRules(record, def) ==
    [name \in {rule.name : rule \in DocumentRules(def)} |->
        Evaluate(LastNamed(def, DocumentRules(def), name), record, def)]

RowHolds(rule, row) ==
    /\ {Value(row, name) : name \in {rule.factors[1], rule.factors[2], rule.result}} \subseteq Int
    /\ Magnitude(row[rule.factors[1]] * row[rule.factors[2]] - row[rule.result]) <= Tolerance

\* inconsistent_rows: the rows of the table that fail its last product rule.
InconsistentRows(record, def, table) ==
    LET rules == {i \in DOMAIN def.rules : IsRowRule(def.rules[i]) /\ def.rules[i].items = table}
    IN  IF rules = {} THEN {}
        ELSE {i \in DOMAIN Rows(record, table) :
                ~RowHolds(def.rules[Max(rules)], record[table][i])}

==========================================================================
