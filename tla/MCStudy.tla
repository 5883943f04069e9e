----------------------------- MODULE MCStudy ------------------------------
(* Instances of Study for TLC: an invoice with every kind of field and rule, on one page. *)
EXTENDS Experiment

CONSTANTS
    d1,                        \* the document that is served
    x1, x2, x3, x4, y1, y2,    \* documents of the experiment, before and after the swap
    g1, g2, g3, t1,            \* labelled documents
    s1, s2, s3, s4, s5,        \* scanned ones
    acme, acmeInc, ac, zeta,   \* vendors: printed, nearly, in fragments, not at all
    widget, gadget,            \* descriptions: printed and not
    eur, usd, euroSign, dollar \* currencies and their surface forms

MCDocuments == {d1, g1, g2, g3, t1, s1, s2, s3, s4, s5, x1, x2, x3, x4, y1, y2}
MCScanned == {s1, s2, s3, s4, s5}
MCCorpus == <<g1, s1, g2, g3, t1, s2, s3, s4, s5>>

--------------------------------------------------------------------------
(* Definitions.                                                            *)

Plain(kind) == [kind |-> kind, values |-> {}, surface_forms |-> << >>, positive |-> FALSE,
                item_fields |-> << >>]

Fields ==
    [vendor |-> Plain("text"), issued |-> Plain("date"), due |-> Plain("date"),
     currency |-> [Plain("enum") EXCEPT !.values = {eur, usd},
                     !.surface_forms = (eur :> {euroSign}) @@ (usd :> {dollar})],
     net |-> Plain("money"), tax |-> Plain("money"),
     total |-> [Plain("money") EXCEPT !.positive = TRUE],
     items |-> [Plain("table") EXCEPT !.item_fields =
                  [text |-> "text", quantity |-> "quantity", price |-> "money",
                   amount |-> "money"]]]

SumRule == [name |-> "sum", type |-> "sum_equals", fields |-> {"net", "items"},
            items |-> "items", item_field |-> "amount", target |-> "net"]
TermsRule == [name |-> "terms", type |-> "terms_equal", fields |-> {"net", "tax", "total"},
              terms |-> <<"net", "tax">>, target |-> "total"]
DateRule == [name |-> "dates", type |-> "date_order", fields |-> {"issued", "due"},
             earlier |-> "issued", later |-> "due"]
RowRule == [name |-> "rows", type |-> "product_equals", fields |-> {"items"}, items |-> "items",
            factors |-> <<"quantity", "price">>, result |-> "amount"]

FrontierOnly == [primary_tier |-> "frontier", escalate_to |-> None, escalate_on |-> {}]
Routed(triggers) ==
    [primary_tier |-> "small", escalate_to |-> "frontier", escalate_on |-> triggers]

Invoice ==
    [slug |-> "invoice", fields |-> Fields, rules |-> <<SumRule, TermsRule, DateRule, RowRule>>,
     properties |-> DOMAIN Fields, prompt_notes |-> {"currency"}, routing |-> FrontierOnly]

Note ==
    [slug |-> "note", fields |-> [vendor |-> Plain("text"), tax |-> Plain("money")],
     rules |-> <<[name |-> "known", type |-> "regex", fields |-> {"vendor"},
                  field |-> "vendor", matches |-> {acme, acmeInc}],
                 [name |-> "taxed", type |-> "required", fields |-> {"tax"}]>>,
     properties |-> {"vendor", "tax"}, prompt_notes |-> {}, routing |-> FrontierOnly]

\* One of a rule that has lost a parameter is accepted; the others are not.
MCConfigs ==
    {Invoice, Note,
     [Invoice EXCEPT !.routing = Routed(ESCALATION_TRIGGERS)],
     [Invoice EXCEPT !.routing = Routed({"needs_review"})],
     [Invoice EXCEPT !.rules[3] = [name |-> "dates", type |-> "date_order",
                                   fields |-> {"issued", "due"}, earlier |-> "issued"]],
     [Invoice EXCEPT !.rules[2].fields = {}],
     [Invoice EXCEPT !.rules[2].fields = {"net", "grand_total"}],
     [Invoice EXCEPT !.routing.escalate_on = {"needs_review"}],
     [Invoice EXCEPT !.routing.escalate_to = "huge"],
     [Invoice EXCEPT !.fields.currency.surface_forms = (eur :> {euroSign})],
     [Invoice EXCEPT !.fields.vendor.positive = TRUE]}

--------------------------------------------------------------------------
(* The page, its label, and what a model may make of it.                   *)

ThePage == [grounds |-> (acme :> 100) @@ (acmeInc :> 84) @@ (ac :> 100) @@ (zeta :> 20)
                          @@ (widget :> 100) @@ (gadget :> 0),
            forms |-> {euroSign}, dates |-> {1, 31}, term |-> 30]

Good == [vendor |-> acme, issued |-> 1, due |-> 31, currency |-> eur, net |-> 10, tax |-> 2,
         total |-> 12,
         items |-> <<[text |-> widget, quantity |-> 2, price |-> 3, amount |-> 6],
                     [text |-> widget, quantity |-> 1, price |-> 4, amount |-> 4]>>]

OneRow == [Good EXCEPT !.items = <<[text |-> widget, quantity |-> 2, price |-> 5, amount |-> 10]>>]

Late == [Good EXCEPT !.due = 33]
Dear == [Good EXCEPT !.total = 20]
Unknown == [Good EXCEPT !.vendor = zeta]

Rich ==
    {Good, Late, Dear, Unknown,
     [Good EXCEPT !.due = 35], [Good EXCEPT !.due = 1],
     [Good EXCEPT !.issued = 31, !.due = 1],
     [Good EXCEPT !.currency = usd], [Good EXCEPT !.net = None],
     [Good EXCEPT !.total = -12, !.net = -14],
     [Good EXCEPT !.vendor = acmeInc], [Good EXCEPT !.vendor = ac], [Good EXCEPT !.vendor = None],
     [Good EXCEPT !.items[1].quantity = 3], [Good EXCEPT !.items[1].text = gadget],
     [Good EXCEPT !.items = None]}

MCAnswers ==
    [d \in MCDocuments |-> CASE d = d1 -> Rich
                             [] d = g1 -> {Good, Dear, Late, [Good EXCEPT !.issued = None]}
                             [] d = g2 -> {Good, Unknown}
                             [] d = g3 -> {[Good EXCEPT !.vendor = acmeInc]}
                             [] d = t1 -> {OneRow}
                             [] d = x3 -> {Good, Late}
                             [] d = x4 -> {Good, Dear}
                             [] d \in {y1, y2} -> {Late, Dear}
                             [] OTHER -> {Good}]

\* A page that prints a third date, three days before the invoice's, and no term.
DeliveryPage == [ThePage EXCEPT !.dates = @ \cup {-2}, !.term = None]

MCPage == [d \in MCDocuments |-> IF d = t1 THEN DeliveryPage ELSE ThePage]
MCTruth == [d \in MCDocuments |-> IF d = t1 THEN OneRow ELSE Good]

\* The mock reads a page well; a plan leaves some documents alone.
MCMockReads == MCTruth
MCInitials == (acme :> ac) @@ (acmeInc :> ac)
MCPrice == [small |-> 1, frontier |-> 5]

MCFloors ==
    [invoice |-> [overall |-> 90, routed |-> 85, fields |-> [total |-> 50]],
     note |-> [overall |-> 100, routed |-> 100, fields |-> << >>]]

--------------------------------------------------------------------------
(* The fitted model in config/confidence_model_v2.json, in 1/1000 of a logit. *)

MCDeployed ==
    [bias |-> 5104, threshold |-> 731, calibrated_for |-> "invoice",
     weights |-> [implicating_rules_failed |-> 4385, log_residual_magnitude |-> 11,
                  groundedness |-> 249, shape_suspect |-> 10630,
                  row_arithmetic_broken |-> 10643, needed_retry |-> 0,
                  date_corroboration |-> 62]]

MCModels == {MCDeployed, [MCDeployed EXCEPT !.weights.date_corroboration = 0,
                                            !.weights.groundedness = 60]}

MCThresholds == {-1000000, 0, 731, 1500, 4200, 5000, 1000000}

--------------------------------------------------------------------------
(* The experiment: five documents and then two of the redesign; the control is shorter. *)

MCShipped == [Invoice EXCEPT !.routing = Routed(ESCALATION_TRIGGERS)]
MCArms == <<[stable |-> <<x1, x2, x1, x3, x4>>, drifted |-> <<y1, y2>>],
            [stable |-> <<x1, x2>>, drifted |-> <<x3>>]>>
MCDistance == [d \in MCDocuments |-> IF d \in {y1, y2} THEN 60 ELSE 10]
MCProbability(logit) == IF logit < 0 THEN 10 ELSE IF logit < 731 THEN 60 ELSE 98

--------------------------------------------------------------------------
(* The deployed weights: route_extraction, on the invoice.                 *)

Within(a, b, tolerance) == a # None /\ b # None /\ Magnitude(a - b) <= tolerance
Printed(date) == \E d \in ThePage.dates : Within(d, date, 2)

\* An invoice is approved unseen only if its sums are right to the cent, its amounts are
\* positive and its rows multiply out, its texts are on the page, in one piece, its
\* currency is named there, and its dates are within two days of ones that are printed and
\* of the stated term. What no rule and no signal can see, as a date two days off, it may
\* still have wrong.
ApprovedIsClean ==
    (/\ job = "done" /\ model = Deployed
     /\ definition.slug = "invoice" /\ verdict.status = "approved") =>
        LET r == verdict.record
            rows == Rows(r, "items")
        IN  /\ Within(AddUp([i \in DOMAIN rows |-> rows[i].amount]), r.net, Tolerance)
            /\ r.tax # None /\ Within(r.net + r.tax, r.total, Tolerance)
            /\ \A i \in DOMAIN rows :
                  Within(rows[i].quantity * rows[i].price, rows[i].amount, Tolerance)
            /\ r.total > 0 /\ r.due >= r.issued
            /\ r.vendor \notin Fragmented
            /\ \A text \in {r.vendor} \cup {rows[i].text : i \in DOMAIN rows} :
                  ThePage.grounds[text] >= 83
            /\ Fields.currency.surface_forms[r.currency] \cap ThePage.forms # {}
            /\ Printed(r.issued) /\ Printed(r.due)
            /\ Within(r.due - r.issued, ThePage.term, 2)

==========================================================================
