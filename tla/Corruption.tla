---------------------------- MODULE Corruption ----------------------------
(***************************************************************************)
(* The labelled errors the mock model makes for the calibration study, so  *)
(* that its data set has something to tell right from wrong by. Each class *)
(* of error makes the same fields of an invoice wrong whatever the invoice *)
(* is. A class is drawn from a generator seeded with the document, and the *)
(* rest of the draw with the invoice's number: here any draw may come out. *)
(***************************************************************************)
EXTENDS Scoring

CONSTANTS
    Drawn,     \* documents a seed may draw for an error
    Impostors, \* vendors that are on no document
    Initials,  \* what the small-caps artifact leaves of each vendor
    Shares,    \* shares of a total it may drift by, in 1/1000
    Shifts     \* days a date may move by

ASSUME CorruptionAssumption == Shares \subseteq 5..50 /\ Shifts \subseteq 3..20

ERROR_CLASS_FIELDS ==
    [arithmetic_drift |-> {"total"}, wrong_vendor |-> {"vendor"}, truncated_vendor |-> {"vendor"},
     transposed_line_amounts |-> {"items"}, shifted_date |-> {"issued"}]

ERROR_CLASSES == DOMAIN ERROR_CLASS_FIELDS

\* By a share of the total, and by a whole unit at least.
DriftTotal(r) ==
    {[r EXCEPT !.total = @ + sign * Max({100, (share * r.total) \div 1000})] :
        share \in Shares, sign \in {-1, 1}}

SwapVendor(r) == {[r EXCEPT !.vendor = v] : v \in Impostors \ {r.vendor}}

TruncateVendor(r) == {[r EXCEPT !.vendor = Initials[@]]}

\* Two rows trade amounts; a single row trades its quantity for its price.
TransposeLineAmounts(r) ==
    LET rows == r.items IN
    IF Len(rows) >= 2
      THEN {[r EXCEPT !.items[p[1]].amount = rows[p[2]].amount,
                      !.items[p[2]].amount = rows[p[1]].amount] :
              p \in {q \in (DOMAIN rows) \X (DOMAIN rows) : q[1] # q[2]}}
      ELSE {[r EXCEPT !.items[1].quantity = rows[1].price, !.items[1].price = rows[1].quantity]}

\* Mutant: the terms move with the date.
X_ShiftDate(r) == {[r EXCEPT !.issued = @ - days, !.due = @ - days] : days \in Shifts}

\* Earlier only, so that the due date still comes after.
ShiftDate(r) == {[r EXCEPT !.issued = @ - days] : days \in Shifts}

ApplyCorruption(r, class) ==
    CASE class = "arithmetic_drift" -> DriftTotal(r)
      [] class = "wrong_vendor" -> SwapVendor(r)
      [] class = "truncated_vendor" -> TruncateVendor(r)
      [] class = "transposed_line_amounts" -> TransposeLineAmounts(r)
      [] OTHER -> ShiftDate(r)

\* plan_corruption, and what is made of the document: a draw over the rate leaves it alone.
Corrupted(doc, r) ==
    {r} \cup UNION {ApplyCorruption(r, class) : class \in {c \in ERROR_CLASSES : doc \in Drawn}}

==========================================================================
