------------------------------- MODULE Errors -------------------------------
(***************************************************************************)
(* Transient or permanent: whether the call that raised an exception would *)
(* probably work in a moment. An exception says something by its class's   *)
(* name, by an AWS error code or by an HTTP status, or says nothing, and   *)
(* so does every exception it was raised from.                             *)
(***************************************************************************)
EXTENDS Naturals, Sequences

CONSTANTS
    Exceptions,
    Says,  \* per exception: [explicit, name, throttled, status]
    Cause, \* per exception: its __cause__, or else its __context__, or None
    Links, \* causes that are looked at
    None

Verdict == {"transient", "permanent"}

ASSUME ErrorsAssumption ==
    /\ Links \in Nat
    /\ None \notin Exceptions \cup Verdict
    /\ Cause \in [Exceptions -> Exceptions \cup {None}]
    /\ Says \in [Exceptions -> [explicit : Verdict \cup {None}, \* TransientError, PermanentError
                                name : Verdict \cup {None},
                                throttled : BOOLEAN, \* by its AWS error code
                                status : Nat \cup {None}]]

TRANSIENT_STATUS == {408, 425, 429, 500, 502, 503, 504, 509}

\* Mutant: an exception is known by what its response says, and not by its name.
X_VerdictOf(e) ==
    CASE Says[e].name = "permanent" -> "permanent"
      [] Says[e].name # "permanent" /\ Says[e].status \in TRANSIENT_STATUS -> "transient"
      [] OTHER -> None

\* What one exception says, the strongest word first: a throttle may come as a 400.
VerdictOf(e) ==
    LET says == Says[e] IN
    IF says.name = "permanent" THEN "permanent"
    ELSE IF says.throttled \/ says.status \in TRANSIENT_STATUS THEN "transient"
    ELSE IF says.status \in 400..499 THEN "permanent"
    ELSE says.name

\* The exception and its causes, up to Links of them or to one that was there before.
Chain(e) ==
    LET known[n \in 0..Links] ==
          IF n = 0 THEN <<e>>
          ELSE LET past == known[n - 1]
                   next == Cause[past[Len(past)]]
               IN  IF next = None \/ \E i \in DOMAIN past : past[i] = next
                     THEN past ELSE Append(past, next)
    IN  known[Links]

Verdicts(e) == {VerdictOf(Chain(e)[i]) : i \in DOMAIN Chain(e)}

\* Mutant: what says nothing is worth another try.
X_Classify(e) ==
    IF Says[e].explicit # None THEN Says[e].explicit
    ELSE IF "permanent" \in Verdicts(e) THEN "permanent" ELSE "transient"

\* Permanent anywhere in the chain wins, and what says nothing is permanent.
Classify(e) ==
    IF Says[e].explicit # None THEN Says[e].explicit
    ELSE IF "transient" \in Verdicts(e) /\ "permanent" \notin Verdicts(e) THEN "transient"
    ELSE "permanent"

==========================================================================
