---------------------------- MODULE MCIntake -----------------------------
(* The intake for TLC: two tenants, of whom one has a revoked key as well.  *)
EXTENDS Intake, TLC

CONSTANTS acme, bolt

MCTenants == {acme, bolt}
MCApiKeys == {[tenant |-> acme, revoked |-> FALSE], [tenant |-> bolt, revoked |-> TRUE]}

\* Requests are alike, and are made in the order of their numbers.
MCRequests == 1..5
InOrder == \A r \in 2..5 : request[r].at # "idle" => request[r - 1].at # "idle"

\* Either the storage works, with two requests at most and the clock, at which only the
\* bucket looks, standing still; or nobody has a PDF to hand in, and the five requests
\* race for the bucket's tokens, each spending one to learn that its file is none.
Storing == clock = 0 /\ request[3].at = "idle"
Bucketing ==
    /\ submitted = {}
    /\ \A r \in Requests :
         request[r].at \in {"idle", "rate", "denied"} /\ request[r].file \notin Pdfs

Traffic == InOrder /\ (Storing \/ Bucketing)

==========================================================================
