----------------------------- MODULE MCBreaker -----------------------------
(* The exceptions the provider's SDK, and the code around it, can raise.   *)
EXTENDS Breaker

Nothing == [explicit |-> None, name |-> None, throttled |-> FALSE, status |-> None]

MCSays ==
    [bad_request |-> [Nothing EXCEPT !.name = "permanent", !.status = 400],
     unauthenticated |-> [Nothing EXCEPT !.status = 401],
     key_error |-> Nothing,
     rate_limited |-> [Nothing EXCEPT !.name = "transient", !.status = 429],
     bad_gateway |-> [Nothing EXCEPT !.status = 502],
     overloaded |-> [Nothing EXCEPT !.name = "transient", !.status = 529],
     unreachable |-> [Nothing EXCEPT !.name = "transient"],
     throttled |-> [Nothing EXCEPT !.throttled = TRUE, !.status = 400],
     wrapped |-> [Nothing EXCEPT !.name = "transient"],
     connect_error |-> Nothing]

MCExceptions == DOMAIN MCSays

\* The SDK raises from what its HTTP client raised; a connection error may hide a
\* request that was refused.
MCCause ==
    [e \in MCExceptions |-> CASE e = "unreachable" -> "connect_error"
                               [] e = "wrapped" -> "unauthenticated"
                               [] OTHER -> None]

MCRequestErrors == {"bad_request", "unauthenticated", "key_error", "wrapped"}
MCOutageErrors == {"rate_limited", "bad_gateway", "overloaded", "unreachable", "throttled"}

==========================================================================
