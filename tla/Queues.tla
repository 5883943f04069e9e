----------------------------- MODULE Queues ------------------------------
(***************************************************************************)
(* The two stage queues (parse, extract) and their dead-letter queues, as  *)
(* SQS delivers: at least once, in any order, a message invisible while it *)
(* is delayed or being handled, and dead-lettered when it is due a receive *)
(* beyond maxReceiveCount.                                                 *)
(*                                                                         *)
(* A message lives in one of a bounded pool of slots Msgs: the pool is the *)
(* bound on how many messages exist at once.                               *)
(***************************************************************************)
EXTENDS Naturals

CONSTANTS
    Docs,        \* documents of one tenant
    Msgs,        \* message slots: the bound on messages that exist at once
    NoMsg,       \* an unused slot
    MaxReceive,  \* settings.max_receive_count, the queues' maxReceiveCount
    MaxRedrive,  \* max_attempts of redrive_dlq
    MaxDefer     \* settings.max_defer_attempts

VARIABLE msg     \* msg[m] is the message in slot m

Stages == {"parse", "extract"}

\* redrive and defer are the payload's _redrive_attempt and _defer_attempt.
Message ==
    [stage : Stages, dead : BOOLEAN, doc : Docs, receives : 0..MaxReceive,
     visible : BOOLEAN, redrive : 0..MaxRedrive, defer : 0..MaxDefer]

ASSUME QueueAssumption ==
    /\ MaxReceive \in Nat \ {0}
    /\ MaxRedrive \in Nat
    /\ MaxDefer \in Nat
    /\ NoMsg \notin Message

QueueInit == msg = [m \in Msgs |-> NoMsg]

QueueTypeOK == msg \in [Msgs -> Message \cup {NoMsg}]

Used(m) == msg[m] # NoMsg

\* send_message: a new message with its own receive count. A delayed one is
\* invisible until its delay runs out. `held` are slots a receipt handle names.
SendFrom(held, stage, d, redrive, defer, visible) ==
    \E m \in Msgs \ held :
        /\ ~Used(m)
        /\ msg' = [msg EXCEPT ![m] =
                     [stage |-> stage, dead |-> FALSE, doc |-> d, receives |-> 0,
                      visible |-> visible, redrive |-> redrive, defer |-> defer]]

\* Mutant: a receive consumes the message (at most once).
X_Deliver(m) ==
    /\ Used(m)
    /\ msg[m].visible /\ ~msg[m].dead
    /\ msg' = [msg EXCEPT ![m] = NoMsg]

\* receive_message, on a queue that is not a DLQ.
Deliver(m) ==
    /\ Used(m)
    /\ msg[m].visible /\ ~msg[m].dead
    /\ msg[m].receives < MaxReceive
    /\ msg' = [msg EXCEPT ![m].visible = FALSE, ![m].receives = @ + 1]

\* The redrive policy: a receive beyond maxReceiveCount moves the message to the DLQ.
DeadLetter(m) ==
    /\ Used(m)
    /\ msg[m].visible /\ ~msg[m].dead
    /\ msg[m].receives = MaxReceive
    /\ msg' = [msg EXCEPT ![m].dead = TRUE]

\* A visibility timeout or a delay runs out.
Reappear(m) ==
    /\ Used(m)
    /\ ~msg[m].visible
    /\ msg' = [msg EXCEPT ![m].visible = TRUE]

\* delete_message by the receipt handle of receive number r on a stage queue.
\* The newest handle deletes; an older one, outlived by a redelivery, may not;
\* and no handle reaches a message that has moved to the DLQ.
DeleteByReceipt(m, r) ==
    \/ /\ Used(m)
       /\ ~msg[m].dead
       /\ msg' = [msg EXCEPT ![m] = NoMsg]
    \/ /\ Used(m) => msg[m].dead \/ msg[m].receives # r
       /\ UNCHANGED msg

==========================================================================
