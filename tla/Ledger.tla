------------------------------- MODULE Ledger -------------------------------
(***************************************************************************)
(* What becomes of the bodies that agents post, without events, goroutines *)
(* and lines: a body is queued or dropped, leaves the queue in its order   *)
(* for the batch or is dropped, and is posted with all the others of the   *)
(* batch.  A POST delivers all of them or none, and what it has carried is *)
(* not carried again; it loses them only when APM Server has not accepted  *)
(* everything.                                                             *)
(***************************************************************************)
EXTENDS Naturals, Sequences, SequencesExt

CONSTANTS
    Messages,   \* the bodies
    Capacity    \* of the queue

VARIABLES
    sent,       \* bodies that agents have posted
    queue,      \* bodies that wait for a sender
    batch,      \* bodies whose data is in the batch
    arrived,    \* bodies whose data APM Server has received
    outages     \* answers of APM Server other than 202

vars == << sent, queue, batch, arrived, outages >>

Init ==
    /\ sent = {} /\ queue = << >> /\ batch = {} /\ arrived = {}
    /\ outages = 0

Send(m) ==
    /\ m \notin sent
    /\ sent' = sent \cup {m}
    /\ queue' = IF Len(queue) < Capacity THEN Append(queue, m) ELSE queue
    /\ UNCHANGED << batch, arrived, outages >>

Take ==
    /\ queue # << >>
    /\ queue' = Tail(queue)
    /\ batch' \in {batch, batch \cup {Head(queue)}}
    /\ UNCHANGED << sent, arrived, outages >>

Post ==
    /\ batch' = {}
    /\ outages' \in {outages, outages + 1}
    /\ \/ arrived' = arrived \cup batch
       \/ outages' > 0 /\ UNCHANGED arrived
    /\ UNCHANGED << sent, queue >>

Next == (\E m \in Messages : Send(m)) \/ Take \/ Post

Spec == Init /\ [][Next]_vars

\* What is nowhere any more.
Lost == sent \ (ToSet(queue) \cup batch \cup arrived)
=============================================================================
