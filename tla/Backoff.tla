------------------------------- MODULE Backoff -------------------------------
(***************************************************************************)
(* What the comment of UpdateStatus (apmproxy/apmserver.go) promises of    *)
(* the transport, without locks, goroutines or senders: a failure stops    *)
(* all sending, the number of failures since the last success decides for  *)
(* how long, and after that time sending is admitted again.                *)
(***************************************************************************)
EXTENDS Naturals

VARIABLES
    admitting,  \* requests to APM Server may be attempted
    failures    \* failures since the last success

vars == << admitting, failures >>

Init == admitting = TRUE /\ failures = 0

Succeed == admitting /\ failures' = 0 /\ UNCHANGED admitting

Fail ==
    /\ admitting
    /\ admitting' = FALSE
    /\ failures' = failures + 1

Readmit ==
    /\ ~admitting
    /\ admitting' = TRUE
    /\ UNCHANGED failures

Next == Succeed \/ Fail \/ Readmit

Spec == Init /\ [][Next]_vars /\ WF_vars(Readmit)
=============================================================================
