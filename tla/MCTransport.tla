----------------------------- MODULE MCTransport -----------------------------
\* Model checking of Transport: a bounded number of failures in a row.
EXTENDS Transport, TLC

CONSTANTS
    MaxReconnections,   \* ReconnectionCount at which no request fails any more
    MaxGraces           \* grace goroutines at which no request fails any more

Bounded ==
    ReconnectionCount' >= MaxReconnections \/ graces' >= MaxGraces
        => \A s \in Senders : target'[s] # "Failing"

MCSpec == Init /\ [][Next /\ Bounded]_vars /\ WF_vars(GraceOver)

MCConcurrentSpec == Init /\ [][ConcurrentNext /\ Bounded]_vars

Symmetry == Permutations(Senders)
=============================================================================
