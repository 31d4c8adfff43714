------------------------------- MODULE MCBatch -------------------------------
\* Model checking of Batch: short requests of the agent and a bounded buffer.
EXTENDS Batch, TLC

CONSTANTS
    MaxEvents,  \* events in one request of the agent
    MaxLines    \* lines in the buffer beyond which no event is added

MCRequests == UNION {[1..n -> AgentEvent] : n \in 0..MaxEvents}

MCNext == Next /\ Len(buf') <= MaxLines

MCSpec == Init /\ [][MCNext]_batchVars

Symmetry == Permutations(ReqIDs) \cup Permutations(TxnIDs)
=============================================================================
