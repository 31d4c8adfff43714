-------------------------------- MODULE Batch --------------------------------
(***************************************************************************)
(* The batch of accumulator/batch.go: the buffer of lines that is ready to *)
(* be shipped to APM Server, and the invocations whose root transaction is *)
(* still being correlated with it.                                         *)
(*                                                                         *)
(* Every method of Batch holds b.mu for its whole duration (except the two *)
(* platform-start accessors, which hold no lock and touch one variable),   *)
(* so each method is one action.  A method that returns an error is the    *)
(* disjunct of its action in which the error's condition holds.            *)
(*                                                                         *)
(* The buffer is a sequence of lines, one record for each ndjson line;     *)
(* metadataBytes counts lines where the code counts bytes, so that         *)
(* `buf.Truncate(metadataBytes)` is a prefix.                              *)
(***************************************************************************)
EXTENDS Naturals, Sequences, FiniteSets, Functions

CONSTANTS
    ReqIDs,     \* request IDs of Lambda invocations
    TxnIDs,     \* IDs of root transactions the agent registers
    None,       \* the empty string: no request ID, no transaction ID
    Requests,   \* bodies the agent posts: the events behind the metadata line
    MaxSize     \* maxSize of the batch

VARIABLES
    metadataBytes,                 \* lines of metadata at the front of buf
    buf,                           \* the lines to be shipped
    count,                         \* events in buf
    age,                           \* "zero", "young", or "mature": past maxAge
    invocations,                   \* request ID -> Invocation
    currentlyExecutingRequestID,
    platformStartRequestID

batchVars == << metadataBytes, buf, count, age, invocations,
                currentlyExecutingRequestID, platformStartRequestID >>

bufferVars == << metadataBytes, buf, count, age >>

-----------------------------------------------------------------------------
\* Lines.  A transaction sent by the agent and a proxy made from the payload
\* of its registration carry the transaction ID; nothing looks at the rest.

EventKinds == {"transaction", "proxy", "span", "metrics", "log"}

MetadataLine == [kind |-> "metadata", id |-> None]
AgentTxn(t)  == [kind |-> "transaction", id |-> t]
ProxyTxn(t)  == [kind |-> "proxy", id |-> t]
Span         == [kind |-> "span", id |-> None]

EventLine == [kind : EventKinds, id : ReqIDs \cup TxnIDs \cup {None}]
Line == EventLine \cup {MetadataLine}

\* The agent reports any number of spans and of transactions of its own.
AgentEvent == {AgentTxn(t) : t \in TxnIDs} \cup {Span}

\* The logs API yields the metrics of a platform.report and function logs; a log
\* is filed under platformStartRequestID, which may still be empty.
LambdaEvent == [kind : {"metrics", "log"}, id : ReqIDs \cup {None}]

ASSUME BatchAssumption ==
    /\ IsFiniteSet(ReqIDs)
    /\ None \notin ReqIDs \cup TxnIDs
    /\ Requests \subseteq Seq(AgentEvent)
    /\ MaxSize \in Nat \ {0}

Invocation == [RequestID : ReqIDs \cup {None},
               TransactionID : TxnIDs \cup {None},
               TransactionObserved : BOOLEAN,
               Finalized : BOOLEAN]

NewInvocation == [RequestID |-> None, TransactionID |-> None,
                  TransactionObserved |-> FALSE, Finalized |-> FALSE]

Tracked == DOMAIN invocations

\* invocations[r], or the new Invocation that the code makes in its place.
Lookup(r) == IF r \in Tracked THEN invocations[r] ELSE NewInvocation

\* A slip: the invocation is filed under the request ID that is cached.
PutUnderCurrent(r, inc) ==
    [q \in Tracked \cup {currentlyExecutingRequestID} |->
        IF q = currentlyExecutingRequestID THEN inc ELSE invocations[q]]

Put(r, inc) ==
    [q \in Tracked \cup {r} |-> IF q = r THEN inc ELSE invocations[q]]

\* A slip: the proxy is needed again though the invocation is finalized.
NeedProxyAgain(inc) == inc.TransactionID # None /\ ~inc.TransactionObserved

NeedProxyTransaction(inc) ==
    ~inc.Finalized /\ inc.TransactionID # None /\ ~inc.TransactionObserved

Init ==
    /\ metadataBytes = 0
    /\ buf = << >>
    /\ count = 0
    /\ age = "zero"
    /\ invocations = [r \in {} |-> NewInvocation]
    /\ currentlyExecutingRequestID = None
    /\ platformStartRequestID = None

-----------------------------------------------------------------------------
\* A slip: the batch is dated by the first call, even if it adds nothing.
AddLinesDatedAnyway(front, lines) ==
    /\ buf' = front \o lines
    /\ count' = count + Len(lines)
    /\ age' = IF count = 0 THEN "young" ELSE age

\* addData for each of lines in turn, none of them empty, the metadata being
\* available: every line is written and counted, the first one dates the batch.
AddLines(front, lines) ==
    /\ buf' = front \o lines
    /\ count' = count + Len(lines)
    /\ age' = IF count = 0 /\ lines # << >> THEN "young" ELSE age

\* The invocations for which finalizeInvocation succeeds.  OnShutdown looks an
\* invocation up by its RequestID field, which is empty until registration.
Finalizable ==
    {r \in Tracked : /\ invocations[r].RequestID = r
                     /\ NeedProxyTransaction(invocations[r])
                            => metadataBytes # 0}

\* A slip: the current request is left to the registration of the agent.
RegisterInvocationOnly(r) ==
    /\ invocations' = Put(r, [Lookup(r) EXCEPT !.RequestID = r])
    /\ UNCHANGED << bufferVars, currentlyExecutingRequestID, platformStartRequestID >>

RegisterInvocation(r) ==
    /\ invocations' = Put(r, [Lookup(r) EXCEPT !.RequestID = r])
    /\ currentlyExecutingRequestID' = r
    /\ UNCHANGED << bufferVars, platformStartRequestID >>

\* The payload registers transaction t, after a metadata line or without one.
OnAgentInit(r, t, withMetadata) ==
    /\ IF withMetadata /\ metadataBytes = 0
       THEN metadataBytes' = 1 /\ buf' = << MetadataLine >>
       ELSE UNCHANGED << metadataBytes, buf >>
    /\ invocations' = Put(r, [Lookup(r) EXCEPT !.TransactionID = t])
    /\ currentlyExecutingRequestID' = r
    /\ UNCHANGED << count, age, platformStartRequestID >>

\* A slip: off by one.
BatchOverfull == count > MaxSize

BatchFull == count >= MaxSize

\* The body is a metadata line and events, perhaps none; the receiver passes no
\* empty body on.  Only the size before the first event is checked.
AddAgentData(events) ==
    \/ /\ BatchFull \/ currentlyExecutingRequestID \notin Tracked
       /\ UNCHANGED batchVars
    \/ /\ ~BatchFull
       /\ currentlyExecutingRequestID \in Tracked
       /\ LET r == currentlyExecutingRequestID
              inc == invocations[r]
              seen == /\ NeedProxyTransaction(inc)
                      /\ \E i \in 1..Len(events) :
                            events[i] = AgentTxn(inc.TransactionID)
          IN invocations' =
                Put(r, [inc EXCEPT !.TransactionObserved = @ \/ seen])
       /\ metadataBytes' = 1
       /\ AddLines(IF metadataBytes = 0 THEN << MetadataLine >> ELSE buf, events)
       /\ UNCHANGED << currentlyExecutingRequestID, platformStartRequestID >>

\* ErrBatchFull or ErrMetadataUnavailable, or the line is added.
AddLambdaData(line) ==
    \/ (BatchFull \/ metadataBytes = 0) /\ UNCHANGED batchVars
    \/ /\ ~BatchFull /\ metadataBytes # 0
       /\ AddLines(buf, << line >>)
       /\ UNCHANGED << metadataBytes, invocations,
                       currentlyExecutingRequestID, platformStartRequestID >>

\* finalizeInvocation: the proxy is added, whatever the size of the batch, if
\* one is needed; without metadata that fails and the invocation stays as it was.
OnLambdaLogRuntimeDone(r) ==
    LET need == NeedProxyTransaction(Lookup(r)) IN
    \/ /\ r \notin Tracked \/ (need /\ metadataBytes = 0)
       /\ UNCHANGED batchVars
    \/ /\ r \in Tracked
       /\ need => metadataBytes # 0
       /\ AddLines(buf, IF need THEN << ProxyTxn(invocations[r].TransactionID) >>
                                ELSE << >>)
       /\ invocations' = Put(r, [invocations[r] EXCEPT !.Finalized = TRUE])
       /\ UNCHANGED << metadataBytes, currentlyExecutingRequestID,
                       platformStartRequestID >>

OnPlatformStart(r) ==
    /\ platformStartRequestID' = r
    /\ UNCHANGED << bufferVars, invocations, currentlyExecutingRequestID >>

\* The invocation is dropped whether or not it has been finalized.
OnPlatformReport(r) ==
    /\ invocations' = Restrict(invocations, Tracked \ {r})
    /\ UNCHANGED << bufferVars, currentlyExecutingRequestID,
                    platformStartRequestID >>

\* A slip: the rounds of the loop share their variable, so that one invocation may
\* be finalized in the place of another.
OnShutdownShared ==
    /\ Finalizable = Tracked
    /\ LET owed == {r \in Tracked : NeedProxyTransaction(invocations[r])} IN
       \E order \in [1..Cardinality(owed) -> owed] :
          AddLines(buf, [i \in 1..Cardinality(owed) |->
                            ProxyTxn(invocations[order[i]].TransactionID)])
    /\ invocations' = Restrict(invocations, {})
    /\ UNCHANGED << metadataBytes, currentlyExecutingRequestID,
                    platformStartRequestID >>

\* The map is ranged over in an unspecified order and the first invocation that
\* cannot be finalized aborts the loop: `done` are the ones before it.
OnShutdown ==
    \E done \in SUBSET Finalizable :
        /\ Finalizable = Tracked => done = Tracked
        /\ LET owed == {r \in done : NeedProxyTransaction(invocations[r])} IN
           \E order \in Bijection(1..Cardinality(owed), owed) :
              AddLines(buf, [i \in 1..Cardinality(owed) |->
                                ProxyTxn(invocations[order[i]].TransactionID)])
        /\ invocations' = Restrict(invocations, Tracked \ done)
        /\ UNCHANGED << metadataBytes, currentlyExecutingRequestID,
                        platformStartRequestID >>

ShouldShip == count >= (MaxSize * 9) \div 10 \/ age = "mature"

\* A slip: the buffer is emptied, not truncated to the metadata.
ResetToEmpty ==
    /\ buf' = << >>
    /\ count' = 0
    /\ age' = "zero"
    /\ UNCHANGED << metadataBytes, invocations, currentlyExecutingRequestID,
                    platformStartRequestID >>

Reset ==
    /\ buf' = SubSeq(buf, 1, metadataBytes)
    /\ count' = 0
    /\ age' = "zero"
    /\ UNCHANGED << metadataBytes, invocations, currentlyExecutingRequestID,
                    platformStartRequestID >>

\* time.Since(b.age) exceeds maxAge.
Mature ==
    /\ age = "young"
    /\ age' = "mature"
    /\ UNCHANGED << metadataBytes, buf, count, invocations,
                    currentlyExecutingRequestID, platformStartRequestID >>

-----------------------------------------------------------------------------
\* The batch under every sequence of calls its users may make.
Next ==
    \/ \E r \in ReqIDs :
        \/ RegisterInvocation(r)
        \/ OnLambdaLogRuntimeDone(r)
        \/ OnPlatformStart(r)
        \/ OnPlatformReport(r)
        \/ \E t \in TxnIDs, withMetadata \in BOOLEAN :
              OnAgentInit(r, t, withMetadata)
    \/ \E line \in LambdaEvent : AddLambdaData(line)
    \/ \E events \in Requests : AddAgentData(events)
    \/ OnShutdown
    \/ Reset
    \/ Mature

Spec == Init /\ [][Next]_batchVars

-----------------------------------------------------------------------------
\* Every variable has its type.
TypeOK ==
    /\ metadataBytes \in {0, 1}
    /\ buf \in Seq(Line)
    /\ count \in Nat
    /\ age \in {"zero", "young", "mature"}
    /\ Tracked \subseteq ReqIDs
    /\ invocations \in [Tracked -> Invocation]
    /\ currentlyExecutingRequestID \in ReqIDs \cup {None}
    /\ platformStartRequestID \in ReqIDs \cup {None}

\* What is shipped is a body APM Server accepts: metadata on the first line and
\* nowhere else, and nothing at all before the metadata is known; and count, on
\* which shipping is decided, is the number of events behind it.
BufferFraming ==
    /\ Len(buf) = metadataBytes + count
    /\ \A i \in 1..Len(buf) : buf[i] = MetadataLine <=> i <= metadataBytes
    /\ metadataBytes = 0 => count = 0

\* The batch has an age exactly when it holds events, so that its maturity can
\* neither ship an empty batch nor leave events behind without a date.
AgeMatchesCount == age = "zero" <=> count = 0

\* An invocation is filed under its own request ID, or under the ID with which
\* its agent registered before the extension did; then it has a transaction.
FiledUnderOwnID ==
    \A r \in Tracked :
        \/ invocations[r].RequestID = r
        \/ invocations[r].RequestID = None /\ invocations[r].TransactionID # None

AddedProxies == {i \in Len(buf) + 1 .. Len(buf') : buf'[i].kind = "proxy"}

\* The invocations that owe a proxy and are finalized in this step.  A report drops
\* its invocation without that.
NewlyFinalized ==
    {r \in Tracked : /\ NeedProxyTransaction(invocations[r])
                     /\ IF r \in Tracked' THEN invocations'[r].Finalized
                                          ELSE ~OnPlatformReport(r)}

\* A step adds one proxy for each invocation that owed one and is finalized by it, and
\* no other: none is made twice, and none is missing, for whatever number of them
\* OnShutdown reaches before the first that it cannot finalize.
ProxySettlesItsInvocation ==
    [][ \E owner \in Bijection(AddedProxies, NewlyFinalized) :
            \A i \in AddedProxies :
                buf'[i].id = invocations[owner[i]].TransactionID ]_batchVars

\* An invocation whose transaction was reported, by its agent or by a proxy,
\* owes no proxy as long as it is tracked, whatever is registered for it later.
SettledStaysSettled ==
    [][ \A r \in Tracked \cap Tracked' :
            invocations[r].Finalized \/ invocations[r].TransactionObserved
                => ~NeedProxyTransaction(invocations'[r])
      ]_batchVars

\* A batch that is full takes no agent data and no lambda data; it grows only
\* by the proxies of transactions that would otherwise be lost.
FullGrowsByProxiesOnly ==
    [][ count >= MaxSize =>
            \A i \in Len(buf) + 1 .. Len(buf') : buf'[i].kind = "proxy" ]_batchVars

\* The metadata, once known, is never lost: a Reset keeps it for every payload
\* that follows.
MetadataIsKept ==
    [][ metadataBytes = 1 => metadataBytes' = 1 /\ buf' # << >> ]_batchVars

=============================================================================
