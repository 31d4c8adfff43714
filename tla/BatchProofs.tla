----------------------------- MODULE BatchProofs -----------------------------
(***************************************************************************)
(* The invariants of Batch, proved for all request and transaction IDs,    *)
(* all bodies of the agent and every size of the batch.                    *)
(***************************************************************************)
EXTENDS Batch, SequenceTheorems, FiniteSetTheorems, TLAPS

\* The inductive invariant is the conjunction of TypeOK, BufferFraming,
\* AgeMatchesCount and FiledUnderOwnID, grouped by the variables concerned.
BufferInv ==
    /\ metadataBytes \in {0, 1}
    /\ buf \in Seq(Line)
    /\ count \in Nat
    /\ age \in {"zero", "young", "mature"}
    /\ BufferFraming
    /\ AgeMatchesCount

InvocationsInv ==
    /\ Tracked \subseteq ReqIDs
    /\ invocations \in [Tracked -> Invocation]
    /\ FiledUnderOwnID

CurrentInv ==
    /\ currentlyExecutingRequestID \in ReqIDs \cup {None}
    /\ platformStartRequestID \in ReqIDs \cup {None}

IInv == BufferInv /\ InvocationsInv /\ CurrentInv

-----------------------------------------------------------------------------
\* An event line is not the metadata line, whatever it carries.
LEMMA EventIsNotMetadata ==
    ASSUME NEW e \in EventLine PROVE e # MetadataLine
BY DEF EventLine, EventKinds, MetadataLine

\* The lines built from typed IDs are event lines.
LEMMA LineTypes ==
    /\ \A t \in TxnIDs : AgentTxn(t) \in EventLine /\ ProxyTxn(t) \in EventLine
    /\ LambdaEvent \subseteq EventLine
    /\ Span \in EventLine
    /\ MetadataLine \in Line
    /\ EventLine \subseteq Line
BY DEF AgentTxn, ProxyTxn, LambdaEvent, Span, EventLine, EventKinds, Line

\* What the agent posts behind the metadata is a sequence of event lines.
LEMMA RequestTypes ==
    ASSUME NEW events \in Requests PROVE events \in Seq(EventLine)
<1>1. events \in Seq(AgentEvent)
  BY BatchAssumption
<1>2. AgentEvent \subseteq EventLine
  BY LineTypes DEF AgentEvent
<1>. QED BY <1>1, <1>2

\* Adding event lines behind a front that has the shape of a buffer with m
\* lines of metadata gives a buffer of that shape again.
LEMMA AddLinesKeepsBufferInv ==
    ASSUME NEW m \in {0, 1}, NEW front \in Seq(Line),
           NEW lines \in Seq(EventLine),
           BufferInv,
           Len(front) = m + count,
           \A i \in 1..Len(front) : front[i] = MetadataLine <=> i <= m,
           m = 0 => count = 0 /\ lines = << >>,
           metadataBytes' = m,
           AddLines(front, lines)
    PROVE  BufferInv'
<1>. DEFINE n == Len(front)
            k == Len(lines)
<1>1. n \in Nat /\ k \in Nat /\ count \in Nat
  BY DEF BufferInv
<1>2. lines \in Seq(Line)
  BY LineTypes
<1>3. /\ buf' \in Seq(Line)
      /\ Len(buf') = n + k
      /\ \A i \in 1..n + k : buf'[i] = IF i <= n THEN front[i] ELSE lines[i - n]
  BY <1>2, ConcatProperties DEF AddLines
<1>4. count' = count + k /\ count' \in Nat
  BY <1>1 DEF AddLines
<1>5. age' \in {"zero", "young", "mature"}
  BY DEF AddLines, BufferInv
<1>6. BufferFraming'
  <2>1. Len(buf') = m + count'
    BY <1>1, <1>3, <1>4
  <2>2. ASSUME NEW i \in 1..Len(buf') PROVE buf'[i] = MetadataLine <=> i <= m
    <3>1. CASE i <= n
      BY <3>1, <1>1, <1>3
    <3>2. CASE i > n
      <4>1. i - n \in 1..k /\ buf'[i] = lines[i - n]
        BY <3>2, <1>1, <1>3
      <4>2. lines[i - n] \in EventLine
        BY <4>1
      <4>3. ~(i <= m)
        BY <3>2, <1>1
      <4>. QED BY <4>1, <4>2, <4>3, EventIsNotMetadata
    <3>. QED BY <3>1, <3>2, <1>1, <1>3
  <2>3. m = 0 => count' = 0
    BY <1>4
  <2>. QED BY <2>1, <2>2, <2>3 DEF BufferFraming
<1>7. AgeMatchesCount'
  <2>1. CASE lines = << >>
    <3>1. count' = count /\ age' = age
      BY <2>1, <1>1, <1>4 DEF AddLines
    <3>. QED BY <3>1 DEF BufferInv, AgeMatchesCount
  <2>2. CASE lines # << >>
    <3>1. k > 0
      BY <2>2, EmptySeq
    <3>2. count' # 0
      BY <3>1, <1>1, <1>4
    <3>3. age' # "zero"
      BY <2>2 DEF AddLines, BufferInv, AgeMatchesCount
    <3>. QED BY <3>2, <3>3 DEF AgeMatchesCount
  <2>. QED BY <2>1, <2>2
<1>. QED BY <1>3, <1>4, <1>5, <1>6, <1>7 DEF BufferInv

\* Filing an invocation under its own ID, or one that has a transaction under
\* the ID its agent gave, keeps the map of invocations well-formed.
LEMMA PutKeepsInvocationsInv ==
    ASSUME NEW r \in ReqIDs, NEW inc \in Invocation,
           InvocationsInv,
           \/ inc.RequestID = r
           \/ inc.RequestID = None /\ inc.TransactionID # None,
           invocations' = Put(r, inc)
    PROVE  InvocationsInv'
<1>1. Tracked' = Tracked \cup {r}
  BY DEF Put, Tracked
<1>2. \A q \in Tracked' :
        invocations'[q] = IF q = r THEN inc ELSE invocations[q]
  BY <1>1 DEF Put
<1>3. invocations' \in [Tracked' -> Invocation]
  BY <1>1, <1>2 DEF Put, InvocationsInv
<1>4. FiledUnderOwnID'
  BY <1>1, <1>2 DEF InvocationsInv, FiledUnderOwnID
<1>. QED BY <1>1, <1>3, <1>4 DEF InvocationsInv

\* Dropping invocations keeps the map of invocations well-formed.
LEMMA DropKeepsInvocationsInv ==
    ASSUME NEW S, InvocationsInv,
           invocations' = Restrict(invocations, Tracked \ S)
    PROVE  InvocationsInv'
<1>1. Tracked' = Tracked \ S
  BY DEF Restrict, Tracked
<1>2. \A q \in Tracked' : invocations'[q] = invocations[q]
  BY <1>1 DEF Restrict
<1>3. invocations' \in [Tracked' -> Invocation]
  BY <1>1, <1>2 DEF Restrict, InvocationsInv
<1>. QED BY <1>1, <1>2, <1>3 DEF InvocationsInv, FiledUnderOwnID

\* The invocation that an operation finds, or makes, for a request is typed and
\* has no request ID but that request's.
LEMMA LookupType ==
    ASSUME NEW r \in ReqIDs, InvocationsInv
    PROVE  /\ Lookup(r) \in Invocation
           /\ Lookup(r).RequestID \in {r, None}
BY DEF Lookup, InvocationsInv, Invocation, NewInvocation, FiledUnderOwnID

-----------------------------------------------------------------------------
\* A buffer that no step touched keeps its shape.
LEMMA BufferUnchanged ==
    ASSUME BufferInv, UNCHANGED bufferVars PROVE BufferInv'
BY DEF BufferInv, bufferVars, BufferFraming, AgeMatchesCount

\* And so do invocations that no step touched.
LEMMA InvocationsUnchanged ==
    ASSUME InvocationsInv, UNCHANGED invocations PROVE InvocationsInv'
BY DEF InvocationsInv, FiledUnderOwnID, Tracked

\* Every operation of the batch preserves the invariant.
LEMMA NextKeepsIInv ==
    ASSUME IInv, [Next]_batchVars PROVE IInv'
<1>. USE DEF IInv
<1>0. ASSUME UNCHANGED batchVars PROVE IInv'
  <2>1. UNCHANGED bufferVars /\ UNCHANGED invocations
    BY <1>0 DEF batchVars, bufferVars
  <2>2. CurrentInv'
    BY <1>0 DEF batchVars, CurrentInv
  <2>. QED BY <2>1, <2>2, BufferUnchanged, InvocationsUnchanged
<1>1. ASSUME NEW r \in ReqIDs, RegisterInvocation(r) PROVE IInv'
  <2>. DEFINE inc == [Lookup(r) EXCEPT !.RequestID = r]
  <2>1. inc \in Invocation /\ inc.RequestID = r
    BY LookupType DEF Invocation
  <2>2. InvocationsInv'
    BY <1>1, <2>1, PutKeepsInvocationsInv DEF RegisterInvocation
  <2>. QED BY <1>1, <2>2, BufferUnchanged DEF RegisterInvocation, CurrentInv
<1>2. ASSUME NEW r \in ReqIDs, NEW t \in TxnIDs, NEW w \in BOOLEAN,
             OnAgentInit(r, t, w)
      PROVE  IInv'
  <2>. DEFINE inc == [Lookup(r) EXCEPT !.TransactionID = t]
  <2>1. inc \in Invocation /\ inc.RequestID = Lookup(r).RequestID
                           /\ inc.TransactionID = t
    BY LookupType DEF Invocation
  <2>2. t # None
    BY BatchAssumption
  <2>3. InvocationsInv'
    BY <1>2, <2>1, <2>2, LookupType, PutKeepsInvocationsInv DEF OnAgentInit
  <2>4. BufferInv'
    <3>1. CASE w /\ metadataBytes = 0
      <4>1. metadataBytes' = 1 /\ buf' = << MetadataLine >>
            /\ count' = count /\ age' = age /\ count = 0
        BY <1>2, <3>1 DEF OnAgentInit, BufferInv, BufferFraming
      <4>2. buf' \in Seq(Line) /\ Len(buf') = 1 /\ buf'[1] = MetadataLine
        BY <4>1, LineTypes
      <4>3. BufferFraming'
        BY <4>1, <4>2 DEF BufferFraming
      <4>. QED BY <4>1, <4>2, <4>3 DEF BufferInv, AgeMatchesCount
    <3>2. CASE ~(w /\ metadataBytes = 0)
      BY <1>2, <3>2, BufferUnchanged DEF OnAgentInit, bufferVars
    <3>. QED BY <3>1, <3>2
  <2>. QED BY <1>2, <2>3, <2>4 DEF OnAgentInit, CurrentInv
<1>3. ASSUME NEW events \in Requests, AddAgentData(events) PROVE IInv'
  <2>1. CASE UNCHANGED batchVars
    BY <2>1, <1>0
  <2>2. CASE ~UNCHANGED batchVars
    <3>. DEFINE r == currentlyExecutingRequestID
                inc == invocations[r]
                seen == /\ NeedProxyTransaction(inc)
                        /\ \E i \in 1..Len(events) :
                              events[i] = AgentTxn(inc.TransactionID)
                new == [inc EXCEPT !.TransactionObserved = @ \/ seen]
                front == IF metadataBytes = 0 THEN << MetadataLine >> ELSE buf
    <3>1. /\ r \in Tracked
          /\ invocations' = Put(r, new)
          /\ metadataBytes' = 1
          /\ AddLines(front, events)
          /\ UNCHANGED << currentlyExecutingRequestID, platformStartRequestID >>
      BY <1>3, <2>2 DEF AddAgentData
    <3>2. r \in ReqIDs /\ inc \in Invocation
      BY <3>1 DEF InvocationsInv
    <3>3. new \in Invocation /\ new.RequestID = inc.RequestID
                             /\ new.TransactionID = inc.TransactionID
      <4>1. seen \in BOOLEAN
        BY DEF NeedProxyTransaction
      <4>. HIDE DEF seen
      <4>. QED BY <3>2, <4>1 DEF Invocation
    <3>4. InvocationsInv'
      <4>1. \/ new.RequestID = r
            \/ new.RequestID = None /\ new.TransactionID # None
        BY <3>1, <3>3 DEF InvocationsInv, FiledUnderOwnID
      <4>. QED BY <3>1, <3>2, <3>3, <4>1, PutKeepsInvocationsInv
    <3>5. /\ front \in Seq(Line)
          /\ Len(front) = 1 + count
          /\ \A i \in 1..Len(front) : front[i] = MetadataLine <=> i <= 1
      BY LineTypes DEF BufferInv, BufferFraming
    <3>6. BufferInv'
      <4>. HIDE DEF front
      <4>1. events \in Seq(EventLine)
        BY RequestTypes
      <4>. QED BY <3>1, <3>5, <4>1, AddLinesKeepsBufferInv
    <3>. QED BY <3>1, <3>4, <3>6 DEF CurrentInv
  <2>. QED BY <2>1, <2>2
<1>4. ASSUME NEW line \in LambdaEvent, AddLambdaData(line) PROVE IInv'
  <2>1. CASE UNCHANGED batchVars
    BY <2>1, <1>0
  <2>2. CASE ~UNCHANGED batchVars
    <3>1. /\ metadataBytes # 0
          /\ AddLines(buf, << line >>)
          /\ UNCHANGED << metadataBytes, invocations,
                          currentlyExecutingRequestID, platformStartRequestID >>
      BY <1>4, <2>2 DEF AddLambdaData
    <3>2. << line >> \in Seq(EventLine)
      BY LineTypes
    <3>3. BufferInv'
      BY <3>1, <3>2, AddLinesKeepsBufferInv DEF BufferInv, BufferFraming
    <3>. QED BY <3>1, <3>3, InvocationsUnchanged DEF CurrentInv
  <2>. QED BY <2>1, <2>2
<1>5. ASSUME NEW r \in ReqIDs, OnLambdaLogRuntimeDone(r) PROVE IInv'
  <2>1. CASE UNCHANGED batchVars
    BY <2>1, <1>0
  <2>2. CASE ~UNCHANGED batchVars
    <3>. DEFINE need == NeedProxyTransaction(invocations[r])
                lines == IF need THEN << ProxyTxn(invocations[r].TransactionID) >>
                                 ELSE << >>
                new == [invocations[r] EXCEPT !.Finalized = TRUE]
    <3>1. /\ r \in Tracked
          /\ need => metadataBytes # 0
          /\ AddLines(buf, lines)
          /\ invocations' = Put(r, new)
          /\ UNCHANGED << metadataBytes, currentlyExecutingRequestID,
                          platformStartRequestID >>
      BY <1>5, <2>2 DEF OnLambdaLogRuntimeDone, Lookup
    <3>2. invocations[r] \in Invocation
      BY <3>1 DEF InvocationsInv
    <3>3. lines \in Seq(EventLine)
      <4>1. need => invocations[r].TransactionID \in TxnIDs
        BY <3>2 DEF NeedProxyTransaction, Invocation
      <4>2. need => ProxyTxn(invocations[r].TransactionID) \in EventLine
        BY <4>1, LineTypes
      <4>. HIDE DEF need
      <4>. QED BY <4>2
    <3>4. BufferInv'
      BY <3>1, <3>3, AddLinesKeepsBufferInv DEF BufferInv, BufferFraming
    <3>5. new \in Invocation /\ new.RequestID = invocations[r].RequestID
          /\ new.TransactionID = invocations[r].TransactionID
      BY <3>2 DEF Invocation
    <3>6. InvocationsInv'
      <4>1. \/ new.RequestID = r
            \/ new.RequestID = None /\ new.TransactionID # None
        BY <3>1, <3>5 DEF InvocationsInv, FiledUnderOwnID
      <4>. QED BY <3>1, <3>5, <4>1, PutKeepsInvocationsInv
    <3>. QED BY <3>1, <3>4, <3>6 DEF CurrentInv
  <2>. QED BY <2>1, <2>2
<1>6. ASSUME NEW r \in ReqIDs, OnPlatformStart(r) PROVE IInv'
  BY <1>6, BufferUnchanged, InvocationsUnchanged DEF OnPlatformStart, CurrentInv
<1>7. ASSUME NEW r \in ReqIDs, OnPlatformReport(r) PROVE IInv'
  BY <1>7, BufferUnchanged, DropKeepsInvocationsInv
     DEF OnPlatformReport, CurrentInv
<1>8. ASSUME OnShutdown PROVE IInv'
  <2>1. PICK done \in SUBSET Finalizable :
          /\ LET owed == {r \in done : NeedProxyTransaction(invocations[r])} IN
             \E order \in Bijection(1..Cardinality(owed), owed) :
                AddLines(buf, [i \in 1..Cardinality(owed) |->
                                  ProxyTxn(invocations[order[i]].TransactionID)])
          /\ invocations' = Restrict(invocations, Tracked \ done)
          /\ UNCHANGED << metadataBytes, currentlyExecutingRequestID,
                          platformStartRequestID >>
    BY <1>8 DEF OnShutdown
  <2>. DEFINE owed == {r \in done : NeedProxyTransaction(invocations[r])}
              k == Cardinality(owed)
              lines(order) == [i \in 1..k |->
                                  ProxyTxn(invocations[order[i]].TransactionID)]
  <2>2. PICK order \in Bijection(1..k, owed) : AddLines(buf, lines(order))
    BY <2>1
  <2>3. order \in [1..k -> owed]
    BY DEF Bijection, Injection
  <2>4. k \in Nat
    <3>1. owed \subseteq ReqIDs
      BY DEF Finalizable, InvocationsInv
    <3>2. IsFiniteSet(owed)
      BY <3>1, BatchAssumption, FS_Subset
    <3>. QED BY <3>2, FS_CardinalityType
  <2>5. \A r \in owed : ProxyTxn(invocations[r].TransactionID) \in EventLine
    <3>. SUFFICES ASSUME NEW r \in owed
                  PROVE  ProxyTxn(invocations[r].TransactionID) \in EventLine
      OBVIOUS
    <3>1. invocations[r] \in Invocation
      BY DEF Finalizable, InvocationsInv
    <3>2. invocations[r].TransactionID \in TxnIDs
      BY <3>1 DEF NeedProxyTransaction, Invocation
    <3>. QED BY <3>2, LineTypes
  <2>6. lines(order) \in Seq(EventLine)
    <3>1. \A i \in 1..k : order[i] \in owed
      BY <2>3
    <3>2. lines(order) \in [1..k -> EventLine]
      BY <3>1, <2>5
    <3>. HIDE DEF lines, k
    <3>. QED BY <3>2, <2>4, IsASeq
  <2>7. metadataBytes = 0 => lines(order) = << >>
    <3>1. metadataBytes = 0 => owed = {}
      BY DEF Finalizable
    <3>2. metadataBytes = 0 => k = 0
      BY <3>1, FS_EmptySet
    <3>3. Len(lines(order)) = k
      BY <2>4
    <3>. HIDE DEF lines, k
    <3>. QED BY <3>2, <3>3, <2>6, EmptySeq
  <2>8. BufferInv'
    <3>. HIDE DEF lines
    <3>. QED BY <2>1, <2>2, <2>6, <2>7, AddLinesKeepsBufferInv
             DEF BufferInv, BufferFraming
  <2>. QED BY <2>1, <2>8, DropKeepsInvocationsInv DEF CurrentInv
<1>9. ASSUME Reset PROVE IInv'
  <2>1. buf' = SubSeq(buf, 1, metadataBytes) /\ count' = 0 /\ age' = "zero"
        /\ metadataBytes' = metadataBytes
    BY <1>9 DEF Reset
  <2>2. metadataBytes <= Len(buf)
    BY DEF BufferInv, BufferFraming
  <2>3. /\ buf' \in Seq(Line)
        /\ Len(buf') = metadataBytes
        /\ \A i \in 1..metadataBytes : buf'[i] = buf[i]
    BY <2>1, <2>2 DEF BufferInv
  <2>4. BufferFraming'
    BY <2>1, <2>2, <2>3 DEF BufferInv, BufferFraming
  <2>5. BufferInv'
    BY <2>1, <2>3, <2>4 DEF BufferInv, AgeMatchesCount
  <2>. QED BY <1>9, <2>5, InvocationsUnchanged DEF Reset, CurrentInv
<1>10. ASSUME Mature PROVE IInv'
  <2>1. BufferInv'
    BY <1>10 DEF Mature, BufferInv, BufferFraming, AgeMatchesCount
  <2>. QED BY <1>10, <2>1, InvocationsUnchanged DEF Mature, CurrentInv
<1>. QED
  BY <1>0, <1>1, <1>2, <1>3, <1>4, <1>5, <1>6, <1>7, <1>8, <1>9, <1>10 DEF Next

-----------------------------------------------------------------------------
\* The empty batch satisfies the invariant.
LEMMA InitIInv == Init => IInv
<1>. SUFFICES ASSUME Init PROVE IInv
  OBVIOUS
<1>1. BufferInv
  BY DEF Init, BufferInv, BufferFraming, AgeMatchesCount
<1>2. InvocationsInv
  BY DEF Init, InvocationsInv, FiledUnderOwnID, Tracked
<1>3. CurrentInv
  BY DEF Init, CurrentInv
<1>. QED BY <1>1, <1>2, <1>3 DEF IInv

\* The invariant holds after every sequence of calls.
LEMMA Invariance == Spec => []IInv
<1>1. IInv /\ [Next]_batchVars => IInv'
  BY NextKeepsIInv
<1>. QED BY <1>1, InitIInv, PTL DEF Spec

\* Every variable of the batch keeps its type under every sequence of calls.
THEOREM TypeCorrect == Spec => []TypeOK
<1>1. IInv => TypeOK
  BY DEF IInv, BufferInv, InvocationsInv, CurrentInv, TypeOK
<1>. QED BY <1>1, Invariance, PTL

\* Every payload the batch can be asked for is well-framed: metadata first and
\* only there, no events before it, and count events behind it.
THEOREM FramingCorrect == Spec => []BufferFraming
<1>1. IInv => BufferFraming
  BY DEF IInv, BufferInv
<1>. QED BY <1>1, Invariance, PTL

\* The batch is dated exactly while it holds events.
THEOREM AgeCorrect == Spec => []AgeMatchesCount
<1>1. IInv => AgeMatchesCount
  BY DEF IInv, BufferInv
<1>. QED BY <1>1, Invariance, PTL

\* Invocations are filed under their own request ID or have a transaction.
THEOREM FilingCorrect == Spec => []FiledUnderOwnID
<1>1. IInv => FiledUnderOwnID
  BY DEF IInv, InvocationsInv
<1>. QED BY <1>1, Invariance, PTL

-----------------------------------------------------------------------------
\* Putting an invocation under r leaves every other entry alone.
LEMMA PutIsLocal ==
    ASSUME NEW r, NEW inc, invocations' = Put(r, inc)
    PROVE  /\ Tracked' = Tracked \cup {r}
           /\ \A q \in Tracked' :
                 invocations'[q] = IF q = r THEN inc ELSE invocations[q]
BY DEF Put, Tracked

\* No operation puts a settled invocation back into a state that owes a proxy.
LEMMA NextKeepsSettled ==
    ASSUME IInv, Next,
           NEW q \in Tracked, q \in Tracked',
           invocations[q].Finalized \/ invocations[q].TransactionObserved
    PROVE  ~NeedProxyTransaction(invocations'[q])
<1>. USE DEF NeedProxyTransaction
<1>0. ASSUME UNCHANGED invocations PROVE ~NeedProxyTransaction(invocations'[q])
  BY <1>0
<1>1. ASSUME NEW r, NEW inc, invocations' = Put(r, inc),
             q = r => inc.Finalized \/ inc.TransactionObserved
      PROVE  ~NeedProxyTransaction(invocations'[q])
  BY <1>1, PutIsLocal
<1>2. ASSUME NEW S, invocations' = Restrict(invocations, S)
      PROVE  ~NeedProxyTransaction(invocations'[q])
  BY <1>2 DEF Restrict, Tracked
<1>3. invocations[q] \in Invocation
  BY DEF IInv, InvocationsInv
<1>4. ASSUME NEW r \in ReqIDs, RegisterInvocation(r)
      PROVE  ~NeedProxyTransaction(invocations'[q])
  <2>1. q = r => [Lookup(r) EXCEPT !.RequestID = r].Finalized
                 \/ [Lookup(r) EXCEPT !.RequestID = r].TransactionObserved
    BY <1>3 DEF Lookup, Invocation
  <2>. QED BY <1>1, <1>4, <2>1 DEF RegisterInvocation
<1>5. ASSUME NEW r \in ReqIDs, NEW t \in TxnIDs, NEW w \in BOOLEAN,
             OnAgentInit(r, t, w)
      PROVE  ~NeedProxyTransaction(invocations'[q])
  <2>1. q = r => [Lookup(r) EXCEPT !.TransactionID = t].Finalized
                 \/ [Lookup(r) EXCEPT !.TransactionID = t].TransactionObserved
    BY <1>3 DEF Lookup, Invocation
  <2>. QED BY <1>1, <1>5, <2>1 DEF OnAgentInit
<1>6. ASSUME NEW events \in Requests, AddAgentData(events)
      PROVE  ~NeedProxyTransaction(invocations'[q])
  <2>1. CASE UNCHANGED batchVars
    BY <1>0, <2>1 DEF batchVars
  <2>2. CASE ~UNCHANGED batchVars
    <3>. DEFINE r == currentlyExecutingRequestID
                inc == invocations[r]
                seen == /\ ~inc.Finalized /\ inc.TransactionID # None
                        /\ ~inc.TransactionObserved
                        /\ \E i \in 1..Len(events) :
                              events[i] = AgentTxn(inc.TransactionID)
                new == [inc EXCEPT !.TransactionObserved = @ \/ seen]
    <3>1. invocations' = Put(r, new)
      BY <1>6, <2>2 DEF AddAgentData
    <3>2. q = r => new.Finalized \/ new.TransactionObserved
      <4>. HIDE DEF seen
      <4>. QED BY <1>3 DEF Invocation
    <3>. HIDE DEF new
    <3>. QED BY <1>1, <3>1, <3>2
  <2>. QED BY <2>1, <2>2
<1>7. ASSUME NEW line \in LambdaEvent, AddLambdaData(line)
      PROVE  ~NeedProxyTransaction(invocations'[q])
  BY <1>0, <1>7 DEF AddLambdaData, batchVars
<1>8. ASSUME NEW r \in ReqIDs, OnLambdaLogRuntimeDone(r)
      PROVE  ~NeedProxyTransaction(invocations'[q])
  <2>1. CASE UNCHANGED batchVars
    BY <1>0, <2>1 DEF batchVars
  <2>2. CASE ~UNCHANGED batchVars
    <3>1. invocations' = Put(r, [invocations[r] EXCEPT !.Finalized = TRUE])
      BY <1>8, <2>2 DEF OnLambdaLogRuntimeDone
    <3>2. q = r => [invocations[r] EXCEPT !.Finalized = TRUE].Finalized
      BY <1>3 DEF Invocation
    <3>. QED BY <1>1, <3>1, <3>2
  <2>. QED BY <2>1, <2>2
<1>9. ASSUME OnShutdown PROVE ~NeedProxyTransaction(invocations'[q])
  <2>1. \E S : invocations' = Restrict(invocations, S)
    BY <1>9 DEF OnShutdown
  <2>. QED BY <1>2, <2>1
<1>. QED
  BY <1>0, <1>2, <1>4, <1>5, <1>6, <1>7, <1>8, <1>9
     DEF Next, OnPlatformStart, OnPlatformReport, Reset, Mature

\* An invocation whose transaction was reported never owes a proxy again, so
\* that at most one proxy is made of it while it is tracked.
THEOREM SettledForGood == Spec => SettledStaysSettled
<1>1. IInv /\ [Next]_batchVars =>
        [ \A r \in Tracked \cap Tracked' :
            invocations[r].Finalized \/ invocations[r].TransactionObserved
                => ~NeedProxyTransaction(invocations'[r]) ]_batchVars
  BY NextKeepsSettled
<1>. QED BY <1>1, Invariance, PTL DEF Spec, SettledStaysSettled

-----------------------------------------------------------------------------
\* The metadata is never lost, so that every payload that follows has it.
THEOREM MetadataKept == Spec => MetadataIsKept
<1>1. ASSUME IInv, Next, metadataBytes = 1
      PROVE  metadataBytes' = 1 /\ buf' # << >>
  <2>1. metadataBytes' = 1
    BY <1>1 DEF Next, RegisterInvocation, OnLambdaLogRuntimeDone, OnPlatformStart,
         OnPlatformReport, OnAgentInit, AddLambdaData, AddAgentData, OnShutdown,
         Reset, Mature, bufferVars, batchVars
  <2>2. BufferInv'
    BY <1>1, NextKeepsIInv DEF IInv
  <2>3. Len(buf') = 1 + count' /\ count' \in Nat
    BY <2>1, <2>2 DEF BufferInv, BufferFraming
  <2>. QED BY <2>1, <2>3
<1>2. IInv /\ [Next]_batchVars =>
        [ metadataBytes = 1 => metadataBytes' = 1 /\ buf' # << >> ]_batchVars
  BY <1>1
<1>. QED BY <1>2, Invariance, PTL DEF Spec, MetadataIsKept

-----------------------------------------------------------------------------
\* Lines added behind the buffer are where the buffer ended.
LEMMA AddedLines ==
    ASSUME NEW lines, lines \in Seq(Line), buf \in Seq(Line), AddLines(buf, lines),
           NEW i \in Len(buf) + 1 .. Len(buf')
    PROVE  \E j \in 1..Len(lines) : buf'[i] = lines[j]
<1>1. buf' = buf \o lines
  BY DEF AddLines
<1>2. Len(buf') = Len(buf) + Len(lines)
  BY <1>1
<1>3. i - Len(buf) \in 1..Len(lines)
  BY <1>2
<1>4. buf'[i] = lines[i - Len(buf)]
  BY <1>1, <1>2, <1>3
<1>. QED BY <1>3, <1>4

\* Of the operations, only those that make proxies add to a batch that is full.
LEMMA FullTakesProxies ==
    ASSUME IInv, Next, count >= MaxSize,
           NEW i \in Len(buf) + 1 .. Len(buf')
    PROVE  buf'[i].kind = "proxy"
<1>1. buf \in Seq(Line) /\ count \in Nat /\ metadataBytes \in {0, 1}
      /\ metadataBytes # 0 /\ BatchFull
  BY BatchAssumption DEF IInv, BufferInv, BufferFraming, BatchFull
<1>2. ASSUME UNCHANGED buf PROVE FALSE
  BY <1>1, <1>2
<1>3. ASSUME NEW r \in ReqIDs, OnLambdaLogRuntimeDone(r)
      PROVE  buf'[i].kind = "proxy"
  <2>1. PICK lines : /\ AddLines(buf, lines)
                     /\ lines \in {<< >>, << ProxyTxn(invocations[r].TransactionID) >>}
                     /\ r \in Tracked
    BY <1>2, <1>3 DEF OnLambdaLogRuntimeDone, batchVars
  <2>2. CASE lines = << >>
    <3>1. buf' = buf
      BY <1>1, <2>1, <2>2 DEF AddLines
    <3>. QED BY <1>2, <3>1
  <2>3. CASE lines = << ProxyTxn(invocations[r].TransactionID) >>
    <3>1. invocations[r] \in Invocation
      BY <2>1 DEF IInv, InvocationsInv
    <3>2. Len(buf') = Len(buf) + 1 /\ i = Len(buf) + 1
      BY <1>1, <2>1, <2>3 DEF AddLines
    <3>3. buf'[i] = ProxyTxn(invocations[r].TransactionID)
      BY <1>1, <2>1, <2>3, <3>2 DEF AddLines
    <3>. QED BY <3>3 DEF ProxyTxn
  <2>. QED BY <2>1, <2>2, <2>3
<1>4. ASSUME OnShutdown PROVE buf'[i].kind = "proxy"
  <2>1. PICK done \in SUBSET Finalizable :
          LET owed == {r \in done : NeedProxyTransaction(invocations[r])} IN
          \E order \in Bijection(1..Cardinality(owed), owed) :
             AddLines(buf, [k \in 1..Cardinality(owed) |->
                               ProxyTxn(invocations[order[k]].TransactionID)])
    BY <1>4 DEF OnShutdown
  <2>. DEFINE owed == {r \in done : NeedProxyTransaction(invocations[r])}
              n == Cardinality(owed)
  <2>2. PICK order \in Bijection(1..n, owed) :
           AddLines(buf, [k \in 1..n |->
                             ProxyTxn(invocations[order[k]].TransactionID)])
    BY <2>1
  <2>3. owed \subseteq ReqIDs
    BY DEF Finalizable, IInv, InvocationsInv
  <2>4. n \in Nat
    BY <2>3, BatchAssumption, FS_Subset, FS_CardinalityType
  <2>5. \A k \in 1..n : order[k] \in owed
    BY <2>2 DEF Bijection, Injection, Surjection, IsInjective
  <2>. DEFINE lines == [k \in 1..n |-> ProxyTxn(invocations[order[k]].TransactionID)]
  <2>. HIDE DEF n
  <2>6. /\ Len(lines) = n
        /\ \A k \in 1..n : lines[k].kind = "proxy"
    BY <2>4 DEF ProxyTxn
  <2>7. lines \in Seq(Line)
    <3>1. \A k \in 1..n : lines[k] \in Line
      <4>1. \A r \in owed : /\ invocations[r] \in Invocation
                           /\ NeedProxyTransaction(invocations[r])
        BY DEF IInv, InvocationsInv, Finalizable
      <4>2. \A r \in owed : invocations[r].TransactionID \in TxnIDs
        BY <4>1 DEF Invocation, NeedProxyTransaction
      <4>. HIDE DEF owed
      <4>. QED BY <2>5, <4>2, LineTypes
    <3>. QED BY <2>4, <3>1
  <2>. HIDE DEF lines
  <2>8. PICK j \in 1..Len(lines) : buf'[i] = lines[j]
    BY <1>1, <2>2, <2>7, AddedLines DEF lines
  <2>. QED BY <2>6, <2>8
<1>5. ASSUME Reset PROVE FALSE
  <2>1. Len(buf') = metadataBytes /\ metadataBytes <= Len(buf)
    BY <1>1, <1>5 DEF Reset, IInv, BufferInv, BufferFraming
  <2>. QED BY <1>1, <2>1
<1>6. ASSUME NEW events \in Requests, AddAgentData(events) PROVE FALSE
  BY <1>1, <1>2, <1>6 DEF AddAgentData, batchVars
<1>7. ASSUME NEW line \in LambdaEvent, AddLambdaData(line) PROVE FALSE
  BY <1>1, <1>2, <1>7 DEF AddLambdaData, batchVars
<1>8. ASSUME NEW r \in ReqIDs, NEW t \in TxnIDs, NEW w \in BOOLEAN,
             OnAgentInit(r, t, w)
      PROVE  FALSE
  BY <1>1, <1>2, <1>8 DEF OnAgentInit
<1>. QED
  BY <1>2, <1>3, <1>4, <1>5, <1>6, <1>7, <1>8
     DEF Next, RegisterInvocation, OnPlatformStart, OnPlatformReport, Mature,
         bufferVars

\* A batch that is full grows only by proxies, whatever its size.
THEOREM FullGrowsSlowly == Spec => FullGrowsByProxiesOnly
<1>1. IInv /\ [Next]_batchVars =>
        [ count >= MaxSize =>
            \A i \in Len(buf) + 1 .. Len(buf') : buf'[i].kind = "proxy" ]_batchVars
  BY FullTakesProxies
<1>. QED BY <1>1, Invariance, PTL DEF Spec, FullGrowsByProxiesOnly

-----------------------------------------------------------------------------
\* What the agent and the logs API send is no proxy.
LEMMA OnlyTheBatchMakesProxies ==
    /\ \A e \in AgentEvent \cup LambdaEvent : e.kind # "proxy"
    /\ MetadataLine.kind # "proxy"
BY DEF AgentEvent, AgentTxn, Span, LambdaEvent, MetadataLine

\* The steps that add a line without settling an invocation, or no line at all.
AddsNoProxy ==
    \/ UNCHANGED buf
    \/ Reset
    \/ \E events \in Requests : AddAgentData(events)
    \/ \E line \in LambdaEvent : AddLambdaData(line)
    \/ \E r \in ReqIDs, t \in TxnIDs, w \in BOOLEAN : OnAgentInit(r, t, w)

\* They add no proxy.
LEMMA NoProxyAdded ==
    ASSUME IInv, AddsNoProxy,
           NEW i \in Len(buf) + 1 .. Len(buf'),
           buf'[i].kind = "proxy"
    PROVE  FALSE
<1>1. buf \in Seq(Line) /\ count \in Nat /\ metadataBytes \in {0, 1}
      /\ Len(buf) = metadataBytes + count /\ (metadataBytes = 0 => count = 0)
  BY DEF IInv, BufferInv, BufferFraming
<1>2. ASSUME UNCHANGED buf PROVE FALSE
  BY <1>1, <1>2
<1>3. ASSUME Reset PROVE FALSE
  <2>1. Len(buf') = metadataBytes
    BY <1>1, <1>3 DEF Reset
  <2>. QED BY <1>1, <2>1
<1>4. ASSUME NEW events \in Requests, AddAgentData(events) PROVE FALSE
  <2>1. events \in Seq(AgentEvent)
    BY BatchAssumption
  <2>2. CASE UNCHANGED buf
    BY <1>2, <2>2
  <2>3. CASE ~UNCHANGED buf
    <3>. DEFINE front == IF metadataBytes = 0 THEN << MetadataLine >> ELSE buf
    <3>1. buf' = front \o events
      BY <1>4, <2>3 DEF AddAgentData, AddLines, batchVars
    <3>2. CASE metadataBytes = 0
      <4>1. Len(buf) = 0
        BY <1>1, <3>2
      <4>2. buf' = << MetadataLine >> \o events
        BY <3>1, <3>2
      <4>3. i = 1 => buf'[i] = MetadataLine
        BY <2>1, <4>2
      <4>4. i # 1 => buf'[i] \in AgentEvent
        BY <2>1, <4>1, <4>2
      <4>. QED BY <4>3, <4>4, OnlyTheBatchMakesProxies
    <3>3. CASE metadataBytes # 0
      <4>1. buf' = buf \o events
        BY <3>1, <3>3
      <4>2. i - Len(buf) \in 1..Len(events) /\ buf'[i] = events[i - Len(buf)]
        BY <1>1, <2>1, <4>1
      <4>. QED BY <2>1, <4>2, OnlyTheBatchMakesProxies
    <3>. QED BY <3>2, <3>3
  <2>. QED BY <2>2, <2>3
<1>5. ASSUME NEW line \in LambdaEvent, AddLambdaData(line) PROVE FALSE
  <2>1. buf' # buf
    BY <1>2
  <2>2. buf' = buf \o << line >>
    BY <1>5, <2>1 DEF AddLambdaData, AddLines, batchVars
  <2>3. buf'[i] = line
    BY <1>1, <2>2
  <2>. QED BY <2>3, OnlyTheBatchMakesProxies
<1>6. ASSUME NEW r \in ReqIDs, NEW t \in TxnIDs, NEW w \in BOOLEAN,
             OnAgentInit(r, t, w)
      PROVE  FALSE
  <2>1. buf' = << MetadataLine >>
    BY <1>2, <1>6 DEF OnAgentInit
  <2>2. i = 1
    BY <1>1, <2>1
  <2>. QED BY <2>1, <2>2, OnlyTheBatchMakesProxies
<1>. QED BY <1>2, <1>3, <1>4, <1>5, <1>6 DEF AddsNoProxy

\* What ProxySettlesItsInvocation says of a step.
EachSettled ==
    \E owner \in Bijection(AddedProxies, NewlyFinalized) :
        \A i \in AddedProxies : buf'[i].id = invocations[owner[i]].TransactionID

\* A step that adds no proxy and finalizes no invocation that owes one.
LEMMA NothingToSettle ==
    ASSUME AddedProxies = {}, NewlyFinalized = {} PROVE EachSettled
<1>. DEFINE owner == [i \in {} |-> 0]
<1>1. owner \in Bijection({}, {})
  BY DEF Bijection, Injection, Surjection, IsInjective
<1>. QED BY <1>1 DEF EachSettled

\* A step that leaves the invocations tracked and finalizes none finalizes none that
\* owes a proxy.
LEMMA NoneFinalized ==
    ASSUME \A r \in Tracked : r \in Tracked'
                            /\ (invocations'[r].Finalized => invocations[r].Finalized)
    PROVE  NewlyFinalized = {}
BY DEF NewlyFinalized, NeedProxyTransaction

\* Filing an invocation that has been finalized only if it was before finalizes none.
LEMMA PutFinalizesNone ==
    ASSUME NEW r, NEW inc, invocations' = Put(r, inc),
           r \in Tracked => (inc.Finalized => invocations[r].Finalized)
    PROVE  NewlyFinalized = {}
<1>1. \A q \in Tracked : q \in Tracked'
                      /\ invocations'[q] = IF q = r THEN inc ELSE invocations[q]
  BY PutIsLocal
<1>. QED BY <1>1, NoneFinalized

\* The end of an invocation adds its proxy, if it owes one, and no other.
LEMMA RuntimeDoneSettles ==
    ASSUME IInv, NEW q \in ReqIDs, OnLambdaLogRuntimeDone(q)
    PROVE  EachSettled
<1>. DEFINE need == NeedProxyTransaction(Lookup(q))
            proxy == ProxyTxn(invocations[q].TransactionID)
<1>1. buf \in Seq(Line)
  BY DEF IInv, BufferInv
<1>2. CASE UNCHANGED batchVars
  <2>1. AddedProxies = {}
    BY <1>1, <1>2 DEF AddedProxies, batchVars
  <2>2. NewlyFinalized = {}
    BY <1>2, NoneFinalized DEF batchVars, Tracked
  <2>. QED BY <2>1, <2>2, NothingToSettle
<1>3. CASE ~UNCHANGED batchVars
  <2>1. /\ q \in Tracked
        /\ AddLines(buf, IF need THEN << proxy >> ELSE << >>)
        /\ invocations' = Put(q, [invocations[q] EXCEPT !.Finalized = TRUE])
    BY <1>3 DEF OnLambdaLogRuntimeDone
  <2>2. Lookup(q) = invocations[q] /\ invocations[q] \in Invocation
    BY <2>1 DEF Lookup, IInv, InvocationsInv
  <2>3. /\ Tracked' = Tracked
        /\ invocations'[q] = [invocations[q] EXCEPT !.Finalized = TRUE]
        /\ \A r \in Tracked : r # q => invocations'[r] = invocations[r]
    BY <2>1, PutIsLocal
  <2>4. invocations'[q].Finalized
    BY <2>2, <2>3 DEF Invocation
  <2>5. NewlyFinalized = IF need THEN {q} ELSE {}
    BY <2>1, <2>2, <2>3, <2>4 DEF NewlyFinalized, NeedProxyTransaction
  <2>6. CASE ~need
    <3>1. buf' = buf
      BY <1>1, <2>1, <2>6 DEF AddLines
    <3>2. AddedProxies = {}
      BY <1>1, <3>1 DEF AddedProxies
    <3>. QED BY <2>5, <2>6, <3>2, NothingToSettle
  <2>7. CASE need
    <3>1. buf' = buf \o << proxy >>
      BY <2>1, <2>7 DEF AddLines
    <3>2. /\ Len(buf) \in Nat /\ Len(buf') = Len(buf) + 1
          /\ buf'[Len(buf) + 1] = proxy
      BY <1>1, <3>1
    <3>3. AddedProxies = {Len(buf) + 1}
      BY <3>2 DEF AddedProxies, ProxyTxn
    <3>. DEFINE owner == [i \in {Len(buf) + 1} |-> q]
    <3>4. owner \in Bijection({Len(buf) + 1}, {q})
      BY DEF Bijection, Injection, Surjection, IsInjective
    <3>5. \A i \in AddedProxies : buf'[i].id = invocations[owner[i]].TransactionID
      BY <3>2, <3>3 DEF ProxyTxn
    <3>6. NewlyFinalized = {q}
      BY <2>5, <2>7
    <3>. QED BY <3>3, <3>4, <3>5, <3>6 DEF EachSettled
  <2>. QED BY <2>6, <2>7
<1>. QED BY <1>2, <1>3

\* At SHUTDOWN each invocation that is finalized while it owes a proxy gets its own.
LEMMA ShutdownSettles ==
    ASSUME IInv, OnShutdown PROVE EachSettled
<1>1. PICK done \in SUBSET Finalizable :
        /\ LET owed == {r \in done : NeedProxyTransaction(invocations[r])} IN
           \E order \in Bijection(1..Cardinality(owed), owed) :
              AddLines(buf, [k \in 1..Cardinality(owed) |->
                                ProxyTxn(invocations[order[k]].TransactionID)])
        /\ invocations' = Restrict(invocations, Tracked \ done)
  BY DEF OnShutdown
<1>. DEFINE owed == {r \in done : NeedProxyTransaction(invocations[r])}
            n == Cardinality(owed)
<1>2. PICK order \in Bijection(1..n, owed) :
         AddLines(buf, [k \in 1..n |->
                           ProxyTxn(invocations[order[k]].TransactionID)])
  BY <1>1
<1>. DEFINE lines == [k \in 1..n |-> ProxyTxn(invocations[order[k]].TransactionID)]
<1>3. buf \in Seq(Line) /\ Len(buf) \in Nat
  BY DEF IInv, BufferInv
<1>4. owed \subseteq ReqIDs /\ owed \subseteq Tracked /\ done \subseteq Tracked
  BY DEF Finalizable, IInv, InvocationsInv
<1>5. n \in Nat
  BY <1>4, BatchAssumption, FS_Subset, FS_CardinalityType
<1>6. Tracked' = Tracked \ done /\ \A r \in Tracked' : invocations'[r] = invocations[r]
  BY <1>1 DEF Restrict, Tracked
<1>7. /\ \A k \in 1..n : order[k] \in owed
      /\ \A k \in 1..n, l \in 1..n : order[k] = order[l] => k = l
      /\ \A r \in owed : \E k \in 1..n : order[k] = r
  BY <1>2 DEF Bijection, Injection, Surjection, IsInjective
<1>. HIDE DEF n
<1>8. /\ Len(lines) = n
      /\ \A k \in 1..n : lines[k] = ProxyTxn(invocations[order[k]].TransactionID)
  BY <1>5
<1>9. lines \in Seq(Line)
  <2>1. \A r \in owed : invocations[r].TransactionID \in TxnIDs
    <3>1. \A r \in owed : /\ invocations[r] \in Invocation
                         /\ NeedProxyTransaction(invocations[r])
      BY DEF IInv, InvocationsInv, Finalizable
    <3>. QED BY <3>1 DEF Invocation, NeedProxyTransaction
  <2>. HIDE DEF owed
  <2>2. \A k \in 1..n : lines[k] \in Line
    BY <1>7, <2>1, LineTypes
  <2>. QED BY <1>5, <2>2
<1>10. buf' = buf \o lines
  BY <1>2 DEF AddLines
<1>. HIDE DEF lines
<1>11. /\ Len(buf') = Len(buf) + n
       /\ \A k \in 1..n : buf'[Len(buf) + k] = lines[k]
  <2>1. Len(lines) = n
    BY <1>8
  <2>2. /\ Len(buf') = Len(buf) + Len(lines)
        /\ \A i \in 1 .. Len(buf) + Len(lines) :
              buf'[i] = IF i <= Len(buf) THEN buf[i] ELSE lines[i - Len(buf)]
    BY <1>3, <1>9, <1>10, ConcatProperties
  <2>3. ASSUME NEW k \in 1..n PROVE buf'[Len(buf) + k] = lines[k]
    <3>1. /\ Len(buf) + k \in 1 .. Len(buf) + n
          /\ ~(Len(buf) + k <= Len(buf)) /\ (Len(buf) + k) - Len(buf) = k
      BY <1>3, <1>5
    <3>. QED BY <2>1, <2>2, <3>1
  <2>. QED BY <2>1, <2>2, <2>3
<1>12. /\ AddedProxies = Len(buf) + 1 .. Len(buf) + n
       /\ \A i \in AddedProxies :
             /\ i - Len(buf) \in 1..n
             /\ buf'[i].id = invocations[order[i - Len(buf)]].TransactionID
  <2>1. \A i \in Len(buf) + 1 .. Len(buf) + n :
          /\ i - Len(buf) \in 1..n
          /\ buf'[i] = ProxyTxn(invocations[order[i - Len(buf)]].TransactionID)
    <3>. TAKE i \in Len(buf) + 1 .. Len(buf) + n
    <3>. DEFINE k == i - Len(buf)
    <3>1. k \in 1..n /\ Len(buf) + k = i
      BY <1>3, <1>5
    <3>. QED BY <1>8, <1>11, <3>1
  <2>2. \A i \in Len(buf) + 1 .. Len(buf) + n :
          /\ buf'[i].kind = "proxy"
          /\ buf'[i].id = invocations[order[i - Len(buf)]].TransactionID
    <3>1. \A t : ProxyTxn(t).kind = "proxy" /\ ProxyTxn(t).id = t
      BY DEF ProxyTxn
    <3>2. ASSUME NEW i \in Len(buf) + 1 .. Len(buf) + n
          PROVE  buf'[i] = ProxyTxn(invocations[order[i - Len(buf)]].TransactionID)
      BY <2>1
    <3>. DEFINE txn(i) == invocations[order[i - Len(buf)]].TransactionID
    <3>3. ASSUME NEW i \in Len(buf) + 1 .. Len(buf) + n
          PROVE  buf'[i].kind = "proxy" /\ buf'[i].id = txn(i)
      <4>1. buf'[i] = ProxyTxn(txn(i))
        BY <3>2
      <4>. HIDE DEF txn
      <4>. QED BY <3>1, <4>1
    <3>. QED BY <3>3
  <2>3. Len(buf') = Len(buf) + n
    BY <1>11
  <2>4. AddedProxies = Len(buf) + 1 .. Len(buf) + n
    BY <2>2, <2>3 DEF AddedProxies
  <2>. QED BY <2>1, <2>2, <2>4
<1>13. NewlyFinalized = owed
  <2>1. ASSUME NEW r \in NewlyFinalized PROVE r \in owed
    <3>1. r \in Tracked /\ NeedProxyTransaction(invocations[r])
      BY DEF NewlyFinalized
    <3>2. r \notin Tracked'
      BY <1>6, <3>1 DEF NewlyFinalized, NeedProxyTransaction
    <3>. QED BY <1>6, <3>1, <3>2
  <2>2. ASSUME NEW r \in owed PROVE r \in NewlyFinalized
    <3>1. r \in Tracked /\ r \notin Tracked' /\ NeedProxyTransaction(invocations[r])
      BY <1>4, <1>6
    <3>2. n # 0
      BY <1>5, <1>7
    <3>3. Len(buf') # Len(buf)
      BY <1>3, <1>5, <1>11, <3>2
    <3>4. ~OnPlatformReport(r)
      BY <3>3 DEF OnPlatformReport, bufferVars
    <3>. QED BY <3>1, <3>4 DEF NewlyFinalized
  <2>. QED BY <2>1, <2>2
<1>. DEFINE owner == [i \in AddedProxies |-> order[i - Len(buf)]]
<1>. HIDE DEF owed
<1>14. owner \in Bijection(AddedProxies, owed)
  <2>1. owner \in [AddedProxies -> owed]
    BY <1>7, <1>12
  <2>2. \A i \in AddedProxies, j \in AddedProxies : owner[i] = owner[j] => i = j
    <3>. TAKE i \in AddedProxies, j \in AddedProxies
    <3>. HAVE owner[i] = owner[j]
    <3>1. i - Len(buf) = j - Len(buf)
      BY <1>7, <1>12
    <3>. QED BY <1>3, <1>5, <1>12, <3>1
  <2>3. ASSUME NEW r \in owed PROVE \E i \in AddedProxies : owner[i] = r
    <3>1. PICK k \in 1..n : order[k] = r
      BY <1>7
    <3>2. Len(buf) + k \in AddedProxies /\ (Len(buf) + k) - Len(buf) = k
      BY <1>3, <1>5, <1>12
    <3>. QED BY <3>1, <3>2
  <2>. QED BY <2>1, <2>2, <2>3 DEF Bijection, Injection, Surjection, IsInjective
<1>15. \A i \in AddedProxies : buf'[i].id = invocations[owner[i]].TransactionID
  BY <1>12
<1>. QED BY <1>13, <1>14, <1>15 DEF EachSettled

\* Every step adds one proxy for each invocation that it finalizes while it owes one.
LEMMA NextSettles ==
    ASSUME IInv, Next PROVE EachSettled
<1>1. ASSUME AddsNoProxy, NewlyFinalized = {} PROVE EachSettled
  <2>1. AddedProxies = {}
    BY <1>1, NoProxyAdded DEF AddedProxies
  <2>. QED BY <1>1, <2>1, NothingToSettle
<1>2. \A r \in Tracked : r \in ReqIDs /\ invocations[r] \in Invocation
  BY DEF IInv, InvocationsInv
<1>3. ASSUME NEW r \in ReqIDs, RegisterInvocation(r) PROVE EachSettled
  <2>1. invocations' = Put(r, [Lookup(r) EXCEPT !.RequestID = r])
    BY <1>3 DEF RegisterInvocation
  <2>2. r \in Tracked => [Lookup(r) EXCEPT !.RequestID = r].Finalized
                             = invocations[r].Finalized
    BY <1>2 DEF Lookup, Invocation
  <2>3. NewlyFinalized = {}
    BY <2>1, <2>2, PutFinalizesNone
  <2>. QED BY <1>1, <1>3, <2>3 DEF AddsNoProxy, RegisterInvocation, bufferVars
<1>4. ASSUME NEW r \in ReqIDs, NEW t \in TxnIDs, NEW w \in BOOLEAN,
             OnAgentInit(r, t, w)
      PROVE  EachSettled
  <2>1. invocations' = Put(r, [Lookup(r) EXCEPT !.TransactionID = t])
    BY <1>4 DEF OnAgentInit
  <2>2. r \in Tracked => [Lookup(r) EXCEPT !.TransactionID = t].Finalized
                             = invocations[r].Finalized
    BY <1>2 DEF Lookup, Invocation
  <2>3. NewlyFinalized = {}
    BY <2>1, <2>2, PutFinalizesNone
  <2>. QED BY <1>1, <1>4, <2>3 DEF AddsNoProxy
<1>5. ASSUME NEW r \in ReqIDs, OnPlatformReport(r) PROVE EachSettled
  <2>1. Tracked' = Tracked \ {r} /\ \A q \in Tracked' : invocations'[q] = invocations[q]
    BY <1>5 DEF OnPlatformReport, Restrict, Tracked
  <2>2. NewlyFinalized = {}
    BY <1>5, <2>1 DEF NewlyFinalized, NeedProxyTransaction
  <2>. QED BY <1>1, <1>5, <2>2 DEF AddsNoProxy, OnPlatformReport, bufferVars
<1>6. ASSUME NEW events \in Requests, AddAgentData(events) PROVE EachSettled
  <2>1. CASE UNCHANGED batchVars
    <3>1. NewlyFinalized = {}
      BY <2>1, NoneFinalized DEF batchVars, Tracked
    <3>. QED BY <1>1, <1>6, <3>1 DEF AddsNoProxy
  <2>2. CASE ~UNCHANGED batchVars
    <3>. DEFINE r == currentlyExecutingRequestID
    <3>1. PICK seen \in BOOLEAN :
            /\ r \in Tracked
            /\ invocations' = Put(r, [invocations[r] EXCEPT
                                        !.TransactionObserved = @ \/ seen])
      <4>. DEFINE saw == /\ NeedProxyTransaction(invocations[r])
                         /\ \E i \in 1..Len(events) :
                               events[i] = AgentTxn(invocations[r].TransactionID)
      <4>1. /\ r \in Tracked
            /\ invocations' = Put(r, [invocations[r] EXCEPT
                                        !.TransactionObserved = @ \/ saw])
        BY <1>6, <2>2 DEF AddAgentData
      <4>2. saw \in BOOLEAN
        OBVIOUS
      <4>. HIDE DEF saw
      <4>. QED BY <4>1, <4>2
    <3>2. [invocations[r] EXCEPT !.TransactionObserved = @ \/ seen].Finalized
              = invocations[r].Finalized
      BY <1>2, <3>1 DEF Invocation
    <3>3. NewlyFinalized = {}
      BY <3>1, <3>2, PutFinalizesNone
    <3>. QED BY <1>1, <1>6, <3>3 DEF AddsNoProxy
  <2>. QED BY <2>1, <2>2
<1>7. ASSUME UNCHANGED invocations PROVE NewlyFinalized = {}
  BY <1>7, NoneFinalized DEF Tracked
<1>8. ASSUME NEW line \in LambdaEvent, AddLambdaData(line) PROVE EachSettled
  <2>1. UNCHANGED invocations
    BY <1>8 DEF AddLambdaData, batchVars
  <2>. QED BY <1>1, <1>7, <1>8, <2>1 DEF AddsNoProxy
<1>9. ASSUME \/ Reset \/ Mature \/ \E r \in ReqIDs : OnPlatformStart(r)
      PROVE  EachSettled
  <2>1. UNCHANGED invocations /\ AddsNoProxy
    BY <1>9 DEF Reset, Mature, OnPlatformStart, AddsNoProxy, bufferVars
  <2>. QED BY <1>1, <1>7, <2>1
<1>. QED
  BY <1>3, <1>4, <1>5, <1>6, <1>8, <1>9, RuntimeDoneSettles, ShutdownSettles DEF Next

\* One proxy is made for each invocation that owes one when it is finalized, and no
\* other, whatever number of them a step finalizes.
THEOREM ProxiesSettle == Spec => ProxySettlesItsInvocation
<1>1. IInv /\ [Next]_batchVars =>
        [ \E owner \in Bijection(AddedProxies, NewlyFinalized) :
            \A i \in AddedProxies :
                buf'[i].id = invocations[owner[i]].TransactionID ]_batchVars
  BY NextSettles DEF EachSettled
<1>. QED BY <1>1, Invariance, PTL DEF Spec, ProxySettlesItsInvocation

=============================================================================
