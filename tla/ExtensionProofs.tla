--------------------------- MODULE ExtensionProofs ---------------------------
(***************************************************************************)
(* Extension uses the batch only as Batch describes it, so that what is    *)
(* proved of the batch holds of the one in the running extension; and its  *)
(* goroutines take turns with it, for every number of requests, every size *)
(* of the channels and every sequence of log events.                       *)
(***************************************************************************)
EXTENDS Extension, SequenceTheorems, FiniteSetTheorems, TLAPS

BP == INSTANCE BatchProofs WITH TxnIDs <- ReqIDs,
                                Requests <- {AgentBody(r) : r \in ReqIDs}

USE ExtensionAssumption

-----------------------------------------------------------------------------
\* The batch in the extension is the one of BatchProofs.

LEMMA RequestsAreFinite == IsFiniteSet(ReqIDs)
<1>1. 1 \in Int /\ NumRequests \in Int
  BY ExtensionAssumption
<1>2. IsFiniteSet(1..NumRequests)
  BY <1>1, FS_Interval, Zenon
<1> QED
  BY <1>2 DEF ReqIDs

LEMMA BatchAssumptionHolds == BP!BatchAssumption
<1>1. IsFiniteSet(ReqIDs)
  BY RequestsAreFinite
<1>2. None \notin ReqIDs
  BY DEF None, ReqIDs
<1>3. {AgentBody(r) : r \in ReqIDs} \subseteq Seq(BP!AgentEvent)
  <2>1. ASSUME NEW r \in ReqIDs PROVE AgentBody(r) \in Seq(BP!AgentEvent)
    <3>1. BP!AgentTxn(r) \in BP!AgentEvent
      BY DEF BP!AgentEvent
    <3> QED
      BY <3>1 DEF AgentBody, BP!AgentTxn
  <2> QED
    BY <2>1
<1>4. None \notin ReqIDs \cup ReqIDs
  BY <1>2
<1> QED
  BY <1>1, <1>3, <1>4 DEF BP!BatchAssumption, IsFiniteSet, BP!IsFiniteSet

LEMMA SameInit == B!Init <=> BP!Init
  BY DEF B!Init, BP!Init, B!NewInvocation, BP!NewInvocation

LEMMA SameShutdown == B!OnShutdown => BP!OnShutdown
<1>1. \A inc : B!NeedProxyTransaction(inc) <=> BP!NeedProxyTransaction(inc)
  BY DEF B!NeedProxyTransaction, BP!NeedProxyTransaction
<1>2. B!Tracked = BP!Tracked
  BY DEF B!Tracked, BP!Tracked
<1>3. B!Finalizable = BP!Finalizable
  BY <1>1, <1>2 DEF B!Finalizable, BP!Finalizable
<1>4. \A S : B!Cardinality(S) = BP!Cardinality(S)
  BY DEF B!Cardinality, BP!Cardinality
<1>5. \A S, T : B!Bijection(S, T) = BP!Bijection(S, T)
  BY DEF B!Bijection, BP!Bijection, B!Injection, BP!Injection,
         B!Surjection, BP!Surjection, B!IsInjective, BP!IsInjective
<1>6. \A front, lines : B!AddLines(front, lines) <=> BP!AddLines(front, lines)
  BY DEF B!AddLines, BP!AddLines
<1>7. \A t : B!ProxyTxn(t) = BP!ProxyTxn(t)
  BY DEF B!ProxyTxn, BP!ProxyTxn
<1>8. \A f, S : B!Restrict(f, S) = BP!Restrict(f, S)
  BY DEF B!Restrict, BP!Restrict
<1>9. ASSUME B!OnShutdown PROVE BP!OnShutdown
  <2>1. PICK done \in SUBSET B!Finalizable :
          /\ B!Finalizable = B!Tracked => done = B!Tracked
          /\ LET owed == {r \in done : B!NeedProxyTransaction(invocations[r])} IN
             \E order \in B!Bijection(1..B!Cardinality(owed), owed) :
                B!AddLines(buf, [i \in 1..B!Cardinality(owed) |->
                     B!ProxyTxn(invocations[order[i]].TransactionID)])
          /\ invocations' = B!Restrict(invocations, B!Tracked \ done)
          /\ UNCHANGED << metadataBytes, currentlyExecutingRequestID,
                          platformStartRequestID >>
    BY <1>9 DEF B!OnShutdown
  <2> DEFINE owed == {r \in done : B!NeedProxyTransaction(invocations[r])}
             debt == {r \in done : BP!NeedProxyTransaction(invocations[r])}
             lines(k, order) ==
                [i \in 1..k |-> B!ProxyTxn(invocations[order[i]].TransactionID)]
  <2>2. owed = debt
    BY <1>1
  <2>3. B!Cardinality(owed) = BP!Cardinality(debt)
    BY <1>4, <2>2
  <2>4. PICK order \in B!Bijection(1..B!Cardinality(owed), owed) :
           B!AddLines(buf, lines(B!Cardinality(owed), order))
    BY <2>1
  <2> HIDE DEF owed, debt
  <2>5. order \in BP!Bijection(1..BP!Cardinality(debt), debt)
    BY <1>5, <2>2, <2>3, <2>4
  <2>6. BP!AddLines(buf, lines(BP!Cardinality(debt), order))
    BY <1>6, <2>3, <2>4
  <2>7. lines(BP!Cardinality(debt), order)
          = [i \in 1..BP!Cardinality(debt) |->
                BP!ProxyTxn(invocations[order[i]].TransactionID)]
    BY <1>7
  <2> HIDE DEF lines
  <2>8. BP!AddLines(buf, [i \in 1..BP!Cardinality(debt) |->
                BP!ProxyTxn(invocations[order[i]].TransactionID)])
    BY <2>6, <2>7
  <2> QED
    BY <1>2, <1>3, <1>8, <2>1, <2>5, <2>8 DEF BP!OnShutdown, debt
<1> QED
  BY <1>9

LEMMA SameNext == [B!Next]_(B!batchVars) => [BP!Next]_(BP!batchVars)
<1> USE DEF B!batchVars, BP!batchVars, B!bufferVars, BP!bufferVars,
            B!Tracked, BP!Tracked, B!Lookup, BP!Lookup, B!Put, BP!Put,
            B!NewInvocation, BP!NewInvocation,
            B!NeedProxyTransaction, BP!NeedProxyTransaction,
            B!AddLines, BP!AddLines, B!BatchFull, BP!BatchFull,
            B!MetadataLine, BP!MetadataLine,
            B!AgentTxn, BP!AgentTxn, B!ProxyTxn, BP!ProxyTxn
<1>1. \A r : B!RegisterInvocation(r) <=> BP!RegisterInvocation(r)
  BY DEF B!RegisterInvocation, BP!RegisterInvocation
<1>2. \A r : B!OnLambdaLogRuntimeDone(r) <=> BP!OnLambdaLogRuntimeDone(r)
  BY DEF B!OnLambdaLogRuntimeDone, BP!OnLambdaLogRuntimeDone
<1>3. \A r : B!OnPlatformStart(r) <=> BP!OnPlatformStart(r)
  BY DEF B!OnPlatformStart, BP!OnPlatformStart
<1>4. \A r : B!OnPlatformReport(r) <=> BP!OnPlatformReport(r)
  BY DEF B!OnPlatformReport, BP!OnPlatformReport, B!Restrict, BP!Restrict
<1>5. \A r, t, m : B!OnAgentInit(r, t, m) <=> BP!OnAgentInit(r, t, m)
  BY DEF B!OnAgentInit, BP!OnAgentInit
<1>6. \A line : B!AddLambdaData(line) <=> BP!AddLambdaData(line)
  BY DEF B!AddLambdaData, BP!AddLambdaData
<1>7. \A events : B!AddAgentData(events) <=> BP!AddAgentData(events)
  BY DEF B!AddAgentData, BP!AddAgentData
<1>8. B!OnShutdown => BP!OnShutdown
  BY SameShutdown
<1>9. (B!Reset <=> BP!Reset) /\ (B!Mature <=> BP!Mature)
  BY DEF B!Reset, BP!Reset, B!Mature, BP!Mature
<1>10. B!LambdaEvent = BP!LambdaEvent
  BY DEF B!LambdaEvent, BP!LambdaEvent
<1> HIDE DEF B!batchVars, BP!batchVars
<1>11. B!Next => BP!Next
  BY <1>1, <1>2, <1>3, <1>4, <1>5, <1>6, <1>7, <1>8, <1>9, <1>10
     DEF B!Next, BP!Next
<1> QED
  BY <1>11 DEF B!batchVars, BP!batchVars

LEMMA SameSpec == B!Spec => BP!Spec
  BY SameInit, SameNext, PTL DEF B!Spec, BP!Spec


-----------------------------------------------------------------------------
\* The types on which the calls of the batch rest.

LogEvent == [kind : LogTypes, id : ReqIDs]

ChannelInv ==
    /\ AgentDataChannel \in Seq({AgentBody(r) : r \in ReqIDs})
    /\ LambdaDataChannel \in Seq(B!LambdaEvent)
    /\ logsChannel \in Seq(LogEvent)
    /\ held \in [{0} \cup Events -> B!LambdaEvent \cup LogEvent \cup {Nothing, SizeCheck}]

\* The Logs API goes through the log events of the requests in their order.
LogPostInv ==
    /\ answered \in Nat /\ delivered \in Nat
    /\ posted \in 0 .. NumRequests * Len(LogEvents)
    /\ answered <= delivered /\ delivered <= posted

StartInv == platformStartRequestID \in ReqIDs \cup {None}

InvokedInv == invoked \in 0..NumRequests /\ event \in 0..Shutdown

TypeInv == ChannelInv /\ LogPostInv /\ StartInv /\ InvokedInv

\* The i-th of all log events is one of the log events of a request.
LEMMA LogEventAtType ==
    ASSUME NEW i \in 1 .. NumRequests * Len(LogEvents)
    PROVE  LogEventAt(i) \in LogEvent
<1> DEFINE n == Len(LogEvents)
           k == (i - 1) \div n
           j == (i - 1) % n
<1>1. NumRequests \in Nat /\ n \in Nat /\ i \in Nat /\ i >= 1 /\ i <= NumRequests * n
  <2>1. n \in Nat
    BY LenProperties
  <2>2. NumRequests * n \in Nat
    BY <2>1
  <2> QED
    BY <2>1, <2>2
<1> HIDE DEF n
<1>2. n > 0
  BY <1>1, Z3
<1>3. j \in 0..n-1
  BY <1>1, <1>2
<1>4. LogEvents[j + 1] \in LogTypes
  BY <1>1, <1>3, LenProperties DEF n
<1>5. k \in Nat /\ i - 1 = n * k + j
  BY <1>1, <1>2
<1>6. k + 1 <= NumRequests
  <2> SUFFICES ASSUME k >= NumRequests PROVE FALSE
    BY <1>1, <1>5
  <2> HIDE DEF k, j
  <2>1. n * k >= NumRequests * n
    BY <1>1, <1>2, <1>5, Z3
  <2> QED
    BY <2>1, <1>1, <1>3, <1>5
<1>7. k + 1 \in ReqIDs
  BY <1>5, <1>6, <1>1 DEF ReqIDs
<1> QED
  BY <1>4, <1>7 DEF LogEventAt, LogEvent, n

\* What a log event yields is a line of the batch, or nothing.
LEMMA LineOfType ==
    ASSUME StartInv, NEW ev \in LogEvent
    PROVE  LineOf(ev) \in B!LambdaEvent \cup {Nothing}
BY DEF StartInv, LogEvent, LineOf, B!LambdaEvent

\* What is left to do with a log event that has been handled, or a line that has been
\* forwarded.
LEMMA AfterType ==
    ASSUME StartInv, NEW e, NEW ev \in LogEvent
    PROVE  /\ AfterHandling(e, ev) \in B!LambdaEvent \cup {Nothing, SizeCheck}
           /\ \A line : AfterForwarding(e, line) \in {Nothing, SizeCheck}
BY LineOfType DEF AfterHandling, AfterForwarding, AfterReport

-----------------------------------------------------------------------------
\* The steps that do not call the batch.
Quiet ==
    \/ Invoke \/ FunctionEnds \/ Signal \/ ApiError
    \/ DeliverLog \/ DeliveryTimesOut
    \/ \E r \in ReqIDs : AgentSends(r) \/ AgentFlushes(r)
    \/ ForwarderStarts \/ ForwarderEnds
    \/ \E s \in Senders : Ship(s)
    \/ \E e \in Events : LogsEnd(e) \/ LogsTake(e) \/ LogsForward(e) \/ LogsCheckSize(e)
    \/ ReceiveShutdown \/ AgentDone \/ LogsDone \/ TimerExpires
    \/ NextCancelled
    \/ Wait \/ FlushTakeLog \/ FlushCheckSize \/ FlushLogsDone
    \/ FlushStarts \/ FlushRest \/ FlushEnds \/ FlushGivesUp
    \/ GraceOver \/ Exited

LEMMA QuietIsQuiet == Quiet => UNCHANGED batchVars
<1> SUFFICES ASSUME Quiet PROVE UNCHANGED batchVars
  OBVIOUS
<1>1. CASE Invoke \/ FunctionEnds \/ Signal \/ ApiError
  BY <1>1 DEF Invoke, FunctionEnds, Signal, ApiError, NextFails
<1>2. CASE DeliverLog \/ DeliveryTimesOut
  BY <1>2 DEF DeliverLog, DeliveryTimesOut, LogHandlerControl
<1>3. CASE \E r \in ReqIDs : AgentSends(r) \/ AgentFlushes(r)
  BY <1>3 DEF AgentSends, AgentFlushes
<1>4. CASE ForwarderStarts \/ ForwarderEnds
  BY <1>4 DEF ForwarderStarts, ForwarderEnds, ForwarderControl
<1>5. CASE \E s \in Senders : Ship(s)
  BY <1>5 DEF Ship
<1>6. CASE \E e \in Events : LogsEnd(e) \/ LogsTake(e) \/ LogsForward(e) \/ LogsCheckSize(e)
  BY <1>6 DEF LogsEnd, LogsTake, Takes, LogsForward, LogsCheckSize, ChecksSize
<1>7. CASE ReceiveShutdown \/ AgentDone \/ LogsDone \/ TimerExpires
  BY <1>7 DEF ReceiveShutdown, AgentDone, LogsDone, TimerExpires, Return
<1>8. CASE NextCancelled \/ GraceOver \/ Exited
  BY <1>8 DEF NextCancelled, NextFails, GraceOver, Exited, vars
<1>9. CASE Wait \/ FlushTakeLog \/ FlushCheckSize \/ FlushLogsDone
  BY <1>9 DEF Wait, FlushTakeLog, Takes, FlushCheckSize, ChecksSize, FlushLogsDone
<1>10. CASE FlushStarts \/ FlushRest \/ FlushEnds \/ FlushGivesUp
  BY <1>10 DEF FlushStarts, FlushRest, FlushEnds, FlushGivesUp
<1> QED
  BY <1>1, <1>2, <1>3, <1>4, <1>5, <1>6, <1>7, <1>8, <1>9, <1>10 DEF Quiet

\* The steps that call it.
Calls ==
    \/ \E r \in ReqIDs : AgentInit(r)
    \/ \E s \in Senders, result \in PostResults : PostReturns(s, result)
    \/ ForwardAgentData \/ ForwardLambdaData
    \/ \E e \in Events : LogsHandle(e)
    \/ ReceiveInvoke
    \/ FlushHandleLog \/ FlushForwardLog
    \/ FlushAgentData \/ FlushLambdaData
    \/ FinalizeAll
    \/ Mature

LEMMA NextSplits == Next => Quiet \/ Calls
  BY DEF Next, ForwarderGoroutine, LogsGoroutine, EventLoop, Send, Senders,
         Quiet, Calls

LEMMA HandleLogIsACall ==
    ASSUME NEW ev \in LogEvent, HandleLog(ev)
    PROVE  [B!Next]_(B!batchVars)
<1>1. ev.id \in ReqIDs /\ ev.kind \in LogTypes
  BY DEF LogEvent
<1>2. CASE ev.kind = "start"
  BY <1>1, <1>2 DEF HandleLog, B!Next
<1>3. CASE ev.kind = "function"
  BY <1>3 DEF HandleLog, batchVars, B!batchVars
<1>4. CASE ev.kind = "runtimeDone"
  BY <1>1, <1>4 DEF HandleLog, B!Next
<1>5. CASE ev.kind = "report"
  BY <1>1, <1>5 DEF HandleLog, B!Next
<1> QED
  BY <1>1, <1>2, <1>3, <1>4, <1>5 DEF LogTypes

\* A log event that is about to be handled is one, and a line one.
LEMMA HeldTypes ==
    ASSUME ChannelInv, NEW p \in {0} \cup Events
    PROVE  /\ held[p].kind \in LogTypes => held[p] \in LogEvent
           /\ Forwarding(p) => held[p] \in B!LambdaEvent
BY DEF ChannelInv, Forwarding, LogEvent, LogTypes, B!LambdaEvent, Nothing, SizeCheck

\* What a call hands to the batch is what the batch may be handed.
LEMMA CallsAreCalls ==
    ASSUME TypeInv, Calls PROVE [B!Next]_(B!batchVars)
<1>1. CASE \E r \in ReqIDs : AgentInit(r)
  BY <1>1 DEF AgentInit, B!Next
<1>2. CASE \E s \in Senders, result \in PostResults : PostReturns(s, result)
  BY <1>2 DEF PostReturns, ResetAfter, B!Next
<1>3. ASSUME NEW s \in Senders, ReceiveAgentData(s) PROVE B!Next
  <2>1. Head(AgentDataChannel) \in {AgentBody(r) : r \in ReqIDs}
    BY <1>3, HeadTailProperties DEF ReceiveAgentData, TypeInv, ChannelInv
  <2> QED
    BY <1>3, <2>1 DEF ReceiveAgentData, B!Next
<1>4. ASSUME NEW s \in Senders, ReceiveLambdaData(s) PROVE B!Next
  <2>1. Head(LambdaDataChannel) \in B!LambdaEvent
    BY <1>4, HeadTailProperties DEF ReceiveLambdaData, TypeInv, ChannelInv
  <2> QED
    BY <1>4, <2>1 DEF ReceiveLambdaData, B!Next
<1>5. CASE ForwardAgentData \/ ForwardLambdaData
  BY <1>3, <1>4, <1>5 DEF ForwardAgentData, ForwardLambdaData, Senders
<1>6. CASE FlushAgentData \/ FlushLambdaData
  BY <1>3, <1>4, <1>6 DEF FlushAgentData, FlushLambdaData, Senders
<1>7. CASE \E e \in Events : LogsHandle(e)
  BY <1>7, HeldTypes, HandleLogIsACall DEF LogsHandle, Handles, TypeInv
<1>8. CASE FlushHandleLog
  BY <1>8, HeldTypes, HandleLogIsACall DEF FlushHandleLog, Handles, TypeInv
<1>9. CASE FlushForwardLog
  BY <1>9, HeldTypes DEF FlushForwardLog, TypeInv, B!Next
<1>10. CASE ReceiveInvoke
  <2>1. invoked \in ReqIDs
    BY <1>10 DEF ReceiveInvoke, TypeInv, InvokedInv, ReqIDs, Shutdown
  <2> QED
    BY <1>10, <2>1 DEF ReceiveInvoke, B!Next
<1>11. CASE FinalizeAll
  BY <1>11 DEF FinalizeAll, B!Next
<1>12. CASE Mature
  BY <1>12 DEF Mature, B!Next
<1> QED
  BY <1>1, <1>2, <1>5, <1>6, <1>7, <1>8, <1>9, <1>10, <1>11, <1>12 DEF Calls

\* A step of the extension is a step of the batch or leaves it alone.
LEMMA BatchStep ==
    ASSUME TypeInv, [Next]_vars PROVE [B!Next]_(B!batchVars)
<1>1. UNCHANGED batchVars => UNCHANGED B!batchVars
  BY DEF batchVars, B!batchVars
<1>2. CASE UNCHANGED vars
  BY <1>1, <1>2 DEF vars
<1>3. CASE Quiet
  BY <1>1, <1>3, QuietIsQuiet
<1>4. CASE Calls
  BY <1>4, CallsAreCalls
<1> QED
  BY <1>2, <1>3, <1>4, NextSplits


-----------------------------------------------------------------------------
\* The types are kept.

\* Only OnPlatformStart sets the request that function logs are given to.
LEMMA StartStep == ASSUME StartInv, [B!Next]_(B!batchVars) PROVE StartInv'
<1>1. CASE UNCHANGED B!batchVars
  BY <1>1 DEF B!batchVars, StartInv
<1>2. ASSUME NEW r \in ReqIDs,
             \/ B!RegisterInvocation(r) \/ B!OnLambdaLogRuntimeDone(r)
             \/ B!OnPlatformStart(r) \/ B!OnPlatformReport(r)
      PROVE  StartInv'
  BY <1>2 DEF StartInv, B!RegisterInvocation, B!OnLambdaLogRuntimeDone,
              B!OnPlatformStart, B!OnPlatformReport, B!batchVars, B!bufferVars
<1>3. ASSUME NEW r, NEW t, NEW m, B!OnAgentInit(r, t, m) PROVE StartInv'
  BY <1>3 DEF StartInv, B!OnAgentInit
<1>4. ASSUME NEW line, B!AddLambdaData(line) PROVE StartInv'
  BY <1>4 DEF StartInv, B!AddLambdaData, B!batchVars
<1>5. ASSUME NEW events, B!AddAgentData(events) PROVE StartInv'
  BY <1>5 DEF StartInv, B!AddAgentData, B!batchVars
<1>6. CASE B!OnShutdown \/ B!Reset \/ B!Mature
  BY <1>6 DEF StartInv, B!OnShutdown, B!Reset, B!Mature
<1> QED
  BY <1>1, <1>2, <1>3, <1>4, <1>5, <1>6 DEF B!Next

\* The Logs API posts on from where it was, or again from where it was answered.
LEMMA LogPostStep ==
    ASSUME LogPostInv, [Next]_vars PROVE LogPostInv'
<1>1. CASE UNCHANGED logPostVars
  BY <1>1 DEF LogPostInv, logPostVars
<1>2. CASE DeliverLog
  <2>1. PICK end \in BatchEnds :
          /\ posted' = end
          /\ \/ /\ delivered' = delivered + 1
                /\ answered' = IF delivered + 1 = end THEN end ELSE answered
             \/ /\ delivered + 1 = end
                /\ delivered' = answered
                /\ answered' = answered
    BY <1>2 DEF DeliverLog
  <2>2. NumRequests * Len(LogEvents) \in Nat
    <3>1. Len(LogEvents) \in Nat
      BY LenProperties
    <3> QED
      BY <3>1
  <2>3. end \in 0 .. NumRequests * Len(LogEvents) /\ delivered < end
    BY <2>2 DEF BatchEnds, LogPostInv
  <2> HIDE DEF LogPostInv
  <2>4. CASE delivered' = delivered + 1
    BY <2>1, <2>2, <2>3, <2>4 DEF LogPostInv
  <2>5. CASE delivered' = answered
    BY <2>1, <2>2, <2>3, <2>5 DEF LogPostInv
  <2> QED
    BY <2>1, <2>4, <2>5
<1>3. CASE DeliveryTimesOut
  BY <1>3 DEF DeliveryTimesOut, LogPostInv
<1>4. CASE Quiet /\ ~DeliverLog /\ ~DeliveryTimesOut
  <2> USE DEF platformVars
  <2>1. CASE Invoke \/ FunctionEnds \/ Signal \/ ApiError
    BY <1>1, <2>1 DEF Invoke, FunctionEnds, Signal, ApiError, NextFails
  <2>2. CASE \E r \in ReqIDs : AgentSends(r) \/ AgentFlushes(r)
    BY <1>1, <2>2 DEF AgentSends, AgentFlushes
  <2>3. CASE ForwarderStarts \/ ForwarderEnds \/ \E s \in Senders : Ship(s)
    BY <1>1, <2>3 DEF ForwarderStarts, ForwarderEnds, ForwarderControl, Ship
  <2>4. CASE \E e \in Events : LogsEnd(e) \/ LogsTake(e) \/ LogsForward(e) \/ LogsCheckSize(e)
    BY <1>1, <2>4 DEF LogsEnd, LogsTake, Takes, LogsForward, LogsCheckSize, ChecksSize
  <2>5. CASE ReceiveShutdown \/ AgentDone \/ LogsDone \/ TimerExpires
    BY <1>1, <2>5 DEF ReceiveShutdown, AgentDone, LogsDone, TimerExpires, Return
  <2>6. CASE NextCancelled \/ GraceOver \/ Exited
    BY <1>1, <2>6 DEF NextCancelled, NextFails, GraceOver, Exited, vars
  <2>7. CASE Wait \/ FlushTakeLog \/ FlushCheckSize \/ FlushLogsDone
    BY <1>1, <2>7 DEF Wait, NextRound, Goto, LocalStep, FlushTakeLog, Takes,
                      FlushCheckSize, ChecksSize, FlushLogsDone
  <2>8. CASE FlushStarts \/ FlushRest \/ FlushEnds \/ FlushGivesUp
    BY <1>1, <2>8 DEF FlushStarts, FlushRest, FlushEnds, FlushGivesUp, AfterFlush,
                      NextRound, Goto, LocalStep
  <2> QED
    BY <1>4, <2>1, <2>2, <2>3, <2>4, <2>5, <2>6, <2>7, <2>8 DEF Quiet
<1>5. CASE Calls
  <2> USE DEF platformVars
  <2>1. CASE \/ \E r \in ReqIDs : AgentInit(r)
             \/ \E s \in Senders, result \in PostResults : PostReturns(s, result)
    BY <1>1, <2>1 DEF AgentInit, PostReturns
  <2>2. CASE \/ ForwardAgentData \/ ForwardLambdaData
             \/ FlushAgentData \/ FlushLambdaData
    BY <1>1, <2>2 DEF ForwardAgentData, ForwardLambdaData, FlushAgentData,
                      FlushLambdaData, ReceiveAgentData, ReceiveLambdaData
  <2>3. CASE (\E e \in Events : LogsHandle(e)) \/ FlushHandleLog \/ FlushForwardLog
    BY <1>1, <2>3 DEF LogsHandle, FlushHandleLog, Handles, FlushForwardLog
  <2>4. CASE ReceiveInvoke \/ FinalizeAll \/ Mature
    BY <1>1, <2>4 DEF ReceiveInvoke, FinalizeAll, LocalStep, Mature
  <2> QED
    BY <1>5, <2>1, <2>2, <2>3, <2>4 DEF Calls
<1>6. CASE UNCHANGED vars
  BY <1>1, <1>6 DEF vars, platformVars
<1> QED
  BY <1>2, <1>3, <1>4, <1>5, <1>6, NextSplits


\* A request is invoked when the last one has been received, and an event received
\* is that request or, after it, SHUTDOWN.
LEMMA InvokedStep ==
    ASSUME InvokedInv, [Next]_vars PROVE InvokedInv'
<1>1. CASE UNCHANGED << invoked, event >>
  BY <1>1 DEF InvokedInv
<1>2. CASE Quiet
  <2>1. CASE Invoke \/ FunctionEnds \/ Signal \/ ApiError
    BY <2>1 DEF Invoke, FunctionEnds, Signal, ApiError, NextFails, InvokedInv,
                loopVars, platformVars
  <2>2. CASE DeliverLog \/ DeliveryTimesOut
    BY <1>1, <2>2 DEF DeliverLog, DeliveryTimesOut, LogHandlerControl, loopVars
  <2>3. CASE \E r \in ReqIDs : AgentSends(r) \/ AgentFlushes(r)
    BY <1>1, <2>3 DEF AgentSends, AgentFlushes, loopVars, platformVars
  <2>4. CASE ForwarderStarts \/ ForwarderEnds \/ \E s \in Senders : Ship(s)
    BY <1>1, <2>4 DEF ForwarderStarts, ForwarderEnds, ForwarderControl, Ship,
                      loopVars, platformVars
  <2>5. CASE \E e \in Events : LogsEnd(e) \/ LogsTake(e) \/ LogsForward(e) \/ LogsCheckSize(e)
    BY <1>1, <2>5 DEF LogsEnd, LogsTake, Takes, LogsForward, LogsCheckSize, ChecksSize,
                      loopVars, platformVars
  <2>6. CASE ReceiveShutdown
    BY <2>6 DEF ReceiveShutdown, InvokedInv, Shutdown, platformVars
  <2>7. CASE AgentDone \/ LogsDone \/ TimerExpires
    BY <1>1, <2>7 DEF AgentDone, LogsDone, TimerExpires, Return, platformVars
  <2>8. CASE NextCancelled \/ GraceOver \/ Exited
    BY <1>1, <2>8 DEF NextCancelled, NextFails, GraceOver, Exited, vars, loopVars,
                      platformVars
  <2>9. CASE Wait \/ FlushTakeLog \/ FlushCheckSize \/ FlushLogsDone
    BY <1>1, <2>9 DEF Wait, NextRound, Goto, LocalStep, FlushTakeLog, Takes,
                      FlushCheckSize, ChecksSize, FlushLogsDone, loopVars, platformVars
  <2>10. CASE FlushStarts \/ FlushRest \/ FlushEnds \/ FlushGivesUp
    BY <1>1, <2>10 DEF FlushStarts, FlushRest, FlushEnds, FlushGivesUp, AfterFlush,
                       NextRound, Goto, LocalStep, platformVars
  <2> QED
    BY <1>2, <2>1, <2>2, <2>3, <2>4, <2>5, <2>6, <2>7, <2>8, <2>9, <2>10 DEF Quiet
<1>3. CASE Calls
  <2> USE DEF loopVars, platformVars
  <2>1. CASE \/ \E r \in ReqIDs : AgentInit(r)
             \/ \E s \in Senders, result \in PostResults : PostReturns(s, result)
    BY <1>1, <2>1 DEF AgentInit, PostReturns
  <2>2. CASE \/ ForwardAgentData \/ ForwardLambdaData
             \/ FlushAgentData \/ FlushLambdaData
    BY <1>1, <2>2 DEF ForwardAgentData, ForwardLambdaData, FlushAgentData,
                      FlushLambdaData, ReceiveAgentData, ReceiveLambdaData
  <2>3. CASE \E e \in Events : LogsHandle(e)
    BY <1>1, <2>3 DEF LogsHandle, Handles
  <2>4. CASE FlushHandleLog \/ FlushForwardLog
    BY <1>1, <2>4 DEF FlushHandleLog, Handles, FlushForwardLog
  <2>5. CASE ReceiveInvoke
    BY <2>5 DEF ReceiveInvoke, InvokedInv, Shutdown
  <2>6. CASE FinalizeAll \/ Mature
    BY <1>1, <2>6 DEF FinalizeAll, LocalStep, Mature
  <2> QED
    BY <1>3, <2>1, <2>2, <2>3, <2>4, <2>5, <2>6 DEF Calls
<1>4. CASE UNCHANGED vars
  BY <1>1, <1>4 DEF vars, loopVars, platformVars
<1> QED
  BY <1>2, <1>3, <1>4, NextSplits

\* What is put into a channel is of its type, and what is taken out leaves the rest.
LEMMA ChannelStep ==
    ASSUME TypeInv, [Next]_vars PROVE ChannelInv'
<1> USE DEF TypeInv
<1> DEFINE Bodies == {AgentBody(r) : r \in ReqIDs}
           Held == B!LambdaEvent \cup LogEvent \cup {Nothing, SizeCheck}
<1>1. CASE UNCHANGED << channelVars, held >>
  BY <1>1 DEF ChannelInv, channelVars
<1>2. ASSUME NEW p \in {0} \cup Events, NEW x \in Held,
             held' = [held EXCEPT ![p] = x]
      PROVE  held' \in [{0} \cup Events -> Held]
  BY <1>2 DEF ChannelInv
<1> HIDE DEF Held, Bodies
<1>3. ASSUME NEW p \in {0} \cup Events, Takes(p) PROVE ChannelInv'
  <2>1. Head(logsChannel) \in LogEvent /\ Tail(logsChannel) \in Seq(LogEvent)
    BY <1>3, HeadTailProperties DEF Takes, ChannelInv
  <2>2. held' \in [{0} \cup Events -> Held]
    BY <1>2, <1>3, <2>1 DEF Takes, Held
  <2> QED
    BY <1>3, <2>1, <2>2 DEF Takes, ChannelInv, Held
<1>4. ASSUME NEW p \in {0} \cup Events, Handles(p) PROVE ChannelInv'
  <2>1. held[p] \in LogEvent
    BY <1>4, HeldTypes DEF Handles
  <2>2. AfterHandling(EventOf(p), held[p]) \in Held
    BY <2>1, AfterType DEF Held
  <2>3. held' \in [{0} \cup Events -> Held]
    BY <1>2, <1>4, <2>2 DEF Handles
  <2> QED
    BY <1>4, <2>3 DEF Handles, ChannelInv, Held, channelVars
<1>5. ASSUME NEW s \in Senders, ReceiveAgentData(s) PROVE ChannelInv'
  <2>1. Tail(AgentDataChannel) \in Seq(Bodies)
    BY <1>5, HeadTailProperties DEF ReceiveAgentData, ChannelInv, Bodies
  <2> QED
    BY <1>5, <2>1 DEF ReceiveAgentData, ChannelInv, Bodies, logVars
<1>6. ASSUME NEW s \in Senders, ReceiveLambdaData(s) PROVE ChannelInv'
  <2>1. Tail(LambdaDataChannel) \in Seq(B!LambdaEvent)
    BY <1>6, HeadTailProperties DEF ReceiveLambdaData, ChannelInv
  <2> QED
    BY <1>6, <2>1 DEF ReceiveLambdaData, ChannelInv, logVars
<1>7. CASE Quiet
  <2>1. CASE Invoke \/ FunctionEnds \/ Signal \/ ApiError
    BY <1>1, <2>1 DEF Invoke, FunctionEnds, Signal, ApiError, NextFails, logVars
  <2>2. CASE DeliverLog
    <3>1. delivered + 1 \in 1 .. NumRequests * Len(LogEvents)
      <4>1. PICK end \in BatchEnds : posted' = end
        BY <2>2 DEF DeliverLog
      <4>2. delivered < end /\ end = posted'
        BY <4>1 DEF BatchEnds, LogPostInv
      <4>3. posted' \in 0 .. NumRequests * Len(LogEvents) /\ delivered \in Nat
        BY LogPostStep DEF LogPostInv
      <4> HIDE DEF TypeInv
      <4> QED
        BY <4>2, <4>3
    <3>2. LogEventAt(delivered + 1) \in LogEvent
      BY <3>1, LogEventAtType
    <3>3. logsChannel' \in Seq(LogEvent)
      BY <2>2, <3>2, AppendProperties DEF DeliverLog, ChannelInv
    <3> QED
      BY <2>2, <3>3 DEF DeliverLog, LogHandlerControl, ChannelInv, logVars
  <2>3. CASE DeliveryTimesOut
    BY <1>1, <2>3 DEF DeliveryTimesOut, LogHandlerControl, logVars, channelVars
  <2>4. ASSUME NEW r \in ReqIDs, AgentSends(r) PROVE ChannelInv'
    <3>1. AgentBody(r) \in Bodies
      BY DEF Bodies
    <3>2. AgentDataChannel' \in Seq(Bodies)
      BY <2>4, <3>1, AppendProperties DEF AgentSends, ChannelInv, Bodies
    <3> QED
      BY <2>4, <3>2 DEF AgentSends, ChannelInv, Bodies, logVars
  <2>5. CASE \E r \in ReqIDs : AgentFlushes(r)
    BY <1>1, <2>5 DEF AgentFlushes, logVars
  <2>6. CASE ForwarderStarts \/ ForwarderEnds \/ \E s \in Senders : Ship(s)
    BY <1>1, <2>6 DEF ForwarderStarts, ForwarderEnds, ForwarderControl, Ship, logVars
  <2>7. CASE \E e \in Events : LogsEnd(e)
    BY <1>1, <2>7 DEF LogsEnd
  <2>8. CASE \E e \in Events : LogsTake(e)
    BY <1>3, <2>8 DEF LogsTake
  <2>9. ASSUME NEW e \in Events, LogsForward(e) PROVE ChannelInv'
    <3>1. held[e] \in B!LambdaEvent
      BY <2>9, HeldTypes DEF LogsForward
    <3>2. LambdaDataChannel' \in Seq(B!LambdaEvent)
      <4>1. LambdaDataChannel \in Seq(B!LambdaEvent)
        BY DEF ChannelInv
      <4>2. Append(LambdaDataChannel, held[e]) \in Seq(B!LambdaEvent)
        BY <3>1, <4>1, AppendProperties
      <4> QED
        BY <2>9, <4>1, <4>2 DEF LogsForward
    <3>3. held' \in [{0} \cup Events -> Held]
      BY <1>2, <2>9 DEF LogsForward, AfterForwarding, AfterReport, Held
    <3> QED
      BY <2>9, <3>2, <3>3 DEF LogsForward, ChannelInv, Held
  <2>10. CASE ReceiveShutdown \/ AgentDone \/ LogsDone \/ TimerExpires
    BY <1>1, <2>10 DEF ReceiveShutdown, AgentDone, LogsDone, TimerExpires, Return,
                       logVars
  <2>11. CASE NextCancelled \/ GraceOver \/ Exited
    BY <1>1, <2>11 DEF NextCancelled, NextFails, GraceOver, Exited, vars, logVars
  <2>12. CASE FlushTakeLog
    BY <1>3, <2>12 DEF FlushTakeLog
  <2>13. CASE Wait \/ FlushLogsDone
    BY <1>1, <2>13 DEF Wait, NextRound, Goto, LocalStep, FlushLogsDone, logVars
  <2>15. CASE FlushCheckSize \/ \E e \in Events : LogsCheckSize(e)
    <3>1. ASSUME NEW p \in {0} \cup Events, ChecksSize(p) PROVE ChannelInv'
      <4>1. held' \in [{0} \cup Events -> Held]
        BY <1>2, <3>1 DEF ChecksSize, Held
      <4> QED
        BY <3>1, <4>1 DEF ChecksSize, ChannelInv, Held, channelVars
    <3> QED
      BY <2>15, <3>1 DEF FlushCheckSize, LogsCheckSize
  <2>14. CASE FlushStarts \/ FlushRest \/ FlushEnds \/ FlushGivesUp
    BY <1>1, <2>14 DEF FlushStarts, FlushRest, FlushEnds, FlushGivesUp, AfterFlush,
                       NextRound, Goto, LocalStep, logVars
  <2> QED
    BY <1>7, <2>1, <2>2, <2>3, <2>4, <2>5, <2>6, <2>7, <2>8, <2>9, <2>10, <2>11,
       <2>12, <2>13, <2>14, <2>15 DEF Quiet
<1>8. CASE Calls
  <2>1. CASE \/ \E r \in ReqIDs : AgentInit(r)
             \/ \E s \in Senders, result \in PostResults : PostReturns(s, result)
    BY <1>1, <2>1 DEF AgentInit, PostReturns, logVars
  <2>2. CASE ForwardAgentData \/ FlushAgentData
    BY <1>5, <2>2 DEF ForwardAgentData, FlushAgentData, Senders
  <2>3. CASE ForwardLambdaData \/ FlushLambdaData
    BY <1>6, <2>3 DEF ForwardLambdaData, FlushLambdaData, Senders
  <2>4. CASE (\E e \in Events : LogsHandle(e)) \/ FlushHandleLog
    BY <1>4, <2>4 DEF LogsHandle, FlushHandleLog
  <2>5. CASE FlushForwardLog
    BY <1>2, <2>5 DEF FlushForwardLog, AfterForwarding, AfterReport, ChannelInv, Held,
                      channelVars
  <2>6. CASE ReceiveInvoke \/ FinalizeAll \/ Mature
    BY <1>1, <2>6 DEF ReceiveInvoke, FinalizeAll, LocalStep, Mature, StartGoroutines,
                      logVars
  <2> QED
    BY <1>8, <2>1, <2>2, <2>3, <2>4, <2>5, <2>6 DEF Calls
<1>9. CASE UNCHANGED vars
  BY <1>1, <1>9 DEF vars, logVars
<1> QED
  BY <1>7, <1>8, <1>9, NextSplits


LEMMA InitTypeInv == Init => TypeInv
<1> SUFFICES ASSUME Init PROVE TypeInv
  OBVIOUS
<1>1. ChannelInv
  <2>1. \A S : << >> \in Seq(S)
    BY EmptySeq
  <2> QED
    BY <2>1 DEF Init, ChannelInv
<1>2. LogPostInv
  <2>1. Len(LogEvents) \in Nat
    BY LenProperties
  <2> QED
    BY <2>1 DEF Init, LogPostInv
<1>3. StartInv /\ InvokedInv
  BY DEF Init, B!Init, StartInv, InvokedInv, Shutdown
<1> QED
  BY <1>1, <1>2, <1>3 DEF TypeInv

LEMMA TypeInvariance == Spec => []TypeInv
<1>1. TypeInv /\ [Next]_vars => TypeInv'
  BY BatchStep, StartStep, LogPostStep, InvokedStep, ChannelStep DEF TypeInv
<1> QED
  BY <1>1, InitTypeInv, PTL DEF Spec

\* Whatever the goroutines do, the batch of the extension goes through a behaviour
\* of Batch: no call is made with something else than Batch allows, none is cut in
\* two by another goroutine, and nothing but a call changes it.
THEOREM BatchIsImplemented == Spec => ImplementsBatch
<1>1. Init => B!Init
  BY DEF Init
<1>2. TypeInv /\ [Next]_vars => [B!Next]_(B!batchVars)
  BY BatchStep
<1> QED
  BY <1>1, <1>2, TypeInvariance, PTL DEF Spec, ImplementsBatch, B!Spec

\* So that what BatchProofs proves of a batch holds of it.
LEMMA BatchInvariants == Spec => [](B!TypeOK /\ B!BufferFraming)
<1>1. BP!Spec => []BP!TypeOK
  BY BP!TypeCorrect, BatchAssumptionHolds, PTL DEF BP!BatchAssumption
<1>2. BP!Spec => []BP!BufferFraming
  BY BP!FramingCorrect, BatchAssumptionHolds, PTL DEF BP!BatchAssumption
<1>3. BP!TypeOK => B!TypeOK
  BY DEF B!TypeOK, BP!TypeOK, B!Tracked, BP!Tracked, B!Invocation, BP!Invocation,
         B!Line, BP!Line, B!EventLine, BP!EventLine, B!EventKinds, BP!EventKinds,
         B!MetadataLine, BP!MetadataLine
<1>4. BP!BufferFraming => B!BufferFraming
  BY DEF B!BufferFraming, BP!BufferFraming, B!MetadataLine, BP!MetadataLine
<1> QED
  BY <1>1, <1>2, <1>3, <1>4, SameSpec, BatchIsImplemented, PTL DEF ImplementsBatch


-----------------------------------------------------------------------------
\* The event loop and the forwarder take turns.

\* The forwarder of an event is at work only while the loop is in that event, and
\* the loop sends nothing before it has ended.
TurnsInv ==
    /\ main \in {"next", "select", "wait", "logs", "flush", "drain", "rest",
                 "onShutdown", "exited"}
    /\ forwarder \in {"off", "start", "select"}
    /\ ship \in [Senders -> {"no", "check", "force", "post"}]
    /\ forwarder # "select" => ship[Forwarder] = "no"
    /\ main \notin {"select", "wait"} => forwarder = "off"
    /\ main \in {"next", "select", "wait"} => ship[Main] = "no"

LEMMA TurnsStep == ASSUME TurnsInv, [Next]_vars PROVE TurnsInv'
<1> USE DEF TurnsInv, Senders, Forwarder, Main, loopVars, forwarderVars, sendVars,
           logVars
<1>1. CASE Quiet
  <2>1. CASE Invoke
    BY <2>1 DEF Invoke
  <2>2. CASE FunctionEnds \/ Signal
    BY <2>2 DEF FunctionEnds, Signal
  <2>3. CASE ApiError \/ NextCancelled
    BY <2>3 DEF ApiError, NextCancelled, NextFails
  <2>4. CASE DeliverLog \/ DeliveryTimesOut
    BY <2>4 DEF DeliverLog, DeliveryTimesOut, LogHandlerControl
  <2>5. CASE \E r \in ReqIDs : AgentSends(r)
    BY <2>5 DEF AgentSends
  <2>6. CASE \E r \in ReqIDs : AgentFlushes(r)
    BY <2>6 DEF AgentFlushes
  <2>7. CASE ForwarderStarts \/ ForwarderEnds
    BY <2>7 DEF ForwarderStarts, ForwarderEnds, ForwarderControl, Selecting
  <2>8. CASE \E s \in Senders : Ship(s)
    BY <2>8 DEF Ship
  <2>9. CASE \E e \in Events : LogsEnd(e) \/ LogsTake(e) \/ LogsForward(e) \/ LogsCheckSize(e)
    BY <2>9 DEF LogsEnd, LogsTake, Takes, LogsForward, LogsCheckSize, ChecksSize
  <2>10. CASE ReceiveShutdown
    BY <2>10 DEF ReceiveShutdown, StartGoroutines
  <2>11. CASE AgentDone \/ LogsDone \/ TimerExpires
    BY <2>11 DEF AgentDone, LogsDone, TimerExpires, Return
  <2>12. CASE Wait
    BY <2>12 DEF Wait, At, ForwarderDone, NextRound, Goto, LocalStep
  <2>13. CASE FlushTakeLog \/ FlushCheckSize \/ FlushLogsDone
    BY <2>13 DEF FlushTakeLog, Takes, FlushCheckSize, ChecksSize, FlushLogsDone, At,
                 Goto, LocalStep
  <2>14. CASE FlushStarts
    BY <2>14 DEF FlushStarts, At, AfterFlush, NextRound, Goto, LocalStep
  <2>15. CASE FlushRest \/ FlushEnds \/ FlushGivesUp
    BY <2>15 DEF FlushRest, FlushEnds, FlushGivesUp, At, AfterFlush, NextRound,
             Goto, LocalStep
  <2>16. CASE GraceOver \/ Exited
    BY <2>16 DEF GraceOver, Exited, vars
  <2> QED
    BY <1>1, <2>1, <2>2, <2>3, <2>4, <2>5, <2>6, <2>7, <2>8, <2>9, <2>10, <2>11,
       <2>12, <2>13, <2>14, <2>15, <2>16 DEF Quiet
<1>2. CASE Calls
  <2>1. CASE \E r \in ReqIDs : AgentInit(r)
    BY <2>1 DEF AgentInit
  <2>2. CASE \E s \in Senders, result \in PostResults : PostReturns(s, result)
    BY <2>2 DEF PostReturns
  <2>3. CASE ForwardAgentData \/ ForwardLambdaData
    BY <2>3 DEF ForwardAgentData, ForwardLambdaData, ReceiveAgentData,
            ReceiveLambdaData, Selecting
  <2>4. CASE \E e \in Events : LogsHandle(e)
    BY <2>4 DEF LogsHandle, Handles
  <2>5. CASE ReceiveInvoke
    BY <2>5 DEF ReceiveInvoke, StartGoroutines
  <2>6. CASE FlushHandleLog \/ FlushForwardLog
    BY <2>6 DEF FlushHandleLog, Handles, FlushForwardLog, At
  <2>7. CASE FlushAgentData
    BY <2>7 DEF FlushAgentData, ReceiveAgentData, At
  <2>8. CASE FlushLambdaData
    BY <2>8 DEF FlushLambdaData, ReceiveLambdaData, At
  <2>9. CASE FinalizeAll
    BY <2>9 DEF FinalizeAll, At, LocalStep
  <2>10. CASE Mature
    BY <2>10 DEF Mature
  <2> QED
    BY <1>2, <2>1, <2>2, <2>3, <2>4, <2>5, <2>6, <2>7, <2>8, <2>9, <2>10 DEF Calls
<1>3. CASE UNCHANGED vars
  BY <1>3 DEF vars
<1> QED
  BY <1>1, <1>2, <1>3, NextSplits

LEMMA TurnsInvariance == Spec => []TurnsInv
<1>1. Init => TurnsInv
  BY DEF Init, TurnsInv, Senders
<1>2. TurnsInv /\ [Next]_vars => TurnsInv'
  BY TurnsStep
<1> QED
  BY <1>1, <1>2, PTL DEF Spec

\* The batch and the transport have one sender at a time, though they are handed
\* from the event loop to a goroutine and back for every event.
THEOREM SendersTakeTurns == Spec => []OneSender
<1>1. TurnsInv => OneSender
  BY DEF TurnsInv, OneSender, Senders, Forwarder, Main
<1> QED
  BY <1>1, TurnsInvariance, PTL

\* While the loop drains the channel of agent data the forwarder is off.
DrainInv ==
    /\ flushLeft \in Nat
    /\ FlushFindsItsBodies

LEMMA DrainStep ==
    ASSUME TypeInv, TurnsInv, DrainInv, [Next]_vars PROVE DrainInv'
<1> DEFINE n == Len(AgentDataChannel)
<1> USE DEF loopVars, channelVars, logVars
<1>1. n \in Nat
  BY LenProperties DEF TypeInv, ChannelInv
<1>2. CASE UNCHANGED << main, flushLeft, AgentDataChannel >>
  BY <1>2 DEF DrainInv, FlushFindsItsBodies
<1>3. CASE flushLeft' \in Nat /\ main' # "drain"
  BY <1>3 DEF DrainInv, FlushFindsItsBodies
<1>4. CASE Quiet
  <2>1. CASE Invoke \/ FunctionEnds \/ Signal \/ ApiError \/ NextCancelled
    BY <1>2, <1>3, <2>1 DEF Invoke, FunctionEnds, Signal, ApiError, NextCancelled,
                            NextFails, DrainInv
  <2>2. CASE DeliverLog \/ DeliveryTimesOut
    BY <1>2, <2>2 DEF DeliverLog, DeliveryTimesOut, LogHandlerControl
  <2>3. ASSUME NEW r \in ReqIDs, AgentSends(r) PROVE DrainInv'
    <3>1. AgentBody(r) \in {AgentBody(q) : q \in ReqIDs}
      OBVIOUS
    <3>2. Len(Append(AgentDataChannel, AgentBody(r))) = n + 1
      BY <3>1, AppendProperties DEF TypeInv, ChannelInv
    <3>3. n' \in {n, n + 1}
      BY <2>3, <3>2 DEF AgentSends
    <3> HIDE DEF n
    <3> QED
      BY <1>1, <2>3, <3>3 DEF AgentSends, DrainInv, FlushFindsItsBodies, n
  <2>4. CASE \E r \in ReqIDs : AgentFlushes(r)
    BY <1>2, <2>4 DEF AgentFlushes
  <2>5. CASE ForwarderStarts \/ ForwarderEnds \/ \E s \in Senders : Ship(s)
    BY <1>2, <2>5 DEF ForwarderStarts, ForwarderEnds, ForwarderControl, Ship
  <2>6. CASE \E e \in Events : LogsEnd(e) \/ LogsTake(e) \/ LogsForward(e) \/ LogsCheckSize(e)
    BY <1>2, <2>6 DEF LogsEnd, LogsTake, Takes, LogsForward, LogsCheckSize, ChecksSize
  <2>7. CASE ReceiveShutdown \/ AgentDone \/ LogsDone \/ TimerExpires
    BY <1>3, <2>7 DEF ReceiveShutdown, StartGoroutines, AgentDone, LogsDone,
                      TimerExpires, Return, DrainInv
  <2>8. CASE GraceOver \/ Exited
    BY <1>2, <2>8 DEF GraceOver, Exited, vars
  <2>9. CASE Wait \/ FlushCheckSize \/ FlushLogsDone
    BY <1>3, <2>9 DEF Wait, NextRound, Goto, LocalStep, FlushCheckSize, ChecksSize,
                      FlushLogsDone, DrainInv
  <2>10. CASE FlushTakeLog
    BY <1>3, <2>10 DEF FlushTakeLog, At, Takes, DrainInv
  <2>11. CASE FlushStarts
    BY <1>1, <2>11 DEF FlushStarts, AfterFlush, NextRound, Goto, LocalStep, DrainInv,
                       FlushFindsItsBodies
  <2>12. CASE FlushRest \/ FlushEnds \/ FlushGivesUp
    BY <1>3, <2>12 DEF FlushRest, FlushEnds, FlushGivesUp, AfterFlush, NextRound,
                       Goto, LocalStep, DrainInv
  <2> QED
    BY <1>4, <2>1, <2>2, <2>3, <2>4, <2>5, <2>6, <2>7, <2>8, <2>9, <2>10, <2>11,
       <2>12 DEF Quiet
<1>5. CASE Calls
  <2>1. CASE \/ \E r \in ReqIDs : AgentInit(r)
             \/ \E s \in Senders, result \in PostResults : PostReturns(s, result)
             \/ Mature
    BY <1>2, <2>1 DEF AgentInit, PostReturns, Mature
  <2>2. CASE ForwardAgentData
    <3>1. main # "drain"
      BY <2>2 DEF ForwardAgentData, Selecting, TurnsInv
    <3> QED
      BY <1>3, <2>2, <3>1 DEF ForwardAgentData, DrainInv
  <2>3. CASE ForwardLambdaData \/ FlushLambdaData
    BY <1>2, <2>3 DEF ForwardLambdaData, FlushLambdaData, ReceiveLambdaData
  <2>4. CASE FlushAgentData
    <3>1. Len(Tail(AgentDataChannel)) = n - 1
      BY <2>4, HeadTailProperties DEF FlushAgentData, ReceiveAgentData, TypeInv,
                                      ChannelInv
    <3> HIDE DEF TypeInv
    <3> QED
      BY <1>1, <2>4, <3>1 DEF FlushAgentData, ReceiveAgentData, At, DrainInv,
                              FlushFindsItsBodies
  <2>5. CASE \E e \in Events : LogsHandle(e)
    BY <1>2, <2>5 DEF LogsHandle, Handles
  <2>6. CASE FlushHandleLog \/ FlushForwardLog
    BY <1>3, <2>6 DEF FlushHandleLog, Handles, FlushForwardLog, At, DrainInv
  <2>7. CASE ReceiveInvoke \/ FinalizeAll
    BY <1>3, <2>7 DEF ReceiveInvoke, StartGoroutines, FinalizeAll, LocalStep,
                      DrainInv
  <2> QED
    BY <1>5, <2>1, <2>2, <2>3, <2>4, <2>5, <2>6, <2>7 DEF Calls
<1>6. CASE UNCHANGED vars
  BY <1>2, <1>6 DEF vars
<1> QED
  BY <1>4, <1>5, <1>6, NextSplits
LEMMA DrainInvariance == Spec => []DrainInv
<1>1. Init => DrainInv
  BY DEF Init, DrainInv, FlushFindsItsBodies
<1>2. TypeInv /\ TurnsInv /\ DrainInv /\ [Next]_vars => DrainInv'
  BY DrainStep
<1> QED
  BY <1>1, <1>2, TypeInvariance, TurnsInvariance, PTL DEF Spec

\* The flush never waits for a body that somebody else has taken.
THEOREM FlushDoesNotBlock == Spec => []FlushFindsItsBodies
<1>1. DrainInv => FlushFindsItsBodies
  BY DEF DrainInv
<1> QED
  BY <1>1, DrainInvariance, PTL

-----------------------------------------------------------------------------
\* The flush of the agent.

\* No agent is heard of before its request; what has been invoked is received
\* before the loop goes on, except when Run returns.
HearInv ==
    /\ \A r \in ReqIDs : agent[r] # "none" => r <= invoked
    /\ agent \in [ReqIDs -> {"none", "registered", "sent", "flushed"}]
    /\ main \notin {"next"} => event >= invoked \/ deferred
    /\ deferred => main \in {"flush", "drain", "rest", "exited"}
    /\ FlushIsHeard

LEMMA HearStep ==
    ASSUME TypeInv, HearInv, [Next]_vars PROVE HearInv'
<1> USE DEF TypeInv, InvokedInv, HearInv, FlushIsHeard, loopVars, platformVars,
            agentVars, ReqIDs, Shutdown
<1>1. CASE Quiet
  <2>1. CASE Invoke
    BY <2>1 DEF Invoke
  <2>2. CASE FunctionEnds \/ Signal
    BY <2>2 DEF FunctionEnds, Signal
  <2>3. CASE ApiError \/ NextCancelled
    BY <2>3 DEF ApiError, NextCancelled, NextFails
  <2>4. CASE DeliverLog \/ DeliveryTimesOut
    BY <2>4 DEF DeliverLog, DeliveryTimesOut, LogHandlerControl
  <2>5. ASSUME NEW r \in ReqIDs, AgentSends(r) PROVE HearInv'
    <3>1. UNCHANGED << main, event, deferred, invoked, flushed >> /\ r <= invoked
      BY <2>5 DEF AgentSends
    <3>2. /\ agent' \in [ReqIDs -> {"none", "registered", "sent", "flushed"}]
          /\ \A q \in ReqIDs : agent'[q] = IF q = r THEN "sent" ELSE agent[q]
      BY <2>5 DEF AgentSends
    <3> HIDE DEF TypeInv
    <3> QED
      BY <3>1, <3>2
  <2>6. CASE \E r \in ReqIDs : AgentFlushes(r)
    BY <2>6 DEF AgentFlushes
  <2>7. CASE ForwarderStarts \/ ForwarderEnds
    BY <2>7 DEF ForwarderStarts, ForwarderEnds, ForwarderControl, Selecting
  <2>8. CASE \E s \in Senders : Ship(s)
    BY <2>8 DEF Ship
  <2>9. CASE \E e \in Events : LogsEnd(e) \/ LogsTake(e) \/ LogsForward(e) \/ LogsCheckSize(e)
    BY <2>9 DEF LogsEnd, LogsTake, Takes, LogsForward, LogsCheckSize, ChecksSize
  <2>10. CASE ReceiveShutdown
    BY <2>10 DEF ReceiveShutdown, StartGoroutines
  <2>11. CASE AgentDone \/ LogsDone \/ TimerExpires
    BY <2>11 DEF AgentDone, LogsDone, TimerExpires, Return
  <2>12. CASE Wait
    BY <2>12 DEF Wait, At, ForwarderDone, NextRound, Goto, LocalStep
  <2>13. CASE FlushTakeLog \/ FlushCheckSize \/ FlushLogsDone
    BY <2>13 DEF FlushTakeLog, Takes, FlushCheckSize, ChecksSize, FlushLogsDone, At,
                 Goto, LocalStep
  <2>14. CASE FlushStarts
    BY <2>14 DEF FlushStarts, At, AfterFlush, NextRound, Goto, LocalStep
  <2>15. CASE FlushRest \/ FlushEnds \/ FlushGivesUp
    BY <2>15 DEF FlushRest, FlushEnds, FlushGivesUp, At, AfterFlush, NextRound,
             Goto, LocalStep
  <2>16. CASE GraceOver \/ Exited
    BY <2>16 DEF GraceOver, Exited, vars
  <2> QED
    BY <1>1, <2>1, <2>2, <2>3, <2>4, <2>5, <2>6, <2>7, <2>8, <2>9, <2>10, <2>11,
       <2>12, <2>13, <2>14, <2>15, <2>16 DEF Quiet
<1>2. CASE Calls
  <2>1. CASE \E r \in ReqIDs : AgentInit(r)
    BY <2>1 DEF AgentInit
  <2>2. CASE \E s \in Senders, result \in PostResults : PostReturns(s, result)
    BY <2>2 DEF PostReturns
  <2>3. CASE ForwardAgentData \/ ForwardLambdaData
    BY <2>3 DEF ForwardAgentData, ForwardLambdaData, ReceiveAgentData,
            ReceiveLambdaData, Selecting
  <2>4. CASE \E e \in Events : LogsHandle(e)
    BY <2>4 DEF LogsHandle, Handles
  <2>5. CASE ReceiveInvoke
    BY <2>5 DEF ReceiveInvoke, StartGoroutines
  <2>6. CASE FlushHandleLog \/ FlushForwardLog
    BY <2>6 DEF FlushHandleLog, Handles, FlushForwardLog, At
  <2>7. CASE FlushAgentData
    BY <2>7 DEF FlushAgentData, ReceiveAgentData, At
  <2>8. CASE FlushLambdaData
    BY <2>8 DEF FlushLambdaData, ReceiveLambdaData, At
  <2>9. CASE FinalizeAll
    BY <2>9 DEF FinalizeAll, At, LocalStep
  <2>10. CASE Mature
    BY <2>10 DEF Mature
  <2> QED
    BY <1>2, <2>1, <2>2, <2>3, <2>4, <2>5, <2>6, <2>7, <2>8, <2>9, <2>10 DEF Calls
<1>3. CASE UNCHANGED vars
  BY <1>3 DEF vars
<1> QED
  BY <1>1, <1>2, <1>3, NextSplits

LEMMA HearInvariance == Spec => []HearInv
<1>1. Init => HearInv
  BY DEF Init, HearInv, FlushIsHeard
<1>2. TypeInv /\ HearInv /\ [Next]_vars => HearInv'
  BY HearStep
<1> QED
  BY <1>1, <1>2, TypeInvariance, PTL DEF Spec

\* The signal of an agent is not reset before the extension has acted on it.
THEOREM FlushHeard == Spec => []FlushIsHeard
<1>1. HearInv => FlushIsHeard
  BY DEF HearInv
<1> QED
  BY <1>1, HearInvariance, PTL


-----------------------------------------------------------------------------
\* The payloads.

\* The steps that neither begin nor end a POST.
NoPost ==
    /\ UNCHANGED << snap, outages >>
    /\ failing' => failing
    /\ \A s \in Senders : ship'[s] = "post" <=> ship[s] = "post"
    /\ (\A s \in Senders : ship'[s] = "no") => \A s \in Senders : ship[s] = "no"

LEMMA PostFrame ==
    ASSUME TurnsInv, [Next]_vars
    PROVE  \/ \E s \in Senders : Ship(s)
           \/ \E s \in Senders, result \in PostResults : PostReturns(s, result)
           \/ NoPost
<1> USE DEF TurnsInv, Senders, Forwarder, Main, NoPost, sendVars, serverVars
<1>1. CASE Quiet /\ ~ \E s \in Senders : Ship(s)
  <2>1. CASE Invoke \/ FunctionEnds \/ Signal \/ ApiError
    BY <2>1 DEF Invoke, FunctionEnds, Signal, ApiError, NextFails
  <2>2. CASE DeliverLog \/ DeliveryTimesOut
    BY <2>2 DEF DeliverLog, DeliveryTimesOut, LogHandlerControl
  <2>3. CASE \E r \in ReqIDs : AgentSends(r) \/ AgentFlushes(r)
    BY <2>3 DEF AgentSends, AgentFlushes
  <2>4. CASE ForwarderStarts \/ ForwarderEnds
    BY <2>4 DEF ForwarderStarts, ForwarderEnds, ForwarderControl
  <2>5. CASE \E e \in Events : LogsEnd(e) \/ LogsTake(e) \/ LogsForward(e) \/ LogsCheckSize(e)
    BY <2>5 DEF LogsEnd, LogsTake, Takes, LogsForward, LogsCheckSize, ChecksSize
  <2>6. CASE ReceiveShutdown \/ AgentDone \/ LogsDone \/ TimerExpires
    BY <2>6 DEF ReceiveShutdown, AgentDone, LogsDone, TimerExpires, Return
  <2>7. CASE NextCancelled \/ GraceOver \/ Exited
    BY <2>7 DEF NextCancelled, NextFails, GraceOver, Exited, vars
  <2>8. CASE Wait \/ FlushTakeLog \/ FlushCheckSize \/ FlushLogsDone
    BY <2>8 DEF Wait, NextRound, Goto, LocalStep, FlushTakeLog, Takes,
                 FlushCheckSize, ChecksSize, FlushLogsDone
  <2>9. CASE FlushStarts \/ FlushRest \/ FlushEnds \/ FlushGivesUp
    BY <2>9 DEF FlushStarts, FlushRest, FlushEnds, FlushGivesUp, At,
                 AfterFlush, NextRound, Goto, LocalStep
  <2> QED
    BY <1>1, <2>1, <2>2, <2>3, <2>4, <2>5, <2>6, <2>7, <2>8, <2>9 DEF Quiet
<1>2. CASE Calls /\ ~ \E s \in Senders, result \in PostResults : PostReturns(s, result)
  <2>1. CASE \E r \in ReqIDs : AgentInit(r)
    BY <2>1 DEF AgentInit
  <2>2. CASE \/ ForwardAgentData \/ ForwardLambdaData
             \/ FlushAgentData \/ FlushLambdaData
    BY <2>2 DEF ForwardAgentData, ForwardLambdaData, FlushAgentData,
                FlushLambdaData, ReceiveAgentData, ReceiveLambdaData, Selecting, At
  <2>3. CASE (\E e \in Events : LogsHandle(e)) \/ FlushHandleLog \/ FlushForwardLog
    BY <2>3 DEF LogsHandle, FlushHandleLog, Handles, FlushForwardLog, At
  <2>4. CASE ReceiveInvoke \/ FinalizeAll \/ Mature
    BY <2>4 DEF ReceiveInvoke, FinalizeAll, LocalStep, Mature
  <2> QED
    BY <1>2, <2>1, <2>2, <2>3, <2>4 DEF Calls
<1>3. CASE UNCHANGED vars
  BY <1>3 DEF vars
<1> QED
  BY <1>1, <1>2, <1>3, NextSplits


\* A payload is the buffer as it was when its POST began, with events behind the
\* metadata line.
LEMMA PayloadStep ==
    ASSUME B!TypeOK, B!BufferFraming, TurnsInv, PayloadsWellFormed, [Next]_vars
    PROVE  PayloadsWellFormed'
<1>1. CASE UNCHANGED snap
  BY <1>1 DEF PayloadsWellFormed
<1>2. ASSUME NEW s \in Senders, Ship(s) PROVE PayloadsWellFormed'
  <2>1. snap' = snap \/ (snap' = buf /\ count # 0)
    BY <1>2 DEF Ship, NothingToSend
  <2>2. ASSUME snap' = buf, count # 0 PROVE PayloadsWellFormed'
    <3>1. metadataBytes = 1 /\ Len(buf) = 1 + count /\ count \in Nat
      BY <2>2 DEF B!TypeOK, B!BufferFraming
    <3>2. \A i \in 1..Len(buf) : buf[i] = B!MetadataLine <=> i = 1
      BY <3>1 DEF B!BufferFraming
    <3> QED
      BY <2>2, <3>1, <3>2 DEF PayloadsWellFormed
  <2> QED
    BY <1>1, <2>1, <2>2
<1>3. CASE \E s \in Senders, result \in PostResults : PostReturns(s, result)
  BY <1>3 DEF PostReturns, PayloadsWellFormed
<1> QED
  BY <1>1, <1>2, <1>3, PostFrame DEF NoPost

\* What is posted starts with the metadata, has it once and is not empty behind it,
\* whichever sender posts it and whatever others have done to the batch since.
THEOREM PayloadsAreWellFormed == Spec => []PayloadsWellFormed
<1>1. Init => PayloadsWellFormed
  BY DEF Init, PayloadsWellFormed
<1>2. B!TypeOK /\ B!BufferFraming /\ TurnsInv /\ PayloadsWellFormed /\ [Next]_vars
        => PayloadsWellFormed'
  BY PayloadStep
<1> QED
  BY <1>1, <1>2, BatchInvariants, TurnsInvariance, PTL DEF Spec

-----------------------------------------------------------------------------
\* The rest of the types.

FlagInv ==
    /\ failing \in BOOLEAN /\ flushed \in BOOLEAN
    /\ signalled \in BOOLEAN /\ logsClient \in BOOLEAN
    /\ logProc \in [Events -> {"off", "select"}]

LEMMA FlagStep == ASSUME FlagInv, [Next]_vars PROVE FlagInv'
<1> USE DEF FlagInv, serverVars, contextVars, agentVars, logVars
<1>1. CASE Quiet
  <2>1. CASE Invoke
    BY <2>1 DEF Invoke
  <2>2. CASE FunctionEnds \/ Signal
    BY <2>2 DEF FunctionEnds, Signal
  <2>3. CASE ApiError \/ NextCancelled
    BY <2>3 DEF ApiError, NextCancelled, NextFails
  <2>4. CASE DeliverLog \/ DeliveryTimesOut
    BY <2>4 DEF DeliverLog, DeliveryTimesOut, LogHandlerControl
  <2>5. CASE \E r \in ReqIDs : AgentSends(r)
    BY <2>5 DEF AgentSends
  <2>6. CASE \E r \in ReqIDs : AgentFlushes(r)
    BY <2>6 DEF AgentFlushes
  <2>7. CASE ForwarderStarts \/ ForwarderEnds
    BY <2>7 DEF ForwarderStarts, ForwarderEnds, ForwarderControl, Selecting
  <2>8. CASE \E s \in Senders : Ship(s)
    BY <2>8 DEF Ship
  <2>9. CASE \E e \in Events : LogsEnd(e) \/ LogsTake(e) \/ LogsForward(e) \/ LogsCheckSize(e)
    BY <2>9 DEF LogsEnd, LogsTake, Takes, LogsForward, LogsCheckSize, ChecksSize
  <2>10. CASE ReceiveShutdown
    BY <2>10 DEF ReceiveShutdown, StartGoroutines
  <2>11. CASE AgentDone \/ LogsDone \/ TimerExpires
    BY <2>11 DEF AgentDone, LogsDone, TimerExpires, Return
  <2>12. CASE Wait
    BY <2>12 DEF Wait, At, ForwarderDone, NextRound, Goto, LocalStep
  <2>13. CASE FlushTakeLog \/ FlushCheckSize \/ FlushLogsDone
    BY <2>13 DEF FlushTakeLog, Takes, FlushCheckSize, ChecksSize, FlushLogsDone, At,
                 Goto, LocalStep
  <2>14. CASE FlushStarts
    BY <2>14 DEF FlushStarts, At, AfterFlush, NextRound, Goto, LocalStep
  <2>15. CASE FlushRest \/ FlushEnds \/ FlushGivesUp
    BY <2>15 DEF FlushRest, FlushEnds, FlushGivesUp, At, AfterFlush, NextRound,
             Goto, LocalStep
  <2>16. CASE GraceOver \/ Exited
    BY <2>16 DEF GraceOver, Exited, vars
  <2> QED
    BY <1>1, <2>1, <2>2, <2>3, <2>4, <2>5, <2>6, <2>7, <2>8, <2>9, <2>10, <2>11,
       <2>12, <2>13, <2>14, <2>15, <2>16 DEF Quiet
<1>2. CASE Calls
  <2>1. CASE \E r \in ReqIDs : AgentInit(r)
    BY <2>1 DEF AgentInit
  <2>2. CASE \E s \in Senders, result \in PostResults : PostReturns(s, result)
    BY <2>2 DEF PostReturns
  <2>3. CASE ForwardAgentData \/ ForwardLambdaData
    BY <2>3 DEF ForwardAgentData, ForwardLambdaData, ReceiveAgentData,
            ReceiveLambdaData, Selecting
  <2>4. CASE \E e \in Events : LogsHandle(e)
    BY <2>4 DEF LogsHandle, Handles
  <2>5. CASE ReceiveInvoke
    BY <2>5 DEF ReceiveInvoke, StartGoroutines
  <2>6. CASE FlushHandleLog \/ FlushForwardLog
    BY <2>6 DEF FlushHandleLog, Handles, FlushForwardLog, At
  <2>7. CASE FlushAgentData
    BY <2>7 DEF FlushAgentData, ReceiveAgentData, At
  <2>8. CASE FlushLambdaData
    BY <2>8 DEF FlushLambdaData, ReceiveLambdaData, At
  <2>9. CASE FinalizeAll
    BY <2>9 DEF FinalizeAll, At, LocalStep
  <2>10. CASE Mature
    BY <2>10 DEF Mature
  <2> QED
    BY <1>2, <2>1, <2>2, <2>3, <2>4, <2>5, <2>6, <2>7, <2>8, <2>9, <2>10 DEF Calls
<1>3. CASE UNCHANGED vars
  BY <1>3 DEF vars
<1> QED
  BY <1>1, <1>2, <1>3, NextSplits

\* No channel holds more than its capacity.
CapacityInv ==
    /\ Len(AgentDataChannel) <= AgentCap
    /\ Len(LambdaDataChannel) <= LambdaCap
    /\ Len(logsChannel) <= LogsCap
    /\ flushLeft <= AgentCap

LEMMA CapacityStep ==
    ASSUME TypeInv, DrainInv, CapacityInv, [Next]_vars PROVE CapacityInv'
<1> DEFINE n == Len(AgentDataChannel)
           m == Len(LambdaDataChannel)
           l == Len(logsChannel)
<1>1. n \in Nat /\ m \in Nat /\ l \in Nat /\ flushLeft \in Nat
  BY LenProperties DEF TypeInv, ChannelInv, DrainInv
<1>2. CASE UNCHANGED << channelVars, flushLeft >>
  BY <1>2 DEF CapacityInv, channelVars
<1>3. ASSUME NEW p \in {0} \cup Events, Takes(p), flushLeft' = flushLeft
      PROVE  CapacityInv'
  <2>1. Len(Tail(logsChannel)) = l - 1
    BY <1>3, HeadTailProperties DEF Takes, TypeInv, ChannelInv
  <2> QED
    BY <1>1, <1>3, <2>1 DEF Takes, CapacityInv
<1>4. ASSUME NEW s \in Senders, ReceiveAgentData(s), flushLeft' \in {flushLeft, flushLeft - 1}
      PROVE  CapacityInv'
  <2>1. Len(Tail(AgentDataChannel)) = n - 1
    BY <1>4, HeadTailProperties DEF ReceiveAgentData, TypeInv, ChannelInv
  <2> QED
    BY <1>1, <1>4, <2>1 DEF ReceiveAgentData, CapacityInv
<1>5. ASSUME NEW s \in Senders, ReceiveLambdaData(s) PROVE CapacityInv'
  <2>1. Len(Tail(LambdaDataChannel)) = m - 1
    BY <1>5, HeadTailProperties DEF ReceiveLambdaData, TypeInv, ChannelInv
  <2> QED
    BY <1>1, <1>5, <2>1 DEF ReceiveLambdaData, CapacityInv, loopVars
<1> USE DEF loopVars, logVars
<1>6. CASE Quiet
  <2>1. CASE Invoke \/ FunctionEnds \/ Signal \/ ApiError \/ NextCancelled
    BY <1>2, <2>1 DEF Invoke, FunctionEnds, Signal, ApiError, NextCancelled, NextFails
  <2>2. CASE DeliverLog
    <3>1. PICK i : logsChannel' = Append(logsChannel, LogEventAt(i)) /\ i = delivered + 1
      BY <2>2 DEF DeliverLog
    <3>2. Len(Append(logsChannel, LogEventAt(i))) = l + 1
      BY DEF TypeInv, ChannelInv
    <3> QED
      BY <1>1, <2>2, <3>1, <3>2 DEF DeliverLog, LogHandlerControl, CapacityInv
  <2>3. CASE DeliveryTimesOut
    BY <1>2, <2>3 DEF DeliveryTimesOut, LogHandlerControl, channelVars
  <2>4. ASSUME NEW r \in ReqIDs, AgentSends(r) PROVE CapacityInv'
    <3>1. Len(Append(AgentDataChannel, AgentBody(r))) = n + 1
      BY DEF TypeInv, ChannelInv
    <3>2. n' = n \/ (n' = n + 1 /\ n < AgentCap)
      BY <2>4, <3>1 DEF AgentSends, RoomForAgentData
    <3> QED
      BY <1>1, <2>4, <3>2 DEF AgentSends, CapacityInv
  <2>5. CASE \E r \in ReqIDs : AgentFlushes(r)
    BY <1>2, <2>5 DEF AgentFlushes
  <2>6. CASE ForwarderStarts \/ ForwarderEnds \/ \E s \in Senders : Ship(s)
    BY <1>2, <2>6 DEF ForwarderStarts, ForwarderEnds, ForwarderControl, Ship
  <2>7. CASE \E e \in Events : LogsEnd(e) \/ LogsCheckSize(e)
    BY <1>2, <2>7 DEF LogsEnd, LogsCheckSize, ChecksSize
  <2>8. CASE \E e \in Events : LogsTake(e)
    BY <1>3, <2>8 DEF LogsTake, Takes
  <2>9. ASSUME NEW e \in Events, LogsForward(e) PROVE CapacityInv'
    <3>1. Len(Append(LambdaDataChannel, held[e])) = m + 1
      BY DEF TypeInv, ChannelInv
    <3> QED
      BY <1>1, <2>9, <3>1 DEF LogsForward, CapacityInv
  <2>10. CASE ReceiveShutdown \/ AgentDone \/ LogsDone \/ TimerExpires
    BY <1>2, <2>10 DEF ReceiveShutdown, StartGoroutines, AgentDone, LogsDone,
                       TimerExpires, Return
  <2>11. CASE GraceOver \/ Exited
    BY <1>2, <2>11 DEF GraceOver, Exited, vars
  <2>12. CASE FlushTakeLog
    BY <1>3, <2>12 DEF FlushTakeLog, Takes
  <2>13. CASE Wait \/ FlushCheckSize \/ FlushLogsDone
    BY <1>2, <2>13 DEF Wait, NextRound, Goto, LocalStep, FlushCheckSize, ChecksSize,
                       FlushLogsDone
  <2>14. CASE FlushStarts
    BY <1>1, <1>2, <2>14 DEF FlushStarts, AfterFlush, NextRound, Goto, LocalStep,
                             CapacityInv, channelVars
  <2>15. CASE FlushRest \/ FlushEnds \/ FlushGivesUp
    BY <1>2, <2>15 DEF FlushRest, FlushEnds, FlushGivesUp, AfterFlush, NextRound,
                       Goto, LocalStep
  <2> QED
    BY <1>6, <2>1, <2>2, <2>3, <2>4, <2>5, <2>6, <2>7, <2>8, <2>9, <2>10, <2>11,
       <2>12, <2>13, <2>14, <2>15 DEF Quiet
<1>7. CASE Calls
  <2>1. CASE \/ \E r \in ReqIDs : AgentInit(r)
             \/ \E s \in Senders, result \in PostResults : PostReturns(s, result)
    BY <1>2, <2>1 DEF AgentInit, PostReturns
  <2>2. CASE ForwardAgentData \/ FlushAgentData
    BY <1>4, <2>2 DEF ForwardAgentData, FlushAgentData, Senders
  <2>3. CASE ForwardLambdaData \/ FlushLambdaData
    BY <1>5, <2>3 DEF ForwardLambdaData, FlushLambdaData, Senders
  <2>4. CASE (\E e \in Events : LogsHandle(e)) \/ FlushHandleLog \/ FlushForwardLog
    BY <1>2, <2>4 DEF LogsHandle, FlushHandleLog, Handles, FlushForwardLog
  <2>5. CASE ReceiveInvoke \/ FinalizeAll \/ Mature
    BY <1>2, <2>5 DEF ReceiveInvoke, StartGoroutines, FinalizeAll, LocalStep, Mature
  <2> QED
    BY <1>7, <2>1, <2>2, <2>3, <2>4, <2>5 DEF Calls
<1>8. CASE UNCHANGED vars
  BY <1>2, <1>8 DEF vars
<1> QED
  BY <1>6, <1>7, <1>8, NextSplits

LEMMA FlagAndCapacityInvariance == Spec => [](FlagInv /\ CapacityInv)
<1>1. Init => FlagInv /\ CapacityInv
  <2>1. Init => FlagInv
    BY DEF Init, FlagInv
  <2>2. Init => CapacityInv
    BY EmptySeq DEF Init, CapacityInv
  <2> QED
    BY <2>1, <2>2
<1>2. FlagInv /\ [Next]_vars => FlagInv'
  BY FlagStep
<1>3. TypeInv /\ DrainInv /\ CapacityInv /\ [Next]_vars => CapacityInv'
  BY CapacityStep
<1> QED
  BY <1>1, <1>2, <1>3, TypeInvariance, DrainInvariance, PTL DEF Spec

\* A sequence no longer than a bound is one of the bounded sequences.
LEMMA Bounded ==
    ASSUME NEW S, NEW q \in Seq(S), NEW k \in Nat, Len(q) <= k
    PROVE  q \in BoundedSeq(S, k)
<1>1. q \in [1..Len(q) -> S]
  BY LenProperties
<1>2. Len(q) \in 0..k
  BY LenProperties
<1>3. BoundedSeq(S, k) = UNION {[1..m -> S] : m \in 0..k}
  BY DEF BoundedSeq, SeqOf
<1>4. [1..Len(q) -> S] \in {[1..m -> S] : m \in 0..k}
  BY <1>2
<1> QED
  BY <1>1, <1>3, <1>4

\* Every variable keeps its type, and no channel is filled beyond its capacity.
THEOREM TypeCorrect == Spec => []TypeOK
<1>1. B!TypeOK /\ TypeInv /\ TurnsInv /\ DrainInv /\ FlagInv /\ CapacityInv => TypeOK
  <2> SUFFICES ASSUME B!TypeOK, TypeInv, TurnsInv, DrainInv, FlagInv, CapacityInv
               PROVE  TypeOK
    OBVIOUS
  <2>1. AgentDataChannel \in BoundedSeq({AgentBody(r) : r \in ReqIDs}, AgentCap)
    BY Bounded DEF TypeInv, ChannelInv, CapacityInv
  <2>2. LambdaDataChannel \in BoundedSeq(B!LambdaEvent, LambdaCap)
    BY Bounded DEF TypeInv, ChannelInv, CapacityInv
  <2>3. held \in [{0} \cup Events ->
            B!LambdaEvent \cup [kind : LogTypes, id : ReqIDs] \cup {Nothing, SizeCheck}]
    BY DEF TypeInv, ChannelInv, LogEvent
  <2>4. flushLeft \in 0..AgentCap
    BY DEF DrainInv, CapacityInv
  <2>5. event \in 0..Shutdown /\ answered <= delivered /\ delivered <= posted
    BY DEF TypeInv, InvokedInv, LogPostInv
  <2> QED
    BY <2>1, <2>2, <2>3, <2>4, <2>5 DEF TypeOK, TurnsInv, FlagInv, CapacityInv
<1> QED
  BY <1>1, BatchInvariants, TypeInvariance, TurnsInvariance, DrainInvariance,
     FlagAndCapacityInvariance, PTL

-----------------------------------------------------------------------------
\* What the batch has accepted is kept.

Growth == \* every line stays where it is
    /\ Len(buf') >= Len(buf)
    /\ \A i \in 1..Len(buf) : buf'[i] = buf[i]

ProxyGrowth == \* and what is added are proxies
    /\ Growth
    /\ buf' \in Seq(B!Line)
    /\ \A i \in Len(buf) + 1 .. Len(buf') : buf'[i].kind = "proxy"

LEMMA SameBuffer == ASSUME buf \in Seq(B!Line), buf' = buf PROVE ProxyGrowth
<1>1. Len(buf) \in Nat
  BY LenProperties
<1> QED
  BY <1>1 DEF ProxyGrowth, Growth

\* AddLines keeps what is in front of the lines it adds.
LEMMA AddLinesGrows ==
    ASSUME buf \in Seq(B!Line), NEW lines \in Seq(B!Line), B!AddLines(buf, lines)
    PROVE  /\ Growth
           /\ (\A i \in 1..Len(lines) : lines[i].kind = "proxy") => ProxyGrowth
<1> DEFINE n == Len(buf)
           k == Len(lines)
<1>1. n \in Nat /\ k \in Nat
  BY LenProperties
<1>2. /\ buf' \in Seq(B!Line)
      /\ Len(buf') = n + k
      /\ \A i \in 1..n + k : buf'[i] = IF i <= n THEN buf[i] ELSE lines[i - n]
  BY ConcatProperties DEF B!AddLines
<1>3. Growth
  <2> HIDE DEF k
  <2> QED
    BY <1>1, <1>2 DEF Growth
<1>4. ASSUME \A i \in 1..k : lines[i].kind = "proxy",
             NEW i \in n + 1 .. n + k
      PROVE  buf'[i].kind = "proxy"
  <2>1. i - n \in 1..k /\ buf'[i] = lines[i - n]
    BY <1>1, <1>2
  <2> QED
    BY <1>4, <2>1
<1> QED
  BY <1>2, <1>3, <1>4 DEF ProxyGrowth

\* An AgentInit writes the metadata only into an empty buffer.
LEMMA AgentInitGrows ==
    ASSUME B!TypeOK, B!BufferFraming, NEW r, NEW t, NEW m, B!OnAgentInit(r, t, m)
    PROVE  Growth /\ (Len(buf) > 0 => ProxyGrowth)
<1>1. buf \in Seq(B!Line) /\ Len(buf) \in Nat
  BY LenProperties DEF B!TypeOK
<1>2. CASE buf' = buf
  BY <1>1, <1>2, SameBuffer DEF ProxyGrowth
<1>3. CASE buf' # buf
  <2>1. metadataBytes = 0 /\ buf' = << B!MetadataLine >>
    BY <1>3 DEF B!OnAgentInit
  <2>2. Len(buf) = 0
    BY <2>1 DEF B!BufferFraming, B!TypeOK
  <2>3. Len(buf') = 1
    BY <2>1
  <2> QED
    BY <2>2, <2>3 DEF Growth
<1> QED
  BY <1>2, <1>3

\* What a log event does to the buffer: at most a proxy is added.
LEMMA HandleLogGrows ==
    ASSUME B!TypeOK, NEW ev \in LogEvent, HandleLog(ev) PROVE ProxyGrowth
<1>1. buf \in Seq(B!Line)
  BY DEF B!TypeOK
<1>2. CASE ev.kind = "start"
  <2>1. B!OnPlatformStart(ev.id)
    BY <1>2 DEF HandleLog
  <2> QED
    BY <1>1, <2>1, SameBuffer DEF B!OnPlatformStart, B!bufferVars
<1>3. CASE ev.kind = "function"
  <2>1. UNCHANGED batchVars
    BY <1>3 DEF HandleLog
  <2> QED
    BY <1>1, <2>1, SameBuffer DEF batchVars
<1>4. CASE ev.kind = "report"
  <2>1. B!OnPlatformReport(ev.id)
    BY <1>4 DEF HandleLog
  <2> QED
    BY <1>1, <2>1, SameBuffer DEF B!OnPlatformReport, B!bufferVars
<1>5. CASE ev.kind = "runtimeDone"
  <2> DEFINE need == B!NeedProxyTransaction(B!Lookup(ev.id))
             lines == IF need THEN << B!ProxyTxn(invocations[ev.id].TransactionID) >>
                              ELSE << >>
  <2>1. B!OnLambdaLogRuntimeDone(ev.id)
    BY <1>5 DEF HandleLog
  <2>2. CASE UNCHANGED B!batchVars
    BY <1>1, <2>2, SameBuffer DEF B!batchVars
  <2>3. CASE ev.id \in B!Tracked /\ B!AddLines(buf, lines)
    <3>1. invocations[ev.id].TransactionID \in ReqIDs \cup {None}
      BY <2>3 DEF B!TypeOK, B!Invocation
    <3>2. B!ProxyTxn(invocations[ev.id].TransactionID) \in B!Line
      BY <3>1 DEF B!ProxyTxn, B!Line, B!EventLine, B!EventKinds
    <3>3. lines \in Seq(B!Line) /\ \A i \in 1..Len(lines) : lines[i].kind = "proxy"
      BY <3>2 DEF B!ProxyTxn
    <3> HIDE DEF lines
    <3> QED
      BY <1>1, <2>3, <3>3, AddLinesGrows
  <2> QED
    BY <2>1, <2>2, <2>3 DEF B!OnLambdaLogRuntimeDone
<1> QED
  BY <1>2, <1>3, <1>4, <1>5 DEF LogEvent, LogTypes

\* A call of a sender adds lines, or none.
LEMMA SenderGrows ==
    ASSUME B!TypeOK, B!BufferFraming, TypeInv,
           \/ \E r \in ReqIDs : B!AddAgentData(AgentBody(r))
           \/ \E line \in B!LambdaEvent : B!AddLambdaData(line)
    PROVE  Growth
<1>1. buf \in Seq(B!Line) /\ Len(buf) \in Nat
  BY LenProperties DEF B!TypeOK
<1>2. CASE UNCHANGED B!batchVars
  BY <1>1, <1>2, SameBuffer DEF B!batchVars, ProxyGrowth
<1>3. ASSUME NEW r \in ReqIDs,
             B!AddLines(IF metadataBytes = 0 THEN << B!MetadataLine >> ELSE buf,
                        AgentBody(r))
      PROVE  Growth
  <2>1. AgentBody(r) \in Seq(B!Line)
    BY DEF AgentBody, B!Line, B!EventLine, B!EventKinds
  <2>2. CASE metadataBytes = 0
    <3>1. Len(buf) = 0
      BY <2>2 DEF B!TypeOK, B!BufferFraming
    <3>2. << B!MetadataLine >> \in Seq(B!Line)
      BY DEF B!Line
    <3>3. Len(buf') \in Nat
      BY <1>3, <2>1, <2>2, <3>2, ConcatProperties, LenProperties DEF B!AddLines
    <3> QED
      BY <3>1, <3>3 DEF Growth
  <2>3. CASE metadataBytes # 0
    BY <1>1, <1>3, <2>1, <2>3, AddLinesGrows
  <2> QED
    BY <2>2, <2>3
<1>4. ASSUME NEW line \in B!LambdaEvent, B!AddLines(buf, << line >>) PROVE Growth
  <2>1. << line >> \in Seq(B!Line)
    BY DEF B!LambdaEvent, B!Line, B!EventLine, B!EventKinds
  <2> QED
    BY <1>1, <1>4, <2>1, AddLinesGrows
<1> QED
  BY <1>2, <1>3, <1>4 DEF B!AddAgentData, B!AddLambdaData

\* OnShutdown adds the proxies that are owed, in some order.
LEMMA ShutdownGrows ==
    ASSUME B!TypeOK, B!OnShutdown PROVE Growth
<1>1. buf \in Seq(B!Line)
  BY DEF B!TypeOK
<1>2. PICK done \in SUBSET B!Finalizable :
        LET owed == {r \in done : B!NeedProxyTransaction(invocations[r])} IN
        \E order \in B!Bijection(1..B!Cardinality(owed), owed) :
           B!AddLines(buf, [i \in 1..B!Cardinality(owed) |->
                             B!ProxyTxn(invocations[order[i]].TransactionID)])
  BY DEF B!OnShutdown
<1> DEFINE owed == {r \in done : B!NeedProxyTransaction(invocations[r])}
           k == B!Cardinality(owed)
<1>3. PICK order \in B!Bijection(1..k, owed) :
         B!AddLines(buf, [i \in 1..k |->
                            B!ProxyTxn(invocations[order[i]].TransactionID)])
  BY <1>2
<1>4. owed \in SUBSET ReqIDs /\ owed \subseteq B!Tracked
  BY DEF B!Finalizable, B!TypeOK
<1>5. k \in Nat
  <2>1. IsFiniteSet(ReqIDs)
    BY RequestsAreFinite
  <2>2. IsFiniteSet(owed)
    BY <1>4, <2>1, FS_Subset
  <2>3. Cardinality(owed) \in Nat
    BY <2>2, FS_CardinalityType
  <2>4. B!Cardinality(owed) = Cardinality(owed)
    BY DEF B!Cardinality, Cardinality
  <2> QED
    BY <2>3, <2>4
<1> HIDE DEF owed, k
<1>6. order \in [1..k -> owed]
  BY <1>3 DEF B!Bijection, B!Injection
<1>7. ASSUME NEW i \in 1..k
      PROVE  B!ProxyTxn(invocations[order[i]].TransactionID) \in B!Line
  <2>1. order[i] \in B!Tracked
    BY <1>4, <1>6
  <2>2. invocations[order[i]].TransactionID \in ReqIDs \cup {None}
    BY <2>1 DEF B!TypeOK, B!Invocation
  <2> QED
    BY <2>2 DEF B!ProxyTxn, B!Line, B!EventLine, B!EventKinds
<1> DEFINE lines == [i \in 1..k |-> B!ProxyTxn(invocations[order[i]].TransactionID)]
<1>8. lines \in Seq(B!Line)
  BY <1>5, <1>7
<1> HIDE DEF lines
<1> QED
  BY <1>1, <1>3, <1>8, AddLinesGrows DEF lines

\* A call other than that at the end of a POST keeps what is in the buffer.
LEMMA CallsGrow ==
    ASSUME B!TypeOK, B!BufferFraming, TypeInv, Calls
    PROVE  \/ Growth
           \/ \E s \in Senders, result \in PostResults : PostReturns(s, result)
<1>1. buf \in Seq(B!Line)
  BY DEF B!TypeOK
<1>2. CASE \E r \in ReqIDs : AgentInit(r)
  BY <1>2, AgentInitGrows DEF AgentInit
<1>3. ASSUME NEW s \in Senders, ReceiveAgentData(s) PROVE Growth
  <2>1. Head(AgentDataChannel) \in {AgentBody(r) : r \in ReqIDs}
    BY <1>3, HeadTailProperties DEF ReceiveAgentData, TypeInv, ChannelInv
  <2> QED
    BY <1>3, <2>1, SenderGrows DEF ReceiveAgentData
<1>4. ASSUME NEW s \in Senders, ReceiveLambdaData(s) PROVE Growth
  <2>1. Head(LambdaDataChannel) \in B!LambdaEvent
    BY <1>4, HeadTailProperties DEF ReceiveLambdaData, TypeInv, ChannelInv
  <2> QED
    BY <1>4, <2>1, SenderGrows DEF ReceiveLambdaData
<1>5. CASE \/ ForwardAgentData \/ ForwardLambdaData
           \/ FlushAgentData \/ FlushLambdaData
  BY <1>3, <1>4, <1>5 DEF ForwardAgentData, ForwardLambdaData, FlushAgentData,
                          FlushLambdaData, Senders
<1>6. CASE (\E e \in Events : LogsHandle(e)) \/ FlushHandleLog
  BY <1>6, HeldTypes, HandleLogGrows DEF LogsHandle, FlushHandleLog, Handles,
                                         TypeInv, ProxyGrowth
<1>7. CASE FlushForwardLog
  BY <1>7, HeldTypes, SenderGrows DEF FlushForwardLog, TypeInv
<1>8. CASE ReceiveInvoke
  BY <1>1, <1>8, SameBuffer DEF ReceiveInvoke, B!RegisterInvocation, B!bufferVars,
                                ProxyGrowth
<1>9. CASE FinalizeAll
  BY <1>9, ShutdownGrows DEF FinalizeAll
<1>10. CASE Mature
  BY <1>1, <1>10, SameBuffer DEF Mature, B!Mature, ProxyGrowth
<1> QED
  BY <1>2, <1>5, <1>6, <1>7, <1>8, <1>9, <1>10 DEF Calls

\* While a POST is under way only proxies are added.
LEMMA PostingGrows ==
    ASSUME B!TypeOK, B!BufferFraming, TypeInv, TurnsInv, Len(buf) > 0, Calls,
           NEW s \in Senders, ship[s] = "post"
    PROVE  \/ ProxyGrowth
           \/ \E q \in Senders, result \in PostResults : PostReturns(q, result)
<1> USE DEF Senders, Forwarder, Main
<1>1. buf \in Seq(B!Line)
  BY DEF B!TypeOK
<1>2. CASE \E r \in ReqIDs : AgentInit(r)
  BY <1>2, AgentInitGrows DEF AgentInit
<1>3. CASE ForwardAgentData \/ ForwardLambdaData
  BY <1>3 DEF ForwardAgentData, ForwardLambdaData, Selecting, TurnsInv
<1>4. CASE \/ FlushAgentData \/ FlushLambdaData
           \/ FlushHandleLog \/ FlushForwardLog \/ FinalizeAll
  BY <1>4 DEF FlushAgentData, FlushLambdaData, FlushHandleLog, FlushForwardLog,
              FinalizeAll, At, TurnsInv
<1>5. CASE ReceiveInvoke
  BY <1>5 DEF ReceiveInvoke, TurnsInv
<1>6. CASE \E e \in Events : LogsHandle(e)
  BY <1>6, HeldTypes, HandleLogGrows DEF LogsHandle, Handles, TypeInv
<1>7. CASE Mature
  BY <1>1, <1>7, SameBuffer DEF Mature, B!Mature
<1> QED
  BY <1>2, <1>3, <1>4, <1>5, <1>6, <1>7 DEF Calls

\* A payload under way is what the buffer held, and proxies have followed; there is
\* none otherwise.  The transport fails only after an outage.
PostInv ==
    /\ outages \in Nat
    /\ failing => outages > 0
    /\ (\A s \in Senders : ship[s] # "post") => snap = << >>
    /\ (\E s \in Senders : ship[s] = "post") =>
          /\ Len(buf) > 0 /\ Len(snap) \in 0..Len(buf)
          /\ \A i \in 1..Len(snap) : buf[i] = snap[i]
          /\ \A i \in Len(snap) + 1 .. Len(buf) : buf[i].kind = "proxy"

LEMMA PostStep ==
    ASSUME B!TypeOK, B!BufferFraming, TypeInv, TurnsInv, PostInv, [Next]_vars
    PROVE  PostInv'
<1>1. buf \in Seq(B!Line) /\ Len(buf) \in Nat
  BY LenProperties DEF B!TypeOK
<1>2. ASSUME NEW s \in Senders, Ship(s) PROVE PostInv'
  <2>1. ship \in [Senders -> {"no", "check", "force", "post"}]
    BY DEF TurnsInv
  <2>2. \A q \in Senders : ship[q] # "post"
    BY <1>2 DEF Ship, TurnsInv, Senders, Forwarder, Main
  <2>3. UNCHANGED << buf, outages, failing >>
    BY <1>2 DEF Ship, batchVars, serverVars
  <2>4. CASE ship' = [ship EXCEPT ![s] = "no"] /\ snap' = snap
    BY <2>1, <2>2, <2>3, <2>4 DEF PostInv
  <2>5. CASE ~NothingToSend /\ ship' = [ship EXCEPT ![s] = "post"] /\ snap' = buf
    <3>1. ship'[s] = "post"
      BY <2>1, <2>5
    <3>2. Len(buf) > 0
      BY <1>1, <2>5 DEF NothingToSend, B!TypeOK, B!BufferFraming
    <3> QED
      BY <1>1, <2>3, <2>5, <3>1, <3>2 DEF PostInv
  <2> QED
    BY <1>2, <2>4, <2>5 DEF Ship
<1>3. ASSUME NEW s \in Senders, NEW result \in PostResults, PostReturns(s, result)
      PROVE  PostInv'
  <2>1. ship \in [Senders -> {"no", "check", "force", "post"}]
    BY DEF TurnsInv
  <2>2. \A q \in Senders : ship'[q] # "post"
    BY <1>3, <2>1 DEF PostReturns, TurnsInv, Senders, Forwarder, Main
  <2>3. outages' \in Nat /\ (failing' => outages' > 0)
    <3>1. /\ outages' = outages + (IF result \in {"refused", "accepted"} THEN 0 ELSE 1)
          /\ failing' => failing \/ result \in StartsBackoff
      BY <1>3 DEF PostReturns
    <3>2. outages \in Nat /\ (failing => outages > 0)
      BY DEF PostInv
    <3>3. CASE result \in {"refused", "accepted"}
      <4>1. outages' = outages /\ (failing' => failing)
        BY <3>1, <3>2, <3>3 DEF StartsBackoff
      <4> QED
        BY <3>2, <4>1
    <3>4. CASE result \notin {"refused", "accepted"}
      <4>1. outages' = outages + 1
        BY <3>1, <3>4
      <4> QED
        BY <3>2, <4>1
    <3> QED
      BY <3>3, <3>4
  <2>4. snap' = << >>
    BY <1>3 DEF PostReturns
  <2> QED
    BY <2>2, <2>3, <2>4 DEF PostInv
<1>4. ASSUME NoPost,
             ~ \E s \in Senders, result \in PostResults : PostReturns(s, result)
      PROVE  PostInv'
  <2>1. CASE \A s \in Senders : ship[s] # "post"
    <3>1. \A s \in Senders : ship'[s] # "post"
      BY <1>4, <2>1 DEF NoPost
    <3>2. snap' = << >>
      BY <1>4, <2>1 DEF NoPost, PostInv
    <3>3. outages' \in Nat /\ (failing' => outages' > 0)
      BY <1>4 DEF NoPost, PostInv
    <3> QED
      BY <3>1, <3>2, <3>3 DEF PostInv
  <2>2. ASSUME NEW s \in Senders, ship[s] = "post" PROVE PostInv'
    <3>1. ProxyGrowth
      <4>1. CASE buf' = buf
        BY <1>1, <4>1, SameBuffer
      <4>2. CASE Calls
        BY <1>4, <2>2, <4>2, PostingGrows DEF PostInv
      <4>3. CASE Quiet \/ UNCHANGED vars
        BY <4>1, <4>3, QuietIsQuiet DEF vars, batchVars
      <4> QED
        BY <4>2, <4>3, NextSplits
    <3>2. Len(buf') \in Nat
      BY <3>1, LenProperties DEF ProxyGrowth
    <3>3. ship'[s] = "post"
      BY <1>4, <2>2 DEF NoPost
    <3>4. outages' \in Nat /\ (failing' => outages' > 0)
      BY <1>4 DEF NoPost, PostInv
    <3>5. /\ Len(buf) > 0 /\ Len(snap) \in 0..Len(buf)
          /\ \A i \in 1..Len(snap) : buf[i] = snap[i]
          /\ \A i \in Len(snap) + 1 .. Len(buf) : buf[i].kind = "proxy"
      BY <2>2 DEF PostInv
    <3>6. /\ Len(buf') >= Len(buf)
          /\ \A i \in 1..Len(buf) : buf'[i] = buf[i]
          /\ \A i \in Len(buf) + 1 .. Len(buf') : buf'[i].kind = "proxy"
      BY <3>1 DEF ProxyGrowth, Growth
    <3>7. snap' = snap
      BY <1>4 DEF NoPost
    <3>8. /\ Len(buf') > 0 /\ Len(snap) \in 0..Len(buf')
          /\ \A i \in 1..Len(snap) : buf'[i] = snap[i]
          /\ \A i \in Len(snap) + 1 .. Len(buf') : buf'[i].kind = "proxy"
      <4>1. Len(buf') > 0 /\ Len(snap) \in 0..Len(buf')
        BY <1>1, <3>2, <3>5, <3>6
      <4>2. ASSUME NEW i \in 1..Len(snap) PROVE buf'[i] = snap[i]
        <5>1. i \in 1..Len(buf)
          BY <1>1, <3>5
        <5> QED
          BY <5>1, <3>5, <3>6
      <4>3. ASSUME NEW i \in Len(snap) + 1 .. Len(buf') PROVE buf'[i].kind = "proxy"
        <5>1. i \in Len(snap) + 1 .. Len(buf) \/ i \in Len(buf) + 1 .. Len(buf')
          BY <1>1, <3>2, <3>5
        <5>2. i \in Len(snap) + 1 .. Len(buf) => i \in 1..Len(buf)
          BY <1>1, <3>5
        <5> QED
          BY <5>1, <5>2, <3>5, <3>6
      <4> QED
        BY <4>1, <4>2, <4>3
    <3>9. (\A q \in Senders : ship'[q] # "post") => snap' = << >>
      BY <2>2, <3>3
    <3>10. /\ Len(buf') > 0 /\ Len(snap') \in 0..Len(buf')
           /\ \A i \in 1..Len(snap') : buf'[i] = snap'[i]
           /\ \A i \in Len(snap') + 1 .. Len(buf') : buf'[i].kind = "proxy"
      BY <3>7, <3>8
    <3> QED
      BY <3>4, <3>9, <3>10 DEF PostInv
  <2> QED
    BY <2>1, <2>2
<1> QED
  BY <1>2, <1>3, <1>4, PostFrame

LEMMA PostInvariance == Spec => []PostInv
<1>1. Init => PostInv
  BY DEF Init, PostInv, Senders
<1>2. B!TypeOK /\ B!BufferFraming /\ TypeInv /\ TurnsInv /\ PostInv /\ [Next]_vars
        => PostInv'
  BY PostStep
<1> QED
  BY <1>1, <1>2, BatchInvariants, TypeInvariance, TurnsInvariance, PTL DEF Spec

\* What the batch has accepted stays in it, or in the payload, until APM Server has
\* it, as long as APM Server accepts what it is sent.
LEMMA AcceptedStep ==
    ASSUME B!TypeOK, B!BufferFraming, TypeInv, TurnsInv, PostInv, [Next]_vars
    PROVE  outages' = 0 =>
              \A line \in ToSet(buf) \cup ToSet(snap) :
                 line.kind = "proxy" \/ line \in ToSet(buf') \cup ToSet(snap') \cup received'
<1> DEFINE Kept(line) == \/ line.kind = "proxy"
                         \/ line \in ToSet(buf') \cup ToSet(snap') \cup received'
           Keeps == outages' = 0 => \A line \in ToSet(buf) \cup ToSet(snap) : Kept(line)
<1>1. buf \in Seq(B!Line) /\ Len(buf) \in Nat
  BY LenProperties DEF B!TypeOK
<1>2. ASSUME Growth, snap' = snap PROVE Keeps
  <2>1. ToSet(buf) \subseteq ToSet(buf')
    <3> SUFFICES ASSUME NEW i \in 1..Len(buf) PROVE buf[i] \in ToSet(buf')
      BY DEF ToSet
    <3>1. CASE Len(buf') \in Nat
      BY <1>1, <1>2, <3>1 DEF Growth, ToSet
    <3> QED
      BY <3>1
  <2> QED
    BY <1>2, <2>1
<1>3. ASSUME NEW s \in Senders, Ship(s) PROVE Keeps
  <2>1. snap = << >> /\ ToSet(snap) = {}
    BY <1>3 DEF Ship, TurnsInv, PostInv, Senders, Forwarder, Main, ToSet
  <2>2. buf' = buf
    BY <1>3 DEF Ship, batchVars
  <2> QED
    BY <2>1, <2>2
<1>4. ASSUME NEW s \in Senders, NEW result \in PostResults, PostReturns(s, result)
      PROVE  Keeps
  <2> SUFFICES ASSUME outages' = 0, NEW line \in ToSet(buf) \cup ToSet(snap)
               PROVE  Kept(line)
    OBVIOUS
  <2>1. result = "accepted"
    BY <1>4 DEF PostReturns, PostInv
  <2>2. ToSet(snap) \subseteq received'
    BY <1>4, <2>1 DEF PostReturns, Arrives
  <2>3. ASSUME NEW i \in 1..Len(buf) PROVE Kept(buf[i])
    <3>1. CASE i \in 1..Len(snap)
      <4>1. buf[i] \in ToSet(snap)
        BY <1>4, <3>1 DEF PostInv, PostReturns, ToSet
      <4> QED
        BY <2>2, <4>1
    <3>2. CASE i \notin 1..Len(snap)
      <4>1. buf[i].kind = "proxy"
        BY <1>1, <1>4, <3>2 DEF PostInv, PostReturns
      <4> QED
        BY <4>1
    <3> QED
      BY <3>1, <3>2
  <2> QED
    BY <2>2, <2>3 DEF ToSet
<1>5. CASE Calls
  BY <1>2, <1>3, <1>4, <1>5, CallsGrow, PostFrame DEF NoPost
<1>6. CASE Quiet \/ UNCHANGED vars
  <2>1. buf' = buf
    BY <1>6, QuietIsQuiet DEF vars, batchVars
  <2>2. Growth
    BY <1>1, <2>1, SameBuffer DEF ProxyGrowth
  <2> QED
    BY <1>2, <1>3, <1>4, <2>2, PostFrame DEF NoPost
<1> QED
  BY <1>5, <1>6, NextSplits

\* The Reset after a POST takes nothing away that the POST did not carry, but for
\* proxies, while APM Server accepts what it is sent.
THEOREM AcceptedIsKept == Spec => OnlyProxiesAreLost
<1>1. /\ B!TypeOK /\ B!BufferFraming /\ TypeInv /\ TurnsInv /\ PostInv /\ [Next]_vars
      => [ outages' = 0 =>
              \A line \in ToSet(buf) \cup ToSet(snap) :
                  line.kind = "proxy" \/ line \in ToSet(buf') \cup ToSet(snap') \cup received'
         ]_vars
  BY AcceptedStep
<1> QED
  BY <1>1, BatchInvariants, TypeInvariance, TurnsInvariance, PostInvariance, PTL
     DEF Spec, OnlyProxiesAreLost
=============================================================================
