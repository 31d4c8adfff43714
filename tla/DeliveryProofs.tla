---------------------------- MODULE DeliveryProofs ----------------------------
(***************************************************************************)
(* With the syncflush strategy, and while APM Server accepts what it is    *)
(* sent, the data that agents have sent by the end of an event has reached *)
(* it when the next event is asked for, and when the process exits.        *)
(*                                                                         *)
(* That rests on two things.  The batch takes each body that the flush     *)
(* receives: it files the request that is executing until the event is     *)
(* over, as the reports that would drop it are those of earlier requests,  *)
(* and it has room (RoomForBodies), unless log events have filled it with  *)
(* proxies: what a sender leaves in it is less than makes it ship, so it   *)
(* has room while the proxies that are in it fit behind that (ProxiesFit). *)
(* And what it has taken is in the payload of the last POST of the flush,  *)
(* or of one before it.                                                    *)
(***************************************************************************)
EXTENDS ShippingProofs

\* What a sender adds next finds room in the batch.  It need not be so: a sender
\* leaves fewer events in the batch than make it ship, but the proxies that log
\* events add before the sender's next turn may fill it (accumulator/batch.go,
\* AddAgentData and finalizeInvocation).
RoomForBodies ==
    event # Shutdown /\ (\A s \in Senders : ship[s] = "no") => ~B!BatchFull

-----------------------------------------------------------------------------
\* The request that is executing.

\* The log events on their way drop no request but earlier ones.
Behind == {ev \in LogEvent : ev.kind = "report" => ev.id < event}

Processing == {"select", "wait", "logs", "flush", "drain", "rest"}

\* From the time its event is received until it has been processed.
Running ==
    /\ main \in Processing
    /\ event \in ReqIDs /\ event = invoked
    /\ currentlyExecutingRequestID = event /\ event \in B!Tracked
    /\ OnTheWay(Behind)

LEMMA CurrentStep ==
    ASSUME B!TypeOK, TypeInv, HearInv, Running, [Next]_vars
    PROVE  currentlyExecutingRequestID' = event /\ event \in B!Tracked'
<1>1. ASSUME UNCHANGED << invocations, currentlyExecutingRequestID >>
      PROVE  currentlyExecutingRequestID' = event /\ event \in B!Tracked'
  BY <1>1 DEF Running, B!Tracked
<1>2. ASSUME NEW r, NEW inc, invocations' = B!Put(r, inc) PROVE event \in B!Tracked'
  BY <1>2 DEF Running, B!Put, B!Tracked
<1>3. CASE Quiet \/ UNCHANGED vars
  BY <1>1, <1>3, QuietIsQuiet DEF batchVars, vars
<1>4. ASSUME NEW r \in ReqIDs, AgentInit(r)
      PROVE  currentlyExecutingRequestID' = event /\ event \in B!Tracked'
  <2>1. PICK w : B!OnAgentInit(r, r, w)
    BY <1>4 DEF AgentInit
  <2> QED
    BY <1>2, <1>4, <2>1 DEF AgentInit, B!OnAgentInit, Running
<1>5. CASE (\E s \in Senders, result \in PostResults : PostReturns(s, result)) \/ Mature
  BY <1>1, <1>5 DEF PostReturns, ResetAfter, B!Reset, Mature, B!Mature
<1>6. ASSUME NEW s \in Senders, ReceiveAgentData(s)
      PROVE  currentlyExecutingRequestID' = event /\ event \in B!Tracked'
  <2>1. PICK body : B!AddAgentData(body)
    BY <1>6 DEF ReceiveAgentData
  <2>2. currentlyExecutingRequestID' = currentlyExecutingRequestID
    BY <2>1 DEF B!AddAgentData, B!batchVars
  <2>3. UNCHANGED invocations
        \/ \E inc : invocations' = B!Put(currentlyExecutingRequestID, inc)
    BY <2>1 DEF B!AddAgentData, B!batchVars
  <2> QED
    BY <1>1, <1>2, <2>2, <2>3 DEF Running
<1>7. CASE FlushForwardLog \/ \E s \in Senders : ReceiveLambdaData(s)
  BY <1>1, <1>7 DEF FlushForwardLog, ReceiveLambdaData, B!AddLambdaData, B!batchVars
<1>8. ASSUME NEW p \in {0} \cup Events, Handles(p)
      PROVE  currentlyExecutingRequestID' = event /\ event \in B!Tracked'
  <2>1. held[p] \in LogEvent /\ HandleLog(held[p]) /\ held[p] \in Behind
    BY <1>8, HeldTypes DEF Handles, TypeInv, Running, OnTheWay
  <2>2. event \in Nat /\ held[p].id \in Nat
    BY <2>1 DEF Running, ReqIDs, LogEvent
  <2>3. currentlyExecutingRequestID' = currentlyExecutingRequestID
    BY <2>1 DEF HandleLog, LogEvent, LogTypes, B!OnPlatformStart, B!OnPlatformReport,
                B!OnLambdaLogRuntimeDone, batchVars, B!batchVars
  <2>4. CASE held[p].kind = "report"
    <3>1. held[p].id # event
      BY <2>1, <2>2, <2>4 DEF Behind
    <3>2. B!Tracked' = B!Tracked \ {held[p].id}
      BY <2>1, <2>4 DEF HandleLog, B!OnPlatformReport, B!Restrict, B!Tracked
    <3> QED
      BY <2>3, <3>1, <3>2 DEF Running
  <2>5. CASE held[p].kind # "report"
    <3>1. UNCHANGED invocations \/ \E r, inc : invocations' = B!Put(r, inc)
      BY <2>1, <2>5 DEF HandleLog, LogEvent, LogTypes, B!OnPlatformStart,
                        B!OnLambdaLogRuntimeDone, batchVars, B!batchVars
    <3> QED
      BY <1>1, <1>2, <2>3, <3>1 DEF Running
  <2> QED
    BY <2>4, <2>5
<1>9. ~ReceiveInvoke /\ ~FinalizeAll
  BY DEF Running, Processing, ReceiveInvoke, FinalizeAll, At
<1>10. CASE Calls
  BY <1>4, <1>5, <1>6, <1>7, <1>8, <1>9, <1>10
     DEF Calls, ForwardAgentData, ForwardLambdaData, FlushAgentData, FlushLambdaData,
         Senders, LogsHandle, FlushHandleLog
<1> QED
  BY <1>3, <1>10, NextSplits

\* The executing request stays filed until the event loop calls Next again.
LEMMA RunningStep ==
    ASSUME B!TypeOK, TypeInv, HearInv, ReportsInv, ~earlyReport, Running, [Next]_vars,
           main' \in Processing
    PROVE  Running'
<1>1. main # "next" /\ event \in Nat
  BY DEF Running, Processing, ReqIDs
<1>2. UNCHANGED << event, invoked >>
  BY <1>1, ClockStep DEF TypeInv, ReportsInv
<1>3. PICK S : S = Behind
  OBVIOUS
<1>4. ASSUME NEW ev \in LogEvent, Emitted(ev) PROVE ev \in S
  <2>1. ev.id \in Nat
    BY DEF LogEvent, ReqIDs
  <2> QED
    BY <1>1, <1>3, <1>4, <2>1 DEF Emitted, Behind
<1>5. OnTheWay(S)'
  BY <1>3, <1>4, PipelineStep DEF Running
<1>6. Behind' = S
  BY <1>2, <1>3 DEF Behind
<1> QED
  BY <1>2, <1>5, <1>6, CurrentStep DEF Running

\* It is filed when its event is received.
LEMMA RunningBegins ==
    ASSUME B!TypeOK, TypeInv, HearInv, ReportsInv, ~earlyReport, ReceiveInvoke
    PROVE  Running'
<1>1. /\ event \in Nat /\ invoked \in 0..NumRequests /\ event < invoked
      /\ event' = invoked /\ invoked' = invoked
  BY DEF ReceiveInvoke, TypeInv, InvokedInv, Shutdown, platformVars
<1>2. main' = "select"
  BY DEF ReceiveInvoke, StartGoroutines
<1>3. currentlyExecutingRequestID' = invoked /\ invoked \in B!Tracked'
  BY DEF ReceiveInvoke, B!RegisterInvocation, B!Put, B!Tracked
<1>4. PICK S : S = {ev \in LogEvent : ev.kind = "report" => ev.id < invoked}
  OBVIOUS
<1>5. ASSUME NEW ev \in LogEvent, ReportOnTime(ev) PROVE ev \in S
  <2>1. ev.id \in Nat
    BY DEF LogEvent, ReqIDs
  <2> QED
    BY <1>1, <1>4, <1>5, <2>1 DEF ReportOnTime
<1>6. OnTheWay(S)
  BY <1>5 DEF ReportsInv, OnTheWay
<1>7. UNCHANGED << posted, logsChannel, held >>
  BY DEF ReceiveInvoke, channelVars, platformVars, logPostVars
<1>8. OnTheWay(S)'
  BY <1>6, <1>7 DEF OnTheWay, LogEventAt
<1>9. Behind' = S
  BY <1>1, <1>4 DEF Behind
<1> QED
  BY <1>1, <1>2, <1>3, <1>8, <1>9 DEF Running, Processing, ReqIDs

-----------------------------------------------------------------------------
\* What is added while an event is processed is filed under its request.

\* Run finalizes what is left at SHUTDOWN only, and the process exits behind the
\* deferred flush only.
LoopInv ==
    /\ main = "onShutdown" => event = Shutdown
    /\ main = "exited" => deferred

FiledInv ==
    main \in Processing /\ event # Shutdown /\ ~deferred /\ ~earlyReport => Running

\* An event is processed from where it is received.
LEMMA LoopStep ==
    ASSUME TurnsInv, TypeInv, LoopInv, finished \in Nat, [Next]_vars
    PROVE  /\ LoopInv'
           /\ main' \in Processing /\ event' # Shutdown /\ ~deferred'
                => (main \in Processing /\ event # Shutdown /\ ~deferred) \/ ReceiveInvoke
<1> DEFINE Goes ==
           /\ main' = "onShutdown" => event' = Shutdown
           /\ main' = "exited" => deferred'
           /\ main' \in Processing /\ event' # Shutdown /\ ~deferred'
                => (main \in Processing /\ event # Shutdown /\ ~deferred) \/ ReceiveInvoke
<1> SUFFICES Goes
  BY DEF LoopInv, Shutdown
<1> USE DEF TurnsInv, LoopInv, Processing, loopVars, sendVars, Shutdown
<1>1. CASE Quiet
  <2>1. CASE \/ Invoke \/ FunctionEnds \/ Signal \/ ApiError \/ DeliverLog
             \/ DeliveryTimesOut \/ NextCancelled \/ GraceOver \/ Exited
    BY <2>1 DEF Invoke, FunctionEnds, Signal, ApiError, DeliverLog, DeliveryTimesOut,
                LogHandlerControl, NextCancelled, NextFails, GraceOver, Exited, vars
  <2>2. CASE \/ \E r \in ReqIDs : AgentSends(r) \/ AgentFlushes(r)
             \/ ForwarderStarts \/ ForwarderEnds \/ \E s \in Senders : Ship(s)
             \/ \E e \in Events :
                    LogsEnd(e) \/ LogsTake(e) \/ LogsForward(e) \/ LogsCheckSize(e)
    BY <2>2 DEF AgentSends, AgentFlushes, ForwarderStarts, ForwarderEnds,
                ForwarderControl, Ship, LogsEnd, LogsTake, Takes, LogsForward,
                LogsCheckSize, ChecksSize
  <2>3. CASE ReceiveShutdown \/ AgentDone \/ LogsDone \/ TimerExpires \/ FlushGivesUp
    BY <2>3 DEF ReceiveShutdown, StartGoroutines, AgentDone, LogsDone, TimerExpires,
                Return, FlushGivesUp, At, LocalStep
  <2>4. CASE Wait \/ FlushTakeLog \/ FlushCheckSize \/ FlushLogsDone \/ FlushRest
    BY <2>4 DEF Wait, FlushTakeLog, FlushCheckSize, ChecksSize, FlushLogsDone, FlushRest,
                Takes, Goto, NextRound, LocalStep, At
  <2>5. CASE FlushStarts \/ FlushEnds
    BY <2>5 DEF FlushStarts, FlushEnds, At, AfterFlush, Goto, NextRound, LocalStep
  <2> QED
    BY <1>1, <2>1, <2>2, <2>3, <2>4, <2>5 DEF Quiet
<1>2. CASE Calls
  <2>1. CASE \/ \E r \in ReqIDs : AgentInit(r)
             \/ \E s \in Senders, result \in PostResults : PostReturns(s, result)
             \/ ForwardAgentData \/ ForwardLambdaData \/ Mature
    BY <2>1 DEF AgentInit, PostReturns, ForwardAgentData, ReceiveAgentData,
                ForwardLambdaData, ReceiveLambdaData, Mature
  <2>2. CASE \E e \in Events : LogsHandle(e)
    BY <2>2 DEF LogsHandle, Handles
  <2>3. CASE FlushHandleLog \/ FlushForwardLog
    BY <2>3 DEF FlushHandleLog, FlushForwardLog, Handles, At
  <2>4. CASE FlushAgentData \/ FlushLambdaData
    BY <2>4 DEF FlushAgentData, FlushLambdaData, ReceiveAgentData, ReceiveLambdaData, At
  <2>5. CASE FinalizeAll
    BY <2>5 DEF FinalizeAll
  <2>6. CASE ReceiveInvoke
    BY <2>6 DEF ReceiveInvoke, StartGoroutines
  <2> QED
    BY <1>2, <2>1, <2>2, <2>3, <2>4, <2>5, <2>6 DEF Calls
<1> QED
  BY <1>1, <1>2, NextSplits DEF vars

LEMMA FiledInvariance == Spec => [](LoopInv /\ FiledInv)
<1>1. Init => LoopInv /\ FiledInv
  BY DEF Init, LoopInv, FiledInv, Processing
<1>2. ASSUME B!TypeOK, TypeInv, HearInv, TurnsInv, ReportsInv, LoopInv, FiledInv,
             [Next]_vars
      PROVE  (LoopInv /\ FiledInv)'
  <2>1. /\ LoopInv'
        /\ main' \in Processing /\ event' # Shutdown /\ ~deferred'
             => (main \in Processing /\ event # Shutdown /\ ~deferred) \/ ReceiveInvoke
    BY <1>2, LoopStep DEF ReportsInv
  <2>2. Shutdown' = Shutdown
    BY DEF Shutdown
  <2>3. earlyReport' = earlyReport
    BY <1>2, ClockStep DEF TypeInv, ReportsInv
  <2>4. SUFFICES ASSUME main' \in Processing, event' # Shutdown, ~deferred', ~earlyReport
                 PROVE  Running'
    BY <2>1, <2>2, <2>3 DEF FiledInv, Processing
  <2>5. CASE ReceiveInvoke
    BY <1>2, <2>4, <2>5, RunningBegins
  <2>6. CASE ~ReceiveInvoke
    <3>1. Running
      BY <1>2, <2>1, <2>4, <2>6 DEF FiledInv
    <3> QED
      BY <1>2, <2>4, <3>1, RunningStep
  <2> QED
    BY <2>5, <2>6
<1> QED
  BY <1>1, <1>2, BatchInvariants, TypeInvariance, HearInvariance, TurnsInvariance,
     ReportsInvariance, PTL DEF Spec

\* For any number of requests, agents and log events: what is added to the batch from
\* the receipt of an event to the next call of Next is filed under its request, unless
\* the report of a request comes before its processing is over (accumulator/batch.go,
\* RegisterInvocation and OnAgentInit; app/run.go).
THEOREM DataIsFiled == Spec => []DataIsFiledUnderEvent
<1>1. TurnsInv /\ LoopInv /\ FiledInv => DataIsFiledUnderEvent
  <2> SUFFICES ASSUME TurnsInv, LoopInv, FiledInv, event \in ReqIDs, main # "next",
                      ~deferred, ~earlyReport
               PROVE  currentlyExecutingRequestID = event /\ event \in B!Tracked
    BY DEF DataIsFiledUnderEvent
  <2>1. event # Shutdown
    BY ExtensionAssumption DEF ReqIDs, Shutdown
  <2>2. main \in Processing
    BY <2>1 DEF TurnsInv, LoopInv, Processing
  <2> QED
    BY <2>1, <2>2 DEF FiledInv, Running
<1> QED
  BY <1>1, FiledInvariance, TurnsInvariance, PTL

-----------------------------------------------------------------------------
\* The data that is due.

\* What is due and has not reached APM Server.
Owed == {r \in due : B!AgentTxn(r) \notin received}

\* Its body is in the channel, where the flush will come to it.
InChannel(r) ==
    \E i \in 1..Len(AgentDataChannel) :
        AgentDataChannel[i] = AgentBody(r) /\ (main = "drain" => i <= flushLeft)

DueInv ==
    /\ due \subseteq ReqIDs
    /\ main = "select" => Owed = {}
    /\ (main = "select" /\ event # Shutdown) \/ Owed # {} => Running
    /\ main = "rest" /\ Owed # {} => ship[Main] \in {"force", "post"}
    /\ \A r \in Owed :
          B!AgentTxn(r) \in ToSet(buf) \/ (main # "rest" /\ InChannel(r))

\* A body that finds room is in the batch when it has been received.
LEMMA BodyAdded ==
    ASSUME buf \in Seq(B!Line), NEW r \in ReqIDs, B!AddAgentData(AgentBody(r)),
           ~B!BatchFull, currentlyExecutingRequestID \in B!Tracked
    PROVE  B!AgentTxn(r) \in ToSet(buf')
<1> DEFINE front == IF metadataBytes = 0 THEN << B!MetadataLine >> ELSE buf
           lines == AgentBody(r)
<1>1. buf' = front \o lines
  BY DEF B!AddAgentData, B!AddLines
<1>2. front \in Seq(B!Line) /\ lines \in Seq(B!Line)
  <2>1. << B!MetadataLine >> \in Seq(B!Line)
    BY DEF B!Line
  <2>2. AgentBody(r) \in Seq(B!Line)
    BY DEF B!Line, B!EventLine, B!EventKinds, AgentBody
  <2> QED
    BY <2>1, <2>2
<1>3. Len(lines) = 1 /\ lines[1] = B!AgentTxn(r)
  BY DEF AgentBody, B!AgentTxn
<1> HIDE DEF front, lines
<1>4. Len(front) \in Nat
  BY <1>2, LenProperties
<1>5. Len(buf') = Len(front) + 1 /\ buf'[Len(front) + 1] = B!AgentTxn(r)
  <2> DEFINE n == Len(front)
  <2>1. /\ Len(buf') = n + 1
        /\ \A i \in 1..n + 1 : buf'[i] = IF i <= n THEN front[i] ELSE lines[i - n]
    <3>1. /\ Len(front \o lines) = n + Len(lines)
          /\ \A i \in 1..n + Len(lines) :
                (front \o lines)[i] = IF i <= n THEN front[i] ELSE lines[i - n]
      BY <1>2, ConcatProperties
    <3> QED
      BY <1>1, <1>3, <3>1
  <2>2. n \in Nat
    BY <1>4
  <2> HIDE DEF n
  <2>3. n + 1 \in 1..n + 1 /\ ~(n + 1 <= n) /\ (n + 1) - n = 1
    BY <2>2
  <2>4. buf'[n + 1] = lines[(n + 1) - n]
    BY <2>1, <2>3
  <2> QED
    BY <1>3, <2>1, <2>3, <2>4 DEF n
<1> QED
  BY <1>4, <1>5 DEF ToSet

\* What the batch has taken stays in it until APM Server has it.
LEMMA TxnKept ==
    ASSUME B!TypeOK, B!BufferFraming, TypeInv, TurnsInv, PostInv, PostInv', SnapInv',
           B!TypeOK', [Next]_vars, outages' = 0,
           NEW r \in ReqIDs, B!AgentTxn(r) \in ToSet(buf)
    PROVE  B!AgentTxn(r) \in ToSet(buf') \cup received'
<1>1. B!AgentTxn(r) \in ToSet(buf') \cup ToSet(snap') \cup received'
  BY AcceptedStep DEF B!AgentTxn
<1>2. ToSet(snap') \subseteq ToSet(buf')
  <2>1. CASE \A s \in Senders : ship'[s] # "post"
    BY <2>1 DEF PostInv, ToSet
  <2>2. CASE \E s \in Senders : ship'[s] = "post"
    <3>1. /\ Len(snap') \in 0..Len(buf')
          /\ \A i \in 1..Len(snap') : buf'[i] = snap'[i]
      BY <2>2 DEF PostInv
    <3>2. Len(buf') \in Nat
      BY LenProperties DEF B!TypeOK
    <3> QED
      BY <3>1, <3>2 DEF ToSet
  <2> QED
    BY <2>1, <2>2
<1> QED
  BY <1>1, <1>2

\* A step while nothing is owed.
LEMMA NothingOwed ==
    ASSUME DueInv, Owed = {}, due' \subseteq due, received \subseteq received',
           main' = "select" /\ event' # Shutdown => Running'
    PROVE  DueInv'
<1>1. Owed' = {}
  <2>1. \A r : B!AgentTxn(r)' = B!AgentTxn(r)
    BY DEF B!AgentTxn
  <2> QED
    BY <2>1 DEF Owed
<1> QED
  BY <1>1 DEF DueInv

\* A step of the event loop, or of another goroutine, that leaves the channel alone.
LEMMA DueFrame ==
    ASSUME DueInv, UNCHANGED << AgentDataChannel, due >>, received \subseteq received',
           \A r \in ReqIDs : B!AgentTxn(r) \in ToSet(buf) =>
              B!AgentTxn(r) \in ToSet(buf') \cup received',
           Owed # {} => Running',
           \/ UNCHANGED << main, flushLeft, event >>
           \/ main' \in {"wait", "logs", "flush"} /\ main # "rest"
           \/ main' = "drain" /\ main # "rest" /\ flushLeft' = Len(AgentDataChannel),
           main' = "select" /\ event' # Shutdown => Running',
           main' = "rest" /\ Owed' # {} => ship'[Main] \in {"force", "post"}
    PROVE  DueInv'
<1>1. \A r : B!AgentTxn(r)' = B!AgentTxn(r) /\ AgentBody(r)' = AgentBody(r)
  BY DEF B!AgentTxn, AgentBody
<1>2. Owed' \subseteq Owed /\ due' \subseteq ReqIDs
  BY <1>1 DEF Owed, DueInv
<1>3. main' = "select" => Owed' = {}
  BY <1>2 DEF DueInv
<1>4. ASSUME NEW r \in Owed'
      PROVE  B!AgentTxn(r) \in ToSet(buf') \/ (main' # "rest" /\ InChannel(r)')
  <2>1. r \in ReqIDs /\ r \in Owed /\ B!AgentTxn(r) \notin received'
    BY <1>1, <1>2, <1>4 DEF Owed, DueInv
  <2>2. CASE B!AgentTxn(r) \in ToSet(buf)
    BY <2>1, <2>2
  <2>3. CASE main # "rest" /\ InChannel(r)
    <3>1. PICK i \in 1..Len(AgentDataChannel) :
             AgentDataChannel[i] = AgentBody(r) /\ (main = "drain" => i <= flushLeft)
      BY <2>3 DEF InChannel
    <3>2. main' = "drain" => i <= flushLeft'
      BY <3>1
    <3> QED
      BY <1>1, <2>3, <3>1, <3>2 DEF InChannel
  <2> QED
    BY <2>1, <2>2, <2>3 DEF DueInv
<1> QED
  BY <1>1, <1>2, <1>3, <1>4 DEF DueInv

LEMMA DueStep ==
    ASSUME B!TypeOK, B!TypeOK', B!BufferFraming, B!BufferFraming', TypeInv, HearInv,
           TurnsInv, PostInv, PostInv', SnapInv', DrainInv, ReportsInv,
           RoomForBodies, DueInv, [Next]_vars,
           SyncFlush, outages' = 0, outages = 0, ~earlyReport
    PROVE  DueInv'
<1>1. \A r \in ReqIDs : B!AgentTxn(r) \in ToSet(buf) =>
         B!AgentTxn(r) \in ToSet(buf') \cup received'
  BY TxnKept
<1>2. Running /\ main' \in Processing => Running'
  BY RunningStep
<1>3. Owed # {} => Running /\ main # "select"
  BY DEF DueInv
<1>4. ship \in [Senders -> {"no", "check", "force", "post"}] /\ ~failing
  BY DEF TurnsInv, PostInv
<1>5. \A r : B!AgentTxn(r)' = B!AgentTxn(r) /\ AgentBody(r)' = AgentBody(r)
  BY DEF B!AgentTxn, AgentBody
<1>6. ASSUME Owed = {}, due' \subseteq due, received \subseteq received',
             main' = "select" => main = "select" /\ event' = event
      PROVE  DueInv'
  BY <1>2, <1>6, NothingOwed DEF DueInv, Processing
<1>7. ASSUME UNCHANGED << main, event, flushLeft, AgentDataChannel, due >>,
             received \subseteq received',
             main = "rest" /\ Owed' # {} => ship'[Main] \in {"force", "post"}
      PROVE  DueInv'
  <2>1. Running => Running'
    BY <1>2, <1>7 DEF Running
  <2>2. main' = "select" /\ event' # Shutdown => Running'
    BY <1>7, <2>1 DEF DueInv
  <2>3. Owed # {} => Running'
    BY <1>3, <2>1
  <2> QED
    BY <1>1, <1>7, <2>2, <2>3, DueFrame
<1>8. ASSUME UNCHANGED << main, event, flushLeft, AgentDataChannel, due >>,
             received \subseteq received', ship'[Main] = ship[Main]
      PROVE  DueInv'
  <2>1. Owed' \subseteq Owed
    BY <1>5, <1>8 DEF Owed
  <2> QED
    BY <1>7, <1>8, <2>1 DEF DueInv
<1>9. ASSUME UNCHANGED << event, AgentDataChannel, due, received >>,
             main' \in {"logs", "flush"}, main # "rest"
      PROVE  DueInv'
  <2>1. Owed # {} => Running'
    BY <1>2, <1>3, <1>9 DEF Processing
  <2> QED
    BY <1>1, <1>9, <2>1, DueFrame
<1> USE DEF batchVars, channelVars, sendVars, serverVars, loopVars, forwarderVars,
           logVars, platformVars, contextVars, agentVars
<1>10. CASE Invoke \/ FunctionEnds \/ Signal \/ DeliverLog \/ DeliveryTimesOut
  BY <1>8, <1>10 DEF Invoke, FunctionEnds, Signal, DeliverLog, DeliveryTimesOut,
                     LogHandlerControl
<1>11. CASE \E r \in ReqIDs : AgentInit(r) \/ AgentFlushes(r)
  BY <1>8, <1>11 DEF AgentInit, AgentFlushes
<1>12. CASE ForwarderStarts \/ ForwarderEnds
  BY <1>8, <1>12 DEF ForwarderStarts, ForwarderEnds, ForwarderControl
<1>13. CASE Ship(Forwarder)
  <2>1. ship'[Main] = ship[Main]
    BY <1>4, <1>13 DEF Ship, Senders, Forwarder, Main
  <2> QED
    BY <1>8, <1>13, <2>1 DEF Ship
<1>14. CASE \E result \in PostResults : PostReturns(Forwarder, result)
  <2>1. ship'[Main] = ship[Main]
    BY <1>4, <1>14 DEF PostReturns, Senders, Forwarder, Main
  <2> QED
    BY <1>8, <1>14, <2>1 DEF PostReturns
<1>15. CASE \E e \in Events : LogsGoroutine(e)
  BY <1>8, <1>15 DEF LogsGoroutine, LogsEnd, LogsTake, Takes, LogsHandle, Handles,
                     LogsForward, LogsCheckSize, ChecksSize
<1>16. CASE GraceOver \/ Mature \/ Exited \/ UNCHANGED vars \/ FlushTakeLog
  BY <1>8, <1>16 DEF GraceOver, Mature, Exited, vars, FlushTakeLog, Takes
<1>17. CASE ForwardLambdaData
  <2>1. ship'[Main] = ship[Main]
    BY <1>4, <1>17 DEF ForwardLambdaData, ReceiveLambdaData, Senders, Forwarder, Main
  <2> QED
    BY <1>8, <1>17, <2>1 DEF ForwardLambdaData, ReceiveLambdaData
<1>18. ASSUME NEW r \in ReqIDs, AgentSends(r) PROVE DueInv'
  <2>1. UNCHANGED << main, event, flushLeft, due, received, ship >>
    BY <1>18 DEF AgentSends
  <2>2. Owed' = Owed
    BY <1>5, <2>1 DEF Owed
  <2>3. Running => Running'
    BY <1>2, <2>1 DEF Running
  <2>4. /\ Len(AgentDataChannel) \in Nat
        /\ Len(AgentDataChannel') >= Len(AgentDataChannel)
        /\ \A i \in 1..Len(AgentDataChannel) : AgentDataChannel'[i] = AgentDataChannel[i]
    <3>1. AgentBody(r) \in {AgentBody(q) : q \in ReqIDs}
      OBVIOUS
    <3> QED
      BY <1>18, <3>1, AppendProperties, LenProperties
         DEF AgentSends, TypeInv, ChannelInv
  <2>5. \A q : InChannel(q) => InChannel(q)'
    <3> SUFFICES ASSUME NEW q, InChannel(q) PROVE InChannel(q)'
      OBVIOUS
    <3>1. PICK i \in 1..Len(AgentDataChannel) :
             AgentDataChannel[i] = AgentBody(q) /\ (main = "drain" => i <= flushLeft)
      BY DEF InChannel
    <3>2. i \in 1..Len(AgentDataChannel') \/ Len(AgentDataChannel') \notin Int
      BY <2>4
    <3>3. Len(AgentDataChannel') \in Nat
      BY <1>18, LenProperties DEF AgentSends, TypeInv, ChannelInv
    <3> QED
      BY <1>5, <2>1, <2>4, <3>1, <3>2, <3>3 DEF InChannel
  <2>6. buf' = buf
    BY <1>18 DEF AgentSends
  <2> QED
    BY <1>5, <2>1, <2>2, <2>3, <2>5, <2>6 DEF DueInv
<1>19. CASE Return
  <2>1. /\ main = "select" /\ main' = "wait" /\ Owed = {}
        /\ due' = IF event = Shutdown THEN due ELSE Pending
        /\ UNCHANGED << buf, event, AgentDataChannel, received >>
    BY <1>19 DEF Return, DueInv
  <2>2. CASE event = Shutdown
    BY <1>6, <2>1, <2>2
  <2>3. CASE event # Shutdown
    <3>1. Running'
      BY <1>2, <2>1, <2>3 DEF DueInv, Processing
    <3>2. due' = Pending /\ due' \subseteq ReqIDs
      BY <2>1, <2>3 DEF Pending
    <3>3. ASSUME NEW r \in due'
          PROVE  B!AgentTxn(r) \in ToSet(buf') \/ InChannel(r)'
      BY <1>5, <2>1, <3>2 DEF Pending, InChannel, ToSet
    <3>4. Owed' \subseteq due'
      BY DEF Owed
    <3> QED
      BY <2>1, <3>1, <3>2, <3>3, <3>4 DEF DueInv
  <2> QED
    BY <2>2, <2>3
<1>20. ASSUME NEW s \in Senders, ReceiveAgentData(s), ship[Forwarder] = "no",
              ship[Main] = "no", UNCHANGED << main, event >>, main # "rest",
              main = "drain" => flushLeft' = flushLeft - 1
       PROVE  DueInv'
  <2>1. UNCHANGED << due, received >>
    BY <1>20 DEF ReceiveAgentData
  <2>2. CASE Owed = {}
    BY <1>6, <1>20, <2>1, <2>2
  <2>3. CASE Owed # {}
    <3>1. Running /\ main # "select"
      BY <1>3, <2>3
    <3>2. Running'
      BY <1>2, <1>20, <3>1 DEF Running
    <3>3. ~B!BatchFull
      <4>1. event # Shutdown
        BY <3>1, ExtensionAssumption DEF Running, ReqIDs, Shutdown
      <4> QED
        BY <1>20, <4>1 DEF RoomForBodies, Senders
    <3>4. Owed' = Owed
      BY <1>5, <2>1 DEF Owed
    <3>5. PICK q \in ReqIDs : Head(AgentDataChannel) = AgentBody(q)
      BY <1>20, HeadTailProperties DEF ReceiveAgentData, TypeInv, ChannelInv
    <3>6. B!AgentTxn(q) \in ToSet(buf')
      BY <1>20, <3>1, <3>3, <3>5, BodyAdded DEF ReceiveAgentData, B!TypeOK, Running
    <3>7. /\ Len(AgentDataChannel) \in Nat /\ Len(AgentDataChannel') \in Nat
          /\ Len(AgentDataChannel') = Len(AgentDataChannel) - 1
          /\ AgentDataChannel[1] = AgentBody(q)
          /\ \A i \in 1..Len(AgentDataChannel') :
                AgentDataChannel'[i] = AgentDataChannel[i + 1]
      <4>1. AgentDataChannel \in Seq({AgentBody(r) : r \in ReqIDs})
        BY DEF TypeInv, ChannelInv
      <4>2. AgentDataChannel # << >> /\ AgentDataChannel' = Tail(AgentDataChannel)
        BY <1>20 DEF ReceiveAgentData
      <4> QED
        BY <3>5, <4>1, <4>2, HeadTailProperties, LenProperties
    <3>8. ASSUME NEW r \in Owed'
          PROVE  B!AgentTxn(r) \in ToSet(buf') \/ InChannel(r)'
      <4>1. r \in ReqIDs /\ B!AgentTxn(r) \notin received'
        BY <1>5, <2>1, <3>4, <3>8 DEF DueInv, Owed
      <4>2. CASE B!AgentTxn(r) \in ToSet(buf)
        BY <1>1, <4>1, <4>2
      <4>3. CASE InChannel(r)
        <5>1. PICK i \in 1..Len(AgentDataChannel) :
                 AgentDataChannel[i] = AgentBody(r) /\ (main = "drain" => i <= flushLeft)
          BY <4>3 DEF InChannel
        <5>2. CASE i = 1
          <6>1. q = r
            BY <3>7, <5>1, <5>2, OwnLines
          <6> QED
            BY <3>6, <6>1
        <5>3. CASE i # 1
          <6>1. i - 1 \in 1..Len(AgentDataChannel') /\ (i - 1) + 1 = i
            BY <3>7, <5>3
          <6>2. AgentDataChannel'[i - 1] = AgentBody(r)
            BY <3>7, <5>1, <6>1
          <6>3. main' = "drain" => i - 1 <= flushLeft'
            BY <1>20, <5>1, <6>1 DEF DrainInv
          <6> QED
            BY <1>5, <6>1, <6>2, <6>3 DEF InChannel
        <5> QED
          BY <5>2, <5>3
      <4> QED
        BY <3>4, <3>8, <4>2, <4>3 DEF DueInv
    <3>9. main' # "select" /\ main' # "rest" /\ due' \subseteq ReqIDs
      BY <1>20, <2>1, <3>1 DEF DueInv
    <3> QED
      BY <1>5, <3>2, <3>8, <3>9 DEF DueInv
  <2> QED
    BY <2>2, <2>3
<1>21. CASE ForwardAgentData
  BY <1>20, <1>21 DEF ForwardAgentData, Selecting, TurnsInv, Senders
<1>22. CASE FlushAgentData
  BY <1>20, <1>22 DEF FlushAgentData, At, TurnsInv, Senders
<1>23. CASE FlushLambdaData
  <2>1. main = "drain" /\ received' = received
    BY <1>23 DEF FlushLambdaData, At, ReceiveLambdaData
  <2> QED
    BY <1>7, <1>23, <2>1 DEF FlushLambdaData, ReceiveLambdaData
<1>24. CASE ReceiveInvoke
  <2>1. Owed = {} /\ UNCHANGED << due, received >>
    BY <1>3, <1>24 DEF ReceiveInvoke, Running, Processing, StartGoroutines
  <2> QED
    BY <1>24, <2>1, RunningBegins, NothingOwed
<1>25. CASE ReceiveShutdown
  <2>1. Owed = {} /\ UNCHANGED << due, received >> /\ event' = Shutdown
    BY <1>3, <1>25 DEF ReceiveShutdown, Running, Processing, StartGoroutines
  <2>2. Shutdown' = Shutdown
    BY DEF Shutdown
  <2> QED
    BY <2>1, <2>2, NothingOwed
<1>26. CASE ApiError \/ NextCancelled
  <2>1. Owed = {} /\ UNCHANGED << due, received >> /\ main' = "flush"
    BY <1>3, <1>26 DEF ApiError, NextCancelled, NextFails, Running, Processing
  <2> QED
    BY <1>6, <2>1
<1>27. CASE Wait
  BY <1>9, <1>27 DEF Wait, At, Goto, LocalStep
<1>28. CASE FlushHandleLog \/ FlushForwardLog \/ FlushCheckSize \/ FlushLogsDone
  BY <1>9, <1>28 DEF FlushHandleLog, FlushForwardLog, FlushCheckSize, ChecksSize,
                     FlushLogsDone, At, Handles, Goto, LocalStep
<1>29. CASE FlushStarts
  <2>1. /\ main = "flush" /\ main' = "drain" /\ flushLeft' = Len(AgentDataChannel)
        /\ UNCHANGED << event, AgentDataChannel, due, received >>
    BY <1>4, <1>29 DEF FlushStarts, At, Goto, LocalStep
  <2>2. Owed # {} => Running'
    BY <1>2, <1>3, <2>1 DEF Processing
  <2> QED
    BY <1>1, <2>1, <2>2, DueFrame
<1>30. CASE FlushRest
  <2>1. /\ main = "drain" /\ main' = "rest" /\ flushLeft = 0
        /\ UNCHANGED << event, AgentDataChannel, due, received, buf >>
        /\ ship'[Main] = "force"
    BY <1>4, <1>30 DEF FlushRest, At, Goto, LocalStep, Senders
  <2>2. Owed' = Owed /\ due' \subseteq ReqIDs
    BY <1>5, <2>1 DEF Owed, DueInv
  <2>3. Owed # {} => Running'
    BY <1>2, <1>3, <2>1 DEF Processing
  <2>4. ASSUME NEW r \in Owed PROVE B!AgentTxn(r) \in ToSet(buf')
    <3>1. Len(AgentDataChannel) \in Nat
      BY LenProperties DEF TypeInv, ChannelInv
    <3>2. ~InChannel(r)
      BY <2>1, <3>1 DEF InChannel
    <3> QED
      BY <2>1, <2>4, <3>2 DEF DueInv
  <2> QED
    BY <1>5, <2>1, <2>2, <2>3, <2>4 DEF DueInv
<1>31. CASE FlushEnds
  <2>1. /\ main \in {"rest", "drain"} /\ ship[Main] = "no"
        /\ main = "drain" => flushLeft = 0 /\ signalled /\ ~deferred
        /\ UNCHANGED << event, AgentDataChannel, due, received, buf, flushLeft >>
        /\ main' \in {"exited", "onShutdown", "flush", "next"}
    BY <1>31 DEF FlushEnds, At, FlushInterrupted, AfterFlush, Goto, NextRound, LocalStep
  <2>2. CASE Owed = {}
    BY <1>6, <2>1, <2>2
  <2>3. CASE Owed # {}
    <3>1. main = "drain"
      BY <2>1, <2>3 DEF DueInv
    <3>2. event # Shutdown
      BY <1>3, <2>3, ExtensionAssumption DEF Running, ReqIDs, Shutdown
    <3>3. main' = "flush"
      BY <1>31, <2>1, <3>1, <3>2 DEF FlushEnds, AfterFlush, NextRound, At
    <3> QED
      BY <1>9, <2>1, <3>1, <3>3
  <2> QED
    BY <2>2, <2>3
<1>32. CASE FlushGivesUp
  <2>1. main' = "exited" /\ due' = {}
    BY <1>32 DEF FlushGivesUp
  <2> QED
    BY <2>1 DEF DueInv, Owed
<1>33. CASE FinalizeAll
  <2>1. main = "onShutdown" /\ main' = "flush" /\ UNCHANGED << due, received >>
    BY <1>33 DEF FinalizeAll, At, LocalStep
  <2>2. Owed = {}
    BY <1>3, <2>1 DEF Running, Processing
  <2> QED
    BY <1>6, <2>1, <2>2
<1>34. CASE Ship(Main)
  <2>1. /\ UNCHANGED << main, event, flushLeft, AgentDataChannel, due, received, buf >>
        /\ ship[Main] = "force" /\ count # 0 => ship'[Main] = "post"
    BY <1>4, <1>34 DEF Ship, NothingToSend, Senders
  <2>2. ASSUME main = "rest", Owed' # {} PROVE ship'[Main] = "post"
    <3>1. PICK r : r \in Owed'
      BY <2>2
    <3>2. r \in Owed
      BY <1>5, <2>1, <3>1 DEF Owed
    <3>3. B!AgentTxn(r) \in ToSet(buf) /\ ship[Main] = "force"
      BY <1>34, <2>2, <3>2 DEF DueInv, Ship
    <3>4. Len(buf) # 0
      BY <3>3 DEF ToSet
    <3>5. count # 0
      <4>1. PICK i \in 1..Len(buf) : buf[i] = B!AgentTxn(r)
        BY <3>3 DEF ToSet
      <4>2. buf[i] # B!MetadataLine
        BY <4>1 DEF B!AgentTxn, B!MetadataLine
      <4>3. /\ metadataBytes \in {0, 1} /\ count \in Nat
            /\ Len(buf) = metadataBytes + count
        BY DEF B!TypeOK, B!BufferFraming
      <4>4. buf[i] = B!MetadataLine <=> i <= metadataBytes
        BY DEF B!BufferFraming
      <4> QED
        BY <4>1, <4>2, <4>3, <4>4
    <3> QED
      BY <2>1, <3>3, <3>5
  <2> QED
    BY <1>7, <2>1, <2>2
<1>35. ASSUME NEW result \in PostResults, PostReturns(Main, result) PROVE DueInv'
  <2>1. /\ UNCHANGED << main, event, flushLeft, AgentDataChannel, due >>
        /\ received \subseteq received' /\ B!Reset
    BY <1>35 DEF PostReturns, ResetAfter
  <2>2. ASSUME main = "rest", NEW r \in Owed' PROVE FALSE
    <3>1. r \in Owed /\ r \in ReqIDs /\ B!AgentTxn(r) \notin received'
      BY <1>5, <2>1, <2>2 DEF Owed, DueInv
    <3>2. B!AgentTxn(r) \in ToSet(buf')
      BY <1>1, <2>2, <3>1 DEF DueInv
    <3>3. PICK i \in 1..Len(buf') : buf'[i] = B!AgentTxn(r)
      <4>1. buf' \in Seq(B!Line')
        BY DEF B!TypeOK
      <4> QED
        BY <3>2, <4>1 DEF ToSet
    <3>4. /\ metadataBytes' \in {0, 1} /\ count' = 0
          /\ Len(buf') = metadataBytes' + count'
          /\ buf'[i] = B!MetadataLine' <=> i <= metadataBytes'
      BY <2>1, <3>3 DEF B!Reset, B!TypeOK, B!BufferFraming
    <3>5. buf'[i] = B!MetadataLine
      BY <3>3, <3>4 DEF B!MetadataLine
    <3> QED
      BY <3>3, <3>5 DEF B!MetadataLine, B!AgentTxn
  <2> QED
    BY <1>7, <2>1, <2>2
<1>36. Next \/ UNCHANGED vars
  OBVIOUS
<1> QED
  BY <1>10, <1>11, <1>12, <1>13, <1>14, <1>15, <1>16, <1>17, <1>18, <1>19, <1>21,
     <1>22, <1>23, <1>24, <1>25, <1>26, <1>27, <1>28, <1>29, <1>30, <1>31, <1>32,
     <1>33, <1>34, <1>35, <1>36
     DEF Next, EventLoop, ForwarderGoroutine, Send, AgentDone, LogsDone, TimerExpires,
         Senders

\* While APM Server accepts what it is sent, what is due is on its way to it.
Delivers == SyncFlush /\ outages = 0 /\ ~earlyReport

LEMMA DueInvariance == Spec /\ []RoomForBodies => [](Delivers => DueInv)
<1>1. ASSUME Init PROVE DueInv
  <2>1. due = {} /\ main = "next"
    BY <1>1 DEF Init
  <2> QED
    BY <2>1 DEF DueInv, Owed
<1>2. ASSUME B!TypeOK, B!TypeOK', B!BufferFraming, B!BufferFraming', TypeInv, HearInv,
             TurnsInv, PostInv, PostInv', SnapInv', DrainInv, ReportsInv,
             RoomForBodies, Delivers => DueInv, [Next]_vars
      PROVE  (Delivers => DueInv)'
  <2> SUFFICES ASSUME Delivers' PROVE DueInv'
    OBVIOUS
  <2>1. outages' \in Nat /\ outages \in Nat /\ outages' = 0
    BY <1>2 DEF PostInv, Delivers
  <2>2. outages = 0
    <3>1. CASE \E s \in Senders, result \in PostResults : PostReturns(s, result)
      BY <2>1, <3>1 DEF PostReturns
    <3>2. CASE \E s \in Senders : Ship(s)
      BY <2>1, <3>2 DEF Ship, serverVars
    <3>3. CASE NoPost
      BY <2>1, <3>3 DEF NoPost
    <3> QED
      BY <1>2, <3>1, <3>2, <3>3, PostFrame
  <2>3. earlyReport' = earlyReport
    BY <1>2, ClockStep DEF TypeInv, ReportsInv
  <2>4. SyncFlush /\ ~earlyReport
    BY <2>3 DEF Delivers
  <2> QED
    BY <1>2, <2>1, <2>2, <2>4, DueStep DEF Delivers
<1> QED
  BY <1>1, <1>2, BatchInvariants, TypeInvariance, HearInvariance, TurnsInvariance,
     PostInvariance, SnapInvariance, DrainInvariance, ReportsInvariance, PTL DEF Spec

\* With the syncflush strategy, while APM Server accepts what it is sent and the
\* batch has room for the bodies, what an agent sent before the end of an event has
\* reached APM Server when the extension asks for the next one (app/run.go).
THEOREM FlushDelivers == Spec /\ []RoomForBodies => []SyncFlushDelivers
<1>1. (Delivers => DueInv) => SyncFlushDelivers
  BY DEF Delivers, DueInv, Owed, Running, Processing, SyncFlushDelivers
<1> QED
  BY <1>1, DueInvariance, PTL

\* And when the process exits, it has reached APM Server however Run returned, if
\* the deferred flush met its deadline (app/run.go).
THEOREM LastFlushDelivers == Spec /\ []RoomForBodies => []ExitDelivers
<1>1. (Delivers => DueInv) => ExitDelivers
  BY DEF Delivers, DueInv, Owed, Running, Processing, ExitDelivers
<1> QED
  BY <1>1, DueInvariance, PTL

-----------------------------------------------------------------------------
\* When there is room.

\* What a sender may leave in the batch when it does not ship.
Slack == IF (MaxSize * 9) \div 10 = 0 THEN 0 ELSE (MaxSize * 9) \div 10 - 1

\* The requests whose proxies are in the batch.
InBatch == {r \in ReqIDs : B!ProxyTxn(r) \in ToSet(buf)}

\* The proxies that are in the batch fit behind what a sender leaves: with 50
\* events, five of them at a time.
ProxiesFit == Slack + Cardinality(InBatch) < MaxSize

Idle == \A s \in Senders : ship[s] = "no"

RoomInv == event # Shutdown /\ Idle => count <= Slack + Cardinality(InBatch)

LEMMA SlackType == Slack \in Nat
BY ExtensionAssumption DEF Slack

LEMMA InBatchIsFinite == IsFiniteSet(InBatch) /\ Cardinality(InBatch) \in Nat
<1>1. InBatch \subseteq ReqIDs
  BY DEF InBatch
<1>2. IsFiniteSet(InBatch)
  BY <1>1, RequestsAreFinite, FS_Subset
<1> QED
  BY <1>2, FS_CardinalityType

\* Only a line of its own changes what is in a sequence that grows by it.
LEMMA OneMore ==
    ASSUME NEW S, NEW front \in Seq(S), NEW x \in S
    PROVE  ToSet(front \o << x >>) = ToSet(front) \cup {x}
<1>1. << x >> \in Seq(S) /\ Len(<< x >>) = 1 /\ << x >>[1] = x
  OBVIOUS
<1>2. PICK n : n = Len(front)
  OBVIOUS
<1>3. n \in Nat
  BY <1>2, LenProperties
<1>4. PICK all : all = front \o << x >>
  OBVIOUS
<1>5. all \in Seq(S)
  BY <1>1, <1>4, ConcatProperties
<1>6. /\ Len(all) = n + 1
      /\ \A i \in 1..n + 1 : all[i] = IF i <= n THEN front[i] ELSE << x >>[i - n]
  BY <1>1, <1>2, <1>4, ConcatProperties
<1>7. all[n + 1] = x
  <2>1. n + 1 \in 1..n + 1 /\ ~(n + 1 <= n) /\ (n + 1) - n = 1
    BY <1>3
  <2>2. all[n + 1] = << x >>[(n + 1) - n]
    BY <1>6, <2>1
  <2> QED
    BY <1>1, <2>1, <2>2
<1>8. \A i \in 1..n : all[i] = front[i]
  BY <1>3, <1>6
<1>9. ToSet(all) = {all[i] : i \in 1..n + 1} /\ ToSet(front) = {front[i] : i \in 1..n}
  BY <1>2, <1>5, <1>6 DEF ToSet
<1>10. 1..n + 1 = 1..n \cup {n + 1}
  BY <1>3
<1>11. ToSet(all) = {all[i] : i \in 1..n} \cup {x}
  BY <1>7, <1>9, <1>10
<1>12. {all[i] : i \in 1..n} = {front[i] : i \in 1..n}
  BY <1>8
<1> QED
  BY <1>4, <1>9, <1>11, <1>12

\* A log event that adds to the batch adds the proxy of its invocation.
LEMMA ProxyAdded ==
    ASSUME B!TypeOK, ProxiesInv, NEW ev \in LogEvent, HandleLog(ev), buf' # buf
    PROVE  /\ ev.id \notin InBatch /\ InBatch' = InBatch \cup {ev.id}
           /\ count' = count + 1
<1>1. PICK r : r = ev.id
  OBVIOUS
<1>2. ev.kind = "runtimeDone"
  BY DEF HandleLog, LogEvent, LogTypes, B!OnPlatformStart, B!OnPlatformReport,
         batchVars, B!bufferVars
<1>3. B!OnLambdaLogRuntimeDone(r) /\ ~UNCHANGED B!batchVars
  BY <1>1, <1>2 DEF HandleLog, B!batchVars
<1>4. r \in B!Tracked
      /\ B!AddLines(buf, IF B!NeedProxyTransaction(invocations[r])
                         THEN << B!ProxyTxn(invocations[r].TransactionID) >> ELSE << >>)
  BY <1>3 DEF B!OnLambdaLogRuntimeDone, B!Lookup
<1>5. buf \in Seq(B!Line) /\ count \in Nat /\ r \in ReqIDs
  BY <1>4 DEF B!TypeOK
<1>6. B!NeedProxyTransaction(invocations[r])
  <2>1. buf \o << >> = buf
    BY <1>5, ConcatEmptySeq
  <2> QED
    BY <1>4, <2>1 DEF B!AddLines
<1>7. B!ProxyTxn(r) \notin Carried /\ invocations[r].TransactionID = r
  BY <1>4, <1>6, OwedIsNotCarried
<1>8. buf' = buf \o << B!ProxyTxn(r) >> /\ count' = count + 1
  BY <1>4, <1>6, <1>7 DEF B!AddLines
<1>9. B!ProxyTxn(r) \in B!Line
  BY <1>5 DEF B!ProxyTxn, B!Line, B!EventLine, B!EventKinds
<1>10. ToSet(buf') = ToSet(buf) \cup {B!ProxyTxn(r)}
  BY <1>5, <1>8, <1>9, OneMore
<1>11. \A q : B!ProxyTxn(q)' = B!ProxyTxn(q)
  BY DEF B!ProxyTxn
<1>12. InBatch' = InBatch \cup {r} /\ r \notin InBatch
  BY <1>5, <1>7, <1>10, <1>11, OwnLines DEF InBatch, Carried, ReqIDs
<1> QED
  BY <1>1, <1>8, <1>12

\* The number of events is that of the lines behind the metadata.
LEMMA SameCount ==
    ASSUME B!TypeOK, B!TypeOK', B!BufferFraming, B!BufferFraming', buf' = buf
    PROVE  count' = count
<1>1. Len(buf) \in Nat /\ Len(buf') = Len(buf)
  BY LenProperties DEF B!TypeOK
<1>2. /\ metadataBytes \in {0, 1} /\ metadataBytes' \in {0, 1}
      /\ count \in Nat /\ count' \in Nat
      /\ Len(buf) = metadataBytes + count /\ Len(buf') = metadataBytes' + count'
  BY DEF B!TypeOK, B!BufferFraming
<1>3. CASE Len(buf) = 0
  <2>1. \A m \in {0, 1}, c \in Nat : 0 = m + c => c = 0
    OBVIOUS
  <2>2. count = 0
    BY <1>2, <1>3, <2>1
  <2>3. count' = 0
    <3>1. 0 = metadataBytes' + count'
      BY <1>1, <1>2, <1>3
    <3> QED
      BY <1>2, <2>1, <3>1
  <2> QED
    BY <2>2, <2>3
<1>4. CASE Len(buf) > 0
  <2>1. 1 \in 1..Len(buf) /\ 1 \in 1..Len(buf')
    BY <1>1, <1>4
  <2>2. 1 <= metadataBytes <=> 1 <= metadataBytes'
    BY <2>1 DEF B!BufferFraming, B!MetadataLine
  <2> QED
    BY <1>1, <1>2, <2>2
<1> QED
  BY <1>1, <1>3, <1>4

LEMMA RoomStep ==
    ASSUME B!TypeOK, B!TypeOK', B!BufferFraming, B!BufferFraming', TypeInv, TypeInv',
           HearInv, TurnsInv, ProxiesInv, finished \in Nat, LoopInv, RoomInv,
           [Next]_vars
    PROVE  RoomInv'
<1>1. Shutdown' = Shutdown /\ Slack' = Slack /\ \A r : B!ProxyTxn(r)' = B!ProxyTxn(r)
  BY DEF Shutdown, Slack, B!ProxyTxn
<1> SUFFICES ASSUME event' # Shutdown, Idle'
             PROVE  count' <= Slack + Cardinality(InBatch')
  BY <1>1 DEF RoomInv
<1>2. event # Shutdown
  <2>1. event' >= event /\ event \in 0..Shutdown /\ event' \in 0..Shutdown
    BY <1>1, ClockStep DEF TypeInv, InvokedInv
  <2>2. Shutdown \in Nat
    BY ExtensionAssumption DEF Shutdown
  <2> QED
    BY <2>1, <2>2
<1>3. Idle => count <= Slack + Cardinality(InBatch)
  BY <1>2 DEF RoomInv
<1>4. Slack \in Nat /\ Cardinality(InBatch) \in Nat /\ Cardinality(InBatch') \in Nat
  <2>1. InBatch' \subseteq ReqIDs
    BY DEF InBatch, ReqIDs
  <2>2. Cardinality(InBatch') \in Nat
    BY <2>1, RequestsAreFinite, FS_Subset, FS_CardinalityType
  <2> QED
    BY <2>2, SlackType, InBatchIsFinite
<1>5. count \in Nat /\ buf \in Seq(B!Line)
  BY DEF B!TypeOK
<1>6. UNCHANGED buf => InBatch' = InBatch /\ count' = count
  BY <1>1, SameCount DEF InBatch
<1>7. CASE \E r \in ReqIDs : AgentInit(r)
  <2>1. PICK r \in ReqIDs, w \in BOOLEAN : AgentInit(r) /\ B!OnAgentInit(r, r, w)
    BY <1>7 DEF AgentInit
  <2>2. ship' = ship /\ count' = count
    BY <2>1 DEF AgentInit, B!OnAgentInit, sendVars
  <2>3. buf' = buf \/ InBatch = {}
    <3>1. CASE metadataBytes = 0
      <4>1. Len(buf) = 0
        BY <3>1 DEF B!BufferFraming
      <4> QED
        BY <1>5, <4>1 DEF InBatch, ToSet
    <3>2. CASE metadataBytes # 0
      BY <2>1, <3>2 DEF B!OnAgentInit
    <3> QED
      BY <3>1, <3>2
  <2>4. CASE InBatch = {}
    <3>1. Cardinality(InBatch) = 0
      BY <2>4, FS_EmptySet
    <3> QED
      BY <1>3, <1>4, <1>5, <2>2, <3>1 DEF Idle
  <2> QED
    BY <1>3, <1>6, <2>2, <2>3, <2>4 DEF Idle
<1>8. CASE \E s \in Senders : Ship(s)
  <2>1. PICK s \in Senders : Ship(s)
    BY <1>8
  <2>2. InBatch' = InBatch /\ count' = count
    BY <1>6, <2>1 DEF Ship, batchVars
  <2>3. NothingToSend \/ (ship[s] = "check" /\ ~B!ShouldShip)
    BY <2>1 DEF Ship, TurnsInv, Idle
  <2>4. (MaxSize * 9) \div 10 \in Nat
    BY ExtensionAssumption
  <2>5. ~B!ShouldShip => count < (MaxSize * 9) \div 10
    BY <1>5, <2>4 DEF B!ShouldShip
  <2>6. count <= Slack
    BY <1>5, <2>3, <2>4, <2>5 DEF NothingToSend, Slack
  <2> QED
    BY <1>4, <1>5, <2>2, <2>6
<1>9. CASE \E s \in Senders, result \in PostResults : PostReturns(s, result)
  <2>1. count' = 0
    BY <1>9 DEF PostReturns, ResetAfter, B!Reset
  <2> QED
    BY <1>4, <2>1
<1>10. CASE \/ \E s \in Senders : ReceiveAgentData(s) \/ ReceiveLambdaData(s)
            \/ FlushForwardLog
  <2>1. ~Idle'
    BY <1>10 DEF ReceiveAgentData, ReceiveLambdaData, FlushForwardLog, TurnsInv, Idle,
                 Senders
  <2> QED
    BY <2>1
<1>11. CASE UNCHANGED buf
  <2>1. NoPost => Idle
    BY DEF NoPost, Idle
  <2>2. CASE NoPost
    BY <1>3, <1>6, <1>11, <2>1, <2>2
  <2> QED
    BY <1>8, <1>9, <2>2, PostFrame
<1>12. CASE \E p \in {0} \cup Events : Handles(p)
  <2>1. PICK p \in {0} \cup Events : Handles(p)
    BY <1>12
  <2>2. held[p] \in LogEvent /\ HandleLog(held[p]) /\ ship' = ship
    BY <2>1, HeldTypes DEF Handles, TypeInv, sendVars
  <2>3. CASE buf' # buf
    <3>1. PICK r : r = held[p].id
      OBVIOUS
    <3>2. r \notin InBatch /\ InBatch' = InBatch \cup {r} /\ count' = count + 1
      BY <2>2, <2>3, <3>1, ProxyAdded
    <3>3. Cardinality(InBatch') = Cardinality(InBatch) + 1
      BY <3>2, InBatchIsFinite, FS_AddElement
    <3> QED
      BY <1>3, <1>4, <1>5, <2>2, <3>2, <3>3 DEF Idle
  <2> QED
    BY <1>11, <2>3
<1>13. ~FinalizeAll
  BY <1>2 DEF FinalizeAll, At, LoopInv
<1>14. CASE \/ Aside \/ (\E r \in ReqIDs : AgentSends(r)) \/ DeliverLog
            \/ (\E p \in {0} \cup Events : Takes(p) \/ ChecksSize(p)) \/ ReceiveInvoke
            \/ \E e \in Events : LogsForward(e)
  <2>1. UNCHANGED buf
    BY <1>14 DEF Aside, AgentSends, DeliverLog, LogHandlerControl, Takes, ChecksSize,
                 LogsForward, ReceiveInvoke, B!RegisterInvocation, B!bufferVars, batchVars
  <2> QED
    BY <1>11, <2>1
<1> QED
  BY <1>7, <1>9, <1>10, <1>12, <1>13, <1>14, AsideOrMoves DEF Moves

LEMMA RoomInvariance == Spec => []RoomInv
<1>1. ASSUME Init PROVE RoomInv
  <2>1. main = "next" /\ count = 0
    BY <1>1 DEF Init, B!Init
  <2> QED
    BY <2>1, SlackType, InBatchIsFinite DEF RoomInv
<1>2. /\ B!TypeOK /\ B!TypeOK' /\ B!BufferFraming /\ B!BufferFraming' /\ TypeInv
      /\ TypeInv' /\ HearInv /\ TurnsInv /\ ProxiesInv /\ ReportsInv /\ LoopInv
      /\ RoomInv /\ [Next]_vars
      => RoomInv'
  BY RoomStep DEF ReportsInv
<1> QED
  BY <1>1, <1>2, BatchInvariants, TypeInvariance, HearInvariance, TurnsInvariance,
     ProxiesInvariance, ReportsInvariance, FiledInvariance, PTL DEF Spec

\* Between two events that a sender adds, only proxies come into the batch: behind
\* the proxies that are in it, it holds no more than a sender leaves there
\* (accumulator/batch.go, ShouldShip and finalizeInvocation).
THEOREM OnlyProxiesFillIt ==
    Spec => [](event # Shutdown /\ Idle => count <= Slack + Cardinality(InBatch))
<1>1. RoomInv => (event # Shutdown /\ Idle => count <= Slack + Cardinality(InBatch))
  BY DEF RoomInv
<1> QED
  BY <1>1, RoomInvariance, PTL

\* So while they fit, the next event of a sender finds room.
LEMMA ProxiesLeaveRoom == Spec /\ []ProxiesFit => []RoomForBodies
<1>1. B!TypeOK /\ RoomInv /\ ProxiesFit => RoomForBodies
  <2> SUFFICES ASSUME B!TypeOK, RoomInv, ProxiesFit, event # Shutdown, Idle
               PROVE  ~B!BatchFull
    BY DEF RoomForBodies, Idle
  <2>1. count <= Slack + Cardinality(InBatch)
    BY DEF RoomInv
  <2>2. /\ count \in Nat /\ Slack \in Nat /\ MaxSize \in Nat
        /\ Cardinality(InBatch) \in Nat
    BY SlackType, InBatchIsFinite, ExtensionAssumption DEF B!TypeOK
  <2>3. count < MaxSize
    BY <2>1, <2>2 DEF ProxiesFit
  <2> QED
    BY <2>2, <2>3 DEF B!BatchFull
<1> QED
  BY <1>1, BatchInvariants, RoomInvariance, PTL

-----------------------------------------------------------------------------
\* The same in terms of the proxies alone: with the syncflush strategy and an APM
\* Server that accepts what it is sent, as long as the batch never holds more
\* proxies at once than fit behind what a sender leaves in it, what an agent sent
\* before the end of an event has reached APM Server when the next one is asked for
\* (app/run.go, accumulator/batch.go).
THEOREM EventDelivered == Spec /\ []ProxiesFit => []SyncFlushDelivers
BY FlushDelivers, ProxiesLeaveRoom, PTL

\* And it has reached APM Server when the process exits (app/run.go).
THEOREM ExitDelivered == Spec /\ []ProxiesFit => []ExitDelivers
BY LastFlushDelivers, ProxiesLeaveRoom, PTL
=============================================================================
