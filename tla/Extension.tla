------------------------------ MODULE Extension ------------------------------
(***************************************************************************)
(* The running extension: the event loop of app/run.go, the goroutine that *)
(* forwards APM data and the ones that process logs, which it starts for   *)
(* each event, the channels between them and the receivers, and the batch. *)
(*                                                                         *)
(* Around it, the Lambda platform (events, function, logs), the APM agent  *)
(* in the function's process, and APM Server, each doing what the code     *)
(* under src/ expects of it.                                               *)
(*                                                                         *)
(* Requests are numbered in the order in which they are invoked and the    *)
(* root transaction of request r is called r.  A goroutine's step is what  *)
(* it does between two points at which another goroutine's step matters:   *)
(* a channel operation or one locked section of the batch.                 *)
(***************************************************************************)
EXTENDS Naturals, Sequences, FiniteSets, SequencesExt

CONSTANTS
    NumRequests,  \* requests invoked in the life of the extension, at most
    LogEvents,    \* the types of the log events of a request, in their order
    Registrations,\* << request, whether the body has the metadata >>
    MaxLogBatch,  \* log events in a POST of the Logs API, at most
    MaxRetries,   \* POSTs of log events that the handler fails, at most
    LogsClients,  \* whether there is a logs client: {TRUE}, {FALSE} or both
    EarlyReports, \* whether platform.report may precede the call of Next
    Interrupts,   \* "signal": a SIGTERM, "error": an error of the Extensions API
    MaxSize,      \* maximum size of the batch
    AgentCap,     \* capacity of AgentDataChannel
    LambdaCap,    \* capacity of LambdaDataChannel
    LogsCap,      \* capacity of logsChannel
    AgentSignals, \* agents send flushed=true
    SyncFlush,    \* the send strategy is syncflush, not background
    MaxOutages    \* answers of APM Server other than 202, at most

LogTypes == {"start", "function", "runtimeDone", "report"}

ASSUME ExtensionAssumption ==
    /\ NumRequests \in Nat \ {0} /\ MaxSize \in Nat \ {0}
    /\ AgentCap \in Nat \ {0} /\ LambdaCap \in Nat \ {0} /\ LogsCap \in Nat \ {0}
    /\ LogEvents \in Seq(LogTypes)
    /\ Registrations \subseteq (1..NumRequests) \X BOOLEAN
    /\ MaxLogBatch \in Nat \ {0} /\ MaxRetries \in Nat /\ MaxOutages \in Nat
    /\ LogsClients \subseteq BOOLEAN /\ EarlyReports \subseteq BOOLEAN
    /\ Interrupts \subseteq {"signal", "error"}
    /\ AgentSignals \in BOOLEAN /\ SyncFlush \in BOOLEAN

ReqIDs == 1..NumRequests
None == 0
Shutdown == NumRequests + 1     \* the event that follows the last invocation

Forwarder == "forwarder"
Main == "main"
Senders == {Forwarder, Main}

VARIABLES
    \* the batch
    metadataBytes, buf, count, age, invocations,
    currentlyExecutingRequestID, platformStartRequestID,
    \* the apmproxy client
    failing,            \* Status is Failing: one grace goroutine is pending
    flushed,            \* flushCh is closed
    AgentDataChannel,   \* bodies, each a sequence of events
    LambdaDataChannel,  \* lines
    ship,               \* sender -> its progress in sendBatch
    snap,               \* the payload of the POST
    \* the goroutines
    main,               \* where the event loop is
    event,              \* the event it processes, or has processed last
    flushLeft,          \* receives left in the agent loop of FlushAPMData
    deferred,           \* the deferred flush of Run has begun
    signalled,          \* the context of Run is done
    logsClient,         \* there is a logs client, and it has subscribed
    forwarder,          \* where the forwarder of the event is
    lambdaOpen,         \* its lambdaDataChan has been assigned
    logProc,            \* event -> where its ProcessLogs goroutine is
    held,               \* event -> the log event that goroutine handles, the line
                        \*   it forwards, or that it has yet to ask for Size();
                        \*   0 -> those of the event loop
    logsChannel,        \* log events
    \* the platform, the agent and APM Server
    invoked,            \* requests invoked
    finished,           \* requests whose function has returned
    earlyReport,        \* platform.report may precede the call of Next
    answered,           \* log events in batches that were answered 200
    posted,             \* log events up to the end of the batch being posted
    delivered,          \* log events up to the one enqueued last
    retries,            \* batches of log events that were answered 500
    agent,              \* request -> what its agent has done
    received,           \* lines that APM Server has received
    outages,            \* answers other than 202
    due                 \* history: requests whose transaction was in
                        \*   AgentDataChannel or the batch when the last
                        \*   invocation was over

batchVars == << metadataBytes, buf, count, age, invocations,
                currentlyExecutingRequestID, platformStartRequestID >>
channelVars == << AgentDataChannel, LambdaDataChannel, logsChannel >>
sendVars == << ship, snap >>
serverVars == << failing, received, outages >>
loopVars == << main, event, flushLeft, deferred >>
forwarderVars == << forwarder, lambdaOpen >>
logVars == << logProc, held >>
logPostVars == << earlyReport, answered, posted, delivered, retries >>
platformVars == << invoked, finished, logPostVars >>
contextVars == << signalled, logsClient >>
agentVars == << agent, flushed, due >>

vars == << batchVars, channelVars, sendVars, serverVars, loopVars,
           forwarderVars, logVars, platformVars, contextVars, agentVars >>

AgentBody(r) == << [kind |-> "transaction", id |-> r] >>

B == INSTANCE Batch WITH TxnIDs <- ReqIDs,
                         Requests <- {AgentBody(r) : r \in ReqIDs}

Events == 1..Shutdown
Nothing == [kind |-> "none", id |-> None]
SizeCheck == [kind |-> "size", id |-> None]

Init ==
    /\ B!Init
    /\ AgentDataChannel = << >> /\ LambdaDataChannel = << >> /\ logsChannel = << >>
    /\ ship = [s \in Senders |-> "no"]
    /\ snap = << >>
    /\ failing = FALSE /\ received = {} /\ outages = 0
    /\ main = "next" /\ event = 0 /\ flushLeft = 0 /\ deferred = FALSE
    /\ forwarder = "off" /\ lambdaOpen = FALSE
    /\ logProc = [e \in Events |-> "off"]
    /\ held = [p \in {0} \cup Events |-> Nothing]
    /\ signalled = FALSE /\ logsClient \in LogsClients
    /\ invoked = 0 /\ finished = 0 /\ earlyReport \in EarlyReports
    /\ answered = 0 /\ posted = 0 /\ delivered = 0 /\ retries = 0
    /\ agent = [r \in ReqIDs |-> "none"] /\ flushed = FALSE /\ due = {}

\* When the process exits its goroutines end, whatever they were doing.
Alive == main # "exited"

-----------------------------------------------------------------------------
\* The Lambda platform.

\* A request is invoked when the extension asks for the next event and the
\* function of the last request has returned.
Invoke ==
    /\ main = "next"
    /\ event = invoked /\ finished = invoked
    /\ invoked < NumRequests
    /\ invoked' = invoked + 1
    /\ UNCHANGED << batchVars, channelVars, sendVars, serverVars, loopVars,
                    forwarderVars, logVars, finished, logPostVars, contextVars,
                    agentVars >>

\* The function returns, fails, or is stopped at its deadline.
FunctionEnds ==
    /\ finished < invoked
    /\ finished' = invoked
    /\ UNCHANGED << batchVars, channelVars, sendVars, serverVars, loopVars,
                    forwarderVars, logVars, invoked, logPostVars, contextVars,
                    agentVars >>

\* A SIGTERM or SIGINT of the process cancels the context of Run.
Signal ==
    /\ "signal" \in Interrupts
    /\ Alive /\ ~signalled
    /\ signalled' = TRUE
    /\ UNCHANGED << batchVars, channelVars, sendVars, serverVars, loopVars,
                    forwarderVars, logVars, platformVars, logsClient, agentVars >>

\* The Logs API posts the log events in order, in batches; it posts a batch that
\* is answered 500 again.
LogEventAt(i) == [kind |-> LogEvents[((i - 1) % Len(LogEvents)) + 1],
                  id |-> (i - 1) \div Len(LogEvents) + 1]

Emitted(ev) ==
    /\ ev.id <= invoked
    /\ ev.kind \in {"runtimeDone", "report"} => ev.id <= finished
    /\ ev.kind = "report" =>
          earlyReport \/ ev.id < event \/ (ev.id = event /\ main = "next")

\* The ends of the batch being posted, or of the next one that may be.
BatchEnds ==
    IF delivered < posted THEN {posted}
    ELSE {n \in posted + 1 .. NumRequests * Len(LogEvents) :
            /\ n <= posted + MaxLogBatch
            /\ \A i \in posted + 1 .. n : Emitted(LogEventAt(i))}

\* The log service is up: no request is accepted once Run returns.
LogServiceUp == logsClient /\ ~deferred

LogHandlerControl ==
    UNCHANGED << batchVars, AgentDataChannel, LambdaDataChannel, sendVars,
                 serverVars, loopVars, forwarderVars, logVars, invoked, finished,
                 earlyReport, contextVars, agentVars >>

\* The handler enqueues the events of a batch one by one, each when there is room.
\* It answers 200 after the last one, or 500 if one of them had no type.
DeliverLog ==
    /\ Alive
    /\ LogServiceUp \/ answered < delivered
    /\ Len(logsChannel) < LogsCap
    /\ logsChannel' = Append(logsChannel, LogEventAt(delivered + 1))
    /\ \E end \in BatchEnds :
          /\ posted' = end
          /\ \/ /\ delivered' = delivered + 1
                /\ answered' = IF delivered + 1 = end THEN end ELSE answered
                /\ UNCHANGED retries
             \/ /\ delivered + 1 = end
                /\ delivered' = answered
                /\ retries < MaxRetries /\ retries' = retries + 1
                /\ UNCHANGED answered
    /\ LogHandlerControl

\* The request is given up while the handler waits for room: what it has enqueued
\* stays enqueued and the whole batch is posted again.
DeliveryTimesOut ==
    /\ Alive
    /\ delivered < posted /\ answered < delivered
    /\ delivered' = answered
    /\ retries < MaxRetries /\ retries' = retries + 1
    /\ UNCHANGED << logsChannel, answered, posted >>
    /\ LogHandlerControl

-----------------------------------------------------------------------------
\* The agent.  It may register the transaction of a request while the function
\* runs, then sends the transaction, perhaps late, and may signal that it has
\* flushed.  At SHUTDOWN the runtime, and the agent with it, is gone.

AgentInit(r) ==
    /\ Alive /\ r = invoked /\ finished < r
    /\ agent[r] = "none"
    /\ agent' = [agent EXCEPT ![r] = "registered"]
    /\ \E withMetadata \in BOOLEAN : /\ << r, withMetadata >> \in Registrations
                                    /\ B!OnAgentInit(r, r, withMetadata)
    /\ UNCHANGED << channelVars, sendVars, serverVars, loopVars, forwarderVars,
                    logVars, platformVars, contextVars, flushed, due >>

\* A slip: off by one at the capacity.
RoomForOneMore == Len(AgentDataChannel) <= AgentCap

RoomForAgentData == Len(AgentDataChannel) < AgentCap

\* handleIntakeV2Events enqueues the body, or drops it when the channel is full.
AgentSends(r) ==
    /\ Alive /\ r <= invoked /\ event # Shutdown
    /\ agent[r] \in {"none", "registered"}
    /\ agent' = [agent EXCEPT ![r] = "sent"]
    /\ AgentDataChannel' = IF RoomForAgentData
                           THEN Append(AgentDataChannel, AgentBody(r))
                           ELSE AgentDataChannel
    /\ UNCHANGED << batchVars, LambdaDataChannel, logsChannel, sendVars, serverVars,
                    loopVars, forwarderVars, logVars, platformVars, contextVars,
                    flushed, due >>

\* The same request, once it has handled its body, if it said flushed=true.
AgentFlushes(r) ==
    /\ AgentSignals
    /\ Alive /\ agent[r] = "sent" /\ event # Shutdown
    /\ agent' = [agent EXCEPT ![r] = "flushed"]
    /\ flushed' = TRUE
    /\ UNCHANGED << batchVars, channelVars, sendVars, serverVars, loopVars,
                    forwarderVars, logVars, platformVars, contextVars, due >>

-----------------------------------------------------------------------------
\* A slip: the metadata alone is taken for data.
BufferEmpty == buf = << >>

\* sendBatch sends nothing when the batch has no events.
NothingToSend == count = 0

\* Sending.  A sender with ship[s] = "check" is in ForwardAgentData or
\* ForwardLambdaData, about to ask ShouldShip; with "force" it is in sendBatch.

Ship(s) ==
    /\ ship[s] \in {"check", "force"}
    /\ IF ~NothingToSend /\ (ship[s] = "check" => B!ShouldShip)
       THEN ship' = [ship EXCEPT ![s] = "post"] /\ snap' = buf
       ELSE ship' = [ship EXCEPT ![s] = "no"] /\ UNCHANGED snap
    /\ UNCHANGED << batchVars, channelVars, serverVars, loopVars, forwarderVars,
                    logVars, platformVars, contextVars, agentVars >>

\* While the transport is failing there is no POST.  Otherwise APM Server accepts
\* the payload, or rejects it for now, or is unavailable (the backoff starts), or
\* the request fails before or after the payload has arrived.
PostResults ==
    {"refused", "accepted", "rejected", "unavailable", "error", "lateError"}

StartsBackoff == {"unavailable", "error", "lateError"}
ReturnsError == {"refused", "error", "lateError"}
Arrives == {"accepted", "lateError"}

\* A slip: the data of a POST that failed stays in the batch.
ResetOnSuccess(result) ==
    IF result \in ReturnsError THEN UNCHANGED batchVars ELSE B!Reset

\* A slip: the payload of a POST that failed is put back, with its metadata line.
PutBack(result) ==
    IF result \in ReturnsError
    THEN /\ buf' = snap \o buf
         /\ UNCHANGED << metadataBytes, count, age, invocations,
                         currentlyExecutingRequestID, platformStartRequestID >>
    ELSE B!Reset

\* sendBatch resets the batch when it returns, whatever came of the POST.
ResetAfter(result) == B!Reset

PostReturns(s, result) ==
    /\ ship[s] = "post"
    /\ result = "refused" <=> failing
    /\ outages' = outages + (IF result \in {"refused", "accepted"} THEN 0 ELSE 1)
    /\ outages' <= MaxOutages
    /\ received' = received \cup (IF result \in Arrives THEN ToSet(snap) ELSE {})
    /\ failing' = (failing \/ result \in StartsBackoff)
    /\ ResetAfter(result)
    /\ ship' = [ship EXCEPT ![s] = "no"]
    /\ snap' = << >>
    /\ forwarder' = IF s = Forwarder /\ result \in ReturnsError THEN "off"
                                                              ELSE forwarder
    /\ UNCHANGED << channelVars, loopVars, lambdaOpen, logVars, platformVars,
                    contextVars, agentVars >>

Send(s) == Ship(s) \/ \E result \in PostResults : PostReturns(s, result)

\* The grace goroutine: its timer expires, or its context has been cancelled.
GraceOver ==
    /\ Alive
    /\ failing
    /\ failing' = FALSE
    /\ UNCHANGED << batchVars, channelVars, sendVars, received, outages, loopVars,
                    forwarderVars, logVars, platformVars, contextVars, agentVars >>

Mature ==
    /\ Alive
    /\ B!Mature
    /\ UNCHANGED << channelVars, sendVars, serverVars, loopVars, forwarderVars,
                    logVars, platformVars, contextVars, agentVars >>

\* A sender receives from a channel and adds to the batch.  An error is logged.
ReceiveAgentData(s) ==
    /\ AgentDataChannel # << >>
    /\ AgentDataChannel' = Tail(AgentDataChannel)
    /\ B!AddAgentData(Head(AgentDataChannel))
    /\ ship' = [ship EXCEPT ![s] = "check"]
    /\ UNCHANGED << LambdaDataChannel, logsChannel, snap, serverVars, forwarder,
                    logVars, platformVars, contextVars, agentVars >>

ReceiveLambdaData(s) ==
    /\ LambdaDataChannel # << >>
    /\ LambdaDataChannel' = Tail(LambdaDataChannel)
    /\ B!AddLambdaData(Head(LambdaDataChannel))
    /\ ship' = [ship EXCEPT ![s] = "check"]
    /\ UNCHANGED << AgentDataChannel, logsChannel, snap, serverVars, loopVars,
                    forwarderVars, logVars, platformVars, contextVars, agentVars >>

-----------------------------------------------------------------------------
\* ForwardApmData, the goroutine of the current event.  The invocation context
\* of event e is cancelled when processEvent returns, and with that of Run.

\* A slip: the context is cancelled only when the next event replaces it.
CancelledByNextEvent(e) == e # event

Cancelled(e) == e # event \/ main # "select" \/ signalled

ForwarderControl ==
    UNCHANGED << batchVars, channelVars, sendVars, serverVars, loopVars, logVars,
                 platformVars, contextVars, agentVars >>

ForwarderStarts ==
    /\ forwarder = "start"
    /\ forwarder' = IF failing THEN "off" ELSE "select"
    /\ lambdaOpen' = FALSE
    /\ ForwarderControl

Selecting == forwarder = "select" /\ ship[Forwarder] = "no"

ForwarderEnds ==
    /\ Selecting
    /\ Cancelled(event)
    /\ forwarder' = "off"
    /\ UNCHANGED lambdaOpen
    /\ ForwarderControl

\* The lambda channel is opened even if the agent's data was not added.
ForwardAgentData ==
    /\ Selecting
    /\ ReceiveAgentData(Forwarder)
    /\ lambdaOpen' = TRUE
    /\ UNCHANGED loopVars

ForwardLambdaData == Selecting /\ lambdaOpen /\ ReceiveLambdaData(Forwarder)

ForwarderGoroutine ==
    \/ ForwarderStarts
    \/ ForwarderEnds
    \/ ForwardAgentData
    \/ ForwardLambdaData
    \/ Send(Forwarder)

-----------------------------------------------------------------------------
\* handleEvent: what a log event does to the batch, the line it yields, and
\* whether it is the last one that the goroutine of event e waits for.

HandleLog(ev) ==
    CASE ev.kind = "start" -> B!OnPlatformStart(ev.id)
      [] ev.kind = "function" -> UNCHANGED batchVars
      [] ev.kind = "runtimeDone" -> B!OnLambdaLogRuntimeDone(ev.id)
      [] ev.kind = "report" -> B!OnPlatformReport(ev.id)

\* A slip: the metrics of a report are forwarded whether or not its invocation is
\* still in the batch.
LineOfAny(ev) ==
    CASE ev.kind = "report" -> [kind |-> "metrics", id |-> ev.id]
      [] ev.kind = "function" -> [kind |-> "log", id |-> platformStartRequestID]
      [] OTHER -> Nothing

LineOf(ev) ==
    CASE ev.kind = "report" /\ ev.id \in B!Tracked ->
            [kind |-> "metrics", id |-> ev.id]
      [] ev.kind = "function" -> [kind |-> "log", id |-> platformStartRequestID]
      [] OTHER -> Nothing

IsLast(e, ev) == ev.kind = "runtimeDone" /\ ev.id = e

\* At SHUTDOWN a report asks Size() in the end, when its metrics, if there are any,
\* have been forwarded, and the POST that this may have led to is over.
AfterReport(e) == IF e = Shutdown THEN SizeCheck ELSE Nothing

AfterHandling(e, ev) ==
    IF ev.kind = "report" /\ LineOf(ev) = Nothing THEN AfterReport(e) ELSE LineOf(ev)

AfterForwarding(e, line) ==
    IF line.kind = "metrics" THEN AfterReport(e) ELSE Nothing

\* Process p, the goroutine of event p or the event loop (0), takes a log event,
\* and calls the batch.  In between, another may take the next and call first.
Takes(p) ==
    /\ held[p] = Nothing
    /\ logsChannel # << >>
    /\ logsChannel' = Tail(logsChannel)
    /\ held' = [held EXCEPT ![p] = Head(logsChannel)]
    /\ UNCHANGED << batchVars, AgentDataChannel, LambdaDataChannel, sendVars,
                    serverVars, loopVars, logProc, forwarderVars, platformVars,
                    contextVars, agentVars >>

EventOf(p) == IF p = 0 THEN event ELSE p

Handles(p) ==
    /\ held[p].kind \in LogTypes
    /\ HandleLog(held[p])
    /\ held' = [held EXCEPT ![p] = AfterHandling(EventOf(p), held[p])]
    /\ UNCHANGED << channelVars, sendVars, serverVars, event, flushLeft, deferred,
                    forwarderVars, platformVars, contextVars, agentVars >>

Forwarding(p) == held[p].kind \in {"metrics", "log"}

ChecksSize(p) ==
    /\ held[p] = SizeCheck
    /\ held' = [held EXCEPT ![p] = Nothing]
    /\ UNCHANGED << batchVars, channelVars, sendVars, serverVars, event, flushLeft,
                    deferred, forwarderVars, platformVars, contextVars, agentVars >>

\* ProcessLogs, the goroutine of event e; it may outlive the event.
LogsEnd(e) ==
    /\ Alive
    /\ logProc[e] = "select" /\ held[e] = Nothing
    /\ Cancelled(e)
    /\ logProc' = [logProc EXCEPT ![e] = "off"]
    /\ UNCHANGED << batchVars, channelVars, sendVars, serverVars, loopVars,
                    forwarderVars, held, platformVars, contextVars, agentVars >>

LogsTake(e) == Alive /\ logProc[e] = "select" /\ Takes(e)

LogsHandle(e) ==
    /\ Alive
    /\ Handles(e)
    /\ logProc' = IF IsLast(e, held[e]) THEN [logProc EXCEPT ![e] = "off"] ELSE logProc
    /\ UNCHANGED main

\* The line goes to LambdaDataChannel, or is given up with the event.
LogsForward(e) ==
    /\ Alive
    /\ Forwarding(e)
    /\ \/ /\ Len(LambdaDataChannel) < LambdaCap
          /\ LambdaDataChannel' = Append(LambdaDataChannel, held[e])
       \/ Cancelled(e) /\ UNCHANGED LambdaDataChannel
    /\ held' = [held EXCEPT ![e] = AfterForwarding(e, held[e])]
    /\ UNCHANGED << batchVars, AgentDataChannel, logsChannel, sendVars, serverVars,
                    loopVars, logProc, forwarderVars, platformVars, contextVars,
                    agentVars >>

LogsCheckSize(e) ==
    /\ Alive
    /\ ChecksSize(e)
    /\ logProc' = IF B!Tracked = {} THEN [logProc EXCEPT ![e] = "off"] ELSE logProc
    /\ UNCHANGED main

LogsGoroutine(e) ==
    LogsEnd(e) \/ LogsTake(e) \/ LogsHandle(e) \/ LogsForward(e) \/ LogsCheckSize(e)

-----------------------------------------------------------------------------
\* The event loop: NextEvent returns and processEvent starts the goroutines, the
\* one for logs only if there is a client.

\* A slip: the flush is reset when the event is received.
StartAfresh(e) ==
    /\ main' = "select" /\ flushed' = FALSE
    /\ forwarder' = "start"
    /\ logProc' = IF logsClient THEN [logProc EXCEPT ![e] = "select"] ELSE logProc
    /\ UNCHANGED due

StartGoroutines(e) ==
    /\ main' = "select"
    /\ forwarder' = "start"
    /\ logProc' = IF logsClient THEN [logProc EXCEPT ![e] = "select"] ELSE logProc
    /\ UNCHANGED << flushed, due >>

\* What agents have sent and the extension has not shipped.
Pending == {r \in ReqIDs : \/ AgentBody(r) \in ToSet(AgentDataChannel)
                           \/ B!AgentTxn(r) \in ToSet(buf)}

ReceiveInvoke ==
    /\ main = "next" /\ ~signalled
    /\ event < invoked
    /\ event' = invoked
    /\ B!RegisterInvocation(invoked)
    /\ StartGoroutines(invoked)
    /\ UNCHANGED << channelVars, sendVars, serverVars, flushLeft, deferred,
                    lambdaOpen, held, platformVars, contextVars, agent >>

\* With no invocation in the batch there is nothing to wait for.
ReceiveShutdown ==
    /\ main = "next" /\ ~signalled
    /\ event = invoked /\ finished = invoked
    /\ event' = Shutdown
    /\ \/ B!Tracked # {} /\ StartGoroutines(Shutdown)
       \/ /\ B!Tracked = {}
          /\ main' = "wait" /\ flushed' = FALSE
          /\ UNCHANGED << forwarder, logProc, due >>
    /\ UNCHANGED << batchVars, channelVars, sendVars, serverVars, flushLeft,
                    deferred, lambdaOpen, held, platformVars, contextVars, agent >>

\* NextEvent fails: Run returns, whatever becomes of the call of ExitError.
NextFails ==
    /\ main = "next"
    /\ main' = "flush" /\ deferred' = TRUE
    /\ flushed' = FALSE
    /\ UNCHANGED << batchVars, channelVars, sendVars, serverVars, event, flushLeft,
                    forwarderVars, logVars, platformVars, contextVars, agent, due >>

NextCancelled == signalled /\ NextFails

ApiError == "error" \in Interrupts /\ ~signalled /\ NextFails

\* processEvent returns: the invocation context is cancelled, the flush reset.
Return ==
    /\ main = "select"
    /\ main' = "wait" /\ flushed' = FALSE
    /\ due' = IF event = Shutdown THEN due ELSE Pending
    /\ UNCHANGED << batchVars, channelVars, sendVars, serverVars, event, flushLeft,
                    deferred, forwarderVars, logVars, platformVars, contextVars,
                    agent >>

AgentDone == flushed /\ Return
LogsDone == logsClient /\ event # 0 /\ logProc[event] = "off" /\ Return
TimerExpires == Return

-----------------------------------------------------------------------------
\* The event loop between two events: local steps, at a point where it is not
\* in sendBatch, that go on at another.

At(pc) == main = pc /\ ship[Main] = "no"

LocalStep ==
    UNCHANGED << channelVars, serverVars, event, forwarderVars, logVars,
                 platformVars, contextVars, agent, flushed >>

Goto(pc) == main' = pc /\ UNCHANGED << deferred, due >> /\ LocalStep

\* The next round of Run, which asks for an event, or returns to the deferred
\* flush if its context is done.
NextRound ==
    /\ IF signalled THEN main' = "flush" /\ deferred' = TRUE
                    ELSE main' = "next" /\ UNCHANGED deferred
    /\ UNCHANGED due
    /\ LocalStep

\* A slip: the event loop does not wait for the forwarder.
NoWait == TRUE

\* backgroundDataSendWg.Wait()
ForwarderDone == forwarder = "off"

Wait ==
    /\ At("wait")
    /\ ForwarderDone
    /\ IF SyncFlush \/ event = Shutdown
       THEN Goto(IF logsClient THEN "logs" ELSE "flush") ELSE NextRound
    /\ UNCHANGED << batchVars, sendVars, flushLeft >>

\* FlushData of the logs client, which forwards into the batch itself.
FlushTakeLog == At("logs") /\ Takes(0)

FlushHandleLog ==
    /\ At("logs")
    /\ Handles(0)
    /\ main' = IF IsLast(event, held[0]) THEN "flush" ELSE "logs"
    /\ UNCHANGED logProc

FlushForwardLog ==
    /\ At("logs")
    /\ Forwarding(0)
    /\ B!AddLambdaData(held[0])
    /\ held' = [held EXCEPT ![0] = AfterForwarding(event, held[0])]
    /\ ship' = [ship EXCEPT ![Main] = "check"]
    /\ UNCHANGED << channelVars, snap, serverVars, loopVars, forwarderVars, logProc,
                    platformVars, contextVars, agentVars >>

FlushCheckSize ==
    /\ At("logs")
    /\ ChecksSize(0)
    /\ main' = IF B!Tracked = {} THEN "flush" ELSE "logs"
    /\ UNCHANGED logProc

FlushLogsDone ==
    /\ At("logs")
    /\ held[0] = Nothing
    /\ logsChannel = << >> \/ signalled
    /\ Goto("flush")
    /\ UNCHANGED << batchVars, sendVars, flushLeft >>

\* Where Run goes when FlushAPMData returns.
AfterFlush ==
    IF deferred THEN Goto("exited")
    ELSE IF event = Shutdown THEN Goto("onShutdown") ELSE NextRound

\* FlushAPMData: skipped while failing, else as many receives as there are bodies.
FlushStarts ==
    /\ At("flush")
    /\ IF failing THEN AfterFlush /\ UNCHANGED flushLeft
                  ELSE Goto("drain") /\ flushLeft' = Len(AgentDataChannel)
    /\ UNCHANGED << batchVars, sendVars >>

FlushAgentData ==
    /\ At("drain")
    /\ flushLeft > 0
    /\ flushLeft' = flushLeft - 1
    /\ ReceiveAgentData(Main)
    /\ UNCHANGED << main, event, deferred, lambdaOpen >>

FlushLambdaData == At("drain") /\ flushLeft = 0 /\ ReceiveLambdaData(Main)

\* A slip: the deferred flush runs under the context of Run.
DoneWithRun == signalled

\* The context of a flush is done: that of Run, or, for the deferred flush, one of
\* its own which has only a deadline.
FlushInterrupted == signalled /\ ~deferred

FlushRest ==
    /\ At("drain") /\ ~FlushInterrupted
    /\ flushLeft = 0 /\ LambdaDataChannel = << >>
    /\ Goto("rest")
    /\ ship' = [ship EXCEPT ![Main] = "force"]
    /\ UNCHANGED << batchVars, snap, flushLeft >>

FlushEnds ==
    /\ At("rest") \/ (At("drain") /\ flushLeft = 0 /\ FlushInterrupted)
    /\ AfterFlush
    /\ UNCHANGED << batchVars, sendVars, flushLeft >>

\* At the deadline of the deferred flush the rest of the data is given up.
FlushGivesUp ==
    /\ At("drain") /\ flushLeft = 0 /\ deferred
    /\ main' = "exited" /\ due' = {}
    /\ LocalStep
    /\ UNCHANGED << batchVars, sendVars, flushLeft, deferred >>

\* OnShutdown, and the return from Run, which runs the deferred flush.
FinalizeAll ==
    /\ At("onShutdown")
    /\ B!OnShutdown
    /\ main' = "flush" /\ deferred' = TRUE
    /\ LocalStep
    /\ UNCHANGED << sendVars, flushLeft, due >>

EventLoop ==
    \/ AgentDone \/ LogsDone \/ TimerExpires
    \/ NextCancelled
    \/ Wait
    \/ FlushTakeLog \/ FlushHandleLog \/ FlushForwardLog \/ FlushCheckSize
    \/ FlushLogsDone
    \/ FlushStarts \/ FlushAgentData \/ FlushLambdaData \/ FlushRest \/ FlushEnds
    \/ FlushGivesUp
    \/ FinalizeAll
    \/ Send(Main)

-----------------------------------------------------------------------------
\* The process has exited.
Exited == main = "exited" /\ UNCHANGED vars

Next ==
    \/ Invoke \/ FunctionEnds \/ Signal \/ ApiError
    \/ DeliverLog \/ DeliveryTimesOut
    \/ \E r \in ReqIDs : AgentInit(r) \/ AgentSends(r) \/ AgentFlushes(r)
    \/ ForwarderGoroutine
    \/ \E e \in Events : LogsGoroutine(e)
    \/ ReceiveInvoke \/ ReceiveShutdown \/ EventLoop
    \/ GraceOver
    \/ Mature
    \/ Exited

Spec == Init /\ [][Next]_vars

\* The event loop and the forwarder are scheduled, timers expire, and a POST ends
\* at its timeout if not before.  What is invoked, logged or sent is up to the
\* platform and the agent.
FairSpec ==
    /\ Spec
    /\ WF_vars(EventLoop)
    /\ WF_vars(ForwarderGoroutine)

-----------------------------------------------------------------------------
\* Every variable has its type; those of the batch as in its own module.
TypeOK ==
    /\ B!TypeOK
    /\ AgentDataChannel \in BoundedSeq({AgentBody(r) : r \in ReqIDs}, AgentCap)
    /\ LambdaDataChannel \in BoundedSeq(B!LambdaEvent, LambdaCap)
    /\ Len(logsChannel) <= LogsCap
    /\ ship \in [Senders -> {"no", "check", "force", "post"}]
    /\ failing \in BOOLEAN /\ flushed \in BOOLEAN
    /\ signalled \in BOOLEAN /\ logsClient \in BOOLEAN
    /\ answered <= delivered /\ delivered <= posted
    /\ main \in {"next", "select", "wait", "logs", "flush", "drain", "rest",
                 "onShutdown", "exited"}
    /\ event \in 0..Shutdown /\ flushLeft \in 0..AgentCap
    /\ forwarder \in {"off", "start", "select"}
    /\ logProc \in [Events -> {"off", "select"}]
    /\ held \in [{0} \cup Events ->
                B!LambdaEvent \cup [kind : LogTypes, id : ReqIDs]
                    \cup {Nothing, SizeCheck}]

\* All that the goroutines do with the batch, in whatever order, are calls of its
\* operations as its own module describes them: no step of a sender falls into one
\* of them, and none is made of two (accumulator/batch.go).
ImplementsBatch == B!Spec

\* Where the bodies of the agents are.
BodiesSent == {AgentBody(r) : r \in {q \in ReqIDs : agent[q] \in {"sent", "flushed"}}}
BodiesIn(lines) == {AgentBody(r) : r \in {q \in ReqIDs : B!AgentTxn(q) \in lines}}

L == INSTANCE Ledger WITH Messages <- {AgentBody(r) : r \in ReqIDs},
                          Capacity <- AgentCap,
                          sent <- BodiesSent,
                          queue <- AgentDataChannel,
                          batch <- BodiesIn(ToSet(buf)),
                          arrived <- BodiesIn(received)

\* All that becomes of a body is in the ledger: whatever the order of events, log
\* processing, retries, failures and signals, no body is overtaken, posted twice,
\* brought back after it was lost, or parted from the others of its POST
\* (apmproxy/receiver.go and apmserver.go, accumulator/batch.go).
ImplementsLedger == L!Spec

\* The forwarder and the event loop never use the batch and the transport as
\* senders at the same time: what Transport assumes of its senders.
OneSender == ship[Forwarder] = "no" \/ ship[Main] = "no"

\* The flush receives from AgentDataChannel as often as it found bodies in it;
\* nobody else takes one away, so that it cannot block for ever.
FlushFindsItsBodies == main = "drain" => flushLeft <= Len(AgentDataChannel)

\* No line but function logs is shipped twice: what a POST carried is never in the
\* batch again, not even when the POST failed after APM Server had received it, or
\* when the platform posts a batch of log events again.  The function logs of such a
\* batch are the exception: nothing tells them from new ones, and they are shipped
\* again (logsapi/route_handlers.go, handleLogEventsRequest).
ShippedOnce ==
    \A i \in metadataBytes + 1 .. Len(buf) :
        buf[i].kind # "log" =>
            /\ buf[i] \notin received
            /\ \A j \in 1..i - 1 : buf[j] # buf[i]

\* A payload starts with the metadata, has it on no other line, and has events.
PayloadsWellFormed ==
    snap # << >> => /\ Len(snap) > 1
                    /\ \A i \in 1..Len(snap) : snap[i] = B!MetadataLine <=> i = 1

\* While APM Server accepts what it is sent, what the batch has accepted stays in
\* it until APM Server has received it, proxies excepted: the senders add to the
\* batch themselves, and not between the snapshot of a POST and its Reset.
OnlyProxiesAreLost ==
    [][ outages' = 0 =>
            \A line \in ToSet(buf) \cup ToSet(snap) :
                line.kind = "proxy" \/ line \in ToSet(buf') \cup ToSet(snap') \cup received'
      ]_vars

\* The signal of an agent that its function is done is not lost, even if it comes
\* before the extension has received the event: the flush is reset when an event is
\* over, and its next one is not invoked before (app/run.go, processEvent).
FlushIsHeard ==
    \A r \in ReqIDs :
        /\ agent[r] = "flushed" /\ r = invoked
        /\ (main = "next" /\ event < r) \/ (main = "select" /\ event = r)
        => flushed

\* What is added to the batch while an event is processed is filed under its request:
\* neither the registration of the agent, which may come before the event or after it,
\* nor a report that another goroutine handles takes its place or drops it, unless its
\* own report comes early (accumulator/batch.go, currentlyExecutingRequestID).
DataIsFiledUnderEvent ==
    event \in ReqIDs /\ main # "next" /\ ~deferred /\ ~earlyReport
        => currentlyExecutingRequestID = event /\ event \in B!Tracked

\* With the syncflush strategy, and while APM Server accepts what it is sent, the
\* data that an agent sent before the end of an event has reached APM Server when
\* the extension asks for the next event (aws-lambda-config-options.md, send
\* strategy).
SyncFlushDelivers ==
    main = "next" /\ SyncFlush /\ outages = 0 /\ ~earlyReport
        => \A r \in due : B!AgentTxn(r) \in received

\* However Run returns, with SHUTDOWN, a signal or an error of the Extensions API:
\* with the syncflush strategy, an APM Server that accepts what it is sent, and a
\* deferred flush that meets its deadline, the data that an agent had sent when the
\* last invocation was over has reached APM Server when the process exits (CHANGELOG,
\* "Always flush data to APM server before shutting down").
ExitDelivers ==
    main = "exited" /\ SyncFlush /\ outages = 0 /\ ~earlyReport
        => \A r \in due : B!AgentTxn(r) \in received

\* A request is reported once: by the transaction its agent sent, or else by a
\* proxy (accumulator/invocation.go, MaybeCreateProxyTxn).
ReportedOnce ==
    \A r \in ReqIDs : ~ (B!AgentTxn(r) \in received /\ B!ProxyTxn(r) \in received)

\* The registered transaction of a finalized invocation whose agent has not
\* reported it is on its way as a proxy (accumulator/batch.go, OnAgentInit).
ProxyIsKept ==
    \A r \in {q \in B!Tracked : /\ invocations[q].Finalized
                               /\ agent[q] = "registered"} :
        B!ProxyTxn(r) \in ToSet(buf) \cup ToSet(snap) \cup received

\* The data of an attempt that did not succeed, so that the transport backs off,
\* is queued back
\* (aws-lambda-config-options.md, data forwarder timeout).
QueuesBack ==
    [][ snap # << >> /\ snap' = << >> /\ failing' =>
            ToSet(snap) \subseteq received' \cup ToSet(buf') ]_vars

\* A function log is given to the request that wrote it, the log events of a
\* request being delivered between its start and its end (logsapi/client.go).
LogsAttributed ==
    [][ \A p \in DOMAIN held :
            held[p].kind = "function" /\ held'[p].kind = "log"
                => held'[p].id = held[p].id ]_vars

\* Every event is over at some time and every shutdown ends.
EventsEnd == main \notin {"next", "exited"} ~> main \in {"next", "exited"}

\* After a signal the process exits, whatever it was doing.
SignalEnds == signalled ~> main = "exited"
=============================================================================
