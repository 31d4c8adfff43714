------------------------------ MODULE Lifecycle ------------------------------
(***************************************************************************)
(* The life of the process on a clock: app.New, the registration, the two  *)
(* servers, the wait for each event with its timer, and the deferred calls *)
(* that end Run.  What is done with the data in the meantime is in         *)
(* Extension.                                                              *)
(*                                                                         *)
(* Time is in ticks of a clock that the platform and the extension share,  *)
(* Second of them to a second; it passes while the code waits, and not     *)
(* beyond a timer that has expired.                                        *)
(***************************************************************************)
EXTENDS Integers

CONSTANTS
    Second,       \* ticks in a second
    Margin,       \* the 200 ms that are kept for the flush
    StopTimeout,  \* the timeout of the Shutdown of a server, 5 s
    PostTimeout,  \* the timeout of a POST to APM Server, 3 s unless configured
    MaxPosts,     \* POSTs of the last flush, at most: one for each body and line
                  \*   in the channels, and one for the rest of the batch
    Timeouts,     \* the timeouts, in seconds, that the function may have
    ShutdownTime, \* the time from SHUTDOWN to its deadline
    MaxDelay,     \* an event is received so long after it was sent, at most
    MaxTime       \* no event is sent later, no call returns later

ASSUME LifecycleAssumption ==
    /\ Second \in Nat \ {0} /\ Margin \in Nat /\ Margin < Second
    /\ StopTimeout \in Nat /\ PostTimeout \in Nat /\ MaxPosts \in Nat
    /\ ShutdownTime \in Nat /\ ShutdownTime >= Second
    /\ Timeouts \subseteq Nat \ {0}
    /\ MaxDelay \in Nat /\ MaxTime \in Nat

VARIABLES
    now,         \* the clock
    pc,          \* where main, New, Run or processEvent is
    signalled,   \* the context of Run is done
    logsClient,  \* app.logsClient: "nil", "created" or "subscribed"
    logService,  \* its server: "down", "up", or "closed" to new requests
    receiver,    \* the server for agent data, likewise
    pending,     \* the event that is sent and not received, or "none"
    event,       \* the event received last
    sent,        \* when that event, or the pending one, was sent
    timeout,     \* the timeout of the function, in seconds
    deadline,    \* DeadlineMs of the event
    received,    \* Timestamp of the event
    expires,     \* when the timer of processEvent expires
    since,       \* when the current deferred call, or POST of the last flush, began
    returned,    \* when Run began to return
    posts        \* POSTs that the last flush has left

serverVars == << logsClient, logService, receiver >>
sentVars == << sent, timeout, deadline >>
eventVars == << event, received, expires >>
exitVars == << since, returned, posts >>
vars == << now, pc, signalled, serverVars, pending, sentVars, eventVars, exitVars >>

Servers == {"down", "up", "closed"}
EventTypes == {"none", "INVOKE", "SHUTDOWN"}

\* The Shutdown of a server: deferred by Run, or after a failure of the start.
Stopping == {"abandonLogs", "stopLogs", "stopReceiver"}

LastFlush == {"lastFlush", "lastPost"}

Max2(a, b) == IF a >= b THEN a ELSE b

\* The conversion to whole seconds and back, rounding down.
WholeSeconds(t) == t - (t % Second)

Init ==
    /\ now \in Second .. 2 * Second - 1
    /\ pc = "new" /\ signalled = FALSE
    /\ logsClient = "nil" /\ logService = "down" /\ receiver = "down"
    /\ pending = "none" /\ event = "none"
    /\ sent = 0 /\ timeout \in Timeouts /\ deadline = 0
    /\ received = 0 /\ expires = 0
    /\ since = 0 /\ returned = 0 /\ posts = MaxPosts

-----------------------------------------------------------------------------
\* Between the events: construction and start.

Step(from, to) == pc = from /\ pc' = to

\* New has a logs client unless that is disabled.  Any of its errors ends the process
\* before it has begun anything.
New ==
    /\ \/ Step("new", "exited") /\ UNCHANGED logsClient
       \/ Step("new", "register") /\ logsClient' \in {"nil", "created"}
    /\ UNCHANGED << now, signalled, logService, receiver, pending, sentVars,
                    eventVars, exitVars >>

\* Register, which needs the context; when it fails InitError is called.
Register ==
    /\ \/ Step("register", "startReceiver") /\ ~signalled
       \/ Step("register", "initError")
       \/ Step("initError", "exited")
    /\ UNCHANGED << now, signalled, serverVars, pending, sentVars, eventVars,
                    exitVars >>

\* Without the receiver Run returns: nothing has been deferred yet.
StartReceiver ==
    /\ \/ Step("startReceiver", "exited") /\ UNCHANGED receiver
       \/ Step("startReceiver", "startLogs") /\ receiver' = "up"
    /\ UNCHANGED << now, signalled, logsClient, logService, pending, sentVars,
                    eventVars, exitVars >>

\* StartService listens and subscribes, without the context of Run.
Listen ==
    /\ \/ /\ Step("startLogs", "loop")
          /\ logsClient' = "nil" /\ UNCHANGED logService
       \/ /\ Step("startLogs", "subscribe")
          /\ logsClient = "created"
          /\ logService' = "up" /\ UNCHANGED logsClient
    /\ UNCHANGED << now, signalled, receiver, pending, sentVars, eventVars, exitVars >>

StopLogService == logService' = "closed"

\* StartService returns an error, which makes the caller forget the client; what it
\* does with the server that listens is up to each of its three ways to fail.
GivesUp ==
    /\ Step("subscribe", "abandonLogs")
    /\ since' = now
    /\ UNCHANGED << now, signalled, logsClient, receiver, pending, sentVars,
                    eventVars, returned, posts >>

\* The address of the listener has no port.
NoPort == GivesUp /\ StopLogService

\* A slip: on this path the server is left as it is.
NoHostServerLeft == GivesUp /\ UNCHANGED logService

\* The address that was configured has no host.
NoHost == GivesUp /\ StopLogService

\* The Logs API does not answer, or not with 200.
NotSubscribed == GivesUp /\ StopLogService

Abandoned ==
    /\ Step("abandonLogs", "loop")
    /\ logsClient' = "nil"
    /\ UNCHANGED << now, signalled, logService, receiver, pending, sentVars,
                    eventVars, exitVars >>

Subscribed ==
    /\ Step("subscribe", "loop")
    /\ logsClient' = "subscribed"
    /\ UNCHANGED << now, signalled, logService, receiver, pending, sentVars,
                    eventVars, exitVars >>

-----------------------------------------------------------------------------
\* The platform, and the signal.

\* The platform sends an event when it is asked for one, with the deadline of
\* the function or of the shutdown.
SendEvent ==
    /\ pc = "next" /\ pending = "none" /\ event # "SHUTDOWN"
    /\ sent' = now
    /\ \/ /\ now < MaxTime
          /\ pending' = "INVOKE"
          /\ deadline' = now + timeout * Second
       \/ /\ pending' = "SHUTDOWN"
          /\ deadline' = now + ShutdownTime
    /\ UNCHANGED << now, pc, signalled, serverVars, timeout, eventVars, exitVars >>

Signal ==
    /\ pc # "exited" /\ ~signalled
    /\ signalled' = TRUE
    /\ UNCHANGED << now, pc, serverVars, pending, sentVars, eventVars, exitVars >>

StopLimit == since + StopTimeout

\* A slip: the client of APM Server has no timeout.
UnlimitedPost == since + MaxTime

PostLimit == since + PostTimeout

\* The timers and timeouts that end what the code waits for.  A POST is bounded by
\* the client of APM Server alone; between its POSTs a flush does not wait.
WaitLimit ==
    CASE pc = "select" -> expires
      [] pc \in Stopping -> StopLimit
      [] pc = "lastPost" -> PostLimit
      [] pc = "lastFlush" -> now
      [] pc = "next" /\ pending # "none" -> sent + MaxDelay
      [] OTHER -> MaxTime

Tick ==
    /\ pc # "exited"
    /\ now < WaitLimit
    /\ now' = now + 1
    /\ UNCHANGED << pc, signalled, serverVars, pending, sentVars, eventVars, exitVars >>

-----------------------------------------------------------------------------
\* The loop of Run and processEvent.

\* The deferred calls run in the reverse order of their registration; the one for
\* the log service is there only if that has started.
FirstDeferred == IF logsClient = "subscribed" THEN "stopLogs" ELSE "lastFlush"

Return(from) ==
    /\ Step(from, FirstDeferred)
    /\ since' = now /\ returned' = now
    /\ logService' = IF pc' = "stopLogs" THEN "closed" ELSE logService
    /\ UNCHANGED << now, signalled, logsClient, receiver, pending, sentVars,
                    eventVars, posts >>

Loop ==
    \/ signalled /\ Return("loop")
    \/ /\ ~signalled
       /\ Step("loop", "next")
       /\ UNCHANGED << now, signalled, serverVars, pending, sentVars, eventVars,
                       exitVars >>

\* A slip: the time is rounded up to a whole second.
RoundedUp == WholeSeconds(deadline - Margin + Second - 1)

\* A slip: the margin is a second.
SecondOfMargin == WholeSeconds(deadline - Second)

FlushDeadline == WholeSeconds(deadline - Margin)

\* A SHUTDOWN with no invocation in the batch is not waited for.
ReceiveEvent ==
    /\ pc = "next" /\ pending # "none" /\ ~signalled
    /\ pc' \in IF pending = "SHUTDOWN" THEN {"select", "flush"} ELSE {"select"}
    /\ event' = pending /\ pending' = "none"
    /\ received' = now
    /\ expires' = Max2(now, FlushDeadline)
    /\ UNCHANGED << now, signalled, serverVars, sentVars, exitVars >>

\* NextEvent fails, at once if the context is done; ExitError is called, and
\* Run returns whether or not that succeeds.
NextFails ==
    /\ Step("next", "exitError")
    /\ UNCHANGED << now, signalled, serverVars, pending, sentVars, eventVars,
                    exitVars >>

ExitErrorReturns == Return("exitError")

\* The agent's signal or the last log event.  A done context does not end the wait.
EventDone ==
    /\ Step("select", "flush")
    /\ UNCHANGED << now, signalled, serverVars, pending, sentVars, eventVars,
                    exitVars >>

TimerExpires == now >= expires /\ EventDone

\* The wait for the forwarder and the flushes that follow the event.
Flushed ==
    \/ event = "SHUTDOWN" /\ Return("flush")
    \/ /\ event = "INVOKE"
       /\ Step("flush", "loop")
       /\ UNCHANGED << now, signalled, serverVars, pending, sentVars, eventVars,
                       exitVars >>

-----------------------------------------------------------------------------
\* The deferred calls.  The Shutdown of a server ends when it is done, or at its
\* timeout.

LogsStopped ==
    /\ Step("stopLogs", "lastFlush")
    /\ since' = now
    /\ UNCHANGED << now, signalled, serverVars, pending, sentVars, eventVars,
                    returned, posts >>

\* FlushAPMData makes its POSTs without its context: the loop over the bodies does
\* not look at it either, and the one over the lines may take another line when it
\* is done.
FlushPosts ==
    /\ Step("lastFlush", "lastPost")
    /\ posts > 0 /\ posts' = posts - 1
    /\ since' = now
    /\ UNCHANGED << now, signalled, serverVars, pending, sentVars, eventVars, returned >>

PostEnds ==
    /\ Step("lastPost", "lastFlush")
    /\ UNCHANGED << now, signalled, serverVars, pending, sentVars, eventVars,
                    exitVars >>

\* It ends when there is nothing left, its context is done, or the transport fails.
LastFlushEnds ==
    /\ Step("lastFlush", "stopReceiver")
    /\ since' = now
    /\ receiver' = "closed"
    /\ UNCHANGED << now, signalled, logsClient, logService, pending, sentVars,
                    eventVars, returned, posts >>

ReceiverStopped ==
    /\ Step("stopReceiver", "exited")
    /\ UNCHANGED << now, signalled, serverVars, pending, sentVars, eventVars,
                    exitVars >>

Exited == pc = "exited" /\ UNCHANGED vars

Next ==
    \/ New \/ Register \/ StartReceiver
    \/ Listen \/ NoPort \/ NoHost \/ NotSubscribed \/ Abandoned \/ Subscribed
    \/ SendEvent \/ Signal \/ Tick
    \/ Loop \/ ReceiveEvent \/ NextFails \/ ExitErrorReturns
    \/ EventDone \/ TimerExpires \/ Flushed
    \/ LogsStopped \/ FlushPosts \/ PostEnds \/ LastFlushEnds \/ ReceiverStopped
    \/ Exited

Spec == Init /\ [][Next]_vars

-----------------------------------------------------------------------------
\* Every variable has its type.
TypeOK ==
    /\ now \in Nat /\ sent \in Nat /\ deadline \in Nat /\ received \in Nat
    /\ expires \in Nat /\ since \in Nat /\ returned \in Nat
    /\ posts \in 0..MaxPosts
    /\ signalled \in BOOLEAN
    /\ pc \in {"new", "register", "initError", "startReceiver", "startLogs",
               "subscribe", "loop", "next", "exitError", "select", "flush",
               "exited"} \cup Stopping \cup LastFlush
    /\ logsClient \in {"nil", "created", "subscribed"}
    /\ logService \in Servers /\ receiver \in Servers
    /\ pending \in EventTypes /\ event \in EventTypes
    /\ timeout \in Timeouts

\* The log service takes requests only while it starts and while there is a client
\* to consume them; no server takes requests once Run has returned, whichever way
\* the start, the loop or an event ended (app/run.go, the deferred calls, and
\* logsapi/client.go, StartService).
ServersAreStopped ==
    /\ logService = "up" => pc = "subscribe" \/ logsClient = "subscribed"
    /\ pc \in LastFlush \cup {"stopReceiver", "exited"} => logService # "up"
    /\ pc \in {"stopReceiver", "exited"} => receiver # "up"

\* The wait for the end of an event leaves the margin before the deadline, unless
\* the event itself was received later than that (app/run.go, the timer).
FlushHasMargin == pc = "select" => now <= Max2(received, deadline - Margin)

\* The timer does not expire more than a second before that (app/run.go, the
\* truncation to seconds).
TimerNotEarly == pc = "select" => deadline - Margin < expires + Second

\* A slip: rounded down.
FaasTimeoutRoundedDown == (deadline - received) \div Second

\* faas.timeout of the metrics of an invocation, in seconds: the deadline less the
\* time of receipt, rounded up.
FaasTimeout == (deadline - received + Second - 1) \div Second

\* faas.timeout is the timeout of the function if the invocation was received
\* within a second (logsapi/metrics.go, "We use this assumption").
TimeoutIsDerived ==
    pc = "select" /\ event = "INVOKE" /\ received < sent + Second
        => FaasTimeout = timeout

\* Once Run returns, the process exits within the timeouts of two servers and of
\* the POSTs of the last flush, whatever they wait for.  The deadline that the flush
\* has of its own gives no better bound, as it does not end a POST (app/run.go,
\* "Flush all data before shutting down").
ExitIsBounded ==
    pc \in LastFlush \cup {"stopLogs", "stopReceiver"}
        => now <= returned + 2 * StopTimeout + MaxPosts * PostTimeout
=============================================================================
