# Verification of the AWS Lambda extension for Elastic APM

TLA+ models of the extension's concurrent core, checked with TLC and, where noted,
proved with TLAPS. Paths are relative to the repository (`src/` here).

## The system

The extension is a process next to a Lambda function. The APM agent in the function
posts its data to it, the Lambda platform sends it lifecycle events and log events,
and it forwards all of it to APM Server, in batches.

| Component | Source | State | Operations |
|---|---|---|---|
| Batch | `accumulator/batch.go`, `invocation.go`, `metadata.go` | buffer, count, age, map of invocations, two cached request IDs | RegisterInvocation, OnAgentInit, AddAgentData, AddLambdaData, OnLambdaLogRuntimeDone, OnPlatformStart, OnPlatformReport, OnShutdown, Reset |
| Transport | `apmproxy/apmserver.go`, `status.go` | status, reconnection count, mutex, grace goroutines | PostToApmServer, UpdateStatus, ComputeGracePeriod |
| Forwarding | `apmproxy/apmserver.go`, `client.go` | AgentDataChannel, LambdaDataChannel, flush channel | ForwardApmData, FlushAPMData, ForwardAgentData, ForwardLambdaData, sendBatch |
| Receiver | `apmproxy/receiver.go` | none of its own | intake, registration, info proxy |
| Event loop | `app/run.go` | the event, goroutines of the event, their context | Run, processEvent |
| Log processing | `logsapi/event.go` | logsChannel | ProcessLogs, FlushData, handleEvent |
| Log delivery | `logsapi/client.go`, `subscribe.go`, `route_handlers.go` | HTTP server, subscription | StartService, handler, Shutdown |
| Conversions | `logsapi/metrics.go`, `functionlogs.go`, `model/` | none | metrics and log lines |
| Extensions API | `extension/client.go` | extension ID | Register, NextEvent, InitError, ExitError |
| Start | `main.go`, `app/app.go`, `config.go`, `aws.go`, options | configuration | New |

How they interact: for each event the loop starts two goroutines, the *forwarder*
(`ForwardApmData`) and the *log processor* (`ProcessLogs`), waits for the first of
three signals (the agent has flushed, the log processor is done, a timer), cancels
their context, and waits for the forwarder alone. Under `syncflush` and at SHUTDOWN
it then consumes logs (`FlushData`) and data (`FlushAPMData`) itself. HTTP handlers
write to the batch (registration) and the channels at any time. All of them share
the batch, under its mutex, and the transport status, under another.

What is hard: a log processor that outlives its event; the order between an agent's
data and the log events about the same request; a POST that works on a snapshot while
the batch changes; a failing transport that a goroutine reopens at its own time;
bounded channels at both ends of a goroutine; exit at any point. `PROJECT.json` lists
these hazards by line. What makes the components correct:

* Batch: each payload has metadata exactly once and first; each invocation is settled
  once; data and proxies belong to the right request; the size limit holds for data.
* Transport: a failure stops all sending for a grace period that grows, and ends.
* Forwarding and event loop: one sender at a time; no blocking receive without data;
  nothing that an agent sent is shipped twice or silently lost; every event ends.
* Logs: each event has its effect on the right request.

## Modules

| Module | What it is |
|---|---|
| `Batch` | The batch; each locked method is one action. `BatchProofs` has its theorems, `MCBatch` bounds it. |
| `Backoff` | Abstract: what the comment of `UpdateStatus` promises. |
| `Transport` | Status machine at the grain of the mutex, shown to implement `Backoff`. `TransportProofs`, `MCTransport`. |
| `Ledger` | Abstract: what becomes of the bodies that agents post, from the channel to APM Server, and when they may be lost. |
| `Extension` | The running extension with platform, agent and APM Server; composes an instance of `Batch` and implements it and `Ledger`. `ExtensionProofs`, `ShippingProofs` (what is shipped, and how often), `DeliveryProofs` (what is shipped in time), `LedgerProofs`, `MCExtension`. |
| `Lifecycle` | The process on a clock: construction, registration, the servers, the timer of an event, the deferred calls. `LifecycleProofs`, `MCLifecycle`. |

### Batch

A line of the ndjson buffer is a record of a kind and an ID; `metadataBytes` counts
lines, so that `Truncate(metadataBytes)` is `SubSeq(buf, 1, metadataBytes)`. A body of
the agent is a metadata line (implicit) and events, or the metadata line alone; the
receiver passes no empty bodies on. `age` is the zero time, younger or older than
`maxAge`; `Mature` is the passing of time. `OnShutdown` models the random order of
Go's map iteration and its stop at the first invocation it cannot finalize by the set
of the invocations finalized before. Of the errors, those that come from malformed
JSON or encodings are left out: they return before anything changes. The model's
Next admits every sequence of calls, more than the extension makes.

### Transport

A sender takes three steps, since `UpdateStatus` drops the read lock between its two
comparisons. `SetHealthy`'s first disjunct is the early return that keeps the write
lock. Grace periods are represented by the two ends of the interval their jitter
ranges over, in 1/100 s; 400 and 502 stand for the codes that share their branches.
`Alone` is what `App.Run` guarantees by waiting for the forwarder; `ConcurrentSpec`
drops it. Of the abstract `Backoff`, `admitting` is `~IsUnhealthy` and `failures` is
`ReconnectionCount + 1`.

### Extension

Requests are numbered as they are invoked; the root transaction of request r is r.
A goroutine's step is what it does between two channel operations or locked sections:

| Code | Actions |
|---|---|
| `processEvent` | ReceiveInvoke, ReceiveShutdown, AgentDone, LogsDone, TimerExpires |
| `NextEvent` fails, `ExitError` | NextCancelled (the context of Run is done), ApiError |
| `Run` between events | Wait, NextRound, FinalizeAll, AfterFlush |
| `FlushData` | FlushTakeLog, FlushHandleLog, FlushForwardLog, FlushCheckSize, FlushLogsDone |
| `FlushAPMData`, also deferred | FlushStarts, FlushAgentData, FlushLambdaData, FlushRest, FlushEnds, FlushGivesUp |
| `ForwardApmData` | ForwarderStarts, ForwardAgentData, ForwardLambdaData, ForwarderEnds |
| `sendBatch`, `PostToApmServer` | Ship (snapshot), PostReturns (outcome and Reset) |
| `ProcessLogs`, `handleEvent` | LogsTake (receive), LogsHandle (call of the batch), LogsForward, LogsCheckSize, LogsEnd |
| intake and registration handlers | AgentSends, AgentFlushes, AgentInit |
| log handler | DeliverLog (one event enqueued), DeliveryTimesOut |
| `signal.NotifyContext` | Signal |

`held[p]` is the log event or line in the hands of the log processor of event p, or of
the event loop (p = 0). Receiving and handling a log event are separate steps, because
another goroutine may receive the next event and handle it first; the test of Size() that
ends a log processor at SHUTDOWN is a step of its own too (LogsCheckSize, FlushCheckSize),
behind the forwarding of the metrics and the POST it may have led to. `failing` stands for
the status `Failing` of Transport: that a backoff has exactly one grace goroutine, and
that none is pending otherwise, is what OneGracePerBackoff says, for one sender at a
time, which is OneSender here. `PostReturns` merges UpdateStatus and the deferred Reset,
and `ReceiveAgentData` the receive and AddAgentData, for the same reason.

Without a logs client (`logsClient`, chosen at the start: not configured, or its service
did not start) no log event is delivered or processed. Once the context of Run is done
(`signalled`), NextEvent fails, the goroutines of the event are cancelled and flushes stop
where the code looks at the context; the wait for the end of an event, and a POST, do not.
The last flush (`deferred`) has a context of its own with a deadline (FlushGivesUp).

The environment, as the code expects it: log events come in one order, in batches of at
most `MaxLogBatch`; a batch that was answered 500 or given up while the handler waited is
posted again as a whole, at most `MaxRetries` times in all; `runtimeDone` and `report`
follow the end of the function. An agent posts one body for a request, at any time after
its invocation, also long after, and may register its transaction while the function
runs; after SHUTDOWN the agent is silent. With TRUE in `EarlyReports` the platform may
emit `platform.report` before the extension has finished with the event, as the mock
platform of `main_test.go` does; without it, only afterwards. APM Server may accept,
reject, fail, or receive a payload and fail to say so.

### Lifecycle

Time is in ticks, `Second` of them to a second, of a clock that platform and extension
share. `pc` is where `main`, `New`, `Run` or `processEvent` is; every call of the start
may fail: New, Register (then InitError), StartReceiver, and of the log service Listen and
the three ways in which StartService gives up a server that listens (NoPort, NoHost,
NotSubscribed), each with its own call of Shutdown; the service is then abandoned while the
extension goes on. New stands for the logger and the logs client; the rest of the
configuration, and what may be wrong with it, is left out. The platform sends
an event with its deadline when asked (SendEvent), and it is received up to `MaxDelay`
later. The timer of an event is computed as in `processEvent`, with the truncation to
whole seconds. Return is where Run returns, from any place; the deferred calls follow in
reverse order: Shutdown of the log service, the last flush with its POSTs, Shutdown of the
receiver. Each Shutdown ends at its timeout; a POST of the flush ends at the timeout of
the HTTP client. What the extension does with data between two events is one step here
(Flushed), as it is the subject of Extension.

## Runs

| Run | Bounds | Checks |
|---|---|---|
| `batch` | 2 requests, 2 transactions, bodies of at most 2 events, size 2, 4 lines, symmetric | TypeOK, BufferFraming, AgeMatchesCount, FiledUnderOwnID, ProxySettlesItsInvocation, SettledStaysSettled, FullGrowsByProxiesOnly, MetadataIsKept |
| `transport` | 2 senders (Run serializes them), 8 failures in a row | TypeOK, OneGracePerBackoff, BackoffIsQuiet, LockIsReleased, HealthyHasNoFailures, GraceIncreases, BackoffEnds, ImplementsBackoff |
| `transport_concurrent` | 3 concurrent senders, 3 failures, 3 grace goroutines | BackoffHasGrace |
| `extension` | 1 request, syncflush, 1 outage, registration with or without metadata, flush signals, SIGTERM, errors of the Extensions API, with or without logs client | OneSender, FlushFindsItsBodies, ShippedOnce, PayloadsWellFormed, FlushIsHeard, ExitDelivers, EventsEnd, SignalEnds, ImplementsBatch, ImplementsLedger |
| `extension_sync` | 2 requests, syncflush, no outage | TypeOK, DataIsFiledUnderEvent, SyncFlushDelivers |
| `extension_background` | 1 request, background, all four types of log events in batches of up to 2, one batch posted again, early and late reports, no outage | ShippedOnce, OnlyProxiesAreLost |
| `lifecycle` | a second of 5 ticks, margin 1, Shutdown 2, POST 2, 2 POSTs in the last flush, functions of 1 s and 2 s, shutdown 2 s, delays of up to 7 ticks, 15 ticks in all | ServersAreStopped, FlushHasMargin, TimerNotEarly, TimeoutIsDerived, ExitIsBounded |
| `lock_leak`, `reported_twice`, `lost_proxy`, `not_queued_back`, `log_of_nobody` | small | one property each, violated: see below |

Why the bounds are enough to be interesting: a batch of 2 is full, over-full (by
proxies and by a body of 2) and empty; two requests give every relation of
"registered", "executing", "reported" between two invocations; 8 failures go past the
cap of 6. In Extension every channel has capacity 1, so that it is full after one
message, and requests overlap with the goroutines of their predecessor, the SHUTDOWN event
being one more event even with one request. `MaxSize` 3 makes the batch ship early and
fill up; it is 5 in `extension_sync`, where several events collect before the batch ships
and the proxy of the one request that registers always fits behind them (ProxiesFit, see
Proofs), because a full batch drops data. Each dimension of Extension (signals, outages,
early reports, retries, a second request) is in one of its runs; all at once are too many
states. In
`lifecycle` a tick is the margin of 200 ms and events are received before and after their
timer has expired, within a second and later, and in every phase of the second; Shutdown
and POST are shorter than in reality, and the two POSTs take longer than either. The
clock starts between 5 and 9 and events are sent before 15, which leaves room for several
invocations and a SHUTDOWN.
`MaxLines`, `MaxReconnections`, `MaxGraces` (in the MC modules) and `MaxOutages`,
`MaxRetries`, `NumRequests`, `MaxPosts`, `MaxTime` bound the counters and the clock.

`CHECK_DEADLOCK FALSE` is set only for `transport_concurrent` and `lock_leak`, where a
leaked mutex stops everything; that a lock leaks there is the finding. An exited
extension stutters explicitly.

Every property in the table fails on at least one small mutation of a definition that
models code (PROJECT.json, `mutants`). The mutated forms stand before the definitions
they mutate, marked "A slip".

What the properties about the extension as a whole say:

* ImplementsBatch: whatever the handlers, the log processors, the forwarder and the event
  loop do, the batch goes through steps of its own module only.
* ImplementsLedger: seen from the agents' bodies alone, all the extension does is to queue
  or drop a body, move the first of the queue to the batch or drop it, and post the batch: all
  of its bodies arrive or none, and none stays for a second POST. A POST loses them only after
  an outage; a body is lost otherwise only at a full channel or when it is added.
* ShippedOnce: a line other than a function log that APM Server has is never in the batch
  again, under lost answers (`extension`) and under log batches that are posted twice
  (`extension_background`). Function logs are exempted: those of a batch that is posted
  twice are shipped twice, see below.
  Registrations are left out of the latter: early reports and registrations together
  break the property, see below.
* DataIsFiledUnderEvent: from the receipt of an event to the next call of Next, what is
  added to the batch is filed under the request of the event, in whatever order the
  registration of its agent, the event and the reports of earlier requests come. Early
  reports are excluded, which drop the request while it is processed.
* FlushIsHeard: the signal of an agent that is done reaches the event of its invocation,
  even when it overtakes the answer of NextEvent.
* SyncFlushDelivers, ExitDelivers: what an agent had sent when the invocation was over has
  arrived before the next event, and at the latest when the process exits, after a SIGTERM
  in the middle of a flush too: the deferred flush makes up for what the other left.

### Fairness

`Transport`: WF of GraceOver; the grace goroutine waits on a timer and a context.
`Extension!FairSpec`: WF of the event loop and of the forwarder, whose waits are all
bounded by the flush timer, the HTTP client's timeout or channels with data. NextCancelled
is part of the event loop, since a cancelled context ends the request at once; ApiError is
not, and neither are invocations, SHUTDOWN, the agent, the log processors or APM Server:
EventsEnd says that each event and the shutdown end whatever they do, and SignalEnds that
a SIGTERM at any point ends the process.

### What the violations show

* `lock_leak`: two senders that succeed at once leave `UpdateStatus` with the mutex held
  (`apmserver.go:276`). Latent: the event loop has one sender at a time, and under that
  assumption LockIsReleased is proved.
* `reported_twice`: `platform.runtimeDone` overtakes the agent's body in the channel; the
  request is reported by a proxy and by the transaction.
* `lost_proxy`: a proxy that a log processor adds while a POST is under way is truncated
  by the Reset after it. OnlyProxiesAreLost shows it is the only kind of line to which
  this happens.
* `not_queued_back`: the batch is reset after a POST that failed; the documentation says
  that the data is queued back.
* `log_of_nobody`: the log processor has received `platform.start` and FlushData handles
  the function log after it first, so that the log has no request ID, or an old one.

Seen while modelling, without a run:

* The first grace period is 0 to 5 s long and the second about 1 s, while
  `docs/reference/aws-lambda-config-options.md:85` announces 0 and 1 (GraceIncreases
  therefore starts with the second).
* `FlushAPMData` tests `c.batch == nil` where its comment speaks of metadata
  (`apmserver.go:99-103`); the lambda channel is opened after agent data that was not
  added (`apmserver.go:69-73`).
* When the platform posts a batch of log events again, because a part of it did not get into
  the channel in time (`logsapi/route_handlers.go:37-50`), the function logs that had got
  there are shipped a second time: unlike the metrics of a report, nothing stops them.
* After a failed flush the next forwarder may start before the transport has been reset
  (`run.go:128-131`).
* With early reports SyncFlushDelivers and ExitDelivers do not hold: FlushData may handle
  `platform.report`, which drops the invocation, before FlushAPMData adds the agent's data.
* With early reports and registrations ShippedOnce does not hold: the log processor that is
  left from event 1 handles the early report of request 2, which has registered and is
  dropped with it; ReceiveInvoke files request 2 again, and when the platform posts that
  batch of log events again, its metrics are made and sent a second time.
* The size of the batch is tested before a body is added (`batch.go:188`), proxies are added
  whatever the size (`batch.go:328-343`). Log events may fill the batch between a sender that
  finds less than nine tenths in it and its next body, which is then dropped as a whole, in
  the flush of `syncflush` too: SyncFlushDelivers fails with size 1 and one request that
  registers, or size 2 and two. With the size 50 of `app.go:39` it takes six proxies.
* The comment at `run.go:243-245` speaks of 200 ms before the deadline; truncation makes it
  200 to 1199 ms (TimerNotEarly is the bound). A function with a timeout of 1 s may have its
  event ended as soon as it is received.
* The deadline of 5 s of the last flush (`run.go:60`) does not bound it: its POSTs are made
  without its context (`apmserver.go:166`), so that the exit takes as long as they do
  (ExitIsBounded).
* A SIGTERM while NextEvent waits makes ExitError, called with the same context, fail, so
  that Run returns an error where a signal between events makes it return nil
  (`run.go:84-86`, `162-165`). `extension/client.go:156` says to call InitError "when you
  registered but failed to initialize"; Run calls it when Register failed and not when
  StartReceiver does.
* Under the background strategy, data sent between the end of the last invocation and
  SHUTDOWN is dropped if its `platform.report` is handled first.

## Proofs

For every finite set of requests, all bodies and sizes, any set of senders, any number of
requests, capacities, log events and retries, and every clock.

`BatchProofs`. The inductive invariant IInv is the conjunction of TypeOK, BufferFraming,
AgeMatchesCount and FiledUnderOwnID, grouped by variables (BufferInv, InvocationsInv,
CurrentInv): none needs more, but they need each other: BufferFraming says where the
metadata is when a Reset truncates, AgeMatchesCount relies on the count. Lemma
AddLinesKeepsBufferInv carries all operations that add lines, PutKeepsInvocationsInv and
DropKeepsInvocationsInv those that change the map; NextKeepsIInv has a step for each
operation. From IInv follow the action properties: SettledForGood, ProxiesSettle,
FullGrowsSlowly, MetadataKept. ProxiesSettle gives a one-to-one correspondence between the
proxies that a step adds and the invocations it finalizes with a proxy owed: nothing is added
or settled but by OnLambdaLogRuntimeDone, for one invocation, and OnShutdown, which adds the
lines of a set of them in one sequence (EachSettled). Assumption: BatchAssumption (IDs differ from the empty
string, bodies are sequences of agent events, a positive size).

`TransportProofs`. OneGracePerBackoff is not inductive: it needs that a sender that is
about to set a status was alone when it posted and that the status has not changed since
its comparison (SingleSender, ComparisonHolds), which also yields LockIsReleased. From
this IInv follow the five invariants and that every step is a step of Backoff or a
stutter (StepsImplementBackoff). GraceIsIncreasing has an invariant of its own (GraceInv):
the grace period belongs to the reconnection count. GraceForEveryBackoff is about
ConcurrentSpec.

`ExtensionProofs`, from ExtensionAssumption (positive capacities and size) alone.
Next is split into the steps that leave the batch alone (Quiet) and the calls of it
(Calls); with the types of what is in the channels and in the hands of the goroutines
(TypeInv: ChannelInv, LogPostInv, StartInv, InvokedInv) each call is a step of Batch, so
that the extension implements it (BatchIsImplemented) and, through the instance BP of
BatchProofs, the theorems about the batch hold of it (BatchInvariants). The others:

* SendersTakeTurns: between events the forwarder is off and has no send under way, and the
  event loop sends between events only (TurnsInv).
* FlushDoesNotBlock: while the event loop drains, the forwarder, the only other receiver,
  is off (DrainInv, on top of TurnsInv); the handlers only append.
* FlushHeard: HearInv says where an event and its invocation are when the agent signals, so
  that no reset can come between the signal and the end of its event.
* PayloadsAreWellFormed: a snapshot is the buffer with events, and BufferFraming is known of
  the buffer.
* AcceptedIsKept: while a POST is under way the buffer is the snapshot followed by proxies
  (PostInv), because nobody but the sender itself adds anything else (TurnsInv and the
  lemmas on growth), so that its Reset loses proxies only; a transport that fails has had
  an outage.
* TypeCorrect also bounds the channels (CapacityInv).

`ShippingProofs`. NoneAdded(kind) says of a step that it adds no line of a kind; each
operation of the batch has a lemma that says which kinds it adds. Per kind the invariant
says why what made a line cannot happen again:

* transactions: a body is in AgentDataChannel or carried, by the batch or APM Server, once,
  as its agent sends it once (TxnsInv);
* proxies: an invocation that still owes a proxy has none that is carried (ProxiesInv,
  from SettledForGood);
* metrics: a report with metrics drops its invocation, and a request that is not tracked is
  filed again by its INVOKE or its registration only, which come before its report unless
  the report is early (ReportsInv, MetricsInv; PipelineStep follows a log event through
  posts, channel and hands).

The first two hold without conditions (TransactionsShippedOnce); all three need
`earlyReport => Registrations = {}` (NothingShippedTwice), and the counterexample above
shows why. A payload that APM Server has received without saying so is not sent again
because the Reset follows every POST (PostLines).

`DeliveryProofs`. SyncFlushDelivers and ExitDelivers are proved under the condition that the
batch has room when no sender is at work (FlushDelivers, LastFlushDelivers). DueInv says of
each body that is due and has not arrived where it is: in the channel within reach of the
flush, or in the batch, with a POST to come; Running, that the batch takes it: its request
is filed until the event is over, because the reports on their way are of earlier requests
(Behind), which also yields DataIsFiledUnderEvent, without a condition (DataIsFiled, from
FiledInv). How the condition can fail is said by OnlyProxiesFillIt: a sender that does not
ship leaves less than nine tenths in the batch (Slack), and until the next event of a sender
only proxies are added (RoomInv), so that behind the proxies that are in it at the time the
batch holds no more than that. EventDelivered and ExitDelivered draw the conclusion: delivery
holds as long as the proxies that are in the batch at once fit (ProxiesFit), which for size 50
is five of them, whatever the number of requests that register in the life of the process,
and at least without registrations. The condition remains one on the behaviour, as it must:
log events of old invocations may come in any number between two turns of the senders.

`LedgerProofs`. Under the mapping of `L` in Extension a body is in the batch if its root
transaction is, and has arrived if APM Server has that. LedgerStep goes through the actions:
what log events add are no transactions that were not there (SameBodies, from Growth,
NoneAdded and TxnsInv), so that only a sender's receive moves a body (TakesFromLedger); the
Reset that ends a POST takes out just the bodies of the payload, since nothing but proxies has
been added since the snapshot (PostInv, PostsFromLedger). LostForGood follows from the
steps of the ledger and the type of the channel: nothing is ever brought back.

`LifecycleProofs`. The invariant relates the clock to the event that is waited for
(SentInv, WaitInv), the deferred calls to the return of Run (StopInv, with the time that
the POSTs may have taken), and the servers to the place in the code (ServerInv). What is
arithmetic is in lemmas: WholeSecondsBounds, Quotient, PostedBounds.

Only model-checked is what is out of the prover's reach, liveness: EventsEnd, SignalEnds,
BackoffEnds, and the fairness part of ImplementsBackoff.

## Not modelled

The info reverse proxy; HTTP, compression and JSON; the conversion of metrics and logs but
for `faas.timeout`; the values of configuration and secrets; logging. Malformed input is
left out where it returns before anything changes. A crash of the process loses all it
has, as nothing is persisted. A platform that answers no call at the start, or no
ExitError, holds the extension up for ever: the clients have no timeout
(`extension/client.go:89`), and Lifecycle says nothing of how long these calls take. See
the notes in PROJECT.json.

## Plan

Done: Batch, Transport with Backoff, Extension with its log delivery and signals,
Lifecycle, and the theorems above. What is left:

* Composition of Transport with Extension in place of `failing`, with the contexts of the
  grace goroutines.
