------------------------------ MODULE Transport ------------------------------
(***************************************************************************)
(* The status of the transport to APM Server (apmproxy/apmserver.go) and   *)
(* the backoff that it drives: PostToApmServer, UpdateStatus and the grace *)
(* goroutines that UpdateStatus starts, at the grain of the mutex c.mu.    *)
(*                                                                         *)
(* UpdateStatus compares under the read lock, releases it, and sets under  *)
(* the write lock, so that a sender takes three steps: it starts a POST,   *)
(* it compares the status that the response calls for, and it sets it.     *)
(***************************************************************************)
EXTENDS Integers

CONSTANT Senders    \* goroutines that call PostToApmServer

VARIABLES
    Status,             \* status of the transport
    ReconnectionCount,  \* failures since the last success, less one
    gracePeriod,        \* the last grace period computed, in 1/100 s
    graces,             \* grace goroutines that have not ended
    mu,                 \* "free", or "leaked": write lock held by nobody's code
    pc,                 \* sender -> "idle", "posting" or "updating"
    target              \* sender -> the status it is about to set

vars == << Status, ReconnectionCount, gracePeriod, graces, mu, pc, target >>

-----------------------------------------------------------------------------
Statuses == {"Started", "Healthy", "Failing", "RateLimited", "ClientFailing"}

\* What client.Do may yield: an error, or a response with one of these codes
\* (400 and 502 for the codes that share their treatment).
Responses == {"error", "202", "400", "401", "403", "429", "500", "502", "503"}

\* A slip: a success takes the transport back to where it started.
StartedAfterSuccess ==
    [r \in Responses |->
        CASE r = "202" -> "Started" [] r = "429" -> "RateLimited" [] OTHER -> "Failing"]

\* The status that PostToApmServer calls UpdateStatus with, "none" if it does
\* not call it.
StatusFor ==
    [r \in Responses |->
        CASE r \in {"error", "401", "403", "500", "503"} -> "Failing"
          [] r = "202" -> "Healthy"
          [] r = "429" -> "RateLimited"
          [] r = "400" -> "ClientFailing"
          [] r = "502" -> "none"]

\* A slip: the period grows linearly.
LinearGracePeriods(n) ==
    LET capped == IF n > 6 THEN 6 ELSE n IN
    IF n = 0 THEN {0, 499} ELSE {90 * capped, 110 * capped}

\* The grace periods of ComputeGracePeriod for n reconnections: the ends of the
\* interval that its jitter ranges over.
GracePeriods(n) ==
    LET capped == IF n > 6 THEN 6 ELSE n IN
    IF n = 0 THEN {0, 499} ELSE {90 * capped * capped, 110 * capped * capped}

Init ==
    /\ Status = "Started"
    /\ ReconnectionCount = -1
    /\ gracePeriod = 0
    /\ graces = 0
    /\ mu = "free"
    /\ pc = [s \in Senders |-> "idle"]
    /\ target = [s \in Senders |-> "none"]

IsUnhealthy == Status = "Failing"

\* PostToApmServer finds the transport healthy and sends its request.
Post(s) ==
    /\ pc[s] = "idle"
    /\ mu = "free"
    /\ ~IsUnhealthy
    /\ pc' = [pc EXCEPT ![s] = "posting"]
    /\ UNCHANGED << Status, ReconnectionCount, gracePeriod, graces, mu, target >>

\* The response, and the comparison under the read lock.
Respond(s, r) ==
    /\ pc[s] = "posting"
    /\ mu = "free"
    /\ IF StatusFor[r] \in {"none", Status}
       THEN pc' = [pc EXCEPT ![s] = "idle"] /\ UNCHANGED target
       ELSE /\ pc' = [pc EXCEPT ![s] = "updating"]
            /\ target' = [target EXCEPT ![s] = StatusFor[r]]
    /\ UNCHANGED << Status, ReconnectionCount, gracePeriod, graces, mu >>

Updating(s, status) ==
    /\ pc[s] = "updating"
    /\ target[s] = status
    /\ mu = "free"
    /\ pc' = [pc EXCEPT ![s] = "idle"]
    /\ target' = [target EXCEPT ![s] = "none"]

\* A slip: a success leaves the count of failures alone.
SetHealthyOnly(s) ==
    /\ Updating(s, "Healthy")
    /\ Status' = "Healthy"
    /\ UNCHANGED << ReconnectionCount, gracePeriod, graces, mu >>

\* The second comparison returns with the write lock held.
SetHealthy(s) ==
    /\ Updating(s, "Healthy")
    /\ \/ /\ Status = "Healthy"
          /\ mu' = "leaked"
          /\ UNCHANGED << Status, ReconnectionCount >>
       \/ /\ Status # "Healthy"
          /\ Status' = "Healthy"
          /\ ReconnectionCount' = -1
          /\ UNCHANGED mu
    /\ UNCHANGED << gracePeriod, graces >>

SetTemporary(s) ==
    /\ \E status \in {"RateLimited", "ClientFailing"} :
          Updating(s, status) /\ Status' = status
    /\ UNCHANGED << ReconnectionCount, gracePeriod, graces, mu >>

SetFailing(s) ==
    /\ Updating(s, "Failing")
    /\ Status' = "Failing"
    /\ ReconnectionCount' = ReconnectionCount + 1
    /\ gracePeriod' \in GracePeriods(ReconnectionCount')
    /\ graces' = graces + 1
    /\ UNCHANGED mu

\* A slip: the goroutine ends without setting the status.
GraceForgotten ==
    /\ graces > 0
    /\ mu = "free"
    /\ graces' = graces - 1
    /\ UNCHANGED << Status, ReconnectionCount, gracePeriod, mu, pc, target >>

\* A grace goroutine ends, its timer expired or its context cancelled.
GraceOver ==
    /\ graces > 0
    /\ mu = "free"
    /\ Status' = "Started"
    /\ graces' = graces - 1
    /\ UNCHANGED << ReconnectionCount, gracePeriod, mu, pc, target >>

-----------------------------------------------------------------------------
Finish(s) ==
    \/ \E r \in Responses : Respond(s, r)
    \/ SetHealthy(s)
    \/ SetTemporary(s)
    \/ SetFailing(s)

\* A slip: the main loop does not wait for the forwarder.
Unserialized(s) == TRUE

\* The application has one sender at a time: its main loop posts only once the
\* forwarder of the invocation has ended.
Alone(s) == \A q \in Senders \ {s} : pc[q] = "idle"

Next ==
    \/ \E s \in Senders : (Alone(s) /\ Post(s)) \/ Finish(s)
    \/ GraceOver

\* A grace goroutine waits for a timer; nothing can keep it from ending.
Spec == Init /\ [][Next]_vars /\ WF_vars(GraceOver)

\* The client used by several senders at once, as its mutex provides for.
ConcurrentNext == (\E s \in Senders : Post(s) \/ Finish(s)) \/ GraceOver

ConcurrentSpec == Init /\ [][ConcurrentNext]_vars

-----------------------------------------------------------------------------
\* Every variable has its type.
TypeOK ==
    /\ Status \in Statuses
    /\ ReconnectionCount \in Nat \cup {-1}
    /\ gracePeriod \in Nat
    /\ graces \in Nat
    /\ mu \in {"free", "leaked"}
    /\ pc \in [Senders -> {"idle", "posting", "updating"}]
    /\ target \in [Senders -> (Statuses \ {"Started"}) \cup {"none"}]

\* A transport that backs off has one grace goroutine to end it, and a goroutine
\* is pending only then: none can reopen the transport during a later backoff,
\* before its time, and none is missing.
OneGracePerBackoff == graces = IF IsUnhealthy THEN 1 ELSE 0

\* No request is under way, and no verdict on one is about to be recorded, while
\* the transport backs off.
BackoffIsQuiet == IsUnhealthy => \A s \in Senders : pc[s] = "idle"

\* UpdateStatus releases the mutex on every path it takes.
LockIsReleased == mu = "free"

\* A success ends the sequence of failures, so that the next backoff is short.
HealthyHasNoFailures == Status = "Healthy" => ReconnectionCount = -1

\* Every backoff ends.
BackoffEnds == IsUnhealthy ~> ~IsUnhealthy

\* However senders interleave, a backoff has a goroutine to end it.
BackoffHasGrace == IsUnhealthy => graces > 0

\* From the second failure in a row on, each grace period is longer than the one
\* before it, up to the sixth, whatever the jitter (ComputeGracePeriod).
GraceIncreases ==
    [][ ReconnectionCount' \in (2..6) \cap {ReconnectionCount + 1}
            => gracePeriod' > gracePeriod ]_vars

\* The transport does what UpdateStatus promises.
Promise == INSTANCE Backoff WITH admitting <- ~IsUnhealthy,
                                 failures <- ReconnectionCount + 1
ImplementsBackoff == Promise!Spec

=============================================================================
