--------------------------- MODULE LifecycleProofs ---------------------------
(***************************************************************************)
(* The invariants of Lifecycle, for every clock, margin and timeout.       *)
(***************************************************************************)
EXTENDS Lifecycle, TLAPS

\* Rounding down to whole seconds loses less than a second.
LEMMA WholeSecondsBounds ==
    ASSUME NEW t \in Nat
    PROVE  /\ WholeSeconds(t) \in Nat
           /\ WholeSeconds(t) <= t
           /\ t < WholeSeconds(t) + Second
<1>1. t % Second \in 0 .. Second - 1
  BY LifecycleAssumption
<1>2. t % Second <= t
  BY LifecycleAssumption
<1> QED
  BY <1>1, <1>2, LifecycleAssumption DEF WholeSeconds

\* The quotient that rounds up to n.
LEMMA Quotient ==
    ASSUME NEW x \in Int, NEW n \in Nat, x <= n * Second, n * Second < x + Second
    PROVE  (x + Second - 1) \div Second = n
  BY LifecycleAssumption, Z3

-----------------------------------------------------------------------------
\* What the properties rest on, besides the types.

\* An event that is sent has a deadline that its timer can be computed from, and
\* an invocation the deadline that its timeout gives it.
SentInv ==
    pending # "none" =>
        /\ sent <= now /\ deadline >= Second
        /\ pending = "INVOKE" => deadline = sent + timeout * Second

\* While an event is waited for, its timer is the one that was set on receipt, and
\* has not been passed.
WaitInv ==
    pc = "select" =>
        /\ sent <= received /\ deadline >= Second
        /\ event = "INVOKE" => deadline = sent + timeout * Second
        /\ received <= now /\ now <= expires
        /\ expires = Max2(received, FlushDeadline)

\* The time that the POSTs of the last flush may have taken so far, and all of them.
Posted == (MaxPosts - posts) * PostTimeout
AllPosted == MaxPosts * PostTimeout

\* Each deferred call begins when the one before it has ended, in time, and so does
\* each POST of the last flush.
StopInv ==
    /\ pc \in Stopping => since <= now /\ now <= since + StopTimeout
    /\ pc = "stopLogs" => since <= returned
    /\ pc = "lastFlush" => now <= returned + StopTimeout + Posted
    /\ pc = "lastPost" => /\ now <= since + PostTimeout
                          /\ since + PostTimeout <= returned + StopTimeout + Posted
    /\ pc = "stopReceiver" =>
          since <= returned + StopTimeout + AllPosted

\* Before the receiver starts, or the log service, they are not up.
Starting == {"new", "register", "initError", "startReceiver"}

ServerInv ==
    /\ ServersAreStopped
    /\ pc \in Starting => receiver = "down"
    /\ pc \in Starting \cup {"startLogs"} => logService = "down"
    /\ pc \in {"abandonLogs", "stopLogs"} => logService = "closed"

Inv == TypeOK /\ ServerInv /\ SentInv /\ WaitInv /\ StopInv

USE LifecycleAssumption

LEMMA InitInv == Init => Inv
<1> SUFFICES ASSUME Init PROVE Inv
  OBVIOUS
<1>1. now \in Nat /\ timeout \in Timeouts
  BY DEF Init
<1>2. posts \in 0..MaxPosts
  BY DEF Init
<1>3. TypeOK
  BY <1>1, <1>2 DEF Init, TypeOK, Servers, EventTypes
<1>4. ServerInv /\ SentInv /\ WaitInv /\ StopInv
  BY DEF Init, ServerInv, Starting, ServersAreStopped, LastFlush, SentInv, WaitInv,
         StopInv, Stopping
<1> QED
  BY <1>3, <1>4 DEF Inv

LEMMA TimerType ==
    ASSUME now \in Nat, deadline \in Nat PROVE Max2(now, FlushDeadline) \in Nat
<1>1. (deadline - Margin) % Second \in Int
  OBVIOUS
<1>2. FlushDeadline \in Int
  BY <1>1 DEF FlushDeadline, WholeSeconds
<1> QED
  BY <1>2 DEF Max2

LEMMA TypePreserved == TypeOK /\ [Next]_vars => TypeOK'
<1> SUFFICES ASSUME TypeOK, [Next]_vars PROVE TypeOK'
  OBVIOUS
<1> USE DEF TypeOK, Stopping, LastFlush, Servers, EventTypes, Step, serverVars, sentVars,
     eventVars, exitVars, vars
<1>1. CASE New
  BY <1>1 DEF New
<1>2. CASE Register
  BY <1>2 DEF Register
<1>3. CASE StartReceiver
  BY <1>3 DEF StartReceiver
<1>4. CASE Listen
  BY <1>4 DEF Listen
<1>5. CASE NoPort \/ NoHost \/ NotSubscribed
  BY <1>5 DEF NoPort, NoHost, NotSubscribed, GivesUp, StopLogService
<1>6. CASE Abandoned
  BY <1>6 DEF Abandoned
<1>7. CASE Subscribed
  BY <1>7 DEF Subscribed
<1>8. CASE SendEvent
  BY <1>8 DEF SendEvent
<1>9. CASE Signal
  BY <1>9 DEF Signal
<1>10. CASE Tick
  BY <1>10 DEF Tick
<1>11. CASE Loop
  BY <1>11 DEF Loop, Return, FirstDeferred
<1>12. CASE ReceiveEvent
  BY <1>12, TimerType DEF ReceiveEvent
<1>13. CASE NextFails
  BY <1>13 DEF NextFails
<1>14. CASE ExitErrorReturns
  BY <1>14 DEF ExitErrorReturns, Return, FirstDeferred
<1>15. CASE EventDone
  BY <1>15 DEF EventDone
<1>16. CASE TimerExpires
  BY <1>16 DEF TimerExpires, EventDone
<1>17. CASE Flushed
  BY <1>17 DEF Flushed, Return, FirstDeferred
<1>18. CASE LogsStopped
  BY <1>18 DEF LogsStopped
<1>19. CASE LastFlushEnds
  BY <1>19 DEF LastFlushEnds
<1>20. CASE ReceiverStopped
  BY <1>20 DEF ReceiverStopped
<1>21. CASE Exited
  BY <1>21 DEF Exited, vars
<1>22. CASE FlushPosts
  BY <1>22 DEF FlushPosts
<1>23. CASE PostEnds
  BY <1>23 DEF PostEnds
<1>24. CASE UNCHANGED vars
  BY <1>24 DEF vars
<1> QED
  BY <1>1, <1>2, <1>3, <1>4, <1>5, <1>6, <1>7, <1>8, <1>9, <1>10, <1>11,
     <1>12, <1>13, <1>14, <1>15, <1>16, <1>17, <1>18, <1>19, <1>20, <1>21,
     <1>22, <1>23, <1>24 DEF Next

\* Only the start, the ends of Run and the first two deferred calls reach a place
\* where a server may not be up, or open one.
LEMMA ServersPreserved == TypeOK /\ ServerInv /\ [Next]_vars => ServerInv'
<1> SUFFICES ASSUME TypeOK, ServerInv, [Next]_vars PROVE ServerInv'
  OBVIOUS
<1> USE DEF ServerInv, ServersAreStopped, LastFlush, Starting, Step, serverVars,
     sentVars, eventVars, exitVars, vars
<1>1. CASE New
  BY <1>1 DEF New
<1>2. CASE Register
  BY <1>2 DEF Register
<1>3. CASE StartReceiver
  BY <1>3 DEF StartReceiver
<1>4. CASE Listen
  BY <1>4 DEF Listen
<1>5. CASE NoPort \/ NoHost \/ NotSubscribed
  BY <1>5 DEF NoPort, NoHost, NotSubscribed, GivesUp, StopLogService
<1>6. CASE Abandoned
  BY <1>6 DEF Abandoned
<1>7. CASE Subscribed
  BY <1>7 DEF Subscribed
<1>8. CASE SendEvent
  BY <1>8 DEF SendEvent
<1>9. CASE Signal
  BY <1>9 DEF Signal
<1>10. CASE Tick
  BY <1>10 DEF Tick
<1>11. CASE Loop
  BY <1>11 DEF Loop, Return, FirstDeferred
<1>12. CASE ReceiveEvent
  BY <1>12 DEF ReceiveEvent
<1>13. CASE NextFails
  BY <1>13 DEF NextFails
<1>14. CASE ExitErrorReturns
  BY <1>14 DEF ExitErrorReturns, Return, FirstDeferred
<1>15. CASE EventDone
  BY <1>15 DEF EventDone
<1>16. CASE TimerExpires
  BY <1>16 DEF TimerExpires, EventDone
<1>17. CASE Flushed
  BY <1>17 DEF Flushed, Return, FirstDeferred
<1>18. CASE LogsStopped
  BY <1>18 DEF LogsStopped
<1>19. CASE LastFlushEnds
  BY <1>19 DEF LastFlushEnds
<1>20. CASE ReceiverStopped
  BY <1>20 DEF ReceiverStopped
<1>21. CASE Exited
  BY <1>21 DEF Exited, vars
<1>22. CASE FlushPosts
  BY <1>22 DEF FlushPosts
<1>23. CASE PostEnds
  BY <1>23 DEF PostEnds
<1>24. CASE UNCHANGED vars
  BY <1>24 DEF vars
<1> QED
  BY <1>1, <1>2, <1>3, <1>4, <1>5, <1>6, <1>7, <1>8, <1>9, <1>10, <1>11,
     <1>12, <1>13, <1>14, <1>15, <1>16, <1>17, <1>18, <1>19, <1>20, <1>21,
     <1>22, <1>23, <1>24 DEF Next

\* The deadline is set with the event that is sent.
LEMMA SentPreserved == TypeOK /\ SentInv /\ [Next]_vars => SentInv'
<1> SUFFICES ASSUME TypeOK, SentInv, [Next]_vars PROVE SentInv'
  OBVIOUS
<1> USE DEF SentInv, TypeOK, Step, serverVars, sentVars, eventVars, exitVars,
     vars
<1>1. CASE New
  BY <1>1 DEF New
<1>2. CASE Register
  BY <1>2 DEF Register
<1>3. CASE StartReceiver
  BY <1>3 DEF StartReceiver
<1>4. CASE Listen
  BY <1>4 DEF Listen
<1>5. CASE NoPort \/ NoHost \/ NotSubscribed
  BY <1>5 DEF NoPort, NoHost, NotSubscribed, GivesUp, StopLogService
<1>6. CASE Abandoned
  BY <1>6 DEF Abandoned
<1>7. CASE Subscribed
  BY <1>7 DEF Subscribed
<1>8. CASE SendEvent
  BY <1>8 DEF SendEvent
<1>9. CASE Signal
  BY <1>9 DEF Signal
<1>10. CASE Tick
  BY <1>10 DEF Tick
<1>11. CASE Loop
  BY <1>11 DEF Loop, Return, FirstDeferred
<1>12. CASE ReceiveEvent
  BY <1>12 DEF ReceiveEvent
<1>13. CASE NextFails
  BY <1>13 DEF NextFails
<1>14. CASE ExitErrorReturns
  BY <1>14 DEF ExitErrorReturns, Return, FirstDeferred
<1>15. CASE EventDone
  BY <1>15 DEF EventDone
<1>16. CASE TimerExpires
  BY <1>16 DEF TimerExpires, EventDone
<1>17. CASE Flushed
  BY <1>17 DEF Flushed, Return, FirstDeferred
<1>18. CASE LogsStopped
  BY <1>18 DEF LogsStopped
<1>19. CASE LastFlushEnds
  BY <1>19 DEF LastFlushEnds
<1>20. CASE ReceiverStopped
  BY <1>20 DEF ReceiverStopped
<1>21. CASE Exited
  BY <1>21 DEF Exited, vars
<1>22. CASE FlushPosts
  BY <1>22 DEF FlushPosts
<1>23. CASE PostEnds
  BY <1>23 DEF PostEnds
<1>24. CASE UNCHANGED vars
  BY <1>24 DEF vars
<1> QED
  BY <1>1, <1>2, <1>3, <1>4, <1>5, <1>6, <1>7, <1>8, <1>9, <1>10, <1>11,
     <1>12, <1>13, <1>14, <1>15, <1>16, <1>17, <1>18, <1>19, <1>20, <1>21,
     <1>22, <1>23, <1>24 DEF Next

\* The wait begins with the timer that is set, and the clock stops at the timer.
LEMMA WaitBeforeTimer == Tick /\ pc = "select" => now < expires
  BY DEF Tick, WaitLimit, Stopping

LEMMA WaitPreserved == TypeOK /\ SentInv /\ WaitInv /\ [Next]_vars => WaitInv'
<1> SUFFICES ASSUME TypeOK, SentInv, WaitInv, [Next]_vars PROVE WaitInv'
  OBVIOUS
<1> USE DEF WaitInv, SentInv, TypeOK, Step, serverVars, sentVars, eventVars,
     exitVars, vars
<1>1. CASE New
  BY <1>1 DEF New
<1>2. CASE Register
  BY <1>2 DEF Register
<1>3. CASE StartReceiver
  BY <1>3 DEF StartReceiver
<1>4. CASE Listen
  BY <1>4 DEF Listen
<1>5. CASE NoPort \/ NoHost \/ NotSubscribed
  BY <1>5 DEF NoPort, NoHost, NotSubscribed, GivesUp, StopLogService
<1>6. CASE Abandoned
  BY <1>6 DEF Abandoned
<1>7. CASE Subscribed
  BY <1>7 DEF Subscribed
<1>8. CASE SendEvent
  BY <1>8 DEF SendEvent
<1>9. CASE Signal
  BY <1>9 DEF Signal, FlushDeadline
<1>10. CASE Tick
  BY <1>10, WaitBeforeTimer DEF Tick, FlushDeadline
<1>11. CASE Loop
  BY <1>11 DEF Loop, Return, FirstDeferred
<1>12. CASE ReceiveEvent
  BY <1>12, TimerType DEF ReceiveEvent, FlushDeadline, Max2
<1>13. CASE NextFails
  BY <1>13 DEF NextFails
<1>14. CASE ExitErrorReturns
  BY <1>14 DEF ExitErrorReturns, Return, FirstDeferred
<1>15. CASE EventDone
  BY <1>15 DEF EventDone
<1>16. CASE TimerExpires
  BY <1>16 DEF TimerExpires, EventDone
<1>17. CASE Flushed
  BY <1>17 DEF Flushed, Return, FirstDeferred
<1>18. CASE LogsStopped
  BY <1>18 DEF LogsStopped
<1>19. CASE LastFlushEnds
  BY <1>19 DEF LastFlushEnds
<1>20. CASE ReceiverStopped
  BY <1>20 DEF ReceiverStopped
<1>21. CASE Exited
  BY <1>21 DEF Exited, vars, FlushDeadline
<1>22. CASE FlushPosts
  BY <1>22 DEF FlushPosts
<1>23. CASE PostEnds
  BY <1>23 DEF PostEnds
<1>24. CASE UNCHANGED vars
  BY <1>24 DEF vars, FlushDeadline
<1> QED
  BY <1>1, <1>2, <1>3, <1>4, <1>5, <1>6, <1>7, <1>8, <1>9, <1>10, <1>11,
     <1>12, <1>13, <1>14, <1>15, <1>16, <1>17, <1>18, <1>19, <1>20, <1>21,
     <1>22, <1>23, <1>24 DEF Next

\* Each POST adds its timeout to the bound, which is reached with the last.
LEMMA PostedBounds ==
    ASSUME posts \in 0..MaxPosts
    PROVE  Posted \in Nat /\ AllPosted \in Nat /\ Posted <= AllPosted
<1>1. AllPosted = Posted + posts * PostTimeout
  BY DEF Posted, AllPosted
<1>2. posts * PostTimeout \in Nat /\ Posted \in Nat
  BY DEF Posted
<1> QED
  BY <1>1, <1>2

LEMMA PostedGrows ==
    ASSUME posts \in 0..MaxPosts, posts' = posts - 1
    PROVE  Posted' = Posted + PostTimeout
<1>1. MaxPosts - posts' = (MaxPosts - posts) + 1
  OBVIOUS
<1> QED
  BY <1>1 DEF Posted

\* The clock stops at the timeouts.
LEMMA WaitBeforeTimeout ==
    ASSUME TypeOK, Tick
    PROVE  /\ pc \in Stopping => now < since + StopTimeout
           /\ pc = "lastPost" => now < since + PostTimeout
           /\ pc # "lastFlush"
<1>1. now < WaitLimit /\ now \in Nat
  BY DEF Tick, TypeOK
<1>2. pc \in Stopping => WaitLimit = since + StopTimeout
  BY DEF WaitLimit, Stopping, StopLimit
<1>3. pc = "lastPost" => WaitLimit = since + PostTimeout
  BY DEF WaitLimit, Stopping, PostLimit
<1>4. pc = "lastFlush" => WaitLimit = now
  BY DEF WaitLimit, Stopping
<1> QED
  BY <1>1, <1>2, <1>3, <1>4

\* A deferred call begins at the time at which the one before it ends.
LEMMA StopPreserved == TypeOK /\ StopInv /\ [Next]_vars => StopInv'
<1> SUFFICES ASSUME TypeOK, StopInv, [Next]_vars PROVE StopInv'
  OBVIOUS
<1>b. Posted \in Nat /\ AllPosted \in Nat /\ Posted <= AllPosted
  BY PostedBounds DEF TypeOK
<1>s. posts' = posts => Posted' = Posted
  BY DEF Posted
<1> USE DEF StopInv, Stopping, TypeOK, Step, serverVars, sentVars, eventVars,
     exitVars, vars
<1>1. CASE New
  BY <1>1, <1>b, <1>s DEF New
<1>2. CASE Register
  BY <1>2, <1>b, <1>s DEF Register
<1>3. CASE StartReceiver
  BY <1>3, <1>b, <1>s DEF StartReceiver
<1>4. CASE Listen
  BY <1>4, <1>b, <1>s DEF Listen
<1>5. CASE NoPort \/ NoHost \/ NotSubscribed
  BY <1>5, <1>b, <1>s DEF NoPort, NoHost, NotSubscribed, GivesUp, StopLogService
<1>6. CASE Abandoned
  BY <1>6, <1>b, <1>s DEF Abandoned
<1>7. CASE Subscribed
  BY <1>7, <1>b, <1>s DEF Subscribed
<1>8. CASE SendEvent
  BY <1>8, <1>b, <1>s DEF SendEvent
<1>9. CASE Signal
  BY <1>9, <1>b, <1>s DEF Signal
<1>10. CASE Tick
  BY <1>10, <1>b, <1>s, WaitBeforeTimeout DEF Tick
<1>11. CASE Loop
  BY <1>11, <1>b, <1>s DEF Loop, Return, FirstDeferred
<1>12. CASE ReceiveEvent
  BY <1>12, <1>b, <1>s DEF ReceiveEvent
<1>13. CASE NextFails
  BY <1>13, <1>b, <1>s DEF NextFails
<1>14. CASE ExitErrorReturns
  BY <1>14, <1>b, <1>s DEF ExitErrorReturns, Return, FirstDeferred
<1>15. CASE EventDone
  BY <1>15, <1>b, <1>s DEF EventDone
<1>16. CASE TimerExpires
  BY <1>16, <1>b, <1>s DEF TimerExpires, EventDone
<1>17. CASE Flushed
  BY <1>17, <1>b, <1>s DEF Flushed, Return, FirstDeferred
<1>18. CASE LogsStopped
  BY <1>18, <1>b, <1>s DEF LogsStopped
<1>19. CASE LastFlushEnds
  BY <1>19, <1>b, <1>s DEF LastFlushEnds
<1>20. CASE ReceiverStopped
  BY <1>20, <1>b, <1>s DEF ReceiverStopped
<1>21. CASE Exited
  BY <1>21, <1>b, <1>s DEF Exited, vars
<1>22. CASE FlushPosts
  BY <1>22, <1>b, PostedGrows DEF FlushPosts
<1>23. CASE PostEnds
  BY <1>23, <1>b, <1>s DEF PostEnds
<1>24. CASE UNCHANGED vars
  BY <1>24, <1>b, <1>s DEF vars
<1> QED
  BY <1>1, <1>2, <1>3, <1>4, <1>5, <1>6, <1>7, <1>8, <1>9, <1>10, <1>11,
     <1>12, <1>13, <1>14, <1>15, <1>16, <1>17, <1>18, <1>19, <1>20, <1>21,
     <1>22, <1>23, <1>24 DEF Next

-----------------------------------------------------------------------------
\* The invariant holds in every reachable state.
THEOREM Invariance == Spec => []Inv
<1>1. Inv /\ [Next]_vars => Inv'
  BY TypePreserved, ServersPreserved, SentPreserved, WaitPreserved, StopPreserved
     DEF Inv
<1> QED
  BY InitInv, <1>1, PTL DEF Spec

\* Every variable keeps its type.
THEOREM TypeCorrect == Spec => []TypeOK
  BY Invariance, PTL DEF Inv

\* No server takes requests that nobody will handle: the log service once its
\* client is given up, and any server once Run has returned and stopped it.
THEOREM ServersStop == Spec => []ServersAreStopped
  BY Invariance, PTL DEF Inv, ServerInv

\* The deadline of a flush is a number of ticks, with what rounding loses.
LEMMA FlushDeadlineBounds ==
    ASSUME deadline \in Nat, deadline >= Second
    PROVE  /\ FlushDeadline \in Nat
           /\ FlushDeadline <= deadline - Margin
           /\ deadline - Margin < FlushDeadline + Second
<1>1. deadline - Margin \in Nat
  OBVIOUS
<1> QED
  BY <1>1, WholeSecondsBounds DEF FlushDeadline

\* However long the deadline and whatever the clock's phase, the wait for an event
\* ends the margin before the deadline, or at once.
THEOREM MarginIsKept == Spec => []FlushHasMargin
<1>1. Inv => FlushHasMargin
  <2> SUFFICES ASSUME Inv, pc = "select"
               PROVE  now <= Max2(received, deadline - Margin)
    BY DEF FlushHasMargin
  <2>1. /\ now \in Nat /\ received \in Nat /\ deadline \in Nat
        /\ deadline >= Second /\ now <= expires
        /\ expires = Max2(received, FlushDeadline)
    BY DEF Inv, TypeOK, WaitInv
  <2>2. FlushDeadline \in Nat /\ FlushDeadline <= deadline - Margin
    BY <2>1, FlushDeadlineBounds
  <2> QED
    BY <2>1, <2>2 DEF Max2
<1> QED
  BY Invariance, <1>1, PTL

\* The truncation to seconds ends the wait less than a second too early.
THEOREM TimerIsNotEarly == Spec => []TimerNotEarly
<1>1. Inv => TimerNotEarly
  <2> SUFFICES ASSUME Inv, pc = "select" PROVE deadline - Margin < expires + Second
    BY DEF TimerNotEarly
  <2>1. /\ received \in Nat /\ deadline \in Nat
        /\ deadline >= Second /\ expires = Max2(received, FlushDeadline)
    BY DEF Inv, TypeOK, WaitInv
  <2>2. FlushDeadline \in Nat /\ deadline - Margin < FlushDeadline + Second
    BY <2>1, FlushDeadlineBounds
  <2> QED
    BY <2>1, <2>2 DEF Max2
<1> QED
  BY Invariance, <1>1, PTL

\* The clock's phase and the delay of the event, below a second, do not show in
\* faas.timeout.
THEOREM TimeoutIsExact == Spec => []TimeoutIsDerived
<1>1. Inv => TimeoutIsDerived
  <2> SUFFICES ASSUME Inv, pc = "select", event = "INVOKE", received < sent + Second
               PROVE  FaasTimeout = timeout
    BY DEF TimeoutIsDerived
  <2>1. /\ received \in Nat /\ sent \in Nat /\ deadline \in Nat /\ timeout \in Nat
        /\ sent <= received /\ deadline = sent + timeout * Second
    BY DEF Inv, TypeOK, WaitInv
  <2>2. timeout * Second \in Nat
    BY <2>1
  <2>3. /\ deadline - received \in Int
        /\ deadline - received <= timeout * Second
        /\ timeout * Second < deadline - received + Second
    BY <2>1, <2>2
  <2> QED
    BY <2>1, <2>3, Quotient DEF FaasTimeout
<1> QED
  BY Invariance, <1>1, PTL

\* The deferred calls of Run take no longer than the timeouts of both servers and of
\* every POST together.
THEOREM ExitInTime == Spec => []ExitIsBounded
<1>1. Inv => ExitIsBounded
  BY PostedBounds
     DEF Inv, TypeOK, StopInv, ExitIsBounded, Stopping, LastFlush, AllPosted
<1> QED
  BY Invariance, <1>1, PTL
=============================================================================
