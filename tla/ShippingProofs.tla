---------------------------- MODULE ShippingProofs ----------------------------
(***************************************************************************)
(* No line is shipped twice.  A transaction is in the agent's channel or   *)
(* in the batch, once, because its agent sends it once; a proxy is added   *)
(* by the step that settles its invocation; the metrics of a report are    *)
(* made by the step that drops its invocation.  What remains to be shown   *)
(* of each kind is that what made the line cannot happen again, not even   *)
(* when the Logs API posts a batch of log events for a second time.        *)
(***************************************************************************)
EXTENDS ExtensionProofs

USE ExtensionAssumption

-----------------------------------------------------------------------------
\* The lines that the batch holds or APM Server has received.
Carried == ToSet(buf) \cup received

\* No line of a kind is in the batch twice, or again.
Once(k) ==
    \A i \in 1..Len(buf) : buf[i].kind = k =>
        /\ buf[i] \notin received
        /\ \A j \in 1..i - 1 : buf[j] # buf[i]

\* A step that adds no line of a kind.
NoneAdded(k) ==
    /\ Once(k) => Once(k)'
    /\ \A line \in Carried' : line.kind = k => line \in Carried

LEMMA SameLines ==
    ASSUME NEW k, UNCHANGED << buf, received >> PROVE NoneAdded(k)
BY DEF NoneAdded, Once, Carried

\* What is behind the lines of the batch, or behind the metadata that starts it.
LEMMA AddsLines ==
    ASSUME buf \in Seq(B!Line), NEW front \in Seq(B!Line), NEW lines \in Seq(B!Line),
           front = buf \/ (buf = << >> /\ front = << B!MetadataLine >>),
           buf' = front \o lines, received' = received,
           NEW k, k # "metadata"
    PROVE  /\ \A line \in Carried' :
                 line.kind = k => line \in Carried \cup ToSet(lines)
           /\ \/ \A i \in 1..Len(lines) :
                    lines[i].kind = k => /\ lines[i] \notin Carried
                                         /\ \A j \in 1..i - 1 : lines[j] # lines[i]
              => (Once(k) => Once(k)')
           /\ (\A i \in 1..Len(lines) : lines[i].kind # k) => NoneAdded(k)
<1> DEFINE n == Len(front)
           m == Len(lines)
           New == \A i \in 1..m : lines[i].kind = k =>
                       /\ lines[i] \notin Carried
                       /\ \A j \in 1..i - 1 : lines[j] # lines[i]
<1>1. n \in Nat /\ m \in Nat /\ Len(buf) \in Nat
  BY LenProperties
<1>2. /\ Len(buf') = n + m
      /\ \A i \in 1..n + m : buf'[i] = IF i <= n THEN front[i] ELSE lines[i - n]
  BY ConcatProperties
<1>3. \A i \in 1..n : front[i].kind = k => n = Len(buf) /\ front[i] = buf[i]
  BY DEF B!MetadataLine
<1>4. \A i \in 1..n : front[i] \in ToSet(buf) \/ front[i] = B!MetadataLine
  BY DEF ToSet
<1> HIDE DEF n, m
<1>5. ASSUME NEW line \in Carried', line.kind = k
      PROVE  line \in Carried \cup ToSet(lines)
  <2>1. CASE line \in received'
    BY <2>1 DEF Carried
  <2>2. ASSUME NEW i \in 1..n + m, line = buf'[i] PROVE line \in Carried \cup ToSet(lines)
    <3>1. CASE i <= n
      BY <1>1, <1>2, <1>4, <1>5, <2>2, <3>1 DEF Carried, B!MetadataLine
    <3>2. CASE i > n
      <4>1. i - n \in 1..m /\ line = lines[i - n]
        BY <1>1, <1>2, <2>2, <3>2
      <4> QED
        BY <4>1 DEF ToSet, m
    <3> QED
      BY <1>1, <3>1, <3>2
  <2> QED
    BY <1>2, <2>1, <2>2 DEF Carried, ToSet
<1>6. ASSUME New, Once(k) PROVE Once(k)'
  <2> SUFFICES ASSUME NEW i \in 1..n + m, buf'[i].kind = k
               PROVE  buf'[i] \notin received /\ \A j \in 1..i - 1 : buf'[j] # buf'[i]
    BY <1>2 DEF Once
  <2>1. CASE i <= n
    <3>1. i \in 1..n /\ buf'[i] = front[i]
      BY <1>1, <1>2, <2>1
    <3>2. n = Len(buf) /\ buf'[i] = buf[i] /\ buf[i].kind = k
      BY <1>3, <3>1
    <3>3. front = buf
      <4>1. front # << B!MetadataLine >> \/ buf # << >>
        BY <1>1, <3>1, <3>2
      <4> QED
        BY <4>1
    <3>4. \A j \in 1..i - 1 : buf'[j] = buf[j]
      BY <1>1, <1>2, <3>1, <3>3
    <3> QED
      BY <1>6, <3>1, <3>2, <3>4 DEF Once
  <2>2. CASE i > n
    <3>1. i - n \in 1..m /\ buf'[i] = lines[i - n]
      BY <1>1, <1>2, <2>2
    <3>2. buf'[i] \notin Carried /\ buf'[i] # B!MetadataLine
      BY <1>6, <3>1 DEF B!MetadataLine
    <3>3. ASSUME NEW j \in 1..i - 1, j <= n PROVE buf'[j] # buf'[i]
      <4>1. j \in 1..n /\ j \in 1..n + m
        BY <1>1, <3>3
      <4>2. buf'[j] = front[j]
        BY <1>2, <3>3, <4>1
      <4> QED
        BY <1>4, <3>2, <4>1, <4>2 DEF Carried
    <3>4. ASSUME NEW j \in 1..i - 1, j > n PROVE buf'[j] # buf'[i]
      <4>1. j \in 1..n + m /\ j - n \in 1..(i - n) - 1
        BY <1>1, <3>4
      <4>2. buf'[j] = lines[j - n]
        BY <1>1, <1>2, <3>4, <4>1
      <4>3. lines[i - n].kind = k
        BY <3>1
      <4>4. lines[j - n] # lines[i - n]
        BY <1>6, <3>1, <4>1, <4>3
      <4> QED
        BY <3>1, <4>2, <4>4
    <3>5. buf'[i] \notin received
      BY <3>2 DEF Carried
    <3>6. \A j \in 1..i - 1 : j <= n \/ j > n
      BY <1>1
    <3>7. \A j \in 1..i - 1 : buf'[j] # buf'[i]
      BY <3>3, <3>4, <3>6
    <3> QED
      BY <3>5, <3>7
  <2>3. i <= n \/ i > n
    BY <1>1
  <2> HIDE DEF New
  <2> QED
    BY <2>1, <2>2, <2>3
<1>7. ASSUME \A i \in 1..m : lines[i].kind # k PROVE NoneAdded(k)
  <2>1. New
    BY <1>7
  <2>2. \A line \in ToSet(lines) : line.kind # k
    BY <1>7, LenProperties DEF ToSet, m
  <2> QED
    BY <1>5, <1>6, <2>1, <2>2 DEF NoneAdded
<1> QED
  BY <1>5, <1>6, <1>7 DEF m

-----------------------------------------------------------------------------
\* What the calls of the batch add to it.

\* The body of an agent is its transaction.
LEMMA AgentDataLines ==
    ASSUME B!TypeOK, B!BufferFraming, received' = received,
           NEW r \in ReqIDs, B!AddAgentData(AgentBody(r)),
           NEW k, k # "metadata"
    PROVE  /\ k # "transaction" => NoneAdded(k)
           /\ \A line \in Carried' :
                 line.kind = k => line \in Carried \cup {B!AgentTxn(r)}
           /\ B!AgentTxn(r) \notin Carried => (Once(k) => Once(k)')
<1>1. buf \in Seq(B!Line)
  BY DEF B!TypeOK
<1>2. CASE UNCHANGED B!batchVars
  BY <1>2, SameLines DEF B!batchVars, NoneAdded
<1>3. CASE ~UNCHANGED B!batchVars
  <2> DEFINE front == IF metadataBytes = 0 THEN << B!MetadataLine >> ELSE buf
             lines == AgentBody(r)
  <2>1. buf' = front \o lines
    BY <1>3 DEF B!AddAgentData, B!AddLines
  <2>2. front \in Seq(B!Line) /\ lines \in Seq(B!Line)
    <3>1. << B!MetadataLine >> \in Seq(B!Line)
      BY DEF B!Line
    <3>2. AgentBody(r) \in Seq(B!Line)
      BY DEF B!Line, B!EventLine, B!EventKinds, AgentBody
    <3> QED
      BY <1>1, <3>1, <3>2
  <2>3. front = buf \/ (buf = << >> /\ front = << B!MetadataLine >>)
    <3>1. metadataBytes = 0 => Len(buf) = 0
      BY DEF B!TypeOK, B!BufferFraming
    <3> QED
      BY <1>1, <3>1, EmptySeq
  <2>4. Len(lines) = 1 /\ lines[1] = B!AgentTxn(r) /\ ToSet(lines) = {B!AgentTxn(r)}
    BY DEF AgentBody, B!AgentTxn, ToSet
  <2>5. B!AgentTxn(r).kind = "transaction"
    BY DEF B!AgentTxn
  <2> HIDE DEF front, lines
  <2>6. \A line \in Carried' : line.kind = k => line \in Carried \cup ToSet(lines)
    BY <1>1, <2>1, <2>2, <2>3, AddsLines
  <2>7. (\A i \in 1..Len(lines) : lines[i].kind # k) => NoneAdded(k)
    BY <1>1, <2>1, <2>2, <2>3, AddsLines
  <2>8. (\A i \in 1..Len(lines) :
            lines[i].kind = k => /\ lines[i] \notin Carried
                                 /\ \A j \in 1..i - 1 : lines[j] # lines[i])
        => (Once(k) => Once(k)')
    BY <1>1, <2>1, <2>2, <2>3, AddsLines
  <2>9. \A i \in 1..Len(lines) : i = 1 /\ lines[i] = B!AgentTxn(r)
    BY <2>4
  <2> QED
    BY <2>4, <2>5, <2>6, <2>7, <2>8, <2>9
<1> QED
  BY <1>2, <1>3

LEMMA LambdaDataLines ==
    ASSUME B!TypeOK, received' = received,
           NEW new \in B!LambdaEvent, B!AddLambdaData(new),
           NEW k, k # "metadata"
    PROVE  /\ k # new.kind => NoneAdded(k)
           /\ \A line \in Carried' : line.kind = k => line \in Carried \cup {new}
           /\ new \notin Carried => (Once(k) => Once(k)')
<1>1. buf \in Seq(B!Line)
  BY DEF B!TypeOK
<1>2. CASE UNCHANGED B!batchVars
  BY <1>2, SameLines DEF B!batchVars, NoneAdded
<1>3. CASE ~UNCHANGED B!batchVars
  <2> DEFINE lines == << new >>
  <2>1. buf' = buf \o lines
    BY <1>3 DEF B!AddLambdaData, B!AddLines
  <2>2. lines \in Seq(B!Line)
    BY DEF B!LambdaEvent, B!Line, B!EventLine, B!EventKinds
  <2>3. Len(lines) = 1 /\ lines[1] = new /\ ToSet(lines) = {new}
    BY DEF ToSet
  <2> HIDE DEF lines
  <2>4. \A line \in Carried' : line.kind = k => line \in Carried \cup ToSet(lines)
    BY <1>1, <2>1, <2>2, AddsLines
  <2>5. (\A i \in 1..Len(lines) : lines[i].kind # k) => NoneAdded(k)
    BY <1>1, <2>1, <2>2, AddsLines
  <2>6. (\A i \in 1..Len(lines) :
            lines[i].kind = k => /\ lines[i] \notin Carried
                                 /\ \A j \in 1..i - 1 : lines[j] # lines[i])
        => (Once(k) => Once(k)')
    BY <1>1, <2>1, <2>2, AddsLines
  <2>7. \A i \in 1..Len(lines) : i = 1 /\ lines[i] = new
    BY <2>3
  <2> QED
    BY <2>3, <2>4, <2>5, <2>6, <2>7
<1> QED
  BY <1>2, <1>3

\* A log event adds at most the proxy of an invocation that needs it, and has
\* finalized the invocation when it does.
LEMMA HandleLogLines ==
    ASSUME B!TypeOK, received' = received, NEW ev \in LogEvent, HandleLog(ev),
           NEW k, k # "metadata"
    PROVE  \/ NoneAdded(k)
           \/ /\ k = "proxy" /\ ev.kind = "runtimeDone" /\ ev.id \in B!Tracked
              /\ B!NeedProxyTransaction(invocations[ev.id])
              /\ invocations' =
                    B!Put(ev.id, [invocations[ev.id] EXCEPT !.Finalized = TRUE])
              /\ LET new == B!ProxyTxn(invocations[ev.id].TransactionID) IN
                 /\ \A line \in Carried' : line.kind = k => line \in Carried \cup {new}
                 /\ new \notin Carried => (Once(k) => Once(k)')
<1>1. buf \in Seq(B!Line)
  BY DEF B!TypeOK
<1>2. CASE UNCHANGED buf
  BY <1>2, SameLines
<1>3. CASE buf' # buf
  <2> DEFINE r == ev.id
             new == B!ProxyTxn(invocations[r].TransactionID)
             lines == << new >>
  <2>1. ev.kind = "runtimeDone"
    BY <1>3 DEF HandleLog, LogEvent, LogTypes, B!OnPlatformStart, B!OnPlatformReport,
                batchVars, B!bufferVars
  <2>2. B!OnLambdaLogRuntimeDone(r) /\ ~UNCHANGED B!batchVars
    BY <1>3, <2>1 DEF HandleLog, B!batchVars
  <2>3. /\ r \in B!Tracked
        /\ invocations' = B!Put(r, [invocations[r] EXCEPT !.Finalized = TRUE])
        /\ B!AddLines(buf, IF B!NeedProxyTransaction(invocations[r])
                           THEN lines ELSE << >>)
    BY <2>2 DEF B!OnLambdaLogRuntimeDone, B!Lookup
  <2>4. B!NeedProxyTransaction(invocations[r])
    <3>1. buf \o << >> = buf
      BY <1>1, ConcatEmptySeq
    <3> QED
      BY <1>3, <2>3, <3>1 DEF B!AddLines
  <2>5. buf' = buf \o lines
    BY <2>3, <2>4 DEF B!AddLines
  <2>6. lines \in Seq(B!Line)
    <3>1. invocations[r].TransactionID \in ReqIDs \cup {None}
      BY <2>3 DEF B!TypeOK, B!Invocation
    <3> QED
      BY <3>1 DEF B!ProxyTxn, B!Line, B!EventLine, B!EventKinds
  <2>7. Len(lines) = 1 /\ lines[1] = new /\ ToSet(lines) = {new} /\ new.kind = "proxy"
    BY DEF ToSet, B!ProxyTxn
  <2> HIDE DEF lines, new
  <2>8. \A line \in Carried' : line.kind = k => line \in Carried \cup ToSet(lines)
    BY <1>1, <2>5, <2>6, AddsLines
  <2>9. (\A i \in 1..Len(lines) : lines[i].kind # k) => NoneAdded(k)
    BY <1>1, <2>5, <2>6, AddsLines
  <2>10. (\A i \in 1..Len(lines) :
             lines[i].kind = k => /\ lines[i] \notin Carried
                                  /\ \A j \in 1..i - 1 : lines[j] # lines[i])
         => (Once(k) => Once(k)')
    BY <1>1, <2>5, <2>6, AddsLines
  <2>11. \A i \in 1..Len(lines) : i = 1 /\ lines[i] = new
    BY <2>7
  <2>12. new \notin Carried => (Once(k) => Once(k)')
    BY <2>10, <2>11
  <2>13. k # "proxy" => NoneAdded(k)
    BY <2>7, <2>9, <2>11
  <2> QED
    BY <2>1, <2>3, <2>4, <2>7, <2>8, <2>12, <2>13 DEF new
<1> QED
  BY <1>2, <1>3

LEMMA HandleLogAddsProxies ==
    ASSUME B!TypeOK, received' = received, NEW ev \in LogEvent, HandleLog(ev),
           NEW k, k # "metadata", k # "proxy"
    PROVE  NoneAdded(k)
BY HandleLogLines, Zenon

\* An AgentInit adds no line but the metadata.
LEMMA AgentInitLines ==
    ASSUME B!TypeOK, B!BufferFraming, received' = received,
           NEW r, NEW t, NEW w, B!OnAgentInit(r, t, w), NEW k, k # "metadata"
    PROVE  NoneAdded(k)
<1>1. buf \in Seq(B!Line)
  BY DEF B!TypeOK
<1>2. CASE UNCHANGED buf
  BY <1>2, SameLines
<1>3. CASE buf' # buf
  <2>1. buf' = << B!MetadataLine >> /\ buf = << >>
    <3>1. metadataBytes = 0 /\ buf' = << B!MetadataLine >>
      BY <1>3 DEF B!OnAgentInit
    <3>2. Len(buf) = 0
      BY <3>1 DEF B!TypeOK, B!BufferFraming
    <3> QED
      BY <1>1, <3>1, <3>2, EmptySeq
  <2> DEFINE front == << B!MetadataLine >>
             lines == << >>
  <2>2. front \in Seq(B!Line) /\ lines \in Seq(B!Line)
    BY DEF B!Line
  <2>3. buf' = front \o lines
    BY <2>1, <2>2, ConcatEmptySeq
  <2>4. \A i \in 1..Len(lines) : lines[i].kind # k
    OBVIOUS
  <2>5. front = buf \/ (buf = << >> /\ front = << B!MetadataLine >>)
    BY <2>1
  <2> HIDE DEF front, lines
  <2> QED
    BY <1>1, <2>2, <2>3, <2>4, <2>5, AddsLines
<1> QED
  BY <1>2, <1>3

\* A payload is a sequence of lines.
SnapInv == snap \in Seq(B!Line)

LEMMA SnapInvariance == Spec => []SnapInv
<1> USE DEF SnapInv
<1>1. Init => SnapInv
  BY DEF Init
<1>2. ASSUME B!TypeOK, TurnsInv, SnapInv, [Next]_vars PROVE SnapInv'
  <2>1. CASE \E s \in Senders : Ship(s)
    BY <1>2, <2>1 DEF Ship, B!TypeOK
  <2>2. CASE \E s \in Senders, result \in PostResults : PostReturns(s, result)
    BY <2>2 DEF PostReturns
  <2> QED
    BY <1>2, <2>1, <2>2, PostFrame DEF NoPost
<1> QED
  BY <1>1, <1>2, BatchInvariants, TurnsInvariance, PTL DEF Spec

\* What a POST carried has been in the batch, and the Reset behind it leaves the
\* metadata there.
LEMMA PostLines ==
    ASSUME B!TypeOK, B!BufferFraming, PostInv, SnapInv,
           NEW k, k # "metadata",
           NEW s \in Senders, NEW result \in PostResults, PostReturns(s, result)
    PROVE  NoneAdded(k)
<1>1. buf \in Seq(B!Line) /\ Len(buf) \in Nat /\ metadataBytes \in 0..Len(buf)
  BY LenProperties DEF B!TypeOK, B!BufferFraming
<1>2. buf' = SubSeq(buf, 1, metadataBytes)
  BY DEF PostReturns, ResetAfter, B!Reset
<1>3. Len(buf') = metadataBytes /\ \A i \in 1..metadataBytes : buf'[i] = buf[i]
  BY <1>1, <1>2
<1>4. \A i \in 1..metadataBytes : buf[i] = B!MetadataLine
  BY <1>1 DEF B!BufferFraming
<1>5. \A i \in 1..Len(buf') : buf'[i].kind # k
  BY <1>3, <1>4 DEF B!MetadataLine
<1>6. Once(k)'
  BY <1>5 DEF Once
<1>7. ToSet(buf') \subseteq ToSet(buf)
  BY <1>1, <1>2, <1>3 DEF ToSet
<1>8. received' \subseteq received \cup ToSet(snap)
  BY DEF PostReturns
<1>9. ToSet(snap) \subseteq ToSet(buf)
  <2>1. /\ Len(snap) \in 0..Len(buf)
        /\ \A i \in 1..Len(snap) : buf[i] = snap[i]
    BY DEF PostReturns, PostInv
  <2>2. DOMAIN snap = 1..Len(snap) /\ DOMAIN buf = 1..Len(buf)
    BY <1>1, LenProperties DEF SnapInv
  <2> QED
    BY <1>1, <2>1, <2>2 DEF ToSet
<1> QED
  BY <1>6, <1>7, <1>8, <1>9 DEF NoneAdded, Carried

-----------------------------------------------------------------------------
\* The steps, by what they do to the lines and to the log events on their way.

Sent(r) == agent[r] \in {"sent", "flushed"}

\* A step that moves none of them.
Aside ==
    /\ UNCHANGED << buf, invocations, received, AgentDataChannel,
                    LambdaDataChannel, logsChannel, held, posted >>
    /\ \A r \in ReqIDs : /\ agent'[r] = "none" <=> agent[r] = "none"
                         /\ Sent(r)' <=> Sent(r)

Moves ==
    \/ \E r \in ReqIDs : AgentSends(r) \/ AgentInit(r)
    \/ DeliverLog
    \/ \E p \in {0} \cup Events : Takes(p) \/ Handles(p) \/ ChecksSize(p)
    \/ \E e \in Events : LogsForward(e)
    \/ FlushForwardLog
    \/ \E s \in Senders : ReceiveAgentData(s) \/ ReceiveLambdaData(s)
    \/ \E s \in Senders, result \in PostResults : PostReturns(s, result)
    \/ ReceiveInvoke \/ FinalizeAll

LEMMA AsideOrMoves ==
    ASSUME HearInv, [Next]_vars PROVE Aside \/ Moves
<1> USE DEF Aside, Sent, batchVars, channelVars, serverVars, logVars, platformVars,
           logPostVars, agentVars
<1>1. CASE Quiet
  <2>1. CASE Invoke \/ FunctionEnds \/ Signal \/ ApiError \/ NextCancelled
    BY <2>1 DEF Invoke, FunctionEnds, Signal, ApiError, NextCancelled, NextFails
  <2>2. CASE DeliverLog
    BY <2>2 DEF Moves
  <2>3. CASE DeliveryTimesOut
    BY <2>3 DEF DeliveryTimesOut, LogHandlerControl
  <2>4. CASE \E r \in ReqIDs : AgentSends(r)
    BY <2>4 DEF Moves
  <2>5. ASSUME NEW r \in ReqIDs, AgentFlushes(r) PROVE Aside
    <3>1. /\ agent[r] = "sent"
          /\ \A q \in ReqIDs : agent'[q] = IF q = r THEN "flushed" ELSE agent[q]
      BY <2>5 DEF AgentFlushes, HearInv
    <3>2. UNCHANGED << buf, invocations, received, AgentDataChannel,
                       LambdaDataChannel, logsChannel, held, posted >>
      BY <2>5 DEF AgentFlushes
    <3> QED
      BY <3>1, <3>2
  <2>6. CASE ForwarderStarts \/ ForwarderEnds \/ \E s \in Senders : Ship(s)
    BY <2>6 DEF ForwarderStarts, ForwarderEnds, ForwarderControl, Ship
  <2>7. CASE \E e \in Events : LogsEnd(e)
    BY <2>7 DEF LogsEnd
  <2>8. CASE \E e \in Events : LogsTake(e)
    BY <2>8 DEF LogsTake, Moves
  <2>9. CASE \E e \in Events : LogsForward(e)
    BY <2>9 DEF Moves
  <2>10. CASE ReceiveShutdown \/ AgentDone \/ LogsDone \/ TimerExpires
    BY <2>10 DEF ReceiveShutdown, StartGoroutines, AgentDone, LogsDone,
                 TimerExpires, Return
  <2>11. CASE GraceOver \/ Exited
    BY <2>11 DEF GraceOver, Exited, vars
  <2>12. CASE FlushTakeLog
    BY <2>12 DEF FlushTakeLog, Moves
  <2>13. CASE Wait \/ FlushLogsDone
    BY <2>13 DEF Wait, NextRound, Goto, LocalStep, FlushLogsDone
  <2>15. CASE FlushCheckSize \/ \E e \in Events : LogsCheckSize(e)
    BY <2>15 DEF FlushCheckSize, LogsCheckSize, Moves
  <2>14. CASE FlushStarts \/ FlushRest \/ FlushEnds \/ FlushGivesUp
    BY <2>14 DEF FlushStarts, FlushRest, FlushEnds, FlushGivesUp, AfterFlush,
                 NextRound, Goto, LocalStep
  <2> QED
    BY <1>1, <2>1, <2>2, <2>3, <2>4, <2>5, <2>6, <2>7, <2>8, <2>9, <2>10, <2>11,
       <2>12, <2>13, <2>14, <2>15 DEF Quiet
<1>2. CASE Calls
  <2>1. CASE Mature
    BY <2>1 DEF Mature, B!Mature
  <2>2. CASE Calls /\ ~Mature
    BY <2>2 DEF Calls, Moves, ForwardAgentData, ForwardLambdaData, FlushAgentData,
                FlushLambdaData, Senders, LogsHandle, FlushHandleLog
  <2> QED
    BY <1>2, <2>1, <2>2
<1>3. CASE UNCHANGED vars
  BY <1>3 DEF vars
<1> QED
  BY <1>1, <1>2, <1>3, NextSplits

\* Requests are finished and events received in their order; a request is invoked,
\* and its event is received, while the event loop calls Next.
LEMMA ClockStep ==
    ASSUME InvokedInv, finished \in Nat, [Next]_vars
    PROVE  /\ finished' \in Nat /\ finished' >= finished
           /\ event' >= event
           /\ main # "next" => UNCHANGED << event, invoked >>
           /\ earlyReport' = earlyReport
<1> USE DEF InvokedInv, platformVars, logPostVars, loopVars, Shutdown
<1>1. CASE UNCHANGED << finished, event, invoked, earlyReport >>
  BY <1>1
<1>2. CASE Quiet
  <2>1. CASE Invoke \/ FunctionEnds \/ Signal \/ ApiError \/ NextCancelled
    BY <2>1 DEF Invoke, FunctionEnds, Signal, ApiError, NextCancelled, NextFails
  <2>2. CASE DeliverLog \/ DeliveryTimesOut
    BY <1>1, <2>2 DEF DeliverLog, DeliveryTimesOut, LogHandlerControl
  <2>3. CASE \E r \in ReqIDs : AgentSends(r) \/ AgentFlushes(r)
    BY <1>1, <2>3 DEF AgentSends, AgentFlushes
  <2>4. CASE ForwarderStarts \/ ForwarderEnds \/ \E s \in Senders : Ship(s)
    BY <1>1, <2>4 DEF ForwarderStarts, ForwarderEnds, ForwarderControl, Ship
  <2>5. CASE \E e \in Events : LogsEnd(e) \/ LogsTake(e) \/ LogsForward(e) \/ LogsCheckSize(e)
    BY <1>1, <2>5 DEF LogsEnd, LogsTake, Takes, LogsForward, LogsCheckSize, ChecksSize
  <2>6. CASE ReceiveShutdown
    BY <2>6 DEF ReceiveShutdown
  <2>7. CASE AgentDone \/ LogsDone \/ TimerExpires
    BY <1>1, <2>7 DEF AgentDone, LogsDone, TimerExpires, Return
  <2>8. CASE GraceOver \/ Exited
    BY <1>1, <2>8 DEF GraceOver, Exited, vars
  <2>9. CASE Wait \/ FlushTakeLog \/ FlushCheckSize \/ FlushLogsDone
    BY <1>1, <2>9 DEF Wait, NextRound, Goto, LocalStep, FlushTakeLog, Takes,
                      FlushCheckSize, ChecksSize, FlushLogsDone
  <2>10. CASE FlushStarts \/ FlushRest \/ FlushEnds \/ FlushGivesUp
    BY <1>1, <2>10 DEF FlushStarts, FlushRest, FlushEnds, FlushGivesUp, AfterFlush,
                       NextRound, Goto, LocalStep
  <2> QED
    BY <1>2, <2>1, <2>2, <2>3, <2>4, <2>5, <2>6, <2>7, <2>8, <2>9, <2>10 DEF Quiet
<1>3. CASE Calls
  <2>1. CASE \/ \E r \in ReqIDs : AgentInit(r)
             \/ \E s \in Senders, result \in PostResults : PostReturns(s, result)
    BY <1>1, <2>1 DEF AgentInit, PostReturns
  <2>2. CASE \/ ForwardAgentData \/ ForwardLambdaData
             \/ FlushAgentData \/ FlushLambdaData
    BY <1>1, <2>2 DEF ForwardAgentData, ForwardLambdaData, FlushAgentData,
                      FlushLambdaData, ReceiveAgentData, ReceiveLambdaData
  <2>3. CASE (\E e \in Events : LogsHandle(e)) \/ FlushHandleLog \/ FlushForwardLog
    BY <1>1, <2>3 DEF LogsHandle, FlushHandleLog, Handles, FlushForwardLog
  <2>4. CASE ReceiveInvoke
    BY <2>4 DEF ReceiveInvoke
  <2>5. CASE FinalizeAll \/ Mature
    BY <1>1, <2>5 DEF FinalizeAll, LocalStep, Mature
  <2> QED
    BY <1>3, <2>1, <2>2, <2>3, <2>4, <2>5 DEF Calls
<1>4. CASE UNCHANGED vars
  BY <1>1, <1>4 DEF vars
<1> QED
  BY <1>2, <1>3, <1>4, NextSplits

\* OnShutdown adds the proxies of invocations that need one, each once, and drops
\* those invocations.
LEMMA ShutdownLines ==
    ASSUME B!TypeOK, received' = received, B!OnShutdown,
           \A r \in B!Tracked : invocations[r].TransactionID \in {r, None},
           NEW k, k # "metadata"
    PROVE  /\ k # "proxy" => NoneAdded(k)
           /\ \E done \in SUBSET B!Tracked :
                 /\ invocations' = B!Restrict(invocations, B!Tracked \ done)
                 /\ \A line \in Carried' : line.kind = k =>
                       \/ line \in Carried
                       \/ \E r \in done : /\ B!NeedProxyTransaction(invocations[r])
                                         /\ line = B!ProxyTxn(r)
           /\ \/ \A r \in B!Tracked :
                    B!NeedProxyTransaction(invocations[r]) => B!ProxyTxn(r) \notin Carried
              => (Once(k) => Once(k)')
<1>1. buf \in Seq(B!Line)
  BY DEF B!TypeOK
<1>2. PICK done \in SUBSET B!Finalizable :
        /\ LET owed == {r \in done : B!NeedProxyTransaction(invocations[r])} IN
           \E order \in B!Bijection(1..B!Cardinality(owed), owed) :
              B!AddLines(buf, [i \in 1..B!Cardinality(owed) |->
                                B!ProxyTxn(invocations[order[i]].TransactionID)])
        /\ invocations' = B!Restrict(invocations, B!Tracked \ done)
  BY DEF B!OnShutdown
<1> DEFINE owed == {r \in done : B!NeedProxyTransaction(invocations[r])}
           n == B!Cardinality(owed)
<1>3. PICK order \in B!Bijection(1..n, owed) :
         B!AddLines(buf, [i \in 1..n |->
                            B!ProxyTxn(invocations[order[i]].TransactionID)])
  BY <1>2
<1>4. done \in SUBSET B!Tracked /\ owed \in SUBSET done /\ owed \in SUBSET ReqIDs
  BY DEF B!Finalizable, B!TypeOK
<1>5. n \in Nat
  <2>1. IsFiniteSet(owed)
    BY <1>4, RequestsAreFinite, FS_Subset
  <2>2. Cardinality(owed) \in Nat
    BY <2>1, FS_CardinalityType
  <2>3. B!Cardinality(owed) = Cardinality(owed)
    BY DEF B!Cardinality, Cardinality
  <2> QED
    BY <2>2, <2>3
<1>6. \A r \in owed : invocations[r].TransactionID = r
  BY <1>4 DEF B!NeedProxyTransaction
<1>7. \A r \in owed : r \in B!Tracked /\ B!NeedProxyTransaction(invocations[r])
  BY <1>4
<1> HIDE DEF owed, n
<1>8. /\ order \in [1..n -> owed]
      /\ \A i, j \in 1..n : order[i] = order[j] => i = j
  <2>1. order \in [1..n -> owed] /\ B!IsInjective(order)
    BY <1>3 DEF B!Bijection, B!Injection
  <2> QED
    BY <2>1 DEF B!IsInjective
<1> DEFINE lines == [i \in 1..n |-> B!ProxyTxn(invocations[order[i]].TransactionID)]
<1>9. \A i \in 1..n : order[i] \in owed /\ lines[i] = B!ProxyTxn(order[i])
  BY <1>6, <1>8
<1>10. lines \in Seq(B!Line)
  <2>1. \A i \in 1..n : lines[i] \in B!Line
    BY <1>4, <1>9 DEF B!ProxyTxn, B!Line, B!EventLine, B!EventKinds
  <2> QED
    BY <1>5, <2>1
<1>11. buf' = buf \o lines
  BY <1>3 DEF B!AddLines
<1>12. Len(lines) = n /\ DOMAIN lines = 1..n
  BY <1>5
<1> HIDE DEF lines
<1>13. \A line \in Carried' : line.kind = k => line \in Carried \cup ToSet(lines)
  BY <1>1, <1>10, <1>11, AddsLines
<1>14. (\A i \in 1..Len(lines) : lines[i].kind # k) => NoneAdded(k)
  BY <1>1, <1>10, <1>11, AddsLines
<1>15. (\A i \in 1..Len(lines) :
           lines[i].kind = k => /\ lines[i] \notin Carried
                                /\ \A j \in 1..i - 1 : lines[j] # lines[i])
       => (Once(k) => Once(k)')
  BY <1>1, <1>10, <1>11, AddsLines
<1>16. k # "proxy" => NoneAdded(k)
  BY <1>9, <1>12, <1>14 DEF B!ProxyTxn
<1>17. \A line \in ToSet(lines) :
          \E r \in done : B!NeedProxyTransaction(invocations[r]) /\ line = B!ProxyTxn(r)
  BY <1>4, <1>7, <1>9, <1>12 DEF ToSet
<1>18. ASSUME \A r \in B!Tracked : B!NeedProxyTransaction(invocations[r])
                 => B!ProxyTxn(r) \notin Carried
       PROVE  Once(k) => Once(k)'
  <2>1. ASSUME NEW i \in 1..n PROVE lines[i] \notin Carried
    BY <1>7, <1>9, <1>18
  <2>2. ASSUME NEW i \in 1..n, NEW j \in 1..i - 1 PROVE lines[j] # lines[i]
    <3>1. j \in 1..n /\ j # i
      BY <1>5
    <3>2. order[j] # order[i]
      BY <1>8, <3>1
    <3>3. lines[i] = B!ProxyTxn(order[i]) /\ lines[j] = B!ProxyTxn(order[j])
      BY <1>9, <3>1
    <3>4. \A x : B!ProxyTxn(x).id = x
      BY DEF B!ProxyTxn
    <3> QED
      BY <3>2, <3>3, <3>4
  <2> QED
    BY <1>12, <1>15, <2>1, <2>2
<1>19. \E d \in SUBSET B!Tracked :
          /\ invocations' = B!Restrict(invocations, B!Tracked \ d)
          /\ \A line \in Carried' : line.kind = k =>
                \/ line \in Carried
                \/ \E r \in d : /\ B!NeedProxyTransaction(invocations[r])
                               /\ line = B!ProxyTxn(r)
  BY <1>2, <1>4, <1>13, <1>17
<1> QED
  BY <1>16, <1>18, <1>19

-----------------------------------------------------------------------------
\* The proxies.

\* An invocation has no transaction but that of its request, which its agent has
\* registered; what a proxy has reported needs no other one.
ProxiesInv ==
    /\ Once("proxy")
    /\ \A r \in B!Tracked :
          /\ invocations[r].TransactionID \in {r, None}
          /\ invocations[r].TransactionID = r => agent[r] # "none"
    /\ \A r \in ReqIDs : B!ProxyTxn(r) \in Carried =>
          /\ agent[r] # "none"
          /\ r \in B!Tracked =>
                invocations[r].Finalized \/ invocations[r].TransactionID = None

LEMMA OwedIsNotCarried ==
    ASSUME ProxiesInv, B!TypeOK,
           NEW r \in B!Tracked, B!NeedProxyTransaction(invocations[r])
    PROVE  B!ProxyTxn(r) \notin Carried /\ invocations[r].TransactionID = r
BY DEF ProxiesInv, B!NeedProxyTransaction, B!TypeOK

\* The invocations that are filed keep what matters, or have no transaction.
KeepsRecords ==
    \A r \in B!Tracked' :
        \/ /\ r \in B!Tracked
           /\ invocations'[r].TransactionID = invocations[r].TransactionID
           /\ invocations[r].Finalized => invocations'[r].Finalized
        \/ invocations'[r].TransactionID = None

LEMMA RecordsStep ==
    ASSUME B!TypeOK, TypeInv, HearInv, [Next]_vars
    PROVE  KeepsRecords \/ \E r \in ReqIDs : AgentInit(r)
<1>1. ASSUME UNCHANGED invocations PROVE KeepsRecords
  BY <1>1 DEF KeepsRecords, B!Tracked
<1>2. ASSUME NEW r, invocations' = B!Restrict(invocations, B!Tracked \ r)
      PROVE  KeepsRecords
  BY <1>2 DEF KeepsRecords, B!Restrict, B!Tracked
<1>3. ASSUME NEW r, B!Lookup(r) \in B!Invocation, NEW inc \in B!Invocation,
             invocations' = B!Put(r, inc), inc.TransactionID = B!Lookup(r).TransactionID,
             B!Lookup(r).Finalized => inc.Finalized
      PROVE  KeepsRecords
  <2>1. /\ B!Tracked' = B!Tracked \cup {r}
        /\ \A q \in B!Tracked' : invocations'[q] = IF q = r THEN inc ELSE invocations[q]
    BY <1>3 DEF B!Put, B!Tracked
  <2> QED
    BY <1>3, <2>1 DEF KeepsRecords, B!Lookup, B!NewInvocation
<1>4. \A r : B!Lookup(r) \in B!Invocation
  BY DEF B!Lookup, B!TypeOK, B!Invocation, B!NewInvocation
<1> USE DEF batchVars, B!batchVars
<1>5. CASE Aside
  BY <1>1, <1>5 DEF Aside
<1>6. CASE \E r \in ReqIDs : AgentSends(r)
  BY <1>1, <1>6 DEF AgentSends
<1>7. CASE \/ DeliverLog
           \/ \E p \in {0} \cup Events : Takes(p) \/ ChecksSize(p)
           \/ \E e \in Events : LogsForward(e)
  BY <1>1, <1>7 DEF DeliverLog, LogHandlerControl, Takes, ChecksSize, LogsForward
<1>8. ASSUME NEW p \in {0} \cup Events, Handles(p) PROVE KeepsRecords
  <2>1. held[p] \in LogEvent /\ HandleLog(held[p])
    BY <1>8, HeldTypes DEF Handles, TypeInv
  <2>2. PICK r : r = held[p].id
    OBVIOUS
  <2>3. CASE r \in B!Tracked
             /\ invocations' = B!Put(r, [invocations[r] EXCEPT !.Finalized = TRUE])
    <3>1. B!Lookup(r) = invocations[r]
      BY <2>3 DEF B!Lookup
    <3>2. LET inc == [invocations[r] EXCEPT !.Finalized = TRUE] IN
             inc \in B!Invocation /\ inc.TransactionID = invocations[r].TransactionID
             /\ inc.Finalized
      BY <1>4, <3>1 DEF B!Invocation
    <3> QED
      BY <1>3, <1>4, <2>3, <3>1, <3>2
  <2>4. \/ UNCHANGED invocations \/ invocations' = B!Restrict(invocations, B!Tracked \ {r})
        \/ /\ r \in B!Tracked
           /\ invocations' = B!Put(r, [invocations[r] EXCEPT !.Finalized = TRUE])
    BY <2>1, <2>2 DEF HandleLog, LogEvent, LogTypes, B!OnPlatformStart,
                      B!OnPlatformReport, B!OnLambdaLogRuntimeDone
  <2> QED
    BY <1>1, <1>2, <2>3, <2>4
<1>9. ASSUME NEW s \in Senders, ReceiveAgentData(s) PROVE KeepsRecords
  <2>1. PICK events : B!AddAgentData(events)
    BY <1>9 DEF ReceiveAgentData
  <2>2. PICK c : c = currentlyExecutingRequestID
    OBVIOUS
  <2>3. ASSUME c \in B!Tracked, NEW seen \in BOOLEAN,
               invocations' = B!Put(c, [invocations[c] EXCEPT !.TransactionObserved = seen])
        PROVE  KeepsRecords
    <3>1. B!Lookup(c) = invocations[c]
      BY <2>3 DEF B!Lookup
    <3>2. LET inc == [invocations[c] EXCEPT !.TransactionObserved = seen] IN
             inc \in B!Invocation /\ inc.TransactionID = invocations[c].TransactionID
             /\ inc.Finalized = invocations[c].Finalized
      BY <1>4, <3>1 DEF B!Invocation
    <3> QED
      BY <1>3, <1>4, <2>3, <3>1, <3>2
  <2>4. CASE c \in B!Tracked
    <3>1. invocations[c].TransactionObserved \in BOOLEAN
      BY <2>4 DEF B!TypeOK, B!Invocation
    <3> QED
      BY <1>1, <2>1, <2>2, <2>3, <2>4, <3>1 DEF B!AddAgentData
  <2> QED
    BY <1>1, <2>1, <2>2, <2>4 DEF B!AddAgentData
<1>10. CASE FlushForwardLog \/ \E s \in Senders : ReceiveLambdaData(s)
  BY <1>1, <1>10 DEF FlushForwardLog, ReceiveLambdaData, B!AddLambdaData
<1>11. CASE \E s \in Senders, result \in PostResults : PostReturns(s, result)
  BY <1>1, <1>11 DEF PostReturns, ResetAfter, B!Reset
<1>12. CASE ReceiveInvoke
  <2>1. invocations' = B!Put(invoked, [B!Lookup(invoked) EXCEPT !.RequestID = invoked])
    BY <1>12 DEF ReceiveInvoke, B!RegisterInvocation
  <2>2. invoked \in ReqIDs
    BY <1>12, ExtensionAssumption DEF ReceiveInvoke, TypeInv, InvokedInv, Shutdown, ReqIDs
  <2>3. LET inc == [B!Lookup(invoked) EXCEPT !.RequestID = invoked] IN
           /\ inc \in B!Invocation
           /\ inc.TransactionID = B!Lookup(invoked).TransactionID
           /\ inc.Finalized = B!Lookup(invoked).Finalized
    BY <1>4, <2>2 DEF B!Invocation
  <2> QED
    BY <1>3, <1>4, <2>1, <2>3
<1>13. CASE FinalizeAll
  <2>1. \E done : invocations' = B!Restrict(invocations, B!Tracked \ done)
    BY <1>13 DEF FinalizeAll, B!OnShutdown
  <2> QED
    BY <1>2, <2>1
<1> QED
  BY <1>5, <1>6, <1>7, <1>8, <1>9, <1>10, <1>11, <1>12, <1>13, AsideOrMoves
     DEF Moves

LEMMA ProxiesFrame ==
    ASSUME ProxiesInv, NoneAdded("proxy"), KeepsRecords, B!TypeOK, B!TypeOK',
           \A r \in ReqIDs : agent[r] # "none" => agent'[r] # "none"
    PROVE  ProxiesInv'
<1>1. \A r \in ReqIDs : B!ProxyTxn(r) \in Carried' => B!ProxyTxn(r) \in Carried
  BY DEF NoneAdded, B!ProxyTxn
<1>2. B!Tracked' \subseteq ReqIDs
  BY DEF B!TypeOK
<1>3. Once("proxy")'
  BY DEF ProxiesInv, NoneAdded
<1>4. ASSUME NEW r \in B!Tracked'
      PROVE  /\ invocations'[r].TransactionID \in {r, None}
             /\ invocations'[r].TransactionID = r => agent'[r] # "none"
  BY <1>2, <1>4 DEF ProxiesInv, KeepsRecords, None, ReqIDs
<1>5. ASSUME NEW r \in ReqIDs, B!ProxyTxn(r)' \in Carried'
      PROVE  /\ agent'[r] # "none"
             /\ r \in B!Tracked' =>
                   invocations'[r].Finalized \/ invocations'[r].TransactionID = None
  <2>1. B!ProxyTxn(r)' = B!ProxyTxn(r)
    BY DEF B!ProxyTxn
  <2>2. B!ProxyTxn(r) \in Carried
    BY <1>1, <1>5, <2>1
  <2> QED
    BY <2>2 DEF ProxiesInv, KeepsRecords
<1> QED
  BY <1>3, <1>4, <1>5 DEF ProxiesInv

LEMMA ProxiesStep ==
    ASSUME B!TypeOK, B!TypeOK', B!BufferFraming, TypeInv, HearInv, PostInv, SnapInv,
           ProxiesInv, [Next]_vars
    PROVE  ProxiesInv'
<1> DEFINE Registered == \A r \in ReqIDs : agent[r] # "none" => agent'[r] # "none"
<1>1. UNCHANGED invocations \/ UNCHANGED agent => KeepsRecords
  <2>1. UNCHANGED agent => \A r \in ReqIDs : ~AgentInit(r)
    BY DEF AgentInit, HearInv
  <2> QED
    BY <2>1, RecordsStep DEF KeepsRecords, B!Tracked
<1>2. UNCHANGED agent => Registered
  OBVIOUS
<1> USE DEF batchVars, serverVars, logVars, agentVars
<1>3. CASE Aside
  BY <1>1, <1>3, SameLines, ProxiesFrame DEF Aside
<1>4. ASSUME NEW r \in ReqIDs, AgentSends(r) PROVE ProxiesInv'
  <2>1. Registered
    BY <1>4 DEF AgentSends, HearInv
  <2>2. UNCHANGED << buf, invocations, received >>
    BY <1>4 DEF AgentSends
  <2> QED
    BY <1>1, <2>1, <2>2, SameLines, ProxiesFrame
<1>5. ASSUME NEW r \in ReqIDs, AgentInit(r) PROVE ProxiesInv'
  <2>1. PICK w \in BOOLEAN : B!OnAgentInit(r, r, w)
    BY <1>5 DEF AgentInit
  <2>2. NoneAdded("proxy")
    BY <1>5, <2>1, AgentInitLines DEF AgentInit
  <2>3. /\ agent[r] = "none"
        /\ \A q \in ReqIDs : agent'[q] = IF q = r THEN "registered" ELSE agent[q]
    BY <1>5 DEF AgentInit, HearInv
  <2>4. /\ invocations' = B!Put(r, [B!Lookup(r) EXCEPT !.TransactionID = r])
        /\ B!Lookup(r) \in B!Invocation
    BY <2>1 DEF B!OnAgentInit, B!Lookup, B!TypeOK, B!Invocation, B!NewInvocation
  <2>5. /\ B!Tracked' = B!Tracked \cup {r} /\ B!Tracked \subseteq ReqIDs
        /\ invocations'[r].TransactionID = r
        /\ \A q \in B!Tracked : q # r => invocations'[q] = invocations[q]
    BY <2>4 DEF B!Put, B!Tracked, B!Invocation, B!TypeOK
  <2>6. Once("proxy")'
    BY <2>2 DEF ProxiesInv, NoneAdded
  <2>7. ASSUME NEW q \in B!Tracked'
        PROVE  /\ invocations'[q].TransactionID \in {q, None}
               /\ invocations'[q].TransactionID = q => agent'[q] # "none"
    BY <2>3, <2>5 DEF ProxiesInv
  <2>8. ASSUME NEW q \in ReqIDs, B!ProxyTxn(q)' \in Carried'
        PROVE  /\ agent'[q] # "none"
               /\ q \in B!Tracked' =>
                     invocations'[q].Finalized \/ invocations'[q].TransactionID = None
    <3>1. B!ProxyTxn(q) \in Carried
      BY <2>2, <2>8 DEF NoneAdded, B!ProxyTxn
    <3>2. q # r
      BY <2>3, <3>1 DEF ProxiesInv
    <3> QED
      BY <2>3, <2>5, <3>1, <3>2 DEF ProxiesInv
  <2> QED
    BY <2>6, <2>7, <2>8 DEF ProxiesInv
<1>6. CASE DeliverLog \/ \E e \in Events : LogsForward(e)
  <2>1. UNCHANGED << buf, invocations, received, agent >>
    BY <1>6 DEF DeliverLog, LogHandlerControl, LogsForward
  <2> QED
    BY <1>1, <2>1, SameLines, ProxiesFrame
<1>7. CASE \E p \in {0} \cup Events : Takes(p) \/ ChecksSize(p)
  BY <1>1, <1>7, SameLines, ProxiesFrame DEF Takes, ChecksSize
<1>8. ASSUME NEW p \in {0} \cup Events, Handles(p) PROVE ProxiesInv'
  <2>1. held[p] \in LogEvent /\ HandleLog(held[p])
    BY <1>8, HeldTypes DEF Handles, TypeInv
  <2>2. UNCHANGED << agent, received >>
    BY <1>8 DEF Handles
  <2> DEFINE ev == held[p]
             r == ev.id
             new == B!ProxyTxn(invocations[r].TransactionID)
  <2> HIDE DEF ev
  <2>3. KeepsRecords
    BY <1>1, <2>2
  <2>4. CASE NoneAdded("proxy")
    BY <1>2, <2>2, <2>3, <2>4, ProxiesFrame
  <2>5. CASE ~NoneAdded("proxy")
    <3>1. /\ r \in B!Tracked /\ B!NeedProxyTransaction(invocations[r])
          /\ invocations' = B!Put(r, [invocations[r] EXCEPT !.Finalized = TRUE])
          /\ \A line \in Carried' : line.kind = "proxy" => line \in Carried \cup {new}
          /\ new \notin Carried => (Once("proxy") => Once("proxy")')
      BY <2>1, <2>2, <2>5, HandleLogLines DEF ev
    <3>2. new = B!ProxyTxn(r) /\ B!ProxyTxn(r) \notin Carried
          /\ invocations[r].TransactionID = r
      BY <3>1, OwedIsNotCarried
    <3>3. r \in ReqIDs /\ invocations[r] \in B!Invocation
      BY <3>1 DEF B!TypeOK
    <3>4. /\ B!Tracked' = B!Tracked
          /\ invocations'[r].Finalized
      <4>1. [invocations[r] EXCEPT !.Finalized = TRUE].Finalized
        BY <3>3 DEF B!Invocation
      <4>2. B!Tracked' = B!Tracked
            /\ invocations'[r] = [invocations[r] EXCEPT !.Finalized = TRUE]
        BY <3>1 DEF B!Put, B!Tracked
      <4> QED
        BY <4>1, <4>2
    <3>5. Once("proxy")'
      BY <3>1, <3>2 DEF ProxiesInv
    <3>6. ASSUME NEW q \in B!Tracked'
          PROVE  /\ invocations'[q].TransactionID \in {q, None}
                 /\ invocations'[q].TransactionID = q => agent'[q] # "none"
      <4>1. q # None
        BY DEF B!TypeOK, None, ReqIDs
      <4>2. invocations'[q].TransactionID # None =>
               /\ q \in B!Tracked
               /\ invocations'[q].TransactionID = invocations[q].TransactionID
        BY <2>3 DEF KeepsRecords
      <4> QED
        BY <2>2, <4>1, <4>2 DEF ProxiesInv
    <3>7. ASSUME NEW q \in ReqIDs, B!ProxyTxn(q)' \in Carried'
          PROVE  /\ agent'[q] # "none"
                 /\ q \in B!Tracked' =>
                       invocations'[q].Finalized \/ invocations'[q].TransactionID = None
      <4>1. B!ProxyTxn(q) \in Carried \/ B!ProxyTxn(q) = B!ProxyTxn(r)
        BY <3>1, <3>2, <3>7 DEF B!ProxyTxn
      <4>2. CASE B!ProxyTxn(q) \in Carried
        BY <2>2, <2>3, <4>2 DEF KeepsRecords, ProxiesInv
      <4>3. CASE q = r
        BY <2>2, <3>1, <3>2, <3>3, <3>4, <4>3 DEF ProxiesInv
      <4> QED
        BY <4>1, <4>2, <4>3 DEF B!ProxyTxn
    <3> QED
      BY <3>5, <3>6, <3>7 DEF ProxiesInv
  <2> QED
    BY <2>4, <2>5
<1>9. ASSUME NEW s \in Senders, ReceiveAgentData(s) PROVE ProxiesInv'
  <2>1. Head(AgentDataChannel) \in {AgentBody(r) : r \in ReqIDs}
    BY <1>9, HeadTailProperties DEF ReceiveAgentData, TypeInv, ChannelInv
  <2>2. PICK r \in ReqIDs : B!AddAgentData(AgentBody(r))
    BY <1>9, <2>1 DEF ReceiveAgentData
  <2>3. UNCHANGED << agent, received >>
    BY <1>9 DEF ReceiveAgentData
  <2>4. NoneAdded("proxy")
    BY <2>2, <2>3, AgentDataLines
  <2> QED
    BY <1>1, <1>2, <2>3, <2>4, ProxiesFrame
<1>10. ASSUME NEW line \in B!LambdaEvent, B!AddLambdaData(line),
              UNCHANGED << agent, received >>
       PROVE  ProxiesInv'
  <2>1. NoneAdded("proxy")
    <3>1. line.kind # "proxy" /\ received' = received
      BY <1>10 DEF B!LambdaEvent
    <3> QED
      BY <1>10, <3>1, LambdaDataLines
  <2>2. UNCHANGED invocations
    BY <1>10 DEF B!AddLambdaData, B!batchVars
  <2> QED
    BY <1>1, <1>2, <1>10, <2>1, <2>2, ProxiesFrame
<1>11. ASSUME NEW s \in Senders, ReceiveLambdaData(s) PROVE ProxiesInv'
  <2>1. Head(LambdaDataChannel) \in B!LambdaEvent
    BY <1>11, HeadTailProperties DEF ReceiveLambdaData, TypeInv, ChannelInv
  <2> QED
    BY <1>10, <1>11, <2>1 DEF ReceiveLambdaData
<1>12. CASE FlushForwardLog
  BY <1>10, <1>12, HeldTypes DEF FlushForwardLog, TypeInv
<1>13. ASSUME NEW s \in Senders, NEW result \in PostResults, PostReturns(s, result)
       PROVE  ProxiesInv'
  <2>1. NoneAdded("proxy")
    BY <1>13, PostLines
  <2>2. UNCHANGED << agent, invocations >>
    BY <1>13 DEF PostReturns, ResetAfter, B!Reset
  <2> QED
    BY <1>1, <1>2, <2>1, <2>2, ProxiesFrame
<1>14. CASE ReceiveInvoke
  <2>1. UNCHANGED << buf, received, agent >> /\ B!RegisterInvocation(invoked)
    BY <1>14 DEF ReceiveInvoke, B!RegisterInvocation, B!bufferVars
  <2> QED
    BY <1>1, <1>2, <2>1, SameLines, ProxiesFrame
<1>15. CASE FinalizeAll
  <2>1. B!OnShutdown /\ UNCHANGED << received, agent >>
    BY <1>15 DEF FinalizeAll, LocalStep
  <2>2. PICK done \in SUBSET B!Tracked :
          /\ invocations' = B!Restrict(invocations, B!Tracked \ done)
          /\ \A line \in Carried' : line.kind = "proxy" =>
                \/ line \in Carried
                \/ \E r \in done : /\ B!NeedProxyTransaction(invocations[r])
                                  /\ line = B!ProxyTxn(r)
    BY <2>1, ShutdownLines DEF ProxiesInv
  <2>3. Once("proxy")'
    BY <2>1, OwedIsNotCarried, ShutdownLines DEF ProxiesInv
  <2>4. /\ B!Tracked' = B!Tracked \ done
        /\ \A q \in B!Tracked' : invocations'[q] = invocations[q]
    BY <2>2 DEF B!Restrict, B!Tracked
  <2>5. ASSUME NEW q \in ReqIDs, B!ProxyTxn(q)' \in Carried'
        PROVE  /\ agent'[q] # "none"
               /\ q \in B!Tracked' =>
                     invocations'[q].Finalized \/ invocations'[q].TransactionID = None
    <3>1. \/ B!ProxyTxn(q) \in Carried
          \/ \E r \in done : /\ B!NeedProxyTransaction(invocations[r])
                            /\ B!ProxyTxn(q) = B!ProxyTxn(r)
      BY <2>2, <2>5 DEF B!ProxyTxn
    <3>2. CASE B!ProxyTxn(q) \in Carried
      BY <2>1, <2>4, <3>2 DEF ProxiesInv
    <3>3. CASE q \in done /\ B!NeedProxyTransaction(invocations[q])
      <4>1. q \notin B!Tracked'
        BY <2>4, <3>3
      <4>2. invocations[q].TransactionID = q
        BY <3>3, OwedIsNotCarried
      <4> QED
        BY <2>1, <3>3, <4>1, <4>2 DEF ProxiesInv
    <3> QED
      BY <3>1, <3>2, <3>3 DEF B!ProxyTxn
  <2>6. ASSUME NEW q \in B!Tracked'
        PROVE  /\ invocations'[q].TransactionID \in {q, None}
               /\ invocations'[q].TransactionID = q => agent'[q] # "none"
    BY <2>1, <2>4 DEF ProxiesInv
  <2> QED
    BY <2>3, <2>5, <2>6 DEF ProxiesInv
<1> QED
  BY <1>3, <1>4, <1>5, <1>6, <1>7, <1>8, <1>9, <1>11, <1>12, <1>13, <1>14, <1>15,
     AsideOrMoves DEF Moves

LEMMA ProxiesInvariance == Spec => []ProxiesInv
<1>1. Init => ProxiesInv
  BY DEF Init, B!Init, ProxiesInv, Once, Carried, ToSet, B!Tracked
<1>2. /\ B!TypeOK /\ B!TypeOK' /\ B!BufferFraming /\ TypeInv /\ HearInv /\ PostInv
      /\ SnapInv /\ ProxiesInv /\ [Next]_vars
      => ProxiesInv'
  BY ProxiesStep
<1> QED
  BY <1>1, <1>2, BatchInvariants, TypeInvariance, HearInvariance, PostInvariance,
     SnapInvariance, PTL DEF Spec

-----------------------------------------------------------------------------
\* The transactions.

\* A transaction that is in the channel or has been carried was sent, and it is
\* not in both.
TxnsInv ==
    /\ Once("transaction")
    /\ \A r \in ReqIDs : B!AgentTxn(r) \in Carried => Sent(r)
    /\ \A i \in 1..Len(AgentDataChannel), r \in ReqIDs :
          AgentDataChannel[i] = AgentBody(r) =>
             /\ Sent(r) /\ B!AgentTxn(r) \notin Carried
             /\ \A j \in 1..i - 1 : AgentDataChannel[j] # AgentBody(r)

LEMMA OwnLines ==
    /\ \A r, q : AgentBody(r) = AgentBody(q) => r = q
    /\ \A r, q : B!AgentTxn(r) = B!AgentTxn(q) => r = q
    /\ \A r, q : B!ProxyTxn(r) = B!ProxyTxn(q) => r = q
    /\ \A r : B!AgentTxn(r).kind = "transaction"
<1>1. \A r : AgentBody(r)[1].id = r
  BY DEF AgentBody
<1>2. \A r : B!AgentTxn(r).id = r /\ B!ProxyTxn(r).id = r
  BY DEF B!AgentTxn, B!ProxyTxn
<1> QED
  BY <1>1, <1>2 DEF B!AgentTxn

LEMMA TxnsFrame ==
    ASSUME TxnsInv, NoneAdded("transaction"), UNCHANGED AgentDataChannel,
           \A r \in ReqIDs : Sent(r)' <=> Sent(r)
    PROVE  TxnsInv'
<1>1. \A r : B!AgentTxn(r) \in Carried' => B!AgentTxn(r) \in Carried
  BY DEF NoneAdded, B!AgentTxn
<1>2. \A r : B!AgentTxn(r)' = B!AgentTxn(r) /\ AgentBody(r)' = AgentBody(r)
  BY DEF B!AgentTxn, AgentBody
<1> QED
  BY <1>1, <1>2 DEF TxnsInv, NoneAdded

LEMMA TxnsStep ==
    ASSUME B!TypeOK, B!BufferFraming, TypeInv, HearInv, PostInv, SnapInv,
           ProxiesInv, TxnsInv, [Next]_vars
    PROVE  TxnsInv'
<1> DEFINE n == Len(AgentDataChannel)
<1>1. n \in Nat
  BY LenProperties DEF TypeInv, ChannelInv
<1>2. UNCHANGED agent => \A r \in ReqIDs : Sent(r)' <=> Sent(r)
  BY DEF Sent
<1> USE DEF batchVars, channelVars, serverVars, logVars, agentVars
<1>3. CASE Aside
  BY <1>3, SameLines, TxnsFrame DEF Aside
<1>4. ASSUME NEW r \in ReqIDs, AgentSends(r) PROVE TxnsInv'
  <2>1. /\ ~Sent(r) /\ Sent(r)'
        /\ \A q \in ReqIDs : q # r => (Sent(q)' <=> Sent(q))
    BY <1>4 DEF AgentSends, Sent, HearInv
  <2>2. Carried' = Carried /\ Once("transaction")'
    BY <1>4 DEF AgentSends, Carried, TxnsInv, Once
  <2>3. \A q : B!AgentTxn(q)' = B!AgentTxn(q) /\ AgentBody(q)' = AgentBody(q)
    BY DEF B!AgentTxn, AgentBody
  <2>4. \/ AgentDataChannel' = AgentDataChannel
        \/ /\ Len(AgentDataChannel') = n + 1
           /\ \A i \in 1..n : AgentDataChannel'[i] = AgentDataChannel[i]
           /\ AgentDataChannel'[n + 1] = AgentBody(r)
    <3>1. AgentBody(r) \in {AgentBody(q) : q \in ReqIDs}
      OBVIOUS
    <3> QED
      BY <1>4, <3>1, AppendProperties DEF AgentSends, TypeInv, ChannelInv
  <2>5. \A q \in ReqIDs : B!AgentTxn(q) \in Carried' => Sent(q)'
    BY <2>1, <2>2 DEF TxnsInv
  <2>6. ASSUME NEW i \in 1..Len(AgentDataChannel'), NEW q \in ReqIDs,
               AgentDataChannel'[i] = AgentBody(q)
        PROVE  /\ Sent(q)' /\ B!AgentTxn(q) \notin Carried'
               /\ \A j \in 1..i - 1 : AgentDataChannel'[j] # AgentBody(q)
    <3> HIDE DEF n
    <3>1. CASE i \in 1..n
      <4>1. AgentDataChannel[i] = AgentBody(q)
        BY <2>4, <2>6, <3>1
      <4>2. \A j \in 1..i - 1 : AgentDataChannel'[j] = AgentDataChannel[j]
        BY <1>1, <2>4, <3>1
      <4> QED
        BY <2>1, <2>2, <3>1, <4>1, <4>2 DEF TxnsInv, n
    <3>2. CASE i \notin 1..n
      <4>1. Len(AgentDataChannel') = n + 1 /\ i = n + 1
        BY <1>1, <2>4, <3>2 DEF n
      <4>2. q = r
        BY <2>4, <2>6, <3>2, <4>1, OwnLines DEF n
      <4>3. ASSUME NEW j \in 1..n PROVE AgentDataChannel'[j] # AgentBody(r)
        <5>1. AgentDataChannel[j] # AgentBody(r)
          BY <2>1 DEF TxnsInv, n
        <5> QED
          BY <1>1, <2>4, <3>2, <5>1 DEF n
      <4>4. B!AgentTxn(r) \notin Carried
        BY <2>1 DEF TxnsInv
      <4>5. \A j \in 1..i - 1 : j \in 1..n
        BY <1>1, <4>1
      <4> QED
        BY <2>1, <2>2, <4>2, <4>3, <4>4, <4>5
    <3> QED
      BY <3>1, <3>2
  <2> QED
    BY <2>2, <2>3, <2>5, <2>6 DEF TxnsInv
<1>5. ASSUME NEW r \in ReqIDs, AgentInit(r) PROVE TxnsInv'
  <2>1. PICK w \in BOOLEAN : B!OnAgentInit(r, r, w)
    BY <1>5 DEF AgentInit
  <2>2. NoneAdded("transaction")
    BY <1>5, <2>1, AgentInitLines DEF AgentInit
  <2>3. \A q \in ReqIDs : Sent(q)' <=> Sent(q)
    BY <1>5 DEF AgentInit, Sent, HearInv
  <2> QED
    BY <1>5, <2>2, <2>3, TxnsFrame DEF AgentInit
<1>6. CASE DeliverLog \/ \E e \in Events : LogsForward(e)
  <2>1. UNCHANGED << buf, received, agent, AgentDataChannel >>
    BY <1>6 DEF DeliverLog, LogHandlerControl, LogsForward
  <2> QED
    BY <1>2, <2>1, SameLines, TxnsFrame
<1>7. CASE \E p \in {0} \cup Events : Takes(p) \/ ChecksSize(p)
  BY <1>2, <1>7, SameLines, TxnsFrame DEF Takes, ChecksSize
<1>8. ASSUME NEW p \in {0} \cup Events, Handles(p) PROVE TxnsInv'
  <2>1. held[p] \in LogEvent /\ HandleLog(held[p])
    BY <1>8, HeldTypes DEF Handles, TypeInv
  <2>2. UNCHANGED << agent, received, AgentDataChannel >>
    BY <1>8 DEF Handles
  <2>3. received' = received
    BY <2>2
  <2>4. NoneAdded("transaction")
    BY <2>1, <2>3, HandleLogAddsProxies
  <2> QED
    BY <1>2, <2>2, <2>4, TxnsFrame
<1>9. ASSUME NEW s \in Senders, ReceiveAgentData(s) PROVE TxnsInv'
  <2>1. /\ Head(AgentDataChannel) \in {AgentBody(r) : r \in ReqIDs}
        /\ Head(AgentDataChannel) = AgentDataChannel[1] /\ n > 0
        /\ Len(AgentDataChannel') = n - 1
        /\ \A i \in 1..n - 1 : AgentDataChannel'[i] = AgentDataChannel[i + 1]
    BY <1>9, HeadTailProperties DEF ReceiveAgentData, TypeInv, ChannelInv
  <2>2. PICK r \in ReqIDs : AgentDataChannel[1] = AgentBody(r)
    BY <2>1
  <2>3. B!AddAgentData(AgentBody(r)) /\ UNCHANGED << agent, received >>
    BY <1>9, <2>1, <2>2 DEF ReceiveAgentData
  <2>4. \A line \in Carried' :
            line.kind = "transaction" => line \in Carried \cup {B!AgentTxn(r)}
    BY <2>3, AgentDataLines
  <2>5. B!AgentTxn(r) \notin Carried => (Once("transaction") => Once("transaction")')
    BY <2>3, AgentDataLines
  <2>6. 1 \in 1..n
    BY <1>1, <2>1
  <2>7. Sent(r) /\ B!AgentTxn(r) \notin Carried
    BY <2>2, <2>6 DEF TxnsInv
  <2>8. Once("transaction")'
    BY <2>5, <2>7 DEF TxnsInv
  <2>9. \A q : B!AgentTxn(q)' = B!AgentTxn(q) /\ AgentBody(q)' = AgentBody(q)
    BY DEF B!AgentTxn, AgentBody
  <2>10. \A q \in ReqIDs :
            B!AgentTxn(q) \in Carried' => B!AgentTxn(q) \in Carried \/ q = r
    BY <2>4, OwnLines
  <2>11. \A q \in ReqIDs : B!AgentTxn(q) \in Carried' => Sent(q)'
    BY <1>2, <2>3, <2>7, <2>10 DEF TxnsInv
  <2>12. ASSUME NEW i \in 1..n - 1, NEW q \in ReqIDs,
                AgentDataChannel'[i] = AgentBody(q)
         PROVE  /\ Sent(q)' /\ B!AgentTxn(q) \notin Carried'
                /\ \A j \in 1..i - 1 : AgentDataChannel'[j] # AgentBody(q)
    <3> HIDE DEF n
    <3>1. i + 1 \in 1..n /\ AgentDataChannel[i + 1] = AgentBody(q)
      BY <1>1, <2>1, <2>12
    <3>2. /\ Sent(q) /\ B!AgentTxn(q) \notin Carried
          /\ \A j \in 1..(i + 1) - 1 : AgentDataChannel[j] # AgentBody(q)
      BY <3>1 DEF TxnsInv, n
    <3>3. q # r
      <4>1. 1 \in 1..(i + 1) - 1
        BY <1>1
      <4> QED
        BY <2>2, <3>2, <4>1
    <3>4. ASSUME NEW j \in 1..i - 1 PROVE AgentDataChannel'[j] # AgentBody(q)
      <4>1. j \in 1..n - 1 /\ j + 1 \in 1..(i + 1) - 1
        BY <1>1
      <4> QED
        BY <2>1, <3>2, <4>1 DEF n
    <3> QED
      BY <1>2, <2>3, <2>10, <3>2, <3>3, <3>4
  <2> QED
    BY <2>1, <2>8, <2>9, <2>11, <2>12 DEF TxnsInv
<1>10. ASSUME NEW line \in B!LambdaEvent, B!AddLambdaData(line),
              UNCHANGED << agent, received, AgentDataChannel >>
       PROVE  TxnsInv'
  <2>1. line.kind # "transaction" /\ received' = received
    BY <1>10 DEF B!LambdaEvent
  <2>2. NoneAdded("transaction")
    BY <1>10, <2>1, LambdaDataLines
  <2> QED
    BY <1>2, <1>10, <2>2, TxnsFrame
<1>11. ASSUME NEW s \in Senders, ReceiveLambdaData(s) PROVE TxnsInv'
  <2>1. Head(LambdaDataChannel) \in B!LambdaEvent
    BY <1>11, HeadTailProperties DEF ReceiveLambdaData, TypeInv, ChannelInv
  <2> QED
    BY <1>10, <1>11, <2>1 DEF ReceiveLambdaData
<1>12. CASE FlushForwardLog
  BY <1>10, <1>12, HeldTypes DEF FlushForwardLog, TypeInv
<1>13. ASSUME NEW s \in Senders, NEW result \in PostResults, PostReturns(s, result)
       PROVE  TxnsInv'
  <2>1. NoneAdded("transaction")
    BY <1>13, PostLines
  <2> QED
    BY <1>2, <1>13, <2>1, TxnsFrame DEF PostReturns
<1>14. CASE ReceiveInvoke
  <2>1. UNCHANGED << buf, received, agent, AgentDataChannel >>
    BY <1>14 DEF ReceiveInvoke, B!RegisterInvocation, B!bufferVars
  <2> QED
    BY <1>2, <2>1, SameLines, TxnsFrame
<1>15. CASE FinalizeAll
  <2>1. B!OnShutdown /\ UNCHANGED << received, agent, AgentDataChannel >>
    BY <1>15 DEF FinalizeAll, LocalStep
  <2>2. NoneAdded("transaction")
    BY <2>1, ShutdownLines DEF ProxiesInv
  <2> QED
    BY <1>2, <2>1, <2>2, TxnsFrame
<1> QED
  BY <1>3, <1>4, <1>5, <1>6, <1>7, <1>8, <1>9, <1>11, <1>12, <1>13, <1>14, <1>15,
     AsideOrMoves DEF Moves

LEMMA TxnsInvariance == Spec => []TxnsInv
<1>1. Init => TxnsInv
  BY DEF Init, B!Init, TxnsInv, Once, Carried, ToSet
<1>2. /\ B!TypeOK /\ B!BufferFraming /\ TypeInv /\ HearInv /\ PostInv /\ SnapInv
      /\ ProxiesInv /\ TxnsInv /\ [Next]_vars
      => TxnsInv'
  BY TxnsStep
<1> QED
  BY <1>1, <1>2, BatchInvariants, TypeInvariance, HearInvariance, PostInvariance,
     SnapInvariance, ProxiesInvariance, PTL DEF Spec

-----------------------------------------------------------------------------
\* The metrics.

\* An invocation is filed by the registration of its agent or when it is received.
LEMMA TrackedStep ==
    ASSUME B!TypeOK, TypeInv, HearInv, [Next]_vars
    PROVE  \/ B!Tracked' \subseteq B!Tracked
           \/ /\ Registrations # {} /\ finished < invoked
              /\ B!Tracked' \subseteq B!Tracked \cup {invoked}
           \/ /\ event < invoked /\ event' = invoked
              /\ B!Tracked' \subseteq B!Tracked \cup {invoked}
<1>1. ASSUME UNCHANGED invocations PROVE B!Tracked' \subseteq B!Tracked
  BY <1>1 DEF B!Tracked
<1>2. ASSUME NEW r, NEW inc, invocations' = B!Put(r, inc)
      PROVE  B!Tracked' = B!Tracked \cup {r}
  BY <1>2 DEF B!Put, B!Tracked
<1>3. ASSUME NEW S, invocations' = B!Restrict(invocations, B!Tracked \ S)
      PROVE  B!Tracked' \subseteq B!Tracked
  BY <1>3 DEF B!Restrict, B!Tracked
<1> USE DEF batchVars
<1>4. CASE Aside
  BY <1>1, <1>4 DEF Aside
<1>5. CASE \E r \in ReqIDs : AgentSends(r)
  BY <1>1, <1>5 DEF AgentSends
<1>6. ASSUME NEW r \in ReqIDs, AgentInit(r)
      PROVE  /\ Registrations # {} /\ finished < invoked
             /\ B!Tracked' \subseteq B!Tracked \cup {invoked}
  <2>1. PICK w \in BOOLEAN : << r, w >> \in Registrations /\ B!OnAgentInit(r, r, w)
    BY <1>6 DEF AgentInit
  <2>2. B!Tracked' = B!Tracked \cup {r}
    BY <1>2, <2>1 DEF B!OnAgentInit
  <2> QED
    BY <1>6, <2>1, <2>2 DEF AgentInit
<1>7. CASE DeliverLog \/ \E e \in Events : LogsForward(e)
  BY <1>1, <1>7 DEF DeliverLog, LogHandlerControl, LogsForward
<1>8. CASE \E p \in {0} \cup Events : Takes(p) \/ ChecksSize(p)
  BY <1>1, <1>8 DEF Takes, ChecksSize
<1>9. ASSUME NEW p \in {0} \cup Events, Handles(p) PROVE B!Tracked' \subseteq B!Tracked
  <2>1. held[p] \in LogEvent /\ HandleLog(held[p])
    BY <1>9, HeldTypes DEF Handles, TypeInv
  <2>2. \/ UNCHANGED invocations
        \/ \E S : invocations' = B!Restrict(invocations, B!Tracked \ S)
        \/ \E r \in B!Tracked : \E inc : invocations' = B!Put(r, inc)
    BY <2>1 DEF HandleLog, LogEvent, LogTypes, B!OnPlatformStart, B!OnPlatformReport,
                B!OnLambdaLogRuntimeDone, B!batchVars
  <2>3. ASSUME NEW r \in B!Tracked, NEW inc, invocations' = B!Put(r, inc)
        PROVE  B!Tracked' \subseteq B!Tracked
    BY <1>2, <2>3
  <2> QED
    BY <1>1, <1>3, <2>2, <2>3
<1>10. ASSUME NEW s \in Senders, ReceiveAgentData(s)
       PROVE  B!Tracked' \subseteq B!Tracked
  <2>1. PICK body : B!AddAgentData(body)
    BY <1>10 DEF ReceiveAgentData
  <2>2. \/ UNCHANGED invocations
        \/ /\ currentlyExecutingRequestID \in B!Tracked
           /\ \E inc : invocations' = B!Put(currentlyExecutingRequestID, inc)
    BY <2>1 DEF B!AddAgentData, B!batchVars
  <2>3. ASSUME NEW inc, currentlyExecutingRequestID \in B!Tracked,
               invocations' = B!Put(currentlyExecutingRequestID, inc)
        PROVE  B!Tracked' \subseteq B!Tracked
    BY <1>2, <2>3
  <2> QED
    BY <1>1, <2>2, <2>3
<1>11. CASE FlushForwardLog \/ \E s \in Senders : ReceiveLambdaData(s)
  BY <1>1, <1>11 DEF FlushForwardLog, ReceiveLambdaData, B!AddLambdaData, B!batchVars
<1>12. CASE \E s \in Senders, result \in PostResults : PostReturns(s, result)
  BY <1>1, <1>12 DEF PostReturns, ResetAfter, B!Reset
<1>13. CASE ReceiveInvoke
  <2>1. B!Tracked' = B!Tracked \cup {invoked}
    BY <1>2, <1>13 DEF ReceiveInvoke, B!RegisterInvocation
  <2> QED
    BY <1>13, <2>1 DEF ReceiveInvoke
<1>14. CASE FinalizeAll
  BY <1>3, <1>14 DEF FinalizeAll, B!OnShutdown
<1> QED
  BY <1>4, <1>5, <1>6, <1>7, <1>8, <1>9, <1>10, <1>11, <1>12, <1>13, <1>14,
     AsideOrMoves DEF Moves

\* Log events of a set are the only ones on their way to the batch.
OnTheWay(S) ==
    /\ \A i \in 1..posted : LogEventAt(i) \in S
    /\ \A i \in 1..Len(logsChannel) : logsChannel[i] \in S
    /\ \A p \in {0} \cup Events : held[p].kind \in LogTypes => held[p] \in S

\* What follows the handling of a log event, or the forwarding of a line, is no log
\* event, and only the report of a tracked request is followed by metrics.
LEMMA AfterKinds ==
    /\ \A e, line : AfterForwarding(e, line).kind \notin LogTypes \cup {"metrics"}
    /\ \A e, ev :
          /\ AfterHandling(e, ev).kind \notin LogTypes
          /\ IF ev.kind = "report" /\ ev.id \in B!Tracked
             THEN AfterHandling(e, ev) = [kind |-> "metrics", id |-> ev.id]
             ELSE AfterHandling(e, ev).kind # "metrics"
BY DEF AfterForwarding, AfterHandling, AfterReport, LineOf, Nothing, SizeCheck, LogTypes

\* They stay the only ones if the platform emits no other.
LEMMA PipelineStep ==
    ASSUME TypeInv, HearInv, [Next]_vars,
           NEW S, OnTheWay(S), \A ev \in LogEvent : Emitted(ev) => ev \in S
    PROVE  OnTheWay(S)'
<1>1. posted \in 0 .. NumRequests * Len(LogEvents)
      /\ posted' \in 0 .. NumRequests * Len(LogEvents)
  BY LogPostStep DEF TypeInv, LogPostInv
<1>2. /\ logsChannel \in Seq(LogEvent)
      /\ held \in [{0} \cup Events -> B!LambdaEvent \cup LogEvent \cup {Nothing, SizeCheck}]
  BY DEF TypeInv, ChannelInv
<1>3. ASSUME \A i \in 1..posted' : LogEventAt(i) \in S,
             \A i \in 1..Len(logsChannel') : logsChannel'[i] \in S,
             \A p \in {0} \cup Events : held'[p].kind \in LogTypes => held'[p] \in S
      PROVE  OnTheWay(S)'
  BY <1>3 DEF OnTheWay, LogEventAt
<1>4. ASSUME UNCHANGED << posted, logsChannel, held >> PROVE OnTheWay(S)'
  BY <1>3, <1>4 DEF OnTheWay
<1> USE DEF batchVars, channelVars, logVars, platformVars, logPostVars
<1>5. CASE Aside
  BY <1>4, <1>5 DEF Aside
<1>6. CASE \E r \in ReqIDs : AgentSends(r) \/ AgentInit(r)
  BY <1>4, <1>6 DEF AgentSends, AgentInit
<1>7. CASE DeliverLog
  <2>1. PICK end \in BatchEnds : posted' = end
    BY <1>7 DEF DeliverLog
  <2>2. /\ delivered \in Nat /\ posted \in Nat /\ delivered <= posted
        /\ delivered + 1 \in 1..posted'
    <3>1. /\ delivered \in Nat /\ posted \in Nat /\ delivered <= posted
      BY <1>1 DEF TypeInv, LogPostInv
    <3>2. (end = posted /\ delivered < posted) \/ (end \in Nat /\ end >= posted + 1)
      BY <2>1, <3>1, LenProperties DEF BatchEnds
    <3> QED
      BY <2>1, <3>1, <3>2
  <2>3. ASSUME NEW i \in 1..posted' PROVE LogEventAt(i) \in S
    <3>1. CASE i \in 1..posted
      BY <3>1 DEF OnTheWay
    <3>2. CASE i \notin 1..posted
      <4>1. i \in posted + 1 .. end /\ end # posted
        BY <1>1, <2>1, <2>2, <3>2
      <4>2. Emitted(LogEventAt(i))
        BY <2>1, <4>1 DEF BatchEnds
      <4>3. LogEventAt(i) \in LogEvent
        <5>1. NumRequests * Len(LogEvents) \in Nat
          BY LenProperties
        <5>2. i \in 1 .. NumRequests * Len(LogEvents)
          BY <1>1, <5>1
        <5> QED
          BY <5>2, LogEventAtType
      <4> QED
        BY <4>2, <4>3
    <3> QED
      BY <3>1, <3>2
  <2>4. /\ logsChannel' = Append(logsChannel, LogEventAt(delivered + 1))
        /\ UNCHANGED held
    BY <1>7 DEF DeliverLog, LogHandlerControl
  <2>5. ASSUME NEW i \in 1..Len(logsChannel') PROVE logsChannel'[i] \in S
    <3>1. i \in 1..Len(logsChannel) \/ logsChannel'[i] = LogEventAt(delivered + 1)
      BY <1>2, <2>4
    <3>2. i \in 1..Len(logsChannel) => logsChannel'[i] = logsChannel[i]
      BY <1>2, <2>4
    <3> QED
      BY <2>2, <2>3, <3>1, <3>2 DEF OnTheWay
  <2> QED
    BY <1>3, <2>3, <2>4, <2>5 DEF OnTheWay
<1>8. ASSUME NEW p \in {0} \cup Events, Takes(p) PROVE OnTheWay(S)'
  <2>1. /\ Len(logsChannel) \in Nat /\ Len(logsChannel) > 0
        /\ Len(logsChannel') = Len(logsChannel) - 1
        /\ \A i \in 1..Len(logsChannel) - 1 : logsChannel'[i] = logsChannel[i + 1]
        /\ Head(logsChannel) = logsChannel[1]
    BY <1>2, <1>8, HeadTailProperties, LenProperties DEF Takes
  <2>2. \A i \in 1..Len(logsChannel') :
           i + 1 \in 1..Len(logsChannel) /\ logsChannel'[i] = logsChannel[i + 1]
    BY <2>1
  <2>3. \A q \in {0} \cup Events :
           held'[q] = IF q = p THEN logsChannel[1] ELSE held[q]
    BY <1>2, <1>8, <2>1 DEF Takes
  <2>4. 1 \in 1..Len(logsChannel) /\ posted' = posted
    BY <1>8, <2>1 DEF Takes
  <2> QED
    BY <1>3, <2>2, <2>3, <2>4 DEF OnTheWay
<1>9. ASSUME NEW p \in {0} \cup Events, NEW x, x.kind \notin LogTypes,
             held' = [held EXCEPT ![p] = x], UNCHANGED << posted, logsChannel >>
      PROVE  OnTheWay(S)'
  <2>1. \A q \in {0} \cup Events : held'[q] = IF q = p THEN x ELSE held[q]
    BY <1>2, <1>9
  <2> QED
    BY <1>3, <1>9, <2>1 DEF OnTheWay
<1>10. ASSUME NEW p \in {0} \cup Events, Handles(p) PROVE OnTheWay(S)'
  BY <1>9, <1>10, AfterKinds DEF Handles
<1>11. ASSUME NEW p \in {0} \cup Events, ChecksSize(p) PROVE OnTheWay(S)'
  <2>1. Nothing.kind \notin LogTypes
    BY DEF Nothing, LogTypes
  <2> QED
    BY <1>9, <1>11, <2>1 DEF ChecksSize
<1>12. ASSUME NEW e \in Events, LogsForward(e) PROVE OnTheWay(S)'
  BY <1>9, <1>12, AfterKinds DEF LogsForward
<1>13. CASE FlushForwardLog
  BY <1>9, <1>13, AfterKinds DEF FlushForwardLog
<1>14. CASE \E s \in Senders : ReceiveAgentData(s) \/ ReceiveLambdaData(s)
  BY <1>4, <1>14 DEF ReceiveAgentData, ReceiveLambdaData
<1>15. CASE \E s \in Senders, result \in PostResults : PostReturns(s, result)
  BY <1>4, <1>15 DEF PostReturns
<1>16. CASE ReceiveInvoke \/ FinalizeAll
  BY <1>4, <1>16 DEF ReceiveInvoke, StartGoroutines, FinalizeAll, LocalStep
<1> QED
  BY <1>5, <1>6, <1>7, <1>8, <1>10, <1>11, <1>12, <1>13, <1>14, <1>15, <1>16,
     AsideOrMoves DEF Moves

\* Where a report is on its way, its request has finished, and its event has been
\* received unless the Lambda platform reports early.  Without registrations an
\* invocation is filed when it is received.
ReportOnTime(ev) ==
    ev.kind = "report" => ev.id <= finished /\ (earlyReport \/ ev.id <= event)

ReportsInv ==
    /\ finished \in Nat
    /\ OnTheWay({ev \in LogEvent : ReportOnTime(ev)})
    /\ Registrations = {} => \A r \in B!Tracked : r <= event

LEMMA ReportsStep ==
    ASSUME B!TypeOK, TypeInv, HearInv, ReportsInv, [Next]_vars
    PROVE  ReportsInv'
<1>1. /\ finished' \in Nat /\ finished' >= finished
      /\ event' >= event
      /\ earlyReport' = earlyReport
  BY ClockStep DEF TypeInv, ReportsInv
<1>2. finished \in Nat /\ event \in Nat /\ event' \in Nat
  BY InvokedStep DEF ReportsInv, TypeInv, InvokedInv, Shutdown
<1>3. PICK S : S = {ev \in LogEvent : ReportOnTime(ev)'}
  OBVIOUS
<1>4. ASSUME NEW ev \in LogEvent, ReportOnTime(ev) PROVE ev \in S
  <2>1. ev.id \in Nat
    BY DEF LogEvent, ReqIDs
  <2> QED
    BY <1>1, <1>2, <1>3, <1>4, <2>1 DEF ReportOnTime
<1>5. OnTheWay(S)
  BY <1>4 DEF ReportsInv, OnTheWay
<1>6. ASSUME NEW ev \in LogEvent, Emitted(ev) PROVE ev \in S
  <2>1. ev.id \in Nat
    BY DEF LogEvent, ReqIDs
  <2> QED
    BY <1>2, <1>4, <1>6, <2>1 DEF Emitted, ReportOnTime
<1>7. OnTheWay(S)'
  BY <1>5, <1>6, PipelineStep
<1>8. OnTheWay({ev \in LogEvent : ReportOnTime(ev)})'
  BY <1>3, <1>7
<1>9. Registrations = {} => \A r \in B!Tracked' : r <= event'
  <2>1. B!Tracked \subseteq ReqIDs /\ invoked \in Nat
    BY DEF B!TypeOK, TypeInv, InvokedInv
  <2> SUFFICES ASSUME Registrations = {}, NEW r \in B!Tracked' PROVE r <= event'
    OBVIOUS
  <2>2. r \in B!Tracked => r <= event'
    <3>1. \A a, b, c \in Nat : a <= b /\ c >= b => a <= c
      OBVIOUS
    <3>2. r \in B!Tracked => r \in Nat /\ r <= event
      BY <2>1 DEF ReportsInv, ReqIDs
    <3> QED
      BY <1>1, <1>2, <3>1, <3>2
  <2>3. r \in B!Tracked \/ (r = invoked /\ event' = invoked)
    BY TrackedStep
  <2> QED
    BY <2>1, <2>2, <2>3
<1> QED
  BY <1>1, <1>8, <1>9 DEF ReportsInv

LEMMA ReportsInvariance == Spec => []ReportsInv
<1>1. Init => ReportsInv
  BY DEF Init, B!Init, ReportsInv, OnTheWay, Nothing, LogTypes, B!Tracked
<1>2. B!TypeOK /\ TypeInv /\ HearInv /\ ReportsInv /\ [Next]_vars => ReportsInv'
  BY ReportsStep
<1> QED
  BY <1>1, <1>2, BatchInvariants, TypeInvariance, HearInvariance, PTL DEF Spec

\* The report of a request has been handled while it was in the batch, or will
\* find nothing there: it is not filed again.
Gone(r) ==
    /\ r \in ReqIDs \ B!Tracked
    /\ r <= event
    /\ r <= finished \/ Registrations = {}

LEMMA GoneStep ==
    ASSUME B!TypeOK, TypeInv, HearInv, finished \in Nat, [Next]_vars,
           NEW r, Gone(r)
    PROVE  Gone(r)'
<1>1. /\ finished' \in Nat /\ finished' >= finished
      /\ event' >= event
  BY ClockStep DEF TypeInv
<1>2. event \in Nat /\ event' \in Nat /\ invoked \in Nat
  BY InvokedStep DEF TypeInv, InvokedInv, Shutdown
<1>3. r \in Nat /\ r \in ReqIDs
  BY DEF Gone, ReqIDs
<1>4. r \notin B!Tracked'
  <2>1. r = invoked => ~(Registrations # {} /\ finished < invoked) /\ ~(event < invoked)
    BY <1>2, <1>3 DEF Gone
  <2> QED
    BY <2>1, TrackedStep DEF Gone
<1> QED
  BY <1>1, <1>2, <1>3, <1>4 DEF Gone

\* The metrics of a request are made by the step that drops its invocation, and
\* from then on they are in one place, if they have not been given up.
Delivered ==
    \A i \in 1..Len(LambdaDataChannel) : LambdaDataChannel[i].kind = "metrics" =>
        /\ Gone(LambdaDataChannel[i].id)
        /\ LambdaDataChannel[i] \notin Carried
        /\ \A j \in 1..i - 1 : LambdaDataChannel[j] # LambdaDataChannel[i]

Held ==
    \A p \in {0} \cup Events : held[p].kind = "metrics" =>
        /\ Gone(held[p].id)
        /\ held[p] \notin Carried
        /\ \A i \in 1..Len(LambdaDataChannel) : LambdaDataChannel[i] # held[p]
        /\ \A q \in {0} \cup Events : q # p => held[q] # held[p]

MetricsInv ==
    /\ Once("metrics")
    /\ \A line \in Carried : line.kind = "metrics" => Gone(line.id)
    /\ Delivered
    /\ Held

LEMMA MetricsFrame ==
    ASSUME MetricsInv, \A r : Gone(r) => Gone(r)',
           NoneAdded("metrics"), UNCHANGED LambdaDataChannel,
           \A p \in {0} \cup Events :
              held'[p].kind = "metrics" => held'[p] = held[p]
    PROVE  MetricsInv'
<1>1. Once("metrics")' /\ \A line \in Carried' : line.kind = "metrics" => Gone(line.id)'
  BY DEF MetricsInv, NoneAdded
<1>2. Delivered'
  BY DEF MetricsInv, Delivered, NoneAdded
<1>3. Held'
  <2> SUFFICES ASSUME NEW p \in {0} \cup Events, held'[p].kind = "metrics"
               PROVE  /\ \A r : r = held'[p].id => Gone(r)'
                      /\ held'[p] \notin Carried'
                      /\ \A i \in 1..Len(LambdaDataChannel) : LambdaDataChannel[i] # held'[p]
                      /\ \A q \in {0} \cup Events : q # p => held'[q] # held'[p]
    BY DEF Held, Gone
  <2>1. held'[p] = held[p]
    OBVIOUS
  <2>2. /\ Gone(held[p].id)
        /\ held[p] \notin Carried
        /\ \A i \in 1..Len(LambdaDataChannel) : LambdaDataChannel[i] # held[p]
        /\ \A q \in {0} \cup Events : q # p => held[q] # held[p]
    BY <2>1 DEF MetricsInv, Held
  <2>3. \A q \in {0} \cup Events : q # p => held'[q] # held'[p]
    BY <2>1, <2>2
  <2> QED
    BY <2>1, <2>2, <2>3 DEF NoneAdded
<1> QED
  BY <1>1, <1>2, <1>3 DEF MetricsInv

\* The step of a report whose invocation is tracked: its metrics are new.
LEMMA MetricsMade ==
    ASSUME B!TypeOK, TypeInv, ReportsInv, MetricsInv,
           \A r : Gone(r) => Gone(r)', earlyReport => Registrations = {},
           UNCHANGED << received, finished, event, LambdaDataChannel >>,
           NEW p \in {0} \cup Events, held[p] \in LogEvent, held[p].kind = "report",
           held[p].id \in B!Tracked, HandleLog(held[p]),
           held' = [held EXCEPT ![p] = [kind |-> "metrics", id |-> held[p].id]]
    PROVE  MetricsInv'
<1> PICK r : r = held[p].id
  OBVIOUS
<1> DEFINE new == [kind |-> "metrics", id |-> r]
<1>1. r \in ReqIDs /\ ~Gone(r) /\ new.kind = "metrics" /\ new.id = r
  BY DEF Gone, LogEvent
<1>2. Gone(r)'
  <2>1. B!Tracked' = B!Tracked \ {r}
    BY DEF HandleLog, B!OnPlatformReport, B!Restrict, B!Tracked
  <2>2. r <= finished /\ r <= event
    BY DEF ReportsInv, OnTheWay, ReportOnTime, LogTypes
  <2> QED
    BY <1>1, <2>1, <2>2 DEF Gone
<1>3. NoneAdded("metrics")
  <2>1. received' = received
    OBVIOUS
  <2> QED
    BY <2>1, HandleLogAddsProxies
<1>4. \A q \in {0} \cup Events : held'[q] = IF q = p THEN new ELSE held[q]
  BY DEF TypeInv, ChannelInv
<1> HIDE DEF new
<1>5. new \notin Carried
  BY <1>1 DEF MetricsInv
<1>6. new \notin Carried'
  BY <1>1, <1>3, <1>5 DEF NoneAdded
<1>7. \A i \in 1..Len(LambdaDataChannel) : LambdaDataChannel[i] # new
  BY <1>1 DEF MetricsInv, Delivered
<1>8. \A q \in {0} \cup Events : held[q] # new
  BY <1>1 DEF MetricsInv, Held
<1>9. Once("metrics")' /\ \A line \in Carried' : line.kind = "metrics" => Gone(line.id)'
  BY <1>3 DEF MetricsInv, NoneAdded
<1>10. Delivered'
  BY <1>3 DEF MetricsInv, Delivered, NoneAdded
<1>11. Held'
  <2> SUFFICES ASSUME NEW q \in {0} \cup Events, held'[q].kind = "metrics"
               PROVE  /\ \A x : x = held'[q].id => Gone(x)'
                      /\ held'[q] \notin Carried'
                      /\ \A i \in 1..Len(LambdaDataChannel) : LambdaDataChannel[i] # held'[q]
                      /\ \A o \in {0} \cup Events : o # q => held'[o] # held'[q]
    BY DEF Held, Gone
  <2>1. CASE q = p
    <3>1. held'[q] = new
      BY <1>4, <2>1
    <3>2. \A o \in {0} \cup Events : o # q => held'[o] = held[o]
      BY <1>4, <2>1
    <3>3. \A x : x = held'[q].id => Gone(x)'
      BY <1>1, <1>2, <3>1
    <3> QED
      BY <1>6, <1>7, <1>8, <3>1, <3>2, <3>3
  <2>2. CASE q # p
    <3>1. held'[q] = held[q]
      BY <1>4, <2>2
    <3>2. /\ Gone(held[q].id)
          /\ held[q] \notin Carried
          /\ \A i \in 1..Len(LambdaDataChannel) : LambdaDataChannel[i] # held[q]
          /\ \A o \in {0} \cup Events : o # q => held[o] # held[q]
      BY <3>1 DEF MetricsInv, Held
    <3>3. \A o \in {0} \cup Events : o # q => held'[o] # held'[q]
      BY <1>4, <1>8, <3>1, <3>2
    <3> QED
      BY <1>3, <3>1, <3>2, <3>3 DEF NoneAdded
  <2> QED
    BY <2>1, <2>2
<1> QED
  BY <1>9, <1>10, <1>11 DEF MetricsInv

\* A line is moved from a goroutine to LambdaDataChannel.
LEMMA MetricsQueued ==
    ASSUME TypeInv, MetricsInv, \A r : Gone(r) => Gone(r)',
           UNCHANGED << buf, received >>,
           NEW e \in Events, held[e] \in B!LambdaEvent,
           LambdaDataChannel' = Append(LambdaDataChannel, held[e]),
           NEW after, after.kind # "metrics", held' = [held EXCEPT ![e] = after]
    PROVE  MetricsInv'
<1> DEFINE n == Len(LambdaDataChannel)
<1>1. /\ n \in Nat
      /\ Len(LambdaDataChannel') = n + 1
      /\ LambdaDataChannel'[n + 1] = held[e]
      /\ \A i \in 1..n : LambdaDataChannel'[i] = LambdaDataChannel[i]
  BY AppendProperties, LenProperties DEF TypeInv, ChannelInv
<1>2. \A q \in {0} \cup Events : held'[q] = IF q = e THEN after ELSE held[q]
  BY DEF TypeInv, ChannelInv
<1>3. Carried' = Carried /\ Once("metrics")'
  BY DEF Carried, MetricsInv, Once
<1> HIDE DEF n
<1>4. Delivered'
  <2> SUFFICES ASSUME NEW i \in 1..n + 1, LambdaDataChannel'[i].kind = "metrics"
               PROVE  /\ \A x : x = LambdaDataChannel'[i].id => Gone(x)'
                      /\ LambdaDataChannel'[i] \notin Carried
                      /\ \A j \in 1..i - 1 : LambdaDataChannel'[j] # LambdaDataChannel'[i]
    BY <1>1, <1>3, SMTT(30) DEF Delivered, Gone
  <2>1. \A j \in 1..i - 1 : j \in 1..n /\ LambdaDataChannel'[j] = LambdaDataChannel[j]
    BY <1>1
  <2>2. CASE i \in 1..n
    BY <1>1, <2>1, <2>2 DEF MetricsInv, Delivered, n
  <2>3. CASE i = n + 1
    <3>1. LambdaDataChannel'[i] = held[e] /\ held[e].kind = "metrics"
      BY <1>1, <2>3
    <3>2. /\ Gone(held[e].id)
          /\ held[e] \notin Carried
          /\ \A j \in 1..n : LambdaDataChannel[j] # held[e]
      BY <3>1 DEF MetricsInv, Held, n
    <3>3. \A j \in 1..i - 1 : LambdaDataChannel'[j] # held[e]
      BY <2>1, <3>2
    <3> QED
      BY <3>1, <3>2, <3>3
  <2> QED
    BY <1>1, <2>2, <2>3
<1>5. Held'
  <2> SUFFICES ASSUME NEW p \in {0} \cup Events, held'[p].kind = "metrics"
               PROVE  /\ \A x : x = held'[p].id => Gone(x)'
                      /\ held'[p] \notin Carried
                      /\ \A i \in 1..n + 1 : LambdaDataChannel'[i] # held'[p]
                      /\ \A q \in {0} \cup Events : q # p => held'[q] # held'[p]
    BY <1>1, <1>3 DEF Held, Gone
  <2>1. p # e /\ held'[p] = held[p]
    BY <1>2
  <2>2. /\ Gone(held[p].id)
        /\ held[p] \notin Carried
        /\ \A i \in 1..n : LambdaDataChannel[i] # held[p]
        /\ \A q \in {0} \cup Events : q # p => held[q] # held[p]
    BY <2>1 DEF MetricsInv, Held, n
  <2>3. ASSUME NEW i \in 1..n + 1 PROVE LambdaDataChannel'[i] # held[p]
    <3>1. CASE i \in 1..n
      BY <1>1, <2>2, <3>1
    <3>2. CASE i = n + 1
      BY <1>1, <2>1, <2>2, <3>2
    <3> QED
      BY <1>1, <3>1, <3>2
  <2>4. \A q \in {0} \cup Events : q # p => held'[q] # held'[p]
    BY <1>2, <2>1, <2>2
  <2> QED
    BY <2>1, <2>2, <2>3, <2>4
<1> QED
  BY <1>3, <1>4, <1>5 DEF MetricsInv

\* A line is moved from LambdaDataChannel to the batch, if the batch takes it.
LEMMA MetricsReceived ==
    ASSUME B!TypeOK, TypeInv, MetricsInv, \A r : Gone(r) => Gone(r)',
           UNCHANGED << received, held >>, LambdaDataChannel # << >>,
           LambdaDataChannel' = Tail(LambdaDataChannel),
           B!AddLambdaData(Head(LambdaDataChannel))
    PROVE  MetricsInv'
<1> DEFINE n == Len(LambdaDataChannel)
<1>1. /\ n \in Nat /\ n > 0
      /\ Len(LambdaDataChannel') = n - 1
      /\ \A i \in 1..n - 1 : LambdaDataChannel'[i] = LambdaDataChannel[i + 1]
      /\ Head(LambdaDataChannel) = LambdaDataChannel[1]
      /\ LambdaDataChannel[1] \in B!LambdaEvent
  BY HeadTailProperties, LenProperties DEF TypeInv, ChannelInv
<1> PICK new : new = LambdaDataChannel[1]
  OBVIOUS
<1>2. new \in B!LambdaEvent /\ B!AddLambdaData(new) /\ received' = received
  BY <1>1
<1>3. /\ \A line \in Carried' : line.kind = "metrics" => line \in Carried \cup {new}
      /\ new \notin Carried => (Once("metrics") => Once("metrics")')
      /\ new.kind # "metrics" => NoneAdded("metrics")
  BY <1>2, LambdaDataLines
<1> HIDE DEF n
<1>4. 1 \in 1..n /\ \A i \in 1..n - 1 : i + 1 \in 1..n /\ 1 \in 1..(i + 1) - 1
  BY <1>1
<1>5. new.kind = "metrics" => Gone(new.id) /\ new \notin Carried
  BY <1>4 DEF MetricsInv, Delivered, n
<1>6. Once("metrics")' /\ \A line \in Carried' : line.kind = "metrics" => Gone(line.id)'
  BY <1>3, <1>5 DEF MetricsInv, NoneAdded
<1>7. Delivered'
  <2> SUFFICES ASSUME NEW i \in 1..n - 1, LambdaDataChannel'[i].kind = "metrics"
               PROVE  /\ \A x : x = LambdaDataChannel'[i].id => Gone(x)'
                      /\ LambdaDataChannel'[i] \notin Carried'
                      /\ \A j \in 1..i - 1 : LambdaDataChannel'[j] # LambdaDataChannel'[i]
    BY <1>1 DEF Delivered, Gone
  <2>1. LambdaDataChannel'[i] = LambdaDataChannel[i + 1]
    BY <1>1
  <2>2. /\ Gone(LambdaDataChannel[i + 1].id)
        /\ LambdaDataChannel[i + 1] \notin Carried
        /\ \A j \in 1..(i + 1) - 1 : LambdaDataChannel[j] # LambdaDataChannel[i + 1]
    BY <1>4, <2>1 DEF MetricsInv, Delivered, n
  <2>3. LambdaDataChannel[i + 1] # new
    BY <1>4, <2>2
  <2>4. ASSUME NEW j \in 1..i - 1 PROVE LambdaDataChannel'[j] # LambdaDataChannel'[i]
    <3>1. j \in 1..n - 1 /\ j + 1 \in 1..(i + 1) - 1
      BY <1>1
    <3> QED
      BY <1>1, <2>1, <2>2, <3>1
  <2> QED
    BY <1>3, <2>1, <2>2, <2>3, <2>4
<1>8. Held'
  <2> SUFFICES ASSUME NEW p \in {0} \cup Events, held[p].kind = "metrics"
               PROVE  /\ \A x : x = held[p].id => Gone(x)'
                      /\ held[p] \notin Carried'
                      /\ \A i \in 1..n - 1 : LambdaDataChannel'[i] # held[p]
                      /\ \A q \in {0} \cup Events : q # p => held[q] # held[p]
    BY <1>1 DEF Held, Gone
  <2>1. /\ Gone(held[p].id)
        /\ held[p] \notin Carried
        /\ \A i \in 1..n : LambdaDataChannel[i] # held[p]
        /\ \A q \in {0} \cup Events : q # p => held[q] # held[p]
    BY DEF MetricsInv, Held, n
  <2>2. \A i \in 1..n - 1 : LambdaDataChannel'[i] # held[p]
    BY <1>1, <1>4, <2>1
  <2>3. held[p] # new
    BY <1>4, <2>1
  <2> QED
    BY <1>3, <2>1, <2>2, <2>3
<1> QED
  BY <1>6, <1>7, <1>8 DEF MetricsInv

\* A line is moved from the event loop, which has handled a log event, to the batch.
LEMMA MetricsFlushed ==
    ASSUME B!TypeOK, TypeInv, MetricsInv, \A r : Gone(r) => Gone(r)',
           UNCHANGED << received, LambdaDataChannel >>,
           held[0] \in B!LambdaEvent, B!AddLambdaData(held[0]),
           NEW after, after.kind # "metrics", held' = [held EXCEPT ![0] = after]
    PROVE  MetricsInv'
<1> PICK new : new = held[0]
  OBVIOUS
<1>1. \A q \in {0} \cup Events : held'[q] = IF q = 0 THEN after ELSE held[q]
  BY DEF TypeInv, ChannelInv
<1>2. new \in B!LambdaEvent /\ B!AddLambdaData(new) /\ received' = received
  OBVIOUS
<1>3. /\ \A line \in Carried' : line.kind = "metrics" => line \in Carried \cup {new}
      /\ new \notin Carried => (Once("metrics") => Once("metrics")')
      /\ new.kind # "metrics" => NoneAdded("metrics")
  BY <1>2, LambdaDataLines
<1>4. new.kind = "metrics" =>
         /\ Gone(new.id) /\ new \notin Carried
         /\ \A i \in 1..Len(LambdaDataChannel) : LambdaDataChannel[i] # new
         /\ \A q \in Events : q # 0 => held[q] # new
  BY DEF MetricsInv, Held
<1>5. Once("metrics")' /\ \A line \in Carried' : line.kind = "metrics" => Gone(line.id)'
  BY <1>3, <1>4 DEF MetricsInv, NoneAdded
<1>6. Delivered'
  <2> SUFFICES ASSUME NEW i \in 1..Len(LambdaDataChannel),
                      LambdaDataChannel[i].kind = "metrics"
               PROVE  /\ \A x : x = LambdaDataChannel[i].id => Gone(x)'
                      /\ LambdaDataChannel[i] \notin Carried'
                      /\ \A j \in 1..i - 1 : LambdaDataChannel[j] # LambdaDataChannel[i]
    BY DEF Delivered, Gone
  <2>1. /\ Gone(LambdaDataChannel[i].id)
        /\ LambdaDataChannel[i] \notin Carried
        /\ \A j \in 1..i - 1 : LambdaDataChannel[j] # LambdaDataChannel[i]
    BY DEF MetricsInv, Delivered
  <2>2. LambdaDataChannel[i] # new
    BY <1>4
  <2> QED
    BY <1>3, <2>1, <2>2
<1>7. Held'
  <2> SUFFICES ASSUME NEW p \in {0} \cup Events, held'[p].kind = "metrics"
               PROVE  /\ \A x : x = held'[p].id => Gone(x)'
                      /\ held'[p] \notin Carried'
                      /\ \A i \in 1..Len(LambdaDataChannel) : LambdaDataChannel[i] # held'[p]
                      /\ \A q \in {0} \cup Events : q # p => held'[q] # held'[p]
    BY DEF Held, Gone
  <2>1. p # 0 /\ held'[p] = held[p]
    BY <1>1
  <2>2. /\ Gone(held[p].id)
        /\ held[p] \notin Carried
        /\ \A i \in 1..Len(LambdaDataChannel) : LambdaDataChannel[i] # held[p]
        /\ \A q \in {0} \cup Events : q # p => held[q] # held[p]
    BY <2>1 DEF MetricsInv, Held
  <2>3. held[p] # new
    BY <2>1, <2>2
  <2>4. \A q \in {0} \cup Events : q # p => held'[q] # held'[p]
    BY <1>1, <2>1, <2>2
  <2> QED
    BY <1>3, <2>1, <2>2, <2>3, <2>4
<1> QED
  BY <1>5, <1>6, <1>7 DEF MetricsInv

LEMMA MetricsStep ==
    ASSUME B!TypeOK, B!BufferFraming, TypeInv, HearInv, PostInv, SnapInv, ProxiesInv,
           ReportsInv, MetricsInv, [Next]_vars, earlyReport => Registrations = {}
    PROVE  MetricsInv'
<1>1. \A r : Gone(r) => Gone(r)'
  BY GoneStep DEF ReportsInv
<1>2. ASSUME NoneAdded("metrics"), UNCHANGED << LambdaDataChannel, held >>
      PROVE  MetricsInv'
  BY <1>1, <1>2, MetricsFrame
<1> USE DEF batchVars, channelVars, serverVars, logVars, agentVars
<1>3. CASE Aside
  BY <1>2, <1>3, SameLines DEF Aside
<1>4. CASE \E r \in ReqIDs : AgentSends(r)
  BY <1>2, <1>4, SameLines DEF AgentSends
<1>5. ASSUME NEW r \in ReqIDs, AgentInit(r) PROVE MetricsInv'
  <2>1. PICK w \in BOOLEAN : B!OnAgentInit(r, r, w)
    BY <1>5 DEF AgentInit
  <2>2. received' = received
    BY <1>5 DEF AgentInit
  <2>3. NoneAdded("metrics")
    BY <2>1, <2>2, AgentInitLines
  <2> QED
    BY <1>2, <1>5, <2>3 DEF AgentInit
<1>6. CASE DeliverLog
  BY <1>2, <1>6, SameLines DEF DeliverLog, LogHandlerControl
<1>7. ASSUME NEW p \in {0} \cup Events, NEW x, x.kind # "metrics",
             held' = [held EXCEPT ![p] = x], NoneAdded("metrics"),
             UNCHANGED LambdaDataChannel
      PROVE  MetricsInv'
  <2>1. \A q \in {0} \cup Events : held'[q] = IF q = p THEN x ELSE held[q]
    BY <1>7 DEF TypeInv, ChannelInv
  <2> QED
    BY <1>1, <1>7, <2>1, MetricsFrame
<1>8. ASSUME NEW p \in {0} \cup Events, Takes(p) PROVE MetricsInv'
  <2>1. Head(logsChannel).kind # "metrics"
    <3>1. Head(logsChannel) \in LogEvent
      BY <1>8, HeadTailProperties DEF Takes, TypeInv, ChannelInv
    <3> QED
      BY <3>1 DEF LogEvent, LogTypes
  <2> QED
    BY <1>7, <1>8, <2>1, SameLines DEF Takes
<1>17. ASSUME NEW p \in {0} \cup Events, ChecksSize(p) PROVE MetricsInv'
  BY <1>7, <1>17, SameLines DEF ChecksSize, Nothing
<1>9. ASSUME NEW p \in {0} \cup Events, Handles(p) PROVE MetricsInv'
  <2>1. held[p] \in LogEvent /\ HandleLog(held[p])
    BY <1>9, HeldTypes DEF Handles, TypeInv
  <2>2. UNCHANGED << received, finished, event, LambdaDataChannel >>
    BY <1>9 DEF Handles, platformVars
  <2>3. received' = received
    BY <2>2
  <2>4. NoneAdded("metrics")
    BY <2>1, <2>3, HandleLogAddsProxies
  <2>5. CASE held[p].kind = "report" /\ held[p].id \in B!Tracked
    <3>1. held' = [held EXCEPT ![p] = [kind |-> "metrics", id |-> held[p].id]]
      BY <1>9, <2>5, AfterKinds DEF Handles
    <3> QED
      BY <1>1, <2>1, <2>2, <2>5, <3>1, MetricsMade
  <2>6. CASE ~ (held[p].kind = "report" /\ held[p].id \in B!Tracked)
    <3>1. AfterHandling(EventOf(p), held[p]).kind # "metrics"
      BY <2>6, AfterKinds
    <3> QED
      BY <1>7, <1>9, <2>2, <2>4, <3>1 DEF Handles
  <2> QED
    BY <2>5, <2>6
<1>10. ASSUME NEW e \in Events, LogsForward(e) PROVE MetricsInv'
  <2>1. held[e] \in B!LambdaEvent
    BY <1>10, HeldTypes DEF LogsForward, TypeInv
  <2>2. UNCHANGED << buf, received >>
        /\ held' = [held EXCEPT ![e] = AfterForwarding(e, held[e])]
    BY <1>10 DEF LogsForward
  <2>5. AfterForwarding(e, held[e]).kind # "metrics"
    BY AfterKinds
  <2>3. CASE UNCHANGED LambdaDataChannel
    BY <1>7, <2>2, <2>3, <2>5, SameLines
  <2>4. CASE LambdaDataChannel' = Append(LambdaDataChannel, held[e])
    BY <1>1, <2>1, <2>2, <2>4, <2>5, MetricsQueued
  <2> QED
    BY <1>10, <2>3, <2>4 DEF LogsForward
<1>11. ASSUME NEW s \in Senders, ReceiveAgentData(s) PROVE MetricsInv'
  <2>1. Head(AgentDataChannel) \in {AgentBody(r) : r \in ReqIDs}
    BY <1>11, HeadTailProperties DEF ReceiveAgentData, TypeInv, ChannelInv
  <2>2. PICK r \in ReqIDs : B!AddAgentData(AgentBody(r))
    BY <1>11, <2>1 DEF ReceiveAgentData
  <2>3. received' = received /\ UNCHANGED << LambdaDataChannel, held >>
    BY <1>11 DEF ReceiveAgentData
  <2>4. NoneAdded("metrics")
    BY <2>2, <2>3, AgentDataLines
  <2> QED
    BY <1>2, <2>3, <2>4
<1>12. ASSUME NEW s \in Senders, ReceiveLambdaData(s) PROVE MetricsInv'
  BY <1>1, <1>12, MetricsReceived DEF ReceiveLambdaData
<1>13. CASE FlushForwardLog
  <2>1. held[0] \in B!LambdaEvent
    BY <1>13, HeldTypes DEF FlushForwardLog, TypeInv
  <2>2. AfterForwarding(event, held[0]).kind # "metrics"
    BY AfterKinds
  <2> QED
    BY <1>1, <1>13, <2>1, <2>2, MetricsFlushed DEF FlushForwardLog
<1>14. ASSUME NEW s \in Senders, NEW result \in PostResults, PostReturns(s, result)
       PROVE  MetricsInv'
  <2>1. NoneAdded("metrics")
    BY <1>14, PostLines
  <2> QED
    BY <1>2, <1>14, <2>1 DEF PostReturns
<1>15. CASE ReceiveInvoke
  <2>1. UNCHANGED << buf, received, LambdaDataChannel, held >>
    BY <1>15 DEF ReceiveInvoke, B!RegisterInvocation, B!bufferVars
  <2> QED
    BY <1>2, <2>1, SameLines
<1>16. CASE FinalizeAll
  <2>1. B!OnShutdown /\ UNCHANGED << received, LambdaDataChannel, held >>
    BY <1>16 DEF FinalizeAll, LocalStep
  <2>2. NoneAdded("metrics")
    BY <2>1, ShutdownLines DEF ProxiesInv
  <2> QED
    BY <1>2, <2>1, <2>2
<1> QED
  BY <1>3, <1>4, <1>5, <1>6, <1>8, <1>9, <1>10, <1>11, <1>12, <1>13, <1>14, <1>15,
     <1>16, <1>17, AsideOrMoves DEF Moves

LEMMA MetricsInvariance == Spec => []((earlyReport => Registrations = {}) => MetricsInv)
<1> DEFINE InTime == earlyReport => Registrations = {}
<1>1. Init => MetricsInv
  BY DEF Init, B!Init, MetricsInv, Once, Carried, ToSet, Delivered, Held, Nothing
<1>2. TypeInv /\ ReportsInv /\ [Next]_vars => (InTime' <=> InTime)
  BY ClockStep DEF TypeInv, ReportsInv
<1>3. /\ B!TypeOK /\ B!BufferFraming /\ TypeInv /\ HearInv /\ PostInv /\ SnapInv
      /\ ProxiesInv /\ ReportsInv /\ MetricsInv /\ [Next]_vars /\ InTime
      => MetricsInv'
  BY MetricsStep
<1> HIDE DEF InTime
<1>4. Spec => [](InTime => MetricsInv)
  BY <1>1, <1>2, <1>3, BatchInvariants, TypeInvariance, HearInvariance,
     PostInvariance, SnapInvariance, ProxiesInvariance, ReportsInvariance,
     PTL DEF Spec
<1> QED
  BY <1>4, PTL DEF InTime

-----------------------------------------------------------------------------
\* What is shipped.

\* A line of the batch is the metadata, a transaction of an agent, a proxy, the
\* metrics of a report or a function log.
KindsInv == \A line \in Carried : line.kind # "span"

LEMMA KindsStep ==
    ASSUME B!TypeOK, B!BufferFraming, TypeInv, HearInv, PostInv, SnapInv, ProxiesInv,
           [Next]_vars
    PROVE  NoneAdded("span")
<1> USE DEF batchVars, channelVars, serverVars, logVars, agentVars
<1>1. CASE Aside
  BY <1>1, SameLines DEF Aside
<1>2. CASE (\E r \in ReqIDs : AgentSends(r)) \/ DeliverLog
  BY <1>2, SameLines DEF AgentSends, DeliverLog, LogHandlerControl
<1>3. ASSUME NEW r \in ReqIDs, AgentInit(r) PROVE NoneAdded("span")
  <2>1. PICK w \in BOOLEAN : B!OnAgentInit(r, r, w)
    BY <1>3 DEF AgentInit
  <2> QED
    BY <1>3, <2>1, AgentInitLines DEF AgentInit
<1>4. CASE \/ \E p \in {0} \cup Events : Takes(p) \/ ChecksSize(p)
           \/ \E e \in Events : LogsForward(e)
           \/ ReceiveInvoke
  <2>1. UNCHANGED << buf, received >>
    BY <1>4 DEF Takes, ChecksSize, LogsForward, ReceiveInvoke, B!RegisterInvocation,
                B!bufferVars
  <2> QED
    BY <2>1, SameLines
<1>5. ASSUME NEW p \in {0} \cup Events, Handles(p) PROVE NoneAdded("span")
  <2>1. held[p] \in LogEvent /\ HandleLog(held[p])
    BY <1>5, HeldTypes DEF Handles, TypeInv
  <2>2. received' = received
    BY <1>5 DEF Handles
  <2> QED
    BY <2>1, <2>2, HandleLogAddsProxies
<1>6. ASSUME NEW s \in Senders, ReceiveAgentData(s) PROVE NoneAdded("span")
  <2>1. Head(AgentDataChannel) \in {AgentBody(r) : r \in ReqIDs}
    BY <1>6, HeadTailProperties DEF ReceiveAgentData, TypeInv, ChannelInv
  <2>2. PICK r \in ReqIDs : B!AddAgentData(AgentBody(r))
    BY <1>6, <2>1 DEF ReceiveAgentData
  <2> QED
    BY <1>6, <2>2, AgentDataLines DEF ReceiveAgentData
<1>7. ASSUME NEW line \in B!LambdaEvent, B!AddLambdaData(line), received' = received
      PROVE  NoneAdded("span")
  <2>1. line.kind # "span"
    BY DEF B!LambdaEvent
  <2> QED
    BY <1>7, <2>1, LambdaDataLines
<1>8. ASSUME NEW s \in Senders, ReceiveLambdaData(s) PROVE NoneAdded("span")
  <2>1. Head(LambdaDataChannel) \in B!LambdaEvent
    BY <1>8, HeadTailProperties DEF ReceiveLambdaData, TypeInv, ChannelInv
  <2> QED
    BY <1>7, <1>8, <2>1 DEF ReceiveLambdaData
<1>9. CASE FlushForwardLog
  BY <1>7, <1>9, HeldTypes DEF FlushForwardLog, TypeInv
<1>10. CASE \E s \in Senders, result \in PostResults : PostReturns(s, result)
  BY <1>10, PostLines
<1>11. CASE FinalizeAll
  BY <1>11, ShutdownLines DEF FinalizeAll, LocalStep, ProxiesInv
<1> QED
  BY <1>1, <1>2, <1>3, <1>4, <1>5, <1>6, <1>8, <1>9, <1>10, <1>11, AsideOrMoves
     DEF Moves

LEMMA KindsInvariance == Spec => []KindsInv
<1>1. Init => KindsInv
  BY DEF Init, B!Init, KindsInv, Carried, ToSet
<1>2. /\ B!TypeOK /\ B!BufferFraming /\ TypeInv /\ HearInv /\ PostInv /\ SnapInv
      /\ ProxiesInv /\ KindsInv /\ [Next]_vars
      => KindsInv'
  BY KindsStep DEF KindsInv, NoneAdded
<1> QED
  BY <1>1, <1>2, BatchInvariants, TypeInvariance, HearInvariance, PostInvariance,
     SnapInvariance, ProxiesInvariance, PTL DEF Spec

\* No transaction and no proxy is shipped twice, whatever the Logs API posts again
\* and whatever the agents register: a transaction is sent once and no slip of the
\* batch or of a sender doubles it; the proxy of an invocation is added by the step
\* that settles it, and what has been settled is filed again without a transaction
\* (accumulator/batch.go, finalizeInvocation; apmproxy/apmserver.go, sendBatch).
THEOREM TransactionsShippedOnce ==
    Spec => [](Once("transaction") /\ Once("proxy"))
<1>1. TxnsInv /\ ProxiesInv => Once("transaction") /\ Once("proxy")
  BY DEF TxnsInv, ProxiesInv
<1> QED
  BY <1>1, TxnsInvariance, ProxiesInvariance, PTL

\* Nor are the metrics of a request, unless its agent may register it after its
\* report has been handled, which takes a platform.report that precedes the call of
\* Next: then the invocation is filed again, and the report of a batch of log events
\* that is posted again finds it (logsapi/event.go, accumulator/batch.go,
\* OnPlatformReport).
THEOREM NothingShippedTwice ==
    Spec => []((earlyReport => Registrations = {}) => ShippedOnce)
<1>1. ASSUME B!TypeOK, B!BufferFraming, TxnsInv, ProxiesInv, MetricsInv, KindsInv
      PROVE  ShippedOnce
  <2> SUFFICES ASSUME NEW i \in metadataBytes + 1 .. Len(buf), buf[i].kind # "log"
               PROVE  buf[i] \notin received /\ \A j \in 1..i - 1 : buf[j] # buf[i]
    BY DEF ShippedOnce
  <2>1. i \in 1..Len(buf) /\ ~(i <= metadataBytes) /\ Len(buf) \in Nat
    BY <1>1, LenProperties DEF B!TypeOK
  <2>2. buf[i] \in B!EventLine
    BY <1>1, <2>1 DEF B!TypeOK, B!BufferFraming, B!Line
  <2>3. buf[i].kind \in {"transaction", "proxy", "metrics"}
    <3>1. buf[i].kind # "span"
      BY <1>1, <2>1 DEF KindsInv, Carried, ToSet
    <3> QED
      BY <2>2, <3>1 DEF B!EventLine, B!EventKinds
  <2>4. Once("transaction") /\ Once("proxy") /\ Once("metrics")
    BY <1>1 DEF TxnsInv, ProxiesInv, MetricsInv
  <2> QED
    BY <2>1, <2>3, <2>4 DEF Once
<1> QED
  BY <1>1, BatchInvariants, TxnsInvariance, ProxiesInvariance, MetricsInvariance,
     KindsInvariance, PTL
=============================================================================
