---------------------------- MODULE LedgerProofs ----------------------------
(***************************************************************************)
(* Every step of the extension is a step of the ledger or leaves it alone. *)
(* Only a sender's receive moves a body into the batch, and only the end   *)
(* of a POST takes it out: with all bodies that the payload carried, as    *)
(* nothing but proxies has been added since the POST began.                *)
(***************************************************************************)
EXTENDS ShippingProofs

-----------------------------------------------------------------------------
\* A step that only adds lines to the batch, none of them a transaction.
LEMMA SameBodies ==
    ASSUME B!TypeOK, B!TypeOK', TxnsInv', Growth, NoneAdded("transaction"),
           received' = received
    PROVE  BodiesIn(ToSet(buf))' = BodiesIn(ToSet(buf))
<1>1. Len(buf) \in Nat /\ Len(buf') \in Nat
  BY LenProperties DEF B!TypeOK
<1>2. \A r \in ReqIDs : B!AgentTxn(r) \in ToSet(buf) => B!AgentTxn(r) \in ToSet(buf')
  BY <1>1 DEF Growth, ToSet
<1>3. ASSUME NEW r \in ReqIDs, B!AgentTxn(r) \in ToSet(buf') PROVE B!AgentTxn(r) \in ToSet(buf)
  <2>1. B!AgentTxn(r).kind = "transaction"
    BY OwnLines
  <2>2. PICK i \in 1..Len(buf') : buf'[i] = B!AgentTxn(r)
    BY <1>1, <1>3 DEF ToSet, B!TypeOK
  <2>3. B!AgentTxn(r) \notin received'
    BY <2>1, <2>2 DEF TxnsInv, Once
  <2>4. B!AgentTxn(r) \in Carried
    BY <1>3, <2>1 DEF NoneAdded, Carried
  <2> QED
    BY <2>3, <2>4 DEF Carried
<1>4. \A r : B!AgentTxn(r)' = B!AgentTxn(r) /\ AgentBody(r)' = AgentBody(r)
  BY DEF B!AgentTxn, AgentBody
<1> QED
  BY <1>2, <1>3, <1>4 DEF BodiesIn

LEMMA SameLedger ==
    ASSUME UNCHANGED << AgentDataChannel, received, outages >>,
           BodiesIn(ToSet(buf))' = BodiesIn(ToSet(buf)),
           \A r \in ReqIDs : Sent(r)' <=> Sent(r)
    PROVE  UNCHANGED L!vars
<1>1. \A r : B!AgentTxn(r)' = B!AgentTxn(r) /\ AgentBody(r)' = AgentBody(r)
  BY DEF B!AgentTxn, AgentBody
<1>2. BodiesSent' = BodiesSent
  BY <1>1 DEF BodiesSent, Sent
<1>3. BodiesIn(received)' = BodiesIn(received)
  BY <1>1 DEF BodiesIn
<1> QED
  BY <1>2, <1>3 DEF L!vars

-----------------------------------------------------------------------------
\* The steps of the ledger.

\* The handler of the agent's data.
LEMMA SendsToLedger ==
    ASSUME HearInv, NEW r \in ReqIDs, AgentSends(r)
    PROVE  L!Send(AgentBody(r))
<1>1. UNCHANGED << buf, received, outages >>
  BY DEF AgentSends, batchVars, serverVars
<1>2. /\ ~Sent(r) /\ Sent(r)'
      /\ \A q \in ReqIDs : q # r => (Sent(q)' <=> Sent(q))
  BY DEF AgentSends, Sent, HearInv
<1>3. \A q : B!AgentTxn(q)' = B!AgentTxn(q) /\ AgentBody(q)' = AgentBody(q)
  BY DEF B!AgentTxn, AgentBody
<1>4. AgentBody(r) \notin BodiesSent
  BY <1>2, OwnLines DEF BodiesSent, Sent
<1>5. BodiesSent' = BodiesSent \cup {AgentBody(r)}
  BY <1>2, <1>3 DEF BodiesSent, Sent
<1>6. BodiesIn(received)' = BodiesIn(received)
      /\ BodiesIn(ToSet(buf))' = BodiesIn(ToSet(buf))
  BY <1>1, <1>3 DEF BodiesIn
<1>7. AgentDataChannel' = IF Len(AgentDataChannel) < AgentCap
                          THEN Append(AgentDataChannel, AgentBody(r))
                          ELSE AgentDataChannel
  BY DEF AgentSends, RoomForAgentData
<1> QED
  BY <1>1, <1>4, <1>5, <1>6, <1>7 DEF L!Send

\* The receive of a sender, and AddAgentData.
LEMMA TakesFromLedger ==
    ASSUME B!TypeOK, B!TypeOK', B!BufferFraming, TypeInv, TxnsInv', outages' = outages,
           NEW s \in Senders, ReceiveAgentData(s)
    PROVE  L!Take
<1>1. /\ AgentDataChannel # << >> /\ AgentDataChannel' = Tail(AgentDataChannel)
      /\ UNCHANGED << received, agent >>
  BY DEF ReceiveAgentData, serverVars, agentVars
<1>2. PICK r \in ReqIDs : Head(AgentDataChannel) = AgentBody(r)
  BY HeadTailProperties DEF ReceiveAgentData, TypeInv, ChannelInv
<1>3. B!AddAgentData(AgentBody(r))
  BY <1>2 DEF ReceiveAgentData
<1>4. Growth
  BY <1>3, SenderGrows
<1>5. \A line \in Carried' :
         line.kind = "transaction" => line \in Carried \cup {B!AgentTxn(r)}
  BY <1>1, <1>3, AgentDataLines
<1>6. Len(buf) \in Nat /\ Len(buf') \in Nat
  BY LenProperties DEF B!TypeOK
<1>7. \A q \in ReqIDs : B!AgentTxn(q) \in ToSet(buf) => B!AgentTxn(q) \in ToSet(buf')
  BY <1>4, <1>6 DEF Growth, ToSet
<1>8. ASSUME NEW q \in ReqIDs, B!AgentTxn(q) \in ToSet(buf')
      PROVE  B!AgentTxn(q) \in ToSet(buf) \/ q = r
  <2>1. B!AgentTxn(q).kind = "transaction"
    BY OwnLines
  <2>2. PICK i \in 1..Len(buf') : buf'[i] = B!AgentTxn(q)
    BY <1>6, <1>8 DEF ToSet, B!TypeOK
  <2>3. B!AgentTxn(q) \notin received'
    BY <2>1, <2>2 DEF TxnsInv, Once
  <2>4. B!AgentTxn(q) \in Carried \cup {B!AgentTxn(r)}
    BY <1>5, <1>8, <2>1 DEF Carried
  <2> QED
    BY <1>1, <2>3, <2>4, OwnLines DEF Carried
<1>9. \A q : B!AgentTxn(q)' = B!AgentTxn(q) /\ AgentBody(q)' = AgentBody(q)
  BY DEF B!AgentTxn, AgentBody
<1>10. BodiesIn(ToSet(buf))' \in {BodiesIn(ToSet(buf)),
                                  BodiesIn(ToSet(buf)) \cup {AgentBody(r)}}
  <2>1. CASE B!AgentTxn(r) \in ToSet(buf')
    <3>1. BodiesIn(ToSet(buf))' = BodiesIn(ToSet(buf)) \cup {AgentBody(r)}
      BY <1>7, <1>8, <1>9, <2>1 DEF BodiesIn
    <3> QED
      BY <3>1
  <2>2. CASE B!AgentTxn(r) \notin ToSet(buf')
    <3>1. BodiesIn(ToSet(buf))' = BodiesIn(ToSet(buf))
      BY <1>7, <1>8, <1>9, <2>2 DEF BodiesIn
    <3> QED
      BY <3>1
  <2> QED
    BY <2>1, <2>2
<1>11. BodiesSent' = BodiesSent /\ BodiesIn(received)' = BodiesIn(received)
  BY <1>1, <1>9 DEF BodiesSent, BodiesIn
<1> QED
  BY <1>1, <1>2, <1>10, <1>11 DEF L!Take

\* The end of a POST, with the Reset after it.
LEMMA PostsFromLedger ==
    ASSUME B!TypeOK, B!TypeOK', B!BufferFraming, B!BufferFraming', PostInv, PostInv',
           SnapInv, NEW s \in Senders, NEW result \in PostResults, PostReturns(s, result)
    PROVE  L!Post
<1>1. /\ UNCHANGED << AgentDataChannel, agent >>
      /\ received' = received \cup (IF result \in Arrives THEN ToSet(snap) ELSE {})
      /\ outages' = outages + (IF result \in {"refused", "accepted"} THEN 0 ELSE 1)
      /\ result = "refused" <=> failing
      /\ B!Reset
  BY DEF PostReturns, channelVars, agentVars, ResetAfter
<1>2. Len(buf) \in Nat /\ buf \in Seq(B!Line) /\ outages \in Nat
  BY LenProperties DEF B!TypeOK, PostInv
<1>3. \A q : B!AgentTxn(q)' = B!AgentTxn(q) /\ AgentBody(q)' = AgentBody(q)
  BY DEF B!AgentTxn, AgentBody
<1>4. BodiesIn(ToSet(buf))' = {}
  <2> SUFFICES ASSUME NEW r \in ReqIDs, B!AgentTxn(r) \in ToSet(buf') PROVE FALSE
    BY <1>3 DEF BodiesIn
  <2>1. PICK i \in 1..Len(buf') : buf'[i] = B!AgentTxn(r)
    BY DEF ToSet, B!TypeOK
  <2>2. /\ metadataBytes' \in {0, 1} /\ count' = 0
        /\ Len(buf') = metadataBytes' + count'
        /\ buf'[i] = B!MetadataLine' <=> i <= metadataBytes'
    BY <1>1 DEF B!Reset, B!TypeOK, B!BufferFraming
  <2>3. buf'[i] = B!MetadataLine
    BY <2>1, <2>2 DEF B!MetadataLine
  <2> QED
    BY <2>1, <2>3 DEF B!MetadataLine, B!AgentTxn
<1>5. \A r \in ReqIDs : B!AgentTxn(r) \in ToSet(snap) <=> B!AgentTxn(r) \in ToSet(buf)
  <2>1. /\ Len(snap) \in 0..Len(buf)
        /\ \A i \in 1..Len(snap) : buf[i] = snap[i]
        /\ \A i \in Len(snap) + 1 .. Len(buf) : buf[i].kind = "proxy"
    BY DEF PostReturns, PostInv
  <2>2. /\ ToSet(snap) = {snap[i] : i \in 1..Len(snap)}
        /\ ToSet(buf) = {buf[i] : i \in 1..Len(buf)}
    BY <1>2 DEF ToSet, SnapInv
  <2>3. ASSUME NEW r \in ReqIDs, B!AgentTxn(r) \in ToSet(buf)
        PROVE  B!AgentTxn(r) \in ToSet(snap)
    <3>1. PICK i \in 1..Len(buf) : buf[i] = B!AgentTxn(r)
      BY <2>2, <2>3
    <3>2. ~(i \in Len(snap) + 1 .. Len(buf))
      BY <2>1, <3>1, OwnLines
    <3>3. i \in 1..Len(snap)
      BY <1>2, <2>1, <3>2
    <3> QED
      BY <2>1, <2>2, <3>1, <3>3
  <2>4. ToSet(snap) \subseteq ToSet(buf)
    BY <1>2, <2>1, <2>2
  <2> QED
    BY <2>3, <2>4
<1>6. BodiesSent' = BodiesSent /\ outages' \in {outages, outages + 1}
  BY <1>1, <1>2, <1>3 DEF BodiesSent
<1>7. CASE result \in Arrives
  <2>1. BodiesIn(received)' = BodiesIn(received) \cup BodiesIn(ToSet(buf))
    BY <1>1, <1>3, <1>5, <1>7 DEF BodiesIn
  <2> QED
    BY <1>1, <1>4, <1>6, <2>1 DEF L!Post
<1>8. CASE result \notin Arrives
  <2>1. BodiesIn(received)' = BodiesIn(received)
    BY <1>1, <1>3, <1>8 DEF BodiesIn
  <2>2. outages' > 0
    BY <1>1, <1>2, <1>8 DEF PostInv, PostResults, Arrives
  <2> QED
    BY <1>1, <1>4, <1>6, <2>1, <2>2 DEF L!Post
<1> QED
  BY <1>7, <1>8

-----------------------------------------------------------------------------
LEMMA LedgerStep ==
    ASSUME B!TypeOK, B!TypeOK', B!BufferFraming, B!BufferFraming', TypeInv, HearInv,
           TurnsInv, PostInv, PostInv', SnapInv, ProxiesInv, TxnsInv', [Next]_vars
    PROVE  [L!Next]_(L!vars)
<1> USE DEF batchVars, channelVars, serverVars, logVars, agentVars
<1>1. ASSUME NEW s \in Senders, NEW result \in PostResults, PostReturns(s, result)
      PROVE  L!Next
  BY <1>1, PostsFromLedger DEF L!Next
<1>2. ASSUME ~ \E s \in Senders, result \in PostResults : PostReturns(s, result)
      PROVE  [L!Next]_(L!vars)
  <2>1. outages' = outages
    BY <1>2, PostFrame DEF Ship, NoPost
  <2>2. Growth
    <3>1. buf' = buf => Growth
      BY SameBuffer DEF B!TypeOK, ProxyGrowth
    <3> QED
      BY <1>2, <3>1, CallsGrow, NextSplits, QuietIsQuiet DEF vars
  <2>3. ASSUME UNCHANGED << AgentDataChannel, received >>, NoneAdded("transaction"),
               \A r \in ReqIDs : Sent(r)' <=> Sent(r)
        PROVE  UNCHANGED L!vars
    <3>1. received' = received
      BY <2>3
    <3>2. BodiesIn(ToSet(buf))' = BodiesIn(ToSet(buf))
      BY <2>2, <2>3, <3>1, SameBodies
    <3> QED
      BY <2>1, <2>3, <3>2, SameLedger
  <2>4. UNCHANGED agent => \A r \in ReqIDs : Sent(r)' <=> Sent(r)
    BY DEF Sent
  <2>5. ASSUME UNCHANGED << buf, received, agent, AgentDataChannel >>
        PROVE  UNCHANGED L!vars
    BY <2>3, <2>4, <2>5, SameLines
  <2>6. ASSUME NEW line \in B!LambdaEvent, B!AddLambdaData(line),
               UNCHANGED << agent, received, AgentDataChannel >>
        PROVE  UNCHANGED L!vars
    <3>1. line.kind # "transaction" /\ received' = received
      BY <2>6 DEF B!LambdaEvent
    <3>2. NoneAdded("transaction")
      BY <2>6, <3>1, LambdaDataLines
    <3> QED
      BY <2>3, <2>4, <2>6, <3>2
  <2>7. CASE Aside
    BY <2>3, <2>7, SameLines DEF Aside
  <2>8. CASE \E r \in ReqIDs : AgentSends(r)
    <3>1. PICK r \in ReqIDs : AgentSends(r)
      BY <2>8
    <3>2. L!Send(AgentBody(r))
      BY <3>1, SendsToLedger
    <3> QED
      BY <3>2 DEF L!Next
  <2>9. ASSUME NEW r \in ReqIDs, AgentInit(r) PROVE UNCHANGED L!vars
    <3>1. PICK w \in BOOLEAN : B!OnAgentInit(r, r, w)
      BY <2>9 DEF AgentInit
    <3>2. UNCHANGED << AgentDataChannel, received >>
      BY <2>9 DEF AgentInit
    <3>3. NoneAdded("transaction")
      BY <3>1, <3>2, AgentInitLines
    <3>4. \A q \in ReqIDs : Sent(q)' <=> Sent(q)
      BY <2>9 DEF AgentInit, Sent, HearInv
    <3> QED
      BY <2>3, <3>2, <3>3, <3>4
  <2>10. CASE \/ DeliverLog \/ (\E e \in Events : LogsForward(e))
              \/ (\E p \in {0} \cup Events : Takes(p) \/ ChecksSize(p))
              \/ ReceiveInvoke
    BY <2>5, <2>10 DEF DeliverLog, LogHandlerControl, LogsForward, Takes, ChecksSize,
                       ReceiveInvoke, B!RegisterInvocation, B!bufferVars
  <2>11. ASSUME NEW p \in {0} \cup Events, Handles(p) PROVE UNCHANGED L!vars
    <3>1. held[p] \in LogEvent /\ HandleLog(held[p])
      BY <2>11, HeldTypes DEF Handles, TypeInv
    <3>2. UNCHANGED << agent, received, AgentDataChannel >>
      BY <2>11 DEF Handles
    <3>3. received' = received
      BY <3>2
    <3>4. NoneAdded("transaction")
      BY <3>1, <3>3, HandleLogAddsProxies
    <3> QED
      BY <2>3, <2>4, <3>2, <3>4
  <2>12. ASSUME NEW s \in Senders, ReceiveAgentData(s) PROVE L!Next
    BY <2>1, <2>12, TakesFromLedger DEF L!Next
  <2>13. ASSUME NEW s \in Senders, ReceiveLambdaData(s) PROVE UNCHANGED L!vars
    <3>1. Head(LambdaDataChannel) \in B!LambdaEvent
      BY <2>13, HeadTailProperties DEF ReceiveLambdaData, TypeInv, ChannelInv
    <3> QED
      BY <2>6, <2>13, <3>1 DEF ReceiveLambdaData
  <2>14. CASE FlushForwardLog
    BY <2>6, <2>14, HeldTypes DEF FlushForwardLog, TypeInv
  <2>15. CASE FinalizeAll
    <3>1. B!OnShutdown /\ UNCHANGED << received, agent, AgentDataChannel >>
      BY <2>15 DEF FinalizeAll, LocalStep
    <3>2. NoneAdded("transaction")
      BY <3>1, ShutdownLines DEF ProxiesInv
    <3> QED
      BY <2>3, <2>4, <3>1, <3>2
  <2> QED
    BY <1>2, <2>7, <2>8, <2>9, <2>10, <2>11, <2>12, <2>13, <2>14, <2>15, AsideOrMoves
       DEF Moves
<1> QED
  BY <1>1, <1>2

\* Whatever the interleaving of agents, log events, senders, failures and signals,
\* for any number of requests and any capacities, what becomes of a body is what the
\* ledger says (apmproxy/receiver.go and apmserver.go, accumulator/batch.go).
THEOREM LedgerIsImplemented == Spec => ImplementsLedger
<1>1. Init => L!Init
  <2> SUFFICES ASSUME Init PROVE L!Init
    OBVIOUS
  <2>1. /\ buf = << >> /\ received = {} /\ AgentDataChannel = << >> /\ outages = 0
        /\ \A r \in ReqIDs : agent[r] = "none"
    BY DEF Init, B!Init
  <2>2. ToSet(buf) = {}
    BY <2>1 DEF ToSet
  <2>3. BodiesSent = {} /\ BodiesIn(ToSet(buf)) = {} /\ BodiesIn(received) = {}
    BY <2>1, <2>2 DEF BodiesSent, BodiesIn
  <2> QED
    BY <2>1, <2>3 DEF L!Init
<1>2. /\ B!TypeOK /\ B!TypeOK' /\ B!BufferFraming /\ B!BufferFraming' /\ TypeInv
      /\ HearInv /\ TurnsInv /\ PostInv /\ PostInv' /\ SnapInv /\ ProxiesInv
      /\ TxnsInv' /\ [Next]_vars
      => [L!Next]_(L!vars)
  BY LedgerStep
<1> QED
  BY <1>1, <1>2, BatchInvariants, TypeInvariance, HearInvariance, TurnsInvariance,
     PostInvariance, SnapInvariance, ProxiesInvariance, TxnsInvariance, PTL
     DEF Spec, ImplementsLedger, L!Spec

\* What has been lost does not turn up again, neither from the channel nor from the
\* batch, nor at APM Server: nothing retries what it has given up.
THEOREM LostForGood == Spec => [][L!Lost \subseteq L!Lost']_(L!vars)
<1>1. ASSUME TypeInv, [L!Next]_(L!vars) PROVE [L!Lost \subseteq L!Lost']_(L!vars)
  <2> DEFINE Left == BodiesSent \ (ToSet(AgentDataChannel) \cup BodiesIn(ToSet(buf))
                                                \cup BodiesIn(received))
  <2>a. L!Lost = Left /\ L!Lost' = Left'
    BY DEF L!Lost, L!ToSet, ToSet
  <2> SUFFICES ASSUME L!Next PROVE Left \subseteq Left'
    BY <1>1, <2>a
  <2> SUFFICES ASSUME NEW m \in Left PROVE m \in Left'
    OBVIOUS
  <2>1. /\ m \in BodiesSent /\ m \notin ToSet(AgentDataChannel)
        /\ m \notin BodiesIn(ToSet(buf)) /\ m \notin BodiesIn(received)
    OBVIOUS
  <2>2. PICK S : S = {AgentBody(r) : r \in ReqIDs}
    OBVIOUS
  <2>3. AgentDataChannel \in Seq(S)
    BY <1>1, <2>2 DEF TypeInv, ChannelInv
  <2>4. ASSUME NEW n \in S, L!Send(n) PROVE m \in Left'
    <3>1. m # n /\ m \in BodiesSent'
      BY <2>1, <2>4 DEF L!Send
    <3>2. m \notin ToSet(AgentDataChannel')
      <4>1. CASE AgentDataChannel' = AgentDataChannel
        BY <2>1, <4>1
      <4>2. CASE AgentDataChannel' = Append(AgentDataChannel, n)
        BY <2>1, <2>3, <3>1, <4>2, AppendProperties DEF ToSet
      <4> QED
        BY <2>4, <4>1, <4>2 DEF L!Send
    <3> QED
      <4>1. UNCHANGED << BodiesIn(ToSet(buf)), BodiesIn(received) >>
        BY <2>4 DEF L!Send
      <4> QED
        BY <2>1, <3>1, <3>2, <4>1
  <2>5. CASE L!Take
    <3>1. m # Head(AgentDataChannel) /\ m \notin ToSet(Tail(AgentDataChannel))
      <4> DEFINE q == AgentDataChannel
      <4>1. q \in Seq(S) /\ q # << >>
        BY <2>3, <2>5 DEF L!Take
      <4> HIDE DEF q
      <4>2. /\ Len(q) \in Nat /\ Len(q) > 0 /\ Head(q) = q[1]
            /\ Len(Tail(q)) = Len(q) - 1
            /\ \A i \in 1..Len(Tail(q)) : Tail(q)[i] = q[i + 1]
        BY <4>1, HeadTailProperties, LenProperties, EmptySeq
      <4>3. \A i \in 1..Len(q) : m # q[i]
        BY <2>1 DEF ToSet, q
      <4>4. m # Head(q) /\ \A i \in 1..Len(Tail(q)) : m # Tail(q)[i]
        BY <4>2, <4>3
      <4> QED
        BY <4>4 DEF ToSet, q
    <3>2. m \notin BodiesIn(ToSet(buf))'
      BY <2>1, <2>5, <3>1 DEF L!Take
    <3> QED
      BY <2>1, <2>5, <3>1, <3>2 DEF L!Take
  <2>6. CASE L!Post
    BY <2>1, <2>6 DEF L!Post
  <2> QED
    BY <2>2, <2>4, <2>5, <2>6 DEF L!Next
<1> QED
  BY <1>1, TypeInvariance, LedgerIsImplemented, PTL DEF ImplementsLedger, L!Spec
=============================================================================
