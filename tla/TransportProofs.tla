--------------------------- MODULE TransportProofs ---------------------------
(***************************************************************************)
(* The transport used as the application uses it, by one sender at a time, *)
(* proved for every set of senders and any number of failures in a row.    *)
(***************************************************************************)
EXTENDS Transport, TLAPS

\* One sender at a time is between its POST and the update of the status.
SingleSender ==
    \A s, q \in Senders : pc[s] # "idle" /\ pc[q] # "idle" => s = q

\* What a sender found under the read lock still holds when it takes the write
\* lock: nobody but the sender itself changes the status in between.
ComparisonHolds ==
    \A s \in Senders :
        pc[s] = "updating" => target[s] \notin {"none", Status}

IInv ==
    /\ TypeOK
    /\ OneGracePerBackoff
    /\ BackoffIsQuiet
    /\ LockIsReleased
    /\ HealthyHasNoFailures
    /\ SingleSender
    /\ ComparisonHolds

-----------------------------------------------------------------------------
\* The initial transport satisfies the invariant.
LEMMA InitIInv == Init => IInv
BY DEF Init, IInv, TypeOK, OneGracePerBackoff, BackoffIsQuiet, LockIsReleased,
       HealthyHasNoFailures, SingleSender, ComparisonHolds, IsUnhealthy, Statuses

\* PostToApmServer asks for a status it knows, or for none.
LEMMA StatusForType ==
    \A r \in Responses : StatusFor[r] \in (Statuses \ {"Started"}) \cup {"none"}
BY DEF StatusFor, Responses, Statuses

\* A grace period is a natural number.
LEMMA GracePeriodType ==
    ASSUME NEW n \in Nat, NEW g \in GracePeriods(n) PROVE g \in Nat
<1>. DEFINE capped == IF n > 6 THEN 6 ELSE n
<1>1. capped \in 0..6
  OBVIOUS
<1>2. ASSUME NEW c \in 0..6 PROVE 90 * c * c \in Nat /\ 110 * c * c \in Nat
  <2>1. c = 0 \/ c = 1 \/ c = 2 \/ c = 3 \/ c = 4 \/ c = 5 \/ c = 6
    OBVIOUS
  <2>. QED BY <2>1
<1>3. 90 * capped * capped \in Nat /\ 110 * capped * capped \in Nat
  <2>. HIDE DEF capped
  <2>. QED BY <1>1, <1>2
<1>. QED BY <1>3 DEF GracePeriods

\* Every step of the transport preserves the invariant.
LEMMA NextKeepsIInv ==
    ASSUME IInv, [Next]_vars PROVE IInv'
<1>. USE DEF IInv, TypeOK, OneGracePerBackoff, BackoffIsQuiet, LockIsReleased,
             HealthyHasNoFailures, SingleSender, ComparisonHolds, IsUnhealthy
<1>1. ASSUME NEW s \in Senders, Alone(s), Post(s) PROVE IInv'
  BY <1>1 DEF Alone, Post
<1>2. ASSUME NEW s \in Senders, NEW r \in Responses, Respond(s, r) PROVE IInv'
  BY <1>2, StatusForType DEF Respond
<1>3. ASSUME NEW s \in Senders, SetHealthy(s) PROVE IInv'
  BY <1>3 DEF SetHealthy, Updating, Statuses
<1>4. ASSUME NEW s \in Senders, SetTemporary(s) PROVE IInv'
  BY <1>4 DEF SetTemporary, Updating, Statuses
<1>5. ASSUME NEW s \in Senders, SetFailing(s) PROVE IInv'
  <2>1. ReconnectionCount' \in Nat
    BY <1>5 DEF SetFailing
  <2>2. gracePeriod' \in Nat
    BY <1>5, <2>1, GracePeriodType DEF SetFailing
  <2>3. \A q \in Senders : pc'[q] = "idle"
    BY <1>5 DEF SetFailing, Updating
  <2>4. graces' = 1
    BY <1>5 DEF SetFailing, Updating
  <2>5. TypeOK'
    BY <1>5, <2>1, <2>2, <2>4 DEF SetFailing, Updating, Statuses
  <2>. QED BY <1>5, <2>3, <2>4, <2>5 DEF SetFailing, Updating
<1>6. ASSUME GraceOver PROVE IInv'
  BY <1>6 DEF GraceOver, Statuses
<1>7. ASSUME UNCHANGED vars PROVE IInv'
  BY <1>7 DEF vars
<1>. QED
  BY <1>1, <1>2, <1>3, <1>4, <1>5, <1>6, <1>7 DEF Next, Finish

\* The invariant holds as long as the transport is used by one sender at a time.
LEMMA Invariance == Spec => []IInv
<1>1. IInv /\ [Next]_vars => IInv'
  BY NextKeepsIInv
<1>. QED BY <1>1, InitIInv, PTL DEF Spec

-----------------------------------------------------------------------------
\* Every variable of the transport keeps its type.
THEOREM TypeCorrect == Spec => []TypeOK
<1>1. IInv => TypeOK
  BY DEF IInv
<1>. QED BY <1>1, Invariance, PTL

\* A backoff has exactly one grace goroutine, and nothing else has one.
THEOREM GraceCorrect == Spec => []OneGracePerBackoff
<1>1. IInv => OneGracePerBackoff
  BY DEF IInv
<1>. QED BY <1>1, Invariance, PTL

\* During a backoff no request is under way.
THEOREM QuietCorrect == Spec => []BackoffIsQuiet
<1>1. IInv => BackoffIsQuiet
  BY DEF IInv
<1>. QED BY <1>1, Invariance, PTL

\* A single sender never takes the path of UpdateStatus that keeps the lock.
THEOREM LockCorrect == Spec => []LockIsReleased
<1>1. IInv => LockIsReleased
  BY DEF IInv
<1>. QED BY <1>1, Invariance, PTL

\* A healthy transport has forgotten its failures.
THEOREM FailuresForgotten == Spec => []HealthyHasNoFailures
<1>1. IInv => HealthyHasNoFailures
  BY DEF IInv
<1>. QED BY <1>1, Invariance, PTL

-----------------------------------------------------------------------------
\* The initial transport admits requests and knows of no failure.
LEMMA InitImplements == Init => Promise!Init
BY DEF Init, Promise!Init, IsUnhealthy

\* Every step of the transport is a step of the backoff it promises, or changes
\* nothing that the promise speaks of.
LEMMA NextImplements ==
    ASSUME IInv, [Next]_vars PROVE [Promise!Next]_(Promise!vars)
<1>. USE DEF IInv, TypeOK, OneGracePerBackoff, BackoffIsQuiet, LockIsReleased,
             ComparisonHolds, IsUnhealthy, Promise!vars
<1>1. ASSUME NEW s \in Senders, Post(s) PROVE UNCHANGED Promise!vars
  BY <1>1 DEF Post
<1>2. ASSUME NEW s \in Senders, NEW r \in Responses, Respond(s, r)
      PROVE  UNCHANGED Promise!vars
  BY <1>2 DEF Respond
<1>3. ASSUME NEW s \in Senders, SetHealthy(s) PROVE Promise!Succeed
  BY <1>3 DEF SetHealthy, Updating, Promise!Succeed
<1>4. ASSUME NEW s \in Senders, SetTemporary(s) PROVE UNCHANGED Promise!vars
  BY <1>4 DEF SetTemporary, Updating
<1>5. ASSUME NEW s \in Senders, SetFailing(s) PROVE Promise!Fail
  <2>1. ~IsUnhealthy
    BY <1>5 DEF SetFailing, Updating
  <2>2. IsUnhealthy' /\ ReconnectionCount' = ReconnectionCount + 1
    BY <1>5 DEF SetFailing
  <2>. QED BY <2>1, <2>2 DEF Promise!Fail
<1>6. ASSUME GraceOver PROVE Promise!Readmit
  BY <1>6 DEF GraceOver, Promise!Readmit
<1>7. ASSUME UNCHANGED vars PROVE UNCHANGED Promise!vars
  BY <1>7 DEF vars
<1>. QED
  BY <1>1, <1>2, <1>3, <1>4, <1>5, <1>6, <1>7
     DEF Next, Finish, Promise!Next

\* The steps of the transport implement those of the backoff that the comment
\* of UpdateStatus describes.
THEOREM StepsImplementBackoff ==
    Spec => Promise!Init /\ [][Promise!Next]_(Promise!vars)
<1>1. IInv /\ [Next]_vars => [Promise!Next]_(Promise!vars)
  BY NextImplements
<1>. QED BY <1>1, InitImplements, Invariance, PTL DEF Spec

-----------------------------------------------------------------------------
\* Senders at the same time: a backoff still has a grace goroutine to end it, as
\* SetFailing starts one in the same locked section and only GraceOver ends one.
THEOREM GraceForEveryBackoff == ConcurrentSpec => []BackoffHasGrace
<1>. DEFINE Inv == graces \in Nat /\ BackoffHasGrace
<1>1. Init => Inv
  BY DEF Init, BackoffHasGrace, IsUnhealthy
<1>2. ASSUME Inv, [ConcurrentNext]_vars PROVE Inv'
  <2>1. CASE UNCHANGED vars
    BY <1>2, <2>1 DEF vars, BackoffHasGrace, IsUnhealthy
  <2>2. ASSUME NEW s \in Senders, Post(s) PROVE Inv'
    BY <1>2, <2>2 DEF Post, BackoffHasGrace, IsUnhealthy
  <2>3. ASSUME NEW s \in Senders, NEW r \in Responses, Respond(s, r) PROVE Inv'
    BY <1>2, <2>3 DEF Respond, BackoffHasGrace, IsUnhealthy
  <2>4. ASSUME NEW s \in Senders, SetHealthy(s) PROVE Inv'
    BY <1>2, <2>4 DEF SetHealthy, BackoffHasGrace, IsUnhealthy
  <2>5. ASSUME NEW s \in Senders, SetTemporary(s) PROVE Inv'
    BY <1>2, <2>5 DEF SetTemporary, BackoffHasGrace, IsUnhealthy
  <2>6. ASSUME NEW s \in Senders, SetFailing(s) PROVE Inv'
    BY <1>2, <2>6 DEF SetFailing, BackoffHasGrace, IsUnhealthy
  <2>7. CASE GraceOver
    BY <1>2, <2>7 DEF GraceOver, BackoffHasGrace, IsUnhealthy
  <2>. QED
    BY <1>2, <2>1, <2>2, <2>3, <2>4, <2>5, <2>6, <2>7 DEF ConcurrentNext, Finish
<1>. QED BY <1>1, <1>2, PTL DEF ConcurrentSpec

-----------------------------------------------------------------------------
\* The grace period is one that ComputeGracePeriod yields for the failures since
\* the last success, which the success forgets.
GraceInv ==
    /\ ReconnectionCount \in Nat \cup {-1}
    /\ ReconnectionCount >= 0 => gracePeriod \in GracePeriods(ReconnectionCount)

LEMMA NextKeepsGraceInv ==
    ASSUME GraceInv, [Next]_vars
    PROVE  /\ GraceInv'
           /\ ReconnectionCount' \in (2..6) \cap {ReconnectionCount + 1} /\ ~UNCHANGED vars
                 => gracePeriod' > gracePeriod
<1>1. CASE UNCHANGED vars
  BY <1>1 DEF vars, GraceInv
<1>2. ASSUME UNCHANGED << ReconnectionCount, gracePeriod >>
      PROVE  GraceInv' /\ ReconnectionCount' # ReconnectionCount + 1
  BY <1>2 DEF GraceInv
<1>3. ASSUME NEW s \in Senders, SetFailing(s)
      PROVE  /\ GraceInv'
             /\ ReconnectionCount' \in 2..6 => gracePeriod' > gracePeriod
  <2>1. GraceInv'
    BY <1>3 DEF SetFailing, GraceInv
  <2>2. ASSUME ReconnectionCount' \in 2..6 PROVE gracePeriod' > gracePeriod
    <3>1. /\ ReconnectionCount \in 1..5
          /\ gracePeriod \in GracePeriods(ReconnectionCount)
          /\ gracePeriod' \in GracePeriods(ReconnectionCount + 1)
      BY <1>3, <2>2 DEF SetFailing, GraceInv
    <3>2. /\ GracePeriods(1) = {90, 110} /\ GracePeriods(2) = {360, 440}
          /\ GracePeriods(3) = {810, 990} /\ GracePeriods(4) = {1440, 1760}
          /\ GracePeriods(5) = {2250, 2750} /\ GracePeriods(6) = {3240, 3960}
      BY DEF GracePeriods
    <3>. QED BY <3>1, <3>2
  <2>. QED BY <2>1, <2>2
<1>4. ASSUME NEW s \in Senders, SetHealthy(s)
      PROVE  GraceInv' /\ ReconnectionCount' \notin (2..6) \cap {ReconnectionCount + 1}
  BY <1>4 DEF SetHealthy, GraceInv
<1>. QED
  BY <1>1, <1>2, <1>3, <1>4
     DEF Next, Finish, Post, Respond, SetTemporary, GraceOver

\* From the second failure in a row on the grace periods increase.
THEOREM GraceIsIncreasing == Spec => GraceIncreases
<1>1. Init => GraceInv
  BY DEF Init, GraceInv
<1>2. GraceInv /\ [Next]_vars => GraceInv'
  BY NextKeepsGraceInv
<1>3. GraceInv /\ [Next]_vars =>
        [ ReconnectionCount' \in (2..6) \cap {ReconnectionCount + 1}
            => gracePeriod' > gracePeriod ]_vars
  BY NextKeepsGraceInv
<1>. QED BY <1>1, <1>2, <1>3, PTL DEF Spec, GraceIncreases

=============================================================================
