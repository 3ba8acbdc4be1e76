------------------------ MODULE CircuitBreakerProofs ------------------------
(***************************************************************************)
(* Proofs about CircuitBreaker for all thresholds, intervals and bounds.   *)
(* The four invariants are inductive together: the state of the link is    *)
(* tied to active, and active to _connExc, by the same handlers.           *)
(***************************************************************************)
EXTENDS CircuitBreaker, TLAPS

IInv == TypeOK /\ BlockedHasNoLink /\ FailuresAmongCalls /\ ExcOnlyWhileBlocked

\* Constants are natural numbers, FrequenceFailInvoke is not 0.
LEMMA ConstantsNat ==
    /\ MinTimeoutInvoke \in Nat /\ CheckTimeoutInterval \in Nat
    /\ FrequenceFailInvoke \in Nat /\ MinFrequenceFailTime \in Nat
    /\ RadioPercent \in Nat /\ TryTimeInterval \in Nat
    /\ MaxConnectExc \in Nat /\ MaxCount \in Nat
    /\ FrequenceFailInvoke > 0 /\ MaxCount > 0
BY BreakerAssumption

\* The invariant in three parts: what outcomes count, what decides on the
\* use of the link, and the history.
CountsOK ==
    /\ total \in 0 .. MaxCount /\ failed \in 0 .. MaxCount /\ frequence \in 0 .. MaxCount
    /\ failLeft \in 0 .. MinFrequenceFailTime
    /\ checkLeft \in 0 .. CheckTimeoutInterval + 1
    /\ retryLeft \in 0 .. TryTimeInterval
    /\ connExcCnt \in 0 .. MaxConnectExc
    /\ failed <= total

LinkOK ==
    /\ active \in BOOLEAN /\ connExc \in BOOLEAN /\ connTimeout \in BOOLEAN
    /\ conn \in {"closed", "connecting", "connected"}
    /\ conn = "connected" => active
    /\ connExc => ~active

HistoryOK ==
    /\ streak \in 0 .. FrequenceFailInvoke
    /\ streakLeft \in 0 .. MinFrequenceFailTime

LEMMA IInvParts == IInv <=> CountsOK /\ LinkOK /\ HistoryOK
BY ConstantsNat DEF IInv, TypeOK, BlockedHasNoLink, FailuresAmongCalls, ExcOnlyWhileBlocked,
    CountsOK, LinkOK, HistoryOK

\* Everything starts unblocked, unconnected and at zero.
LEMMA InitIInv == Init => IInv
<1> SUFFICES ASSUME Init PROVE CountsOK /\ LinkOK /\ HistoryOK
  BY IInvParts
<1>1. CountsOK
  BY ConstantsNat DEF Init, CountsOK
<1>2. LinkOK
  BY ConstantsNat DEF Init, LinkOK
<1>3. HistoryOK
  BY ConstantsNat DEF Init, HistoryOK
<1> QED
  BY <1>1, <1>2, <1>3

\* setInactive leaves the adapter blocked and the link closed.
LEMMA SetInactiveLink ==
    ASSUME LinkOK, SetInactive, UNCHANGED <<excVars, connTimeout>>
    PROVE  LinkOK'
BY DEF SetInactive, LinkOK, excVars

\* A failure counted against an active adapter.
LEMMA CountFailureParts ==
    ASSUME CountsOK, LinkOK, CountFailure, total < MaxCount, frequence < MaxCount
    PROVE  CountsOK' /\ LinkOK'
<1> USE ConstantsNat
<1>1. frequence' \in 0 .. MaxCount /\ failLeft' \in 0 .. MinFrequenceFailTime
  BY DEF CountFailure, CountsOK
<1>2. checkLeft' \in 0 .. CheckTimeoutInterval + 1
  BY DEF CountFailure, CountsOK
<1>3. /\ total' \in 0 .. MaxCount /\ failed' \in 0 .. MaxCount
      /\ failed' <= total'
  BY DEF CountFailure, CountsOK
<1>4. retryLeft' \in 0 .. TryTimeInterval /\ connExcCnt' \in 0 .. MaxConnectExc
  BY DEF CountFailure, SetInactive, CountsOK, excVars
<1>5. LinkOK'
  <2>1. CASE SetInactive
    BY <2>1, SetInactiveLink DEF CountFailure
  <2>2. CASE UNCHANGED <<active, retryLeft, conn>>
    BY <2>2 DEF CountFailure, LinkOK, excVars
  <2> QED
    BY <2>1, <2>2 DEF CountFailure
<1> QED
  BY <1>1, <1>2, <1>3, <1>4, <1>5 DEF CountsOK

\* A success counted for an active adapter.
LEMMA CountSuccessParts ==
    ASSUME CountsOK, LinkOK, CountSuccess, total < MaxCount
    PROVE  CountsOK' /\ LinkOK'
<1> USE ConstantsNat
<1>1. CountsOK'
  BY DEF CountSuccess, CountsOK, excVars
<1>2. LinkOK'
  BY DEF CountSuccess, LinkOK, excVars
<1> QED
  BY <1>1, <1>2

\* A blocked adapter taken back by a success.
LEMMA RecoverParts ==
    ASSUME CountsOK, LinkOK, Recover
    PROVE  CountsOK' /\ LinkOK'
<1> USE ConstantsNat
<1>1. CountsOK'
  BY DEF Recover, CountsOK
<1>2. LinkOK'
  BY DEF Recover, LinkOK
<1> QED
  BY <1>1, <1>2

\* finishInvoke(bool) as a whole.
LEMMA FinishInvokeParts ==
    ASSUME NEW bFail \in BOOLEAN, CountsOK, LinkOK, FinishInvoke(bFail)
    PROVE  CountsOK' /\ LinkOK'
<1>1. CASE active /\ bFail /\ CountFailure
  BY <1>1, CountFailureParts DEF FinishInvoke
<1>2. CASE active /\ ~bFail /\ CountSuccess
  BY <1>2, CountSuccessParts DEF FinishInvoke
<1>3. CASE ~active /\ ~bFail /\ Recover
  BY <1>3, RecoverParts
<1>4. CASE UNCHANGED <<active, counters, retryLeft, excVars, connTimeout, conn>>
  <2>1. CountsOK'
    BY <1>4 DEF CountsOK, counters, excVars
  <2>2. LinkOK'
    BY <1>4 DEF LinkOK, excVars
  <2> QED
    BY <2>1, <2>2
<1> QED
  BY <1>1, <1>2, <1>3, <1>4 DEF FinishInvoke

\* A connection attempt, successful or not.
LEMMA ConnectLink ==
    ASSUME LinkOK, Connect, UNCHANGED excVars
    PROVE  LinkOK'
<1>1. CASE conn # "closed" /\ UNCHANGED <<conn, connTimeout, active>>
  BY <1>1 DEF LinkOK, excVars
<1>2. CASE conn = "closed" /\ conn' = "connecting" /\ connTimeout' = FALSE /\ UNCHANGED active
  BY <1>2 DEF LinkOK, excVars
<1>3. CASE /\ conn = "closed" /\ active' = FALSE
           /\ connTimeout' \in {connTimeout, FALSE} /\ UNCHANGED conn
  BY <1>3 DEF LinkOK, excVars
<1> QED
  BY <1>1, <1>2, <1>3 DEF Connect

\* A connection error blocks the adapter or changes nothing but the link.
LEMMA AddConnExcLink ==
    ASSUME LinkOK, AddConnExc, UNCHANGED connTimeout
    PROVE  LinkOK'
<1>1. /\ conn' = "closed"
      /\ (connExc' = TRUE /\ active' = FALSE) \/ UNCHANGED <<connExc, active>>
  BY DEF AddConnExc, excVars
<1>2. CASE connExc' = TRUE /\ active' = FALSE
  BY <1>1, <1>2 DEF LinkOK
<1>3. CASE UNCHANGED <<connExc, active>>
  BY <1>1, <1>3 DEF LinkOK
<1> QED
  BY <1>1, <1>2, <1>3

\* Every step keeps the invariant.
LEMMA NextIInv == IInv /\ [Next]_vars => IInv'
<1> SUFFICES ASSUME CountsOK, LinkOK, HistoryOK, [Next]_vars
             PROVE  CountsOK' /\ LinkOK' /\ HistoryOK'
  BY IInvParts, PTL
<1> USE ConstantsNat
<1>1. ASSUME NEW ok \in BOOLEAN, Response(ok) PROVE CountsOK' /\ LinkOK' /\ HistoryOK'
  <2>1. CountsOK' /\ LinkOK'
    BY <1>1, FinishInvokeParts DEF Response
  <2>2. HistoryOK'
    BY <1>1 DEF Response, HistoryOK
  <2> QED
    BY <2>1, <2>2
<1>2. ASSUME NEW bFail \in BOOLEAN, TimedOut(bFail) PROVE CountsOK' /\ LinkOK' /\ HistoryOK'
  <2>1. CountsOK' /\ LinkOK'
    BY <1>2, FinishInvokeParts DEF TimedOut
  <2>2. HistoryOK'
    BY <1>2 DEF TimedOut, HistoryOK
  <2> QED
    BY <2>1, <2>2
<1>3. CASE CheckActive
  <2>1. CountsOK'
    BY <1>3 DEF CheckActive, CountsOK, counters, excVars
  <2>2. LinkOK'
    BY <1>3, ConnectLink DEF CheckActive
  <2>3. HistoryOK'
    BY <1>3 DEF CheckActive, HistoryOK, history
  <2> QED
    BY <2>1, <2>2, <2>3
<1>4. CASE ForceRetry
  <2>1. CountsOK'
    BY <1>4 DEF ForceRetry, CountsOK, counters, excVars
  <2>2. LinkOK'
    BY <1>4, ConnectLink DEF ForceRetry
  <2>3. HistoryOK'
    BY <1>4 DEF ForceRetry, HistoryOK, history
  <2> QED
    BY <2>1, <2>2, <2>3
<1>5. CASE Connected
  <2>1. CountsOK'
    BY <1>5 DEF Connected, CountsOK, counters
  <2>2. LinkOK'
    BY <1>5 DEF Connected, LinkOK, excVars
  <2>3. HistoryOK'
    BY <1>5 DEF Connected, HistoryOK, history
  <2> QED
    BY <2>1, <2>2, <2>3
<1>6. CASE ConnectTimeout
  <2>1. CountsOK'
    BY <1>6 DEF ConnectTimeout, CountsOK, counters, excVars
  <2>2. LinkOK'
    BY <1>6 DEF ConnectTimeout, LinkOK, excVars
  <2>3. HistoryOK'
    BY <1>6 DEF ConnectTimeout, HistoryOK, history
  <2> QED
    BY <2>1, <2>2, <2>3
<1>7. CASE SocketError
  <2>1. CountsOK'
    BY <1>7 DEF SocketError, AddConnExc, CountsOK, counters, excVars
  <2>2. LinkOK'
    BY <1>7, AddConnExcLink DEF SocketError
  <2>3. HistoryOK'
    BY <1>7 DEF SocketError, HistoryOK, history
  <2> QED
    BY <2>1, <2>2, <2>3
<1>8. CASE PeerClose
  <2>1. CountsOK'
    BY <1>8 DEF PeerClose, CountsOK, counters, excVars
  <2>2. LinkOK'
    BY <1>8 DEF PeerClose, LinkOK, excVars
  <2>3. HistoryOK'
    BY <1>8 DEF PeerClose, HistoryOK, history
  <2> QED
    BY <2>1, <2>2, <2>3
<1>9. CASE OnSetInactive
  <2>1. CountsOK'
    BY <1>9 DEF OnSetInactive, SetInactive, CountsOK, counters, excVars
  <2>2. LinkOK'
    BY <1>9 DEF OnSetInactive, SetInactive, LinkOK, excVars
  <2>3. HistoryOK'
    BY <1>9 DEF OnSetInactive, HistoryOK, history
  <2> QED
    BY <2>1, <2>2, <2>3
<1>10. CASE Tick
  <2>1. CountsOK'
    BY <1>10 DEF Tick, Minus1, CountsOK, excVars
  <2>2. LinkOK'
    BY <1>10 DEF Tick, Minus1, LinkOK, excVars
  <2>3. HistoryOK'
    BY <1>10 DEF Tick, Minus1, HistoryOK
  <2> QED
    BY <2>1, <2>2, <2>3
<1>11. CASE ErrorEvent
  <2>1. CountsOK'
    BY <1>11 DEF ErrorEvent, CountsOK, counters, excVars
  <2>2. LinkOK'
    BY <1>11 DEF ErrorEvent, LinkOK, excVars
  <2>3. HistoryOK'
    BY <1>11 DEF ErrorEvent, HistoryOK, history
  <2> QED
    BY <2>1, <2>2, <2>3
<1>12. CASE UNCHANGED vars
  <2>1. CountsOK'
    BY <1>12 DEF vars, CountsOK, counters, excVars
  <2>2. LinkOK'
    BY <1>12 DEF vars, LinkOK, excVars
  <2>3. HistoryOK'
    BY <1>12 DEF vars, HistoryOK, history
  <2> QED
    BY <2>1, <2>2, <2>3
<1> QED
  BY <1>1, <1>2, <1>3, <1>4, <1>5, <1>6, <1>7, <1>8, <1>9, <1>10, <1>11, <1>12
     DEF Next, OwnStep, AsyncTimeout, SyncTimeout

\* The invariant holds of every behaviour.
LEMMA Inductive == Spec => []IInv
BY InitIInv, NextIInv, PTL DEF Spec

\* Every variable keeps its type, the counters of outcomes and connection
\* errors their bounds and the times left their intervals.
THEOREM BreakerTypes == Spec => []TypeOK
BY Inductive, PTL DEF IInv

\* setInactive, addConnExc(true) and a failed connect() all leave a blocked
\* adapter without a connection, so hasConnected() never selects it.
THEOREM BlockedIsNotSelected == Spec => []BlockedHasNoLink
BY Inductive, PTL DEF IInv

\* The failures of an interval never exceed its calls, whatever mixture of
\* resets and recoveries the counters went through.
THEOREM FailureShare == Spec => []FailuresAmongCalls
BY Inductive, PTL DEF IInv

\* Every path that takes the adapter back clears _connExc, so addConnExc never
\* ignores an exception of an active adapter's connection.  Errors that epoll
\* reports do not reach addConnExc at all.
THEOREM ErrorsStillCount == Spec => []ExcOnlyWhileBlocked
BY Inductive, PTL DEF IInv
=============================================================================
