--------------------------- MODULE CircuitBreaker ---------------------------
(***************************************************************************)
(* How an AdapterProxy stops using an endpoint that fails and takes it     *)
(* back: finishInvoke(bool) counts the outcomes of calls, addConnExc those *)
(* of connections, setInactive blocks, checkActive lets a blocked endpoint *)
(* be tried again.  Everything runs on the net thread that owns the        *)
(* adapter.  A point in time the code stores (TNOW + n) is represented by  *)
(* the time left until it, 0 once it has passed, so time is not bounded.   *)
(***************************************************************************)
EXTENDS Integers

CONSTANTS
    MinTimeoutInvoke, CheckTimeoutInterval,         \* CheckTimeoutInfo
    FrequenceFailInvoke, MinFrequenceFailTime,
    RadioPercent, TryTimeInterval, MaxConnectExc,
    MaxCount                                        \* bound of the counters

ASSUME BreakerAssumption ==
    /\ {MinTimeoutInvoke, CheckTimeoutInterval, FrequenceFailInvoke, MinFrequenceFailTime,
        RadioPercent, TryTimeInterval, MaxConnectExc, MaxCount} \subseteq Nat
    /\ FrequenceFailInvoke > 0 /\ MaxCount > 0

VARIABLES
    active,     \* _activeStatus
    total,      \* _totalInvoke
    failed,     \* _timeoutInvoke
    frequence,  \* _frequenceFailInvoke
    failLeft,   \* _frequenceFailTime - now
    checkLeft,  \* _nextFinishInvokeTime - now + 1: checked when strictly later
    retryLeft,  \* _nextRetryTime - now
    connExc,    \* _connExc
    connExcCnt, \* _connExcCnt, counted up to MaxConnectExc
    connTimeout,\* KT_Transceiver::_isConnTimeout
    conn,       \* KT_Transceiver::_connStatus
    streak,     \* calls timed out since the last response (to FrequenceFailInvoke)
    streakLeft  \* until the first of them is MinFrequenceFailTime ago

counters == <<total, failed, frequence, failLeft, checkLeft>>
excVars  == <<connExc, connExcCnt>>
history  == <<streak, streakLeft>>
vars == <<active, counters, retryLeft, excVars, connTimeout, conn, history>>

Init ==
    /\ active = TRUE
    /\ total = 0 /\ failed = 0 /\ frequence = 0
    /\ failLeft = 0 /\ checkLeft = 0 /\ retryLeft = 0
    /\ connExc = FALSE /\ connExcCnt = 0
    /\ connTimeout = FALSE
    /\ conn = "closed"
    /\ streak = 0 /\ streakLeft = 0
-----------------------------------------------------------------------------
\* The operators named Mut... are never used by the specification: each is a
\* definition with a plausible slip, which a property must detect.

\* setInactive(): blocked, next try in TryTimeInterval, connection closed.
MutSetInactiveKeepsLink ==
    /\ active' = FALSE
    /\ retryLeft' = TryTimeInterval
    /\ UNCHANGED conn

SetInactive ==
    /\ active' = FALSE
    /\ retryLeft' = TryTimeInterval
    /\ conn' = "closed"

\* finishInvoke(bool) on a blocked adapter: a success takes it back.
MutRecoverKeepsFailures ==
    /\ active' = TRUE
    /\ frequence' = 0
    /\ checkLeft' = CheckTimeoutInterval + 1
    /\ total' = 1
    /\ connTimeout' = FALSE
    /\ connExc' = FALSE
    /\ UNCHANGED <<failed, failLeft, retryLeft, connExcCnt, conn>>

MutRecoverKeepsExc ==
    /\ active' = TRUE
    /\ frequence' = 0
    /\ checkLeft' = CheckTimeoutInterval + 1
    /\ total' = 1
    /\ failed' = 0
    /\ connTimeout' = FALSE
    /\ UNCHANGED <<failLeft, retryLeft, excVars, conn>>

Recover ==
    /\ active' = TRUE
    /\ frequence' = 0
    /\ checkLeft' = CheckTimeoutInterval + 1
    /\ total' = 1
    /\ failed' = 0
    /\ connTimeout' = FALSE
    /\ connExc' = FALSE
    /\ UNCHANGED <<failLeft, retryLeft, connExcCnt, conn>>

\* finishInvoke(bool) on an active adapter.  Enough failures in a row over a
\* long enough time block it at once; otherwise, once per interval, the share
\* of failures in the interval may block it or the counts start again.
TooFrequent ==
    /\ frequence + 1 >= FrequenceFailInvoke
    /\ IF frequence = 0 THEN MinFrequenceFailTime = 0 ELSE failLeft = 0

TooManyOf(f, n) == f >= MinTimeoutInvoke /\ 100 * f >= RadioPercent * n

CountFailure ==
    /\ frequence' = frequence + 1
    /\ failLeft' = IF frequence = 0 THEN MinFrequenceFailTime ELSE failLeft
    /\ IF TooFrequent
       THEN /\ total' = total + 1
            /\ failed' = failed + 1
            /\ SetInactive
            /\ UNCHANGED checkLeft
       ELSE IF checkLeft > 0
       THEN /\ total' = total + 1
            /\ failed' = failed + 1
            /\ UNCHANGED <<active, retryLeft, conn, checkLeft>>
       ELSE /\ checkLeft' = CheckTimeoutInterval + 1
            /\ IF TooManyOf(failed + 1, total + 1)
               THEN /\ total' = total + 1
                    /\ failed' = failed + 1
                    /\ SetInactive
               ELSE /\ total' = 0
                    /\ failed' = 0
                    /\ UNCHANGED <<active, retryLeft, conn>>
    /\ UNCHANGED <<excVars, connTimeout>>

MutCountSuccessPaysBack ==
    /\ frequence' = frequence - 1
    /\ IF checkLeft > 0
       THEN total' = total + 1 /\ UNCHANGED <<failed, checkLeft>>
       ELSE /\ total' = 0
            /\ failed' = 0
            /\ checkLeft' = CheckTimeoutInterval + 1
    /\ UNCHANGED <<active, failLeft, retryLeft, excVars, connTimeout, conn>>

CountSuccess ==
    /\ frequence' = 0
    /\ IF checkLeft > 0
       THEN total' = total + 1 /\ UNCHANGED <<failed, checkLeft>>
       ELSE /\ total' = 0
            /\ failed' = 0
            /\ checkLeft' = CheckTimeoutInterval + 1
    /\ UNCHANGED <<active, failLeft, retryLeft, excVars, connTimeout, conn>>

FinishInvoke(bFail) ==
    /\ active => total < MaxCount /\ frequence < MaxCount
    /\ \/ active /\ bFail /\ CountFailure
       \/ active /\ ~bFail /\ CountSuccess
       \/ ~active /\ ~bFail /\ Recover
       \/ ~active /\ bFail
          /\ UNCHANGED <<active, counters, retryLeft, excVars, connTimeout, conn>>

\* addConnExc(true), after the connection has been closed by the exception.
AddConnExc ==
    /\ conn' = "closed"
    /\ IF ~connExc
       THEN /\ connExcCnt' = IF connExcCnt < MaxConnectExc THEN connExcCnt + 1 ELSE connExcCnt
            /\ IF connExcCnt + 1 >= MaxConnectExc
               THEN connExc' = TRUE /\ active' = FALSE /\ retryLeft' = TryTimeInterval
               ELSE UNCHANGED <<connExc, active, retryLeft>>
       ELSE UNCHANGED <<excVars, active, retryLeft>>
-----------------------------------------------------------------------------
(* Outcomes of calls.                                                       *)

\* A response: iRet says whether the server succeeded.
Response(ok) ==
    /\ conn = "connected"
    /\ FinishInvoke(~ok)
    /\ streak' = 0
    /\ streakLeft' = 0

\* A call has timed out (doTimeout).  iRet is set for an asynchronous call;
\* for a synchronous one it keeps the default 0 = KANTSERVERSUCCESS, so that
\* finishInvoke is told of a success.
TimedOut(bFail) ==
    /\ FinishInvoke(bFail)
    /\ streak' = IF streak < FrequenceFailInvoke THEN streak + 1 ELSE streak
    /\ streakLeft' = IF streak = 0 THEN MinFrequenceFailTime ELSE streakLeft

AsyncTimeout == TimedOut(TRUE)
SyncTimeout == TimedOut(FALSE)
-----------------------------------------------------------------------------
(* Choosing the adapter and its connection.                                 *)

\* checkActive(), the connection: where there is none, connect, or fail to:
\* connect() throws, before or after it resets _isConnTimeout, and the
\* adapter is inactive.
Connect ==
    \/ conn # "closed" /\ UNCHANGED <<conn, connTimeout, active>>
    \/ conn = "closed" /\ conn' = "connecting" /\ connTimeout' = FALSE /\ UNCHANGED active
    \/ /\ conn = "closed"
       /\ active' = FALSE
       /\ connTimeout' \in {connTimeout, FALSE}
       /\ UNCHANGED conn

CheckActive ==
    /\ active \/ retryLeft = 0
    /\ retryLeft' = IF active THEN retryLeft ELSE TryTimeInterval
    /\ Connect
    /\ UNCHANGED <<counters, excVars, history>>

\* No other adapter is better: getNextValidProxy does not wait for the time
\* of the next try (resetRetryTime(false)).
ForceRetry ==
    /\ connTimeout \/ connExc
    /\ retryLeft' = IF active THEN 0 ELSE TryTimeInterval
    /\ Connect
    /\ UNCHANGED <<counters, excVars, history>>

\* onConnectCallback: addConnExc(false).
MutConnectedStaysBlocked ==
    /\ conn = "connecting"
    /\ conn' = "connected"
    /\ connExc' = FALSE
    /\ connExcCnt' = 0
    /\ UNCHANGED <<active, counters, retryLeft, connTimeout, history>>

Connected ==
    /\ conn = "connecting"
    /\ conn' = "connected"
    /\ active' = TRUE
    /\ connExc' = FALSE
    /\ connExcCnt' = 0
    /\ UNCHANGED <<counters, retryLeft, connTimeout, history>>

\* checkConnectTimeout closes the connection from a timer: no addConnExc.
ConnectTimeout ==
    /\ conn = "connecting"
    /\ conn' = "closed"
    /\ connTimeout' = TRUE
    /\ UNCHANGED <<active, counters, retryLeft, excVars, history>>

\* An exception in handleInputImp or handleOutputImp: reading, writing, or
\* checkConnect found an error on the socket.
SocketError ==
    /\ conn # "closed"
    /\ AddConnExc
    /\ UNCHANGED <<counters, connTimeout, history>>

\* epoll reports an error, which is how most refused handshakes are seen:
\* handleCloseImp closes the connection, and no addConnExc counts it.
ErrorEvent ==
    /\ conn # "closed"
    /\ conn' = "closed"
    /\ UNCHANGED <<active, counters, retryLeft, excVars, connTimeout, history>>

\* The end of the stream: doResponse closes and throws nothing.
PeerClose ==
    /\ conn = "connected"
    /\ conn' = "closed"
    /\ UNCHANGED <<active, counters, retryLeft, excVars, connTimeout, history>>

\* Another proxy of the endpoint has blocked it: ObjectProxy::onSetInactive.
OnSetInactive ==
    /\ SetInactive
    /\ UNCHANGED <<counters, excVars, connTimeout, history>>

Minus1(n) == IF n > 0 THEN n - 1 ELSE 0

Tick ==
    /\ failLeft' = Minus1(failLeft)
    /\ checkLeft' = Minus1(checkLeft)
    /\ retryLeft' = Minus1(retryLeft)
    /\ streakLeft' = Minus1(streakLeft)
    /\ UNCHANGED <<active, total, failed, frequence, excVars, connTimeout, conn, streak>>

\* What happens to this adapter, and what only another one does to it.
OwnStep ==
    \/ \E ok \in BOOLEAN : Response(ok)
    \/ AsyncTimeout \/ SyncTimeout
    \/ CheckActive \/ ForceRetry
    \/ Connected \/ ConnectTimeout \/ SocketError \/ ErrorEvent \/ PeerClose
    \/ Tick

Next == OwnStep \/ OnSetInactive

Spec == Init /\ [][Next]_vars

\* Time passes, calls keep coming (each looks at the adapter), and the
\* endpoint is reachable again: attempts to connect, in their turn or forced,
\* do not fail forever.
FairSpec ==
    /\ Spec
    /\ WF_vars(Tick)
    /\ SF_vars((CheckActive \/ ForceRetry) /\ conn = "closed" /\ conn' = "connecting")
    /\ SF_vars(Connected)
-----------------------------------------------------------------------------
\* Every variable holds a value of its type.
TypeOK ==
    /\ active \in BOOLEAN
    /\ {total, failed, frequence} \subseteq 0 .. MaxCount
    /\ failLeft \in 0 .. MinFrequenceFailTime
    /\ checkLeft \in 0 .. CheckTimeoutInterval + 1
    /\ retryLeft \in 0 .. TryTimeInterval
    /\ connExc \in BOOLEAN /\ connExcCnt \in 0 .. MaxConnectExc
    /\ connTimeout \in BOOLEAN
    /\ conn \in {"closed", "connecting", "connected"}
    /\ streak \in 0 .. FrequenceFailInvoke
    /\ streakLeft \in 0 .. MinFrequenceFailTime

\* A blocked endpoint has no usable connection: hasConnected() alone makes
\* checkActive hand an adapter out, so a connection left open would keep
\* sending calls to an endpoint that is blocked.
BlockedHasNoLink == conn = "connected" => active

\* A failure is counted among the calls of its interval, through resets,
\* recoveries and intervals cut short: the share of failures is at most 1.
FailuresAmongCalls == failed <= total

\* _connExc is set only while the adapter is blocked.  It makes addConnExc
\* ignore further exceptions, so an active adapter with the flag left set
\* could never again be blocked by exceptions of its connection.
ExcOnlyWhileBlocked == connExc => ~active

\* A blocked endpoint that can be reached comes back.  Only other proxies that
\* keep blocking it excuse it, by steps that are no step of this adapter: a
\* forced retry whose connect() throws looks the same and excuses nothing.
BlockedComesBack == []<><<~OwnStep>>_vars \/ (~active ~> active)

\* Message.h:28-33 says that an endpoint is disabled when calls to it keep
\* timing out: after enough consecutive timeouts over the minimal time, the
\* adapter is blocked.
ConsecutiveTimeoutsBlock ==
    [][((SyncTimeout \/ AsyncTimeout)
          /\ streak' >= FrequenceFailInvoke /\ streakLeft' = 0) => ~active']_vars
=============================================================================
