---------------------------- MODULE ClientInvoke ----------------------------
(***************************************************************************)
(* One remote object called through the framework's client (libservant),   *)
(* from the call in a user thread to its completion:                       *)
(*                                                                         *)
(*   user thread    ServantProxy::invoke  -> its queue to the net thread   *)
(*   net thread     CommunicatorEpoll     handleNotify, socket events,     *)
(*                                        the timeout timer                *)
(*                  ObjectProxy           requests waiting for a registry  *)
(*                                        answer or for a connection       *)
(*                  AdapterProxy          one per endpoint, its requests   *)
(*                                        multiplexed over one connection, *)
(*                                        or one at a time (serial)        *)
(*   async thread   AsyncProcThread       runs the callbacks               *)
(*                                                                         *)
(* The net thread runs one handler at a time.  A handler that loops takes  *)
(* one step per round, and net says which handler is on the stack: no      *)
(* other event is served meanwhile, but user and async threads do run.     *)
(***************************************************************************)
EXTENDS TimeoutQueueOps

CONSTANTS
    Thread,         \* user threads
    Adapter,        \* endpoints the registry knows for the object
    Kinds,          \* Kinds[m]: what the call m may be, among CallType
    Caller,         \* Caller[m]: the thread that makes the call m
    Home,           \* Home[m]: _vRegProxys[hash] for a hashed call, else None
    Lists,          \* sets of active endpoints a registry answer may hold
    None,           \* no adapter
    ReqTimeout,     \* request.iTimeout
    ConnTimeout,    \* kant_connect_timeout()
    LoopCap,        \* capacity of a thread's queue to the net thread
    NoSendLimit,    \* _noSendQueueLimit
    AsyncCap,       \* _iQueueCap of the async thread
    SendMayThrow,   \* whether ::send may fail hard (not EAGAIN)
    MaxNow          \* bound of the clock

Msg == Ptr
CallType == {"SYNC", "ASYNC", "ONEWAY"}     \* ReqMessage::CallType

ASSUME ClientAssumption ==
    /\ Kinds \in [Msg -> SUBSET CallType]
    /\ Caller \in [Msg -> Thread]
    /\ Home \in [Msg -> Adapter \cup {None}]
    /\ Lists \subseteq (SUBSET Adapter) \ {{}}
    /\ None \notin Adapter \cup Msg /\ None \notin CallType /\ None \notin 0 .. MaxNow
    /\ {ReqTimeout, ConnTimeout, LoopCap, NoSendLimit, AsyncCap, MaxNow} \subseteq Nat
    /\ SendMayThrow \in BOOLEAN
    /\ \A t \in 0 .. MaxNow : {t + ReqTimeout, t + ConnTimeout} \subseteq Deadline

VARIABLES
    pc,         \* pc[t]: "idle", "pushed" (queued, net not told yet), "waiting"
    cur,        \* cur[t]: the call thread t is making
    serial,     \* kant_connection_serial() > 0, set before the first call
    loopq,      \* loopq[t]: its ReqInfoQueue
    armed,      \* threads whose notify event is pending in epoll
    net,        \* the handler the net thread is in
    valid,      \* EndpointManager::_valid
    proxys,     \* _activeProxys
    reqq,       \* ObjectProxy::_reqTimeoutQueue, oldest first
    tq,         \* tq[a]: _timeoutQueue of adapter a
    conn,       \* conn[a]: _connStatus of its transceiver
    req,        \* req[a]: _requestMsg, the request under way on a serial connection
    buf,        \* buf[a]: id of the request left in _sendBuffer, 0 when empty
    peer,       \* peer[a]: <<id, m>> written to the connection, not answered
    up,         \* up[a]: _activeStatus
    kind,       \* ReqMessage::eType, None before the call
    status,     \* ReqMessage::eStatus
    adapter,    \* ReqMessage::adapter
    begin,      \* ReqMessage::iBeginTime
    woken,      \* sync calls whose monitor has been notified
    asyncq,     \* _msgQueue of the async thread
    sent,       \* calls whose request has been written to a connection
    deleted,    \* deleted[m]: how often the ReqMessage was deleted
    now,        \* TNOWMS
    fate        \* fate[m]: how the call came to its end, for the properties only

userVars == <<pc, cur, serial>>
handOver == <<loopq, armed>>
regVars  == <<valid, proxys>>
linkVars == <<conn, req, buf, peer, up, sent>>
msgVars  == <<kind, status, adapter, begin>>
endVars  == <<woken, asyncq, deleted, fate>>
vars == <<userVars, handOver, net, regVars, reqq, tq, linkVars, msgVars, endVars, now>>

Idle == [at |-> "epoll"]
InNotify(t, popped) == [at |-> "handleNotify", thread |-> t, popped |-> popped]
InPrepare(a, via) == [at |-> "prepareConnection", trans |-> a, via |-> via]
InDoInvoke(a) == [at |-> "doInvoke", trans |-> a]
InTimeout == [at |-> "doTimeout"]

NetState ==
    {Idle, InTimeout} \cup {InNotify(t, b) : t \in Thread, b \in BOOLEAN}
      \cup {InPrepare(a, b) : a, b \in Adapter} \cup {InDoInvoke(a) : a \in Adapter}

Init ==
    /\ pc = [t \in Thread |-> "idle"]
    /\ cur = [t \in Thread |-> None]
    /\ serial \in BOOLEAN
    /\ loopq = [t \in Thread |-> <<>>]
    /\ armed = {}
    /\ net = Idle
    /\ valid = FALSE
    /\ proxys = {}
    /\ reqq = <<>>
    /\ tq = [a \in Adapter |-> EmptyQueue]
    /\ conn = [a \in Adapter |-> "closed"]
    /\ req = [a \in Adapter |-> None]
    /\ buf = [a \in Adapter |-> 0]
    /\ peer = [a \in Adapter |-> {}]
    /\ up = [a \in Adapter |-> TRUE]
    /\ kind = [m \in Msg |-> None]
    /\ status = [m \in Msg |-> "REQ"]
    /\ adapter = [m \in Msg |-> None]
    /\ begin = [m \in Msg |-> None]
    /\ woken = {}
    /\ asyncq = <<>>
    /\ sent = {}
    /\ deleted = [m \in Msg |-> 0]
    /\ now = 0
    /\ fate = [m \in Msg |-> "open"]

Called(m) == begin[m] # None
-----------------------------------------------------------------------------
(* User threads: ServantProxy::invoke.                                      *)

\* The request enters the thread's queue; a full queue throws to the caller.
\* A serial connection takes no one-way calls (asserted where they are sent).
Call(t, m) ==
    /\ pc[t] = "idle"
    /\ Caller[m] = t
    /\ ~Called(m)
    /\ now + ReqTimeout <= MaxNow
    /\ \E k \in Kinds[m] \ (IF serial THEN {"ONEWAY"} ELSE {}) : kind' = [kind EXCEPT ![m] = k]
    /\ begin' = [begin EXCEPT ![m] = now]
    /\ IF Len(loopq[t]) < LoopCap
       THEN /\ loopq' = [loopq EXCEPT ![t] = Append(@, m)]
            /\ pc' = [pc EXCEPT ![t] = "pushed"]
            /\ cur' = [cur EXCEPT ![t] = m]
            /\ UNCHANGED deleted
       ELSE /\ deleted' = [deleted EXCEPT ![m] = @ + 1]
            /\ UNCHANGED <<loopq, pc, cur>>
    /\ UNCHANGED <<serial, armed, net, regVars, reqq, tq, linkVars, status, adapter,
                   woken, asyncq, fate, now>>

\* After the push the thread still reads msg->sched and msg->pObjectProxy to
\* find the net thread it must wake; a synchronous call then blocks.
Notify(t) ==
    /\ pc[t] = "pushed"
    /\ armed' = armed \cup {t}
    /\ pc' = [pc EXCEPT ![t] = IF kind[cur[t]] = "SYNC" THEN "waiting" ELSE "idle"]
    /\ UNCHANGED <<cur, serial, loopq, net, regVars, reqq, tq, linkVars, msgVars, endVars, now>>

\* ReqMonitor::wait returns: the caller reads the status and disposes of the
\* message (on success the generated stub does so after decoding).
WakeUp(t) ==
    /\ pc[t] = "waiting"
    /\ cur[t] \in woken
    /\ woken' = woken \ {cur[t]}
    /\ deleted' = [deleted EXCEPT ![cur[t]] = @ + 1]
    /\ pc' = [pc EXCEPT ![t] = "idle"]
    /\ UNCHANGED <<cur, serial, handOver, net, regVars, reqq, tq, linkVars, msgVars,
                   asyncq, fate, now>>
-----------------------------------------------------------------------------
(* Completion, on the net thread.                                           *)

Delete(m) == deleted' = [deleted EXCEPT ![m] = @ + 1]

\* The operators named Mut... are never used by the specification: each is a
\* definition with a plausible slip, which a property must detect.
MutFinishMsgLeaks(m) ==
    /\ woken' = IF kind[m] = "SYNC" THEN woken \cup {m} ELSE woken
    /\ asyncq' = IF kind[m] = "ASYNC" /\ Len(asyncq) < AsyncCap
                  THEN Append(asyncq, m) ELSE asyncq
    /\ IF kind[m] = "ONEWAY" THEN Delete(m) ELSE UNCHANGED deleted
    /\ UNCHANGED fate

MutFinishMsgDeletes(m) ==
    /\ woken' = IF kind[m] = "SYNC" THEN woken \cup {m} ELSE woken
    /\ asyncq' = IF kind[m] = "ASYNC" THEN Append(asyncq, m) ELSE asyncq
    /\ IF kind[m] # "ASYNC" THEN Delete(m) ELSE UNCHANGED deleted
    /\ UNCHANGED fate

\* AdapterProxy::finishInvoke(msg): wake the caller, queue the callback (a
\* full async queue deletes the message), or delete a one-way request.
FinishMsg(m) ==
    /\ woken' = IF kind[m] = "SYNC" THEN woken \cup {m} ELSE woken
    /\ CASE kind[m] = "ASYNC" /\ Len(asyncq) < AsyncCap ->
                asyncq' = Append(asyncq, m) /\ UNCHANGED deleted
         [] kind[m] = "ASYNC" /\ Len(asyncq) >= AsyncCap ->
                Delete(m) /\ UNCHANGED asyncq
         [] kind[m] = "ONEWAY" -> Delete(m) /\ UNCHANGED asyncq
         [] OTHER -> UNCHANGED <<asyncq, deleted>>
    /\ UNCHANGED fate

\* ObjectProxy::doInvokeException: an asynchronous call that has never been
\* given an adapter is only logged; its callback is not run.
InvokeException(m) ==
    /\ status' = IF kind[m] = "ONEWAY" THEN status ELSE [status EXCEPT ![m] = "EXC"]
    /\ IF kind[m] = "ASYNC" /\ adapter[m] = None
       THEN /\ fate' = [fate EXCEPT ![m] = "onlyLogged"]
            /\ UNCHANGED <<woken, asyncq, deleted>>
       ELSE FinishMsg(m)

\* KT_Transceiver::tcpClose of the connections of the adapters in S, when
\* the connections are c: buffers are dropped, answers can no longer come.
Close(S, c) ==
    /\ conn' = [a \in Adapter |-> IF a \in S THEN "closed" ELSE c[a]]
    /\ buf' = [a \in Adapter |-> IF a \in S THEN 0 ELSE buf[a]]
    /\ peer' = [a \in Adapter |-> IF a \in S THEN {} ELSE peer[a]]
-----------------------------------------------------------------------------
(* Choosing an adapter: EndpointManager::selectAdapterProxy once _valid.    *)
(* The round-robin position and the retry times are left open: any order    *)
(* of visit, and a blocked adapter may or may not be due for a retry.       *)

\* checkActive() on the adapters of S starts a connection where none is.
StartConnect(S) ==
    [a \in Adapter |-> IF a \in S /\ conn[a] = "closed" THEN "connecting" ELSE conn[a]]

\* The pairs <<chosen adapter, connections after the choice>>.
RoundRobin ==
    LET usable == {a \in proxys : conn[a] = "connected"}
        broken == {a \in proxys : ~up[a]}
    IN  IF usable # {}
        THEN {<<a, StartConnect(S)>> : a \in usable, S \in SUBSET (proxys \ usable)}
        ELSE {<<a, StartConnect((proxys \ broken) \cup S)>> :
                 a \in proxys, S \in SUBSET broken}

\* getHashProxyForNormal: the home adapter while it has never failed, even
\* when it is still connecting; otherwise any adapter in that condition, and
\* failing that any adapter at all.
HashChoice(m) ==
    LET usable == {a \in proxys : up[a]} IN
    IF Home[m] \in usable
    THEN {<<Home[m], StartConnect({Home[m]})>>}
    ELSE IF usable # {}
    THEN {<<a, StartConnect(S \cup {a})>> : a \in usable, S \in SUBSET (proxys \ usable)}
    ELSE {<<a, StartConnect(S)>> : a \in proxys, S \in SUBSET proxys}

Choices(m) == IF Home[m] # None THEN HashChoice(m) ELSE RoundRobin
-----------------------------------------------------------------------------
(* AdapterProxy::invoke over a multiplexed connection                       *)
(* (invoke_connection_parallel) or a serial one (invoke_connection_serial). *)

MutEnqueueKeepsId(a, m, isSent) ==
    LET id == NextId(tq[a])
    IN  IF CanPush(tq[a], id)
        THEN /\ tq' = [tq EXCEPT ![a] = Push(@, m, id, begin[m] + ReqTimeout, isSent)]
             /\ UNCHANGED <<status, endVars>>
        ELSE /\ status' = [status EXCEPT ![m] = "EXC"]
             /\ FinishMsg(m)
             /\ UNCHANGED tq

\* push() into the adapter's table; an id that is still taken fails the call.
\* (Calls of rpc_call, whose id the caller chooses, are not modelled.)
Enqueue(a, m, isSent) ==
    LET g  == GenerateId(tq[a])
        id == NextId(tq[a])
    IN  IF CanPush(g, id)
        THEN /\ tq' = [tq EXCEPT ![a] = Push(g, m, id, begin[m] + ReqTimeout, isSent)]
             /\ UNCHANGED <<status, endVars>>
        ELSE /\ tq' = [tq EXCEPT ![a] = g]
             /\ status' = [status EXCEPT ![m] = "EXC"]
             /\ FinishMsg(m)

\* The request with this id is written to the connection of a; rest says
\* whether a part of it stays behind in the send buffer.
Write(a, id, m, rest) ==
    /\ buf' = [buf EXCEPT ![a] = IF rest THEN id ELSE @]
    /\ peer' = [peer EXCEPT ![a] = @ \cup {<<id, m>>}]
    /\ sent' = sent \cup {m}

CanWrite(a, c) == c[a] = "connected" /\ buf[a] = 0

\* invoke_connection_serial: what is written becomes the request under way,
\* unless the table refused it.
Underway(a, m) ==
    req' = [req EXCEPT ![a] =
              IF serial /\ CanPush(GenerateId(tq[a]), NextId(tq[a])) THEN m ELSE @]

\* The handler, with the connections c, goes on in ok.  When ::send fails
\* hard the transceiver closes the connection and throws out of the whole
\* handler: the adapters in blame, those of the socket callback that catches
\* the exception, are blocked (addConnExc); m is in no queue any more.
AdapterInvoke(m, a, c, ok, blame) ==
    LET direct == req[a] = None /\ ~HasUnsent(tq[a]) /\ CanWrite(a, c) IN
    \/ \* KANTSENDREQUESTERR
       /\ Len(tq[a].send) > NoSendLimit
       /\ status' = [status EXCEPT ![m] = "EXC"]
       /\ FinishMsg(m)
       /\ conn' = c
       /\ net' = ok
       /\ UNCHANGED <<tq, req, buf, peer, up, sent>>
    \/ \* written at once
       /\ Len(tq[a].send) <= NoSendLimit
       /\ direct
       /\ \E rest \in BOOLEAN : Write(a, NextId(tq[a]), m, rest)
       /\ Underway(a, m)
       /\ IF kind[m] = "ONEWAY"
          THEN /\ Delete(m)
               /\ tq' = [tq EXCEPT ![a] = GenerateId(@)]
               /\ UNCHANGED <<status, woken, asyncq, fate>>
          ELSE Enqueue(a, m, TRUE)
       /\ conn' = c
       /\ net' = ok
       /\ UNCHANGED up
    \/ \* not written: other requests go first, or the link is not ready
       /\ Len(tq[a].send) <= NoSendLimit
       /\ ~direct
       /\ Enqueue(a, m, FALSE)
       /\ conn' = c
       /\ net' = ok
       /\ UNCHANGED <<req, buf, peer, up, sent>>
    \/ \* ::send fails hard
       /\ Len(tq[a].send) <= NoSendLimit
       /\ direct
       /\ SendMayThrow
       /\ tq' = [tq EXCEPT ![a] = GenerateId(@)]
       /\ Close({a} \cup blame, c)
       /\ up' = [b \in Adapter |-> up[b] /\ b \notin blame]
       /\ fate' = [fate EXCEPT ![m] = "thrown"]
       /\ net' = Idle
       /\ UNCHANGED <<req, status, sent, woken, asyncq, deleted>>
-----------------------------------------------------------------------------
\* ObjectProxy::invoke.
ObjectInvoke(m, ok) ==
    \/ \* the registry has not answered yet: wait in the object
       /\ ~valid
       /\ reqq' = Append(reqq, [msg |-> m, deadline |-> begin[m] + ReqTimeout])
       /\ net' = ok
       /\ UNCHANGED <<tq, linkVars, status, adapter, endVars>>
    \/ \* no endpoint to choose from: KANTADAPTERNULL
       /\ valid
       /\ proxys = {}
       /\ InvokeException(m)
       /\ net' = ok
       /\ UNCHANGED <<reqq, tq, linkVars, adapter>>
    \/ /\ valid
       /\ proxys # {}
       /\ \E choice \in Choices(m) :
            LET a == choice[1]
                c == choice[2]
            IN  /\ adapter' = [adapter EXCEPT ![m] = a]
                /\ IF c[a] # "connected"
                   THEN \* wait in the object for the connection
                        /\ reqq' = Append(reqq, [msg |-> m, deadline |-> begin[m] + ConnTimeout])
                        /\ conn' = c
                        /\ net' = ok
                        /\ UNCHANGED <<tq, req, buf, peer, up, sent, status, endVars>>
                   ELSE /\ AdapterInvoke(m, a, c, ok, {})
                        /\ UNCHANGED reqq
-----------------------------------------------------------------------------
(* CommunicatorEpoll::handleNotify.                                         *)

\* epoll reports the thread's notify event.
EnterNotify(t) ==
    /\ net = Idle
    /\ t \in armed
    /\ armed' = armed \ {t}
    /\ net' = InNotify(t, FALSE)
    /\ UNCHANGED <<userVars, loopq, regVars, reqq, tq, linkVars, msgVars, endVars, now>>

\* One round of the loop; an exception is caught outside it, so the rest of
\* the queue stays where it is and the event is not armed again.
NotifyPop(t) ==
    /\ net \in {InNotify(t, FALSE), InNotify(t, TRUE)}
    /\ loopq[t] # <<>>
    /\ loopq' = [loopq EXCEPT ![t] = Tail(@)]
    /\ ObjectInvoke(Head(loopq[t]), InNotify(t, TRUE))
    /\ UNCHANGED <<userVars, armed, regVars, kind, begin, now>>

\* The queue is empty.
LeaveNotify(t) ==
    /\ net \in {InNotify(t, FALSE), InNotify(t, TRUE)}
    /\ loopq[t] = <<>>
    /\ net' = Idle
    /\ UNCHANGED <<userVars, handOver, regVars, reqq, tq, linkVars, msgVars, endVars, now>>

MutBreakNotifyUnarmed(t) ==
    /\ net = InNotify(t, TRUE)
    /\ net' = Idle
    /\ UNCHANGED <<userVars, handOver, regVars, reqq, tq, linkVars, msgVars, endVars, now>>

\* The loop has run for a millisecond: the event is armed again.
BreakNotify(t) ==
    /\ net = InNotify(t, TRUE)
    /\ armed' = armed \cup {t}
    /\ net' = Idle
    /\ UNCHANGED <<userVars, loopq, regVars, reqq, tq, linkVars, msgVars, endVars, now>>
-----------------------------------------------------------------------------
(* The connection of an adapter.                                            *)

\* The connection is established: addConnExc(false), then onConnect.
ConnectDone(a) ==
    /\ net = Idle
    /\ conn[a] = "connecting"
    /\ conn' = [conn EXCEPT ![a] = "connected"]
    /\ up' = [up EXCEPT ![a] = TRUE]
    /\ net' = InPrepare(a, a)
    /\ UNCHANGED <<userVars, handOver, regVars, reqq, tq, req, buf, peer, sent, msgVars, endVars, now>>

\* One round of ObjectProxy::prepareConnection, which hands every request
\* that waits in the object to the adapter `via`: the one that connected,
\* until a hashed request that has no adapter yet is given one of its own.
PrepareOne(a, via) ==
    /\ net = InPrepare(a, via)
    /\ reqq # <<>>
    /\ reqq' = Tail(reqq)
    /\ LET m == Head(reqq).msg IN
       IF adapter[m] = None /\ Home[m] # None
       THEN \E choice \in HashChoice(m) :
              /\ adapter' = [adapter EXCEPT ![m] = choice[1]]
              /\ AdapterInvoke(m, choice[1], choice[2], InPrepare(a, choice[1]), {a})
       ELSE /\ adapter' = [adapter EXCEPT ![m] = via]
            /\ AdapterInvoke(m, via, conn, InPrepare(a, via), {a})
    /\ UNCHANGED <<userVars, handOver, regVars, kind, begin, now>>

\* Nothing waits in the object: the transceiver asks for queued requests.  A
\* serial connection that was closed meanwhile (onCompletePackage) is set up
\* again for them, if checkActive finds that it may be.
PrepareDone(a, via) ==
    /\ net = InPrepare(a, via)
    /\ reqq = <<>>
    /\ net' = InDoInvoke(a)
    /\ \/ conn' = conn
       \/ serial /\ HasUnsent(tq[a]) /\ conn' = StartConnect({a})
    /\ UNCHANGED <<userVars, handOver, regVars, reqq, tq, req, buf, peer, up, sent,
                   msgVars, endVars, now>>

MutDoInvokeOneKeepsHalfSent(a) ==
    /\ ~serial
    /\ net = InDoInvoke(a)
    /\ HasUnsent(tq[a])
    /\ LET id == NextSend(tq[a])
           m == tq[a].data[id].ptr
       IN
       \/ /\ CanWrite(a, conn)
          /\ \E rest \in BOOLEAN :
                /\ Write(a, id, m, rest)
                /\ net' = IF rest THEN Idle ELSE net
                /\ tq' = IF rest THEN tq ELSE [tq EXCEPT ![a] = PopSend(@, kind[m] = "ONEWAY")]
                /\ IF ~rest /\ kind[m] = "ONEWAY" THEN Delete(m) ELSE UNCHANGED deleted
          /\ UNCHANGED <<conn, req, up>>
       \/ /\ ~CanWrite(a, conn)
          /\ net' = Idle
          /\ UNCHANGED <<tq, linkVars, deleted>>
    /\ UNCHANGED <<userVars, handOver, regVars, reqq, msgVars, woken, asyncq, fate, now>>

\* AdapterProxy::doInvoke_parallel, one round: the oldest unsent request.
DoInvokeOne(a) ==
    /\ ~serial
    /\ net = InDoInvoke(a)
    /\ HasUnsent(tq[a])
    /\ LET id == NextSend(tq[a])
           m == tq[a].data[id].ptr
       IN
       \/ /\ CanWrite(a, conn)
          /\ tq' = [tq EXCEPT ![a] = PopSend(@, kind[m] = "ONEWAY")]
          /\ IF kind[m] = "ONEWAY" THEN Delete(m) ELSE UNCHANGED deleted
          /\ \E rest \in BOOLEAN :
                /\ Write(a, id, m, rest)
                /\ net' = IF rest THEN Idle ELSE net
          /\ UNCHANGED <<conn, req, up>>
       \/ /\ ~CanWrite(a, conn)
          /\ net' = Idle
          /\ UNCHANGED <<tq, linkVars, deleted>>
       \/ /\ CanWrite(a, conn)
          /\ SendMayThrow
          /\ Close({a}, conn)
          /\ up' = [up EXCEPT ![a] = FALSE]
          /\ net' = Idle
          /\ UNCHANGED <<tq, req, sent, deleted>>
    /\ UNCHANGED <<userVars, handOver, regVars, reqq, msgVars, woken, asyncq, fate, now>>

DoInvokeDone(a) ==
    /\ ~serial
    /\ net = InDoInvoke(a)
    /\ ~HasUnsent(tq[a])
    /\ net' = Idle
    /\ UNCHANGED <<userVars, handOver, regVars, reqq, tq, linkVars, msgVars, endVars, now>>

\* AdapterProxy::doInvoke_serial: the oldest unsent request, if none is under
\* way.  One that was lost with its connection stays under way until it times
\* out, for nothing resets _requestMsg when a connection ends.
DoInvokeSerial(a) ==
    /\ serial
    /\ net = InDoInvoke(a)
    /\ net' = Idle
    /\ IF req[a] = None /\ HasUnsent(tq[a]) /\ CanWrite(a, conn)
       THEN LET id == NextSend(tq[a])
                m == tq[a].data[id].ptr
            IN
            \/ /\ tq' = [tq EXCEPT ![a] = PopSend(@, FALSE)]
               /\ req' = [req EXCEPT ![a] = m]
               /\ \E rest \in BOOLEAN : Write(a, id, m, rest)
               /\ UNCHANGED <<conn, up>>
            \/ /\ SendMayThrow
               /\ Close({a}, conn)
               /\ up' = [up EXCEPT ![a] = FALSE]
               /\ UNCHANGED <<tq, req, sent>>
       ELSE UNCHANGED <<tq, linkVars>>
    /\ UNCHANGED <<userVars, handOver, regVars, reqq, msgVars, endVars, now>>

\* EPOLLOUT with a rest in the send buffer: doRequest writes it, then asks
\* for queued requests; a hard failure closes and blocks the adapter.
Writable(a) ==
    /\ net = Idle
    /\ conn[a] = "connected"
    /\ buf[a] # 0
    /\ \/ /\ buf' = [buf EXCEPT ![a] = 0]
          /\ net' = InDoInvoke(a)
          /\ UNCHANGED <<conn, peer, up>>
       \/ /\ SendMayThrow
          /\ Close({a}, conn)
          /\ up' = [up EXCEPT ![a] = FALSE]
          /\ UNCHANGED net
    /\ UNCHANGED <<userVars, handOver, regVars, reqq, tq, req, sent, msgVars, endVars, now>>

\* The connection ends, or never comes up; an error reported by an exception
\* also blocks the adapter (addConnExc), an orderly close does not.
LinkDown(a) ==
    /\ net = Idle
    /\ conn[a] # "closed"
    /\ Close({a}, conn)
    /\ \E b \in {up[a], FALSE} : up' = [up EXCEPT ![a] = b]
    /\ UNCHANGED <<userVars, handOver, net, regVars, reqq, tq, req, sent, msgVars, endVars, now>>

\* The outcome of a two-way call counts for or against the adapter
\* (finishInvoke(bool)): with enough failures setInactive closes the
\* connection.  How often is enough is left open here.
Block(a) ==
    /\ up' = [up EXCEPT ![a] = FALSE]
    /\ Close({a}, conn)

MutRespondUnchecked(a) ==
    /\ ~serial
    /\ net = Idle
    /\ conn[a] = "connected"
    /\ \E r \in peer[a] :
         /\ kind[r[2]] # "ONEWAY"
         /\ buf[a] # r[1]
         /\ peer' = [peer EXCEPT ![a] = @ \ {r}]
         /\ tq' = [tq EXCEPT ![a] = IF r[1] \in Ids(@) THEN Remove(@, r[1]) ELSE @]
         /\ status' = [status EXCEPT ![r[2]] = "RSP"]
         /\ FinishMsg(r[2])
    /\ UNCHANGED <<userVars, handOver, net, regVars, reqq, conn, req, buf, up, sent, adapter, kind, begin, now>>

\* The id under which the table of a holds m.
IdOf(a, m) == CHOOSE i \in Ids(tq[a]) : tq[a].data[i].ptr = m

\* A response packet: AdapterProxy::finishInvoke_parallel.  The peer answers
\* in any order, and perhaps after the request has timed out.
Respond(a) ==
    /\ ~serial
    /\ net = Idle
    /\ conn[a] = "connected"
    /\ \E r \in peer[a] :
         /\ kind[r[2]] # "ONEWAY"
         /\ buf[a] # r[1]
         /\ IF r[1] \in Ids(tq[a])
            THEN LET m == tq[a].data[r[1]].ptr IN
                 /\ tq' = [tq EXCEPT ![a] = Remove(@, r[1])]
                 /\ status' = [status EXCEPT ![m] = "RSP"]
                 /\ FinishMsg(m)
                 /\ \/ /\ peer' = [peer EXCEPT ![a] = @ \ {r}]
                       /\ UNCHANGED <<conn, buf, up>>
                    \/ Block(a)
            ELSE /\ peer' = [peer EXCEPT ![a] = @ \ {r}]
                 /\ UNCHANGED <<tq, status, conn, buf, up, endVars>>
    /\ UNCHANGED <<userVars, handOver, net, regVars, reqq, req, sent, adapter, kind, begin, now>>

\* A response packet on a serial connection: finishInvoke_serial gives it to
\* the request under way, whatever its id, and onCompletePackage goes on with
\* the requests that wait.
RespondSerial(a) ==
    /\ serial
    /\ net = Idle
    /\ conn[a] = "connected"
    /\ \E r \in peer[a] :
         /\ buf[a] # r[1]
         /\ IF req[a] # None
            THEN LET m == req[a] IN
                 /\ tq' = [tq EXCEPT ![a] = Remove(@, IdOf(a, m))]
                 /\ req' = [req EXCEPT ![a] = None]
                 /\ status' = [status EXCEPT ![m] = "RSP"]
                 /\ FinishMsg(m)
                 /\ \/ /\ peer' = [peer EXCEPT ![a] = @ \ {r}]
                       /\ UNCHANGED <<conn, buf, up>>
                    \/ Block(a)
            ELSE /\ peer' = [peer EXCEPT ![a] = @ \ {r}]
                 /\ UNCHANGED <<tq, req, status, conn, buf, up, endVars>>
    /\ net' = InPrepare(a, a)
    /\ UNCHANGED <<userVars, handOver, regVars, reqq, sent, adapter, kind, begin, now>>
-----------------------------------------------------------------------------
(* CommunicatorEpoll::doTimeout, once per _timeoutCheckInterval.            *)

Overdue(i) ==
    /\ reqq[i].deadline <= now
    /\ \A j \in DOMAIN reqq : reqq[i].deadline <= reqq[j].deadline

MutEnterTimeoutTablesOnly ==
    /\ net = Idle
    /\ \E a \in Adapter : Expired(tq[a], now) # {}
    /\ net' = InTimeout
    /\ UNCHANGED <<userVars, handOver, regVars, reqq, tq, linkVars, msgVars, endVars, now>>

EnterTimeout ==
    /\ net = Idle
    /\ \/ \E a \in Adapter : Expired(tq[a], now) # {}
       \/ \E i \in DOMAIN reqq : Overdue(i)
    /\ net' = InTimeout
    /\ UNCHANGED <<userVars, handOver, regVars, reqq, tq, linkVars, msgVars, endVars, now>>

MutTimeoutKeepsLink(a) ==
    /\ net = InTimeout
    /\ \E id \in Expired(tq[a], now) :
         LET m == tq[a].data[id].ptr IN
         /\ tq' = [tq EXCEPT ![a] = Remove(@, id)]
         /\ status' = [status EXCEPT ![m] = "TIME"]
         /\ FinishMsg(m)
         /\ req' = [req EXCEPT ![a] = IF @ = m THEN None ELSE @]
         /\ up' = [up EXCEPT ![a] = @ \/ kind[m] = "SYNC"]
    /\ UNCHANGED <<userVars, handOver, net, regVars, reqq, conn, buf, peer, sent, adapter,
                   kind, begin, now>>

\* One round of AdapterProxy::doTimeout.  The timeout of an asynchronous call
\* counts as a failure, which may block the adapter; that of a synchronous
\* call leaves iRet at 0, counts as a success, and unblocks it.  The request
\* under way on a serial connection takes the connection with it.
TimeoutAdapter(a) ==
    /\ net = InTimeout
    /\ \E id \in Expired(tq[a], now) :
         LET m == tq[a].data[id].ptr IN
         /\ tq' = [tq EXCEPT ![a] = Remove(@, id)]
         /\ status' = [status EXCEPT ![m] = "TIME"]
         /\ FinishMsg(m)
         /\ req' = [req EXCEPT ![a] = IF @ = m THEN None ELSE @]
         /\ \/ /\ up' = [up EXCEPT ![a] = @ \/ kind[m] = "SYNC"]
               /\ IF m = req[a] THEN Close({a}, conn) ELSE UNCHANGED <<conn, buf, peer>>
            \/ kind[m] = "ASYNC" /\ up[a] /\ Block(a)
    /\ UNCHANGED <<userVars, handOver, net, regVars, reqq, sent, adapter, kind, begin, now>>

\* One round over the requests that still wait in the object.
TimeoutWaiting ==
    /\ net = InTimeout
    /\ \A a \in Adapter : Expired(tq[a], now) = {}
    /\ \E i \in DOMAIN reqq :
         /\ Overdue(i)
         /\ reqq' = DeleteAt(reqq, i)
         /\ InvokeException(reqq[i].msg)
    /\ UNCHANGED <<userVars, handOver, net, regVars, tq, linkVars, adapter, kind, begin, now>>

LeaveTimeout ==
    /\ net = InTimeout
    /\ \A a \in Adapter : Expired(tq[a], now) = {}
    /\ \A i \in DOMAIN reqq : ~Overdue(i)
    /\ net' = Idle
    /\ UNCHANGED <<userVars, handOver, regVars, reqq, tq, linkVars, msgVars, endVars, now>>
-----------------------------------------------------------------------------
(* The registry's answers, dispatched on the net thread.  An answer without *)
(* active endpoints changes nothing.  The endpoints that are not active are *)
(* inactive ones: _vRegProxys, and so Home, stays what it is.               *)

\* The first answer: the waiting requests choose adapters, which connect
\* (ObjectProxy::doInvoke); they are sent when one of them is connected.  A
\* hashed request whose home is inactive chooses among the active ones.
RegistryAnswers ==
    /\ net = Idle
    /\ ~valid
    /\ valid' = TRUE
    /\ proxys' \in Lists
    /\ LET homes == {Home[reqq[i].msg] : i \in DOMAIN reqq} IN
       \E others \in SUBSET proxys' :
         /\ others = {} <=> homes \subseteq proxys' \cup {None}
         /\ conn' = StartConnect(IF None \in homes THEN proxys'
                                 ELSE (homes \cap proxys') \cup others)
    /\ UNCHANGED <<userVars, handOver, net, reqq, tq, req, buf, peer, up, sent, msgVars,
                   endVars, now>>

\* The registry has failed too often (the failure is noticed when a request
\* is about to choose): the empty list is declared valid.
RegistryGivesUp ==
    /\ net.at \in {"epoll", "handleNotify"}
    /\ ~valid
    /\ valid' = TRUE
    /\ UNCHANGED <<userVars, handOver, net, proxys, reqq, tq, linkVars, msgVars, endVars, now>>

\* A later answer replaces the list, also the empty one.  An adapter that is
\* no longer active keeps its connection and its requests.
RegistryUpdates ==
    /\ net = Idle
    /\ valid
    /\ proxys' \in Lists \ {proxys}
    /\ UNCHANGED <<userVars, handOver, net, valid, reqq, tq, linkVars, msgVars, endVars, now>>
-----------------------------------------------------------------------------
\* The async thread runs a callback; the message dies with it.
RunCallback ==
    /\ asyncq # <<>>
    /\ Delete(Head(asyncq))
    /\ asyncq' = Tail(asyncq)
    /\ fate' = [fate EXCEPT ![Head(asyncq)] = "ran"]
    /\ UNCHANGED <<userVars, handOver, net, regVars, reqq, tq, linkVars, msgVars, woken, now>>

Tick ==
    /\ now < MaxNow
    /\ now' = now + 1
    /\ UNCHANGED <<userVars, handOver, net, regVars, reqq, tq, linkVars, msgVars, endVars>>

UserStep(t) == (\E m \in Msg : Call(t, m)) \/ Notify(t) \/ WakeUp(t)

NotifyStep(t) == EnterNotify(t) \/ NotifyPop(t) \/ LeaveNotify(t) \/ BreakNotify(t)

SocketStep(a) ==
    \/ ConnectDone(a) \/ DoInvokeOne(a) \/ DoInvokeDone(a) \/ DoInvokeSerial(a)
    \/ \E via \in Adapter : PrepareOne(a, via) \/ PrepareDone(a, via)
    \/ Writable(a) \/ LinkDown(a) \/ Respond(a) \/ RespondSerial(a)

TimerStep == EnterTimeout \/ (\E a \in Adapter : TimeoutAdapter(a)) \/ TimeoutWaiting \/ LeaveTimeout

Next ==
    \/ \E t \in Thread : UserStep(t) \/ NotifyStep(t)
    \/ \E a \in Adapter : SocketStep(a)
    \/ TimerStep
    \/ RegistryAnswers \/ RegistryGivesUp \/ RegistryUpdates
    \/ RunCallback
    \/ Tick

Spec == Init /\ [][Next]_vars

\* The threads keep running, handlers on the stack go on, the timer fires
\* and time passes.  Nothing is promised by the network, the peer or the
\* registry, and no thread need make a call.
Fairness ==
    /\ \A t \in Thread : /\ WF_vars(Notify(t))
                         /\ WF_vars(WakeUp(t))
                         /\ WF_vars(NotifyStep(t))
    /\ \A a \in Adapter : WF_vars(DoInvokeOne(a) \/ DoInvokeDone(a) \/ DoInvokeSerial(a)
                                  \/ \E via \in Adapter : PrepareOne(a, via) \/ PrepareDone(a, via))
    /\ WF_vars(TimerStep)
    /\ WF_vars(RunCallback)
    /\ WF_vars(Tick)

FairSpec == Spec /\ Fairness
-----------------------------------------------------------------------------
\* Every variable holds a value of its type.
TypeOK ==
    /\ pc \in [Thread -> {"idle", "pushed", "waiting"}]
    /\ cur \in [Thread -> Msg \cup {None}]
    /\ loopq \in [Thread -> Seq(Msg)]
    /\ armed \subseteq Thread
    /\ net \in NetState
    /\ valid \in BOOLEAN
    /\ proxys \subseteq Adapter
    /\ \A i \in DOMAIN reqq : reqq[i] \in [msg : Msg, deadline : Deadline]
    /\ \A a \in Adapter :
         /\ tq[a].uniqId \in Id
         /\ \A i \in Ids(tq[a]) : i \in Id /\ tq[a].data[i] \in Entry
         /\ tq[a].time \subseteq Deadline \X Id
         /\ Unsent(tq[a]) \subseteq Id
    /\ conn \in [Adapter -> {"closed", "connecting", "connected"}]
    /\ serial \in BOOLEAN
    /\ req \in [Adapter -> Msg \cup {None}]
    /\ buf \in [Adapter -> Id]
    /\ \A a \in Adapter : peer[a] \subseteq Id \X Msg
    /\ up \in [Adapter -> BOOLEAN]
    /\ sent \subseteq Msg
    /\ kind \in [Msg -> CallType \cup {None}]
    /\ status \in [Msg -> {"REQ", "RSP", "TIME", "EXC"}]
    /\ adapter \in [Msg -> Adapter \cup {None}]
    /\ begin \in [Msg -> (0 .. MaxNow) \cup {None}]
    /\ woken \subseteq Msg
    /\ asyncq \in Seq(Msg)
    /\ deleted \in [Msg -> 0 .. 1]
    /\ now \in 0 .. MaxNow
    /\ fate \in [Msg -> {"open", "ran", "thrown", "onlyLogged"}]

\* Who holds a call: the queues and tables that point to it, or the grave.
Positions(s, m) == {k \in DOMAIN s : s[k] = m}

Holders(m) ==
    (UNION {{<<"loopq", t, k>> : k \in Positions(loopq[t], m)} : t \in Thread})
      \cup {<<"reqq", k>> : k \in {j \in DOMAIN reqq : reqq[j].msg = m}}
      \cup (UNION {{<<"tq", a, i>> : i \in {j \in Ids(tq[a]) : tq[a].data[j].ptr = m}} :
                       a \in Adapter})
      \cup {<<"woken">> : x \in woken \cap {m}}
      \cup {<<"asyncq", k>> : k \in Positions(asyncq, m)}
      \cup {<<"deleted", k>> : k \in 1 .. deleted[m]}

\* The two ways in which the code drops a call.  A ::send that fails hard
\* throws past AdapterProxy::invoke (kt_transceiver.cpp:858) when its caller
\* has taken the message from its queue; and a failed asynchronous call that
\* never got an adapter is logged and no more (ObjectProxy.cpp:217).
Thrown(m) == SendMayThrow /\ fate[m] = "thrown"
OnlyLogged(m) == kind[m] = "ASYNC" /\ adapter[m] = None /\ status[m] = "EXC"

\* One owner: from its call on, a request is in exactly one queue or table of
\* exactly one adapter, until it is deleted once.  In none it would never be
\* completed; in two it would be completed, and freed, twice.  The calls the
\* code is known to drop are excepted, and nothing holds one of these: freed
\* or found by anybody after all, it would be freed too early or twice.
OneOwner ==
    \A m \in Msg :
        Cardinality(Holders(m)) = IF Called(m) /\ ~Thrown(m) /\ ~OnlyLogged(m) THEN 1 ELSE 0

\* A synchronous caller keeps using its message after the push and after the
\* wait: whoever completes the call must leave the message to it.
SyncMsgOutlivesWait ==
    \A t \in Thread :
        (pc[t] # "idle" /\ kind[cur[t]] = "SYNC") => deleted[cur[t]] = 0

\* The id is all that ties a response to its request, and on a serial
\* connection nothing does but the order: an answer still to come, even a late
\* one, never meets another request, and the one it is given to is in the
\* table (finishInvoke_serial asserts that it is found there).
AnswerMatchesRequest ==
    \A a \in Adapter :
        /\ \A r \in peer[a] :
             IF serial THEN req[a] \in {None, r[2]}
             ELSE r[1] \in Ids(tq[a]) => tq[a].data[r[1]].ptr = r[2]
        /\ req[a] # None => \E i \in Ids(tq[a]) : tq[a].data[i].ptr = req[a]

\* No request is written to a connection twice, however often connections
\* are lost and set up again, so no call is executed twice.
WrittenOnce == [][\A a \in Adapter : \A r \in peer'[a] \ peer[a] : r[2] \notin sent]_vars

\* No lost wakeup: a request in a thread's queue has a thread that will
\* still notify, a pending event, or the net thread emptying the queue.
\* (With SendMayThrow the property fails: see NothingThrownAway.)
NoRequestStranded ==
    \A t \in Thread : loopq[t] # <<>> =>
        pc[t] = "pushed" \/ t \in armed \/ net \in {InNotify(t, FALSE), InNotify(t, TRUE)}

\* The abstract view: every step of the client is a step of RpcCall or none.
CallPhase(m) ==
    IF ~Called(m) THEN "new"
    ELSE IF status[m] = "RSP" THEN "answered"
    ELSE IF status[m] # "REQ" \/ fate[m] \in {"thrown", "onlyLogged"} \/ (deleted[m] > 0 /\ m \notin sent)
    THEN "failed"
    ELSE IF m \in sent THEN "sent" ELSE "pending"

Abstract == INSTANCE RpcCall WITH
    Request <- Msg,
    oneWay <- {m \in Msg : kind[m] = "ONEWAY"},
    phase <- [m \in Msg |-> CallPhase(m)]

ImplementsRpcCall == Abstract!Spec

\* Every call ends, whatever the network, the peer and the registry do: its
\* message is freed and, where it was asynchronous and not refused to its
\* caller, its callback has run.  Excepted is what ObjectProxy.cpp:217 only
\* logs.  A callback that a full queue drops is no end (AsyncProcThread.cpp:58):
\* an instance has room for all of them.  There are finitely many calls and an
\* end is for good, so it is enough that time and again all have ended.
Refused(m) == deleted[m] > 0 /\ status[m] = "REQ"

Ended(m) ==
    IF kind[m] = "ASYNC" THEN fate[m] = "ran" \/ Refused(m) \/ OnlyLogged(m)
    ELSE deleted[m] > 0

Completion == []<>(\A m \in Msg : Called(m) => Ended(m))

\* kt_transceiver.h:41 says that when a connection fails, data not sent yet
\* can still be sent over another one, and AdapterProxy::invoke has a branch
\* that completes the call when sending failed: no request is thrown away.
NothingThrownAway == \A m \in Msg : fate[m] # "thrown"

\* AdapterProxy.cpp:638 says the first hash is not wrong: as long as no
\* adapter is blocked, a hashed call is written to its home adapter.
FirstHashRight ==
    [][\A m \in sent' \ sent :
          (Home[m] # None /\ \A a \in Adapter : up[a]) =>
              \E r \in peer'[Home[m]] : r[2] = m]_vars
=============================================================================
