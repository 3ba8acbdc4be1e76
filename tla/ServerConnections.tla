------------------------- MODULE ServerConnections -------------------------
(***************************************************************************)
(* The server side of the framework (KT_EpollServer): connections, the     *)
(* requests they bring in, and the way back of the answers.                *)
(*                                                                         *)
(*   accept thread   KT_EpollServer::accept, addTcpConnection              *)
(*   net thread      socket events, processPipe, checkTimeout              *)
(*   handle threads  Handle::handleOnceThread                              *)
(*                                                                         *)
(* This is the mode NET_THREAD_QUEUE_HANDLES_THREAD with one net thread    *)
(* and one adapter.  The net thread runs one handler at a time; deleting a *)
(* connection takes it several steps, between which the others run.        *)
(*                                                                         *)
(* An answer finds its way back by the connection's id, which is its slot  *)
(* in the list: of says which connection is meant, and is not in the code. *)
(***************************************************************************)
EXTENDS Integers, Sequences, FiniteSets

CONSTANTS
    Conn,           \* connections clients will make
    None,           \* no connection
    Handle,         \* handle threads
    Asks,           \* Asks[c]: number of requests the client of c sends
    Slots,          \* ConnectionList::_total
    MaxConns,       \* BindAdapter::_iMaxConns
    QueueCap,       \* _iQueueCapacity
    OverloadAt,     \* (int)(_iQueueCapacity / 5. * 4)
    TimeoutOn       \* whether the endpoint has a timeout

VARIABLES
    acc,        \* what the accept thread is doing
    stage,      \* stage[c]: "new", "open", "dead" (its transceiver is closed), "gone"
    bye,        \* connections whose end of stream the net thread has read
    slot,       \* slot[c]: _uid without the magic number, 0 while c has none
    vConn,      \* vConn[s]: _vConn
    free,       \* _free
    stale,      \* listed connections whose time stamp in _tl has passed
    cur,        \* _iCurConns
    net,        \* where the net thread is in deleting a connection
    recvq,      \* the data queue
    busy,       \* busy[h]: what handle h has taken from the queue
    sbuffer,    \* _sbuffer: commands of the handles to the net thread
    sendbuf,    \* sendbuf[c]: the answer partly in _sendBuffer, or None
    messages,   \* messages[c]: _messages
    closing,    \* connections with _bClose set
    came,       \* came[c]: requests received
    out,        \* out[c]: answers written to c, the last perhaps in part
    ahead,      \* ahead[c]: slots to be handed out before that of the gone c
    told        \* told[c]: number of calls of handleClose

listVars == <<slot, vConn, free, stale, ahead>>
linkVars == <<stage, bye, sendbuf, messages, closing, out>>
workVars == <<recvq, busy, sbuffer, told, came>>
vars == <<acc, listVars, linkVars, workVars, cur, net>>

Slot == 1 .. Slots
\* EM_CLOSE_T; "ended" stands for EM_CLIENT_CLOSE and EM_SERVER_CLOSE.
CloseType == {"ended", "EM_SERVER_TIMEOUT_CLOSE"}
Context == [kind : {"request", "overload"} \cup CloseType, uid : Slot, of : Conn, n : Nat]
Command == [cmd : {"s", "c"}, uid : Slot, of : Conn, n : Nat]
Answer == Conn \X Nat

ASSUME ServerAssumption ==
    /\ Asks \in [Conn -> Nat]
    /\ None \notin Conn \cup Context \cup Answer
    /\ {Slots, MaxConns, QueueCap, OverloadAt} \subseteq Nat
    /\ 0 < MaxConns /\ MaxConns <= Slots    \* createEpoll: the sum over the adapters
    /\ TimeoutOn \in BOOLEAN

At(s) == [at |-> s, conn |-> None]
Doing(s, c) == [at |-> s, conn |-> c]

Init ==
    /\ acc = At("accept")
    /\ stage = [c \in Conn |-> "new"]
    /\ bye = {}
    /\ slot = [c \in Conn |-> 0]
    /\ vConn = [s \in Slot |-> None]
    /\ free = [s \in Slot |-> s]
    /\ stale = {}
    /\ cur = 0
    /\ net = At("epoll")
    /\ recvq = <<>>
    /\ busy = [h \in Handle |-> None]
    /\ sbuffer = <<>>
    /\ sendbuf = [c \in Conn |-> None]
    /\ messages = [c \in Conn |-> <<>>]
    /\ closing = {}
    /\ came = [c \in Conn |-> 0]
    /\ out = [c \in Conn |-> <<>>]
    /\ ahead = [c \in Conn |-> 0]
    /\ told = [c \in Conn |-> 0]

Listed == {c \in Conn : \E s \in Slot : vConn[s] = c}

\* checkTimeout holds the mutex of the list for its whole run.
Locked == net.at \in {"timer", "timerCount", "timerUnlink"}
-----------------------------------------------------------------------------
(* The accept thread.                                                       *)

\* The operators named Mut... are never used by the specification: each is a
\* definition with a plausible slip, which a property must detect.
MutLimitOffByOne == cur > MaxConns

isLimitMaxConnection == cur + 1 > MaxConns

\* A connection over the limit is closed at once and leaves no trace.
Accept(c) ==
    /\ acc = At("accept")
    /\ stage[c] = "new"
    /\ ~isLimitMaxConnection
    /\ acc' = Doing("accepted", c)
    /\ UNCHANGED <<listVars, linkVars, workVars, cur, net>>

\* getUniqId(), which asserts that there is a free slot.
GetUniqId(c) ==
    /\ acc = Doing("accepted", c)
    /\ ~Locked
    /\ free # <<>>
    /\ slot' = [slot EXCEPT ![c] = Head(free)]
    /\ free' = Tail(free)
    /\ ahead' = [d \in Conn |-> IF ahead[d] > 0 THEN ahead[d] - 1 ELSE 0]
    /\ acc' = Doing("numbered", c)
    /\ UNCHANGED <<vConn, stale, linkVars, workVars, cur, net>>

\* The list knows the connection, it is counted, and its events are served.
AddTcpConnection(c) ==
    /\ acc = Doing("numbered", c)
    /\ ~Locked
    /\ vConn' = [vConn EXCEPT ![slot[c]] = c]
    /\ stage' = [stage EXCEPT ![c] = "open"]
    /\ cur' = cur + 1
    /\ acc' = At("accept")
    /\ UNCHANGED <<slot, free, stale, ahead, bye, sendbuf, messages, closing, out, workVars, net>>
-----------------------------------------------------------------------------
(* Deleting a connection, on the net thread.                                *)

\* isOverloadorDiscard(): a queue of exactly QueueCap entries is neither.
Verdict ==
    IF Len(recvq) > OverloadAt /\ Len(recvq) < QueueCap THEN "overload"
    ELSE IF Len(recvq) > QueueCap THEN "discard"
    ELSE "request"

CloseContext(c, type) == [kind |-> type, uid |-> slot[c], of |-> c, n |-> 0]

MutReportUnforced(c, type) ==
    recvq' = IF Verdict = "discard" THEN recvq ELSE Append(recvq, CloseContext(c, type))

\* The handles are told, however full their queue is (force).
Report(c, type) == recvq' = Append(recvq, CloseContext(c, type))

\* delConnection up to _trans->close(): from here on nothing is sent or read.
Shut(c, type) ==
    /\ Report(c, type)
    /\ stage' = [stage EXCEPT ![c] = "dead"]
    /\ sendbuf' = [sendbuf EXCEPT ![c] = None]

\* delConnection(cPtr, true, type), for an event of the connection itself.
Delete(c, type) ==
    /\ Shut(c, type)
    /\ net' = Doing("unlink", c)

MutFreeFirst(c) ==
    /\ vConn' = [vConn EXCEPT ![slot[c]] = None]
    /\ free' = <<slot[c]>> \o free
    /\ stale' = stale \ {c}
    /\ ahead' = [ahead EXCEPT ![c] = Len(free) + 1]

MutUnlinkKeepsPointer(c) ==
    /\ free' = Append(free, slot[c])
    /\ stale' = stale \ {c}
    /\ ahead' = [ahead EXCEPT ![c] = Len(free) + 1]
    /\ UNCHANGED vConn

MutUnlinkKeepsTimer(c) ==
    /\ vConn' = [vConn EXCEPT ![slot[c]] = None]
    /\ free' = Append(free, slot[c])
    /\ ahead' = [ahead EXCEPT ![c] = Len(free) + 1]
    /\ UNCHANGED stale

\* delNoLock(): off the list, the object is freed, its slot goes to the back.
DelNoLock(c) ==
    /\ vConn' = [vConn EXCEPT ![slot[c]] = None]
    /\ free' = Append(free, slot[c])
    /\ stale' = stale \ {c}
    /\ ahead' = [ahead EXCEPT ![c] = Len(free) + 1]

Unlink(from, to) ==
    /\ net.at = from
    /\ LET c == net.conn IN
         /\ DelNoLock(c)
         /\ stage' = [stage EXCEPT ![c] = "gone"]
         /\ messages' = [messages EXCEPT ![c] = <<>>]
         /\ closing' = closing \ {c}
         /\ slot' = [slot EXCEPT ![c] = 0]
         /\ net' = IF to = "timer" THEN At("timer") ELSE Doing(to, c)
    /\ UNCHANGED <<acc, bye, sendbuf, out, workVars, cur>>

CountDown(from, to) ==
    /\ net.at = from
    /\ cur' = cur - 1
    /\ net' = IF to = "epoll" THEN At("epoll") ELSE Doing(to, net.conn)
    /\ UNCHANGED <<acc, listVars, linkVars, workVars>>

\* The tail of delConnection: del(uid), then the connection is counted off.
EndDelete == Unlink("unlink", "count") \/ CountDown("count", "epoll")

\* refresh(): the time stamp moves into the future.
Refresh(c) == stale' = stale \ {c}
-----------------------------------------------------------------------------
(* Socket events of an open connection.                                     *)

\* k complete requests are read at once and judged together; those that come
\* when the queue is over its capacity are dropped without an answer.
HandleInput(c) ==
    /\ net = At("epoll")
    /\ stage[c] = "open"
    /\ \E k \in 1 .. (Asks[c] - came[c]) :
         LET batch == [j \in 1 .. k |->
                         [kind |-> Verdict, uid |-> slot[c], of |-> c, n |-> came[c] + j]]
         IN  /\ recvq' = IF Verdict = "discard" THEN recvq ELSE recvq \o batch
             /\ came' = [came EXCEPT ![c] = @ + k]
    /\ Refresh(c)
    /\ UNCHANGED <<acc, slot, vConn, free, ahead, linkVars, busy, sbuffer, told, cur, net>>

\* recv returns 0: the transceiver closes itself and doResponse returns
\* false, which handleInputImp does not look at.  The connection stays.
PeerCloses(c) ==
    /\ net = At("epoll")
    /\ stage[c] = "open"
    /\ stage' = [stage EXCEPT ![c] = "dead"]
    /\ bye' = bye \cup {c}
    /\ sendbuf' = [sendbuf EXCEPT ![c] = None]
    /\ Refresh(c)
    /\ UNCHANGED <<acc, slot, vConn, free, ahead, messages, closing, out, workVars, cur, net>>

\* A read or write fails, a packet does not parse, EPOLLERR, or the client
\* takes its answers too slowly (checkFlow).
LinkDown(c) ==
    /\ net = At("epoll")
    /\ stage[c] = "open"
    /\ Delete(c, "ended")
    /\ UNCHANGED <<acc, listVars, bye, messages, closing, out, busy, sbuffer, told, came, cur>>

MutLeftCopies(c) == messages[c]

\* The messages of which nothing has been written.  The send buffer shares
\* the bytes of the message it holds: when they are out, a copy of it that
\* stayed in _messages is empty, and sending it does nothing.
Left(c) ==
    IF messages[c] # <<>> /\ Head(messages[c]) = sendbuf[c]
    THEN Tail(messages[c]) ELSE messages[c]

MutFlushBufferOnly(c) ==
    /\ out' = out
    /\ sendbuf' = [sendbuf EXCEPT ![c] = None]
    /\ messages' = [messages EXCEPT ![c] = Left(c)]

\* The send buffer has drained, and onRequestCallback sends messages until
\* all are out or one gets stuck; that one leaves _messages (eRetFull).
Flush(c) ==
    \/ /\ out' = [out EXCEPT ![c] = @ \o Left(c)]
       /\ sendbuf' = [sendbuf EXCEPT ![c] = None]
       /\ messages' = [messages EXCEPT ![c] = <<>>]
    \/ \E j \in DOMAIN Left(c) :
         /\ out' = [out EXCEPT ![c] = @ \o SubSeq(Left(c), 1, j)]
         /\ sendbuf' = [sendbuf EXCEPT ![c] = Left(c)[j]]
         /\ messages' = [messages EXCEPT ![c] = SubSeq(Left(c), j + 1, Len(Left(c)))]

\* EPOLLOUT: sendBuffer().  A connection that the service wants closed goes
\* when everything is out.
HandleOutput(c) ==
    /\ net = At("epoll")
    /\ stage[c] = "open"
    /\ sendbuf[c] # None
    /\ Flush(c)
    /\ IF c \in closing /\ sendbuf'[c] = None
       THEN /\ Report(c, "ended")
            /\ stage' = [stage EXCEPT ![c] = "dead"]
            /\ net' = Doing("unlink", c)
            /\ UNCHANGED stale
       ELSE /\ Refresh(c)
            /\ UNCHANGED <<recvq, stage, net>>
    /\ UNCHANGED <<acc, slot, vConn, free, ahead, bye, closing, busy, sbuffer, told, came, cur>>
-----------------------------------------------------------------------------
(* processPipe: one command of the handles.                                 *)

\* Connection::send on a transceiver that is still valid: straight to the
\* wire when nothing waits, in whole, in part, or failing hard.  Such a
\* failure closes the transceiver and leaves processPipe as an exception.
SendTo(c, answer) ==
    IF messages[c] = <<>> /\ sendbuf[c] = None
    THEN \/ /\ out' = [out EXCEPT ![c] = Append(@, answer)]
            /\ Refresh(c)
            /\ UNCHANGED <<stage, sendbuf, messages>>
         \/ /\ out' = [out EXCEPT ![c] = Append(@, answer)]
            /\ sendbuf' = [sendbuf EXCEPT ![c] = answer]
            /\ messages' = [messages EXCEPT ![c] = <<answer>>]
            /\ Refresh(c)
            /\ UNCHANGED stage
         \/ /\ stage' = [stage EXCEPT ![c] = "dead"]
            /\ UNCHANGED <<stale, sendbuf, messages, out>>
    ELSE /\ messages' = [messages EXCEPT ![c] = Append(@, answer)]
         /\ Refresh(c)
         /\ UNCHANGED <<stage, sendbuf, out>>

\* get(uid): whichever connection has the slot now.
Addressee(command) == vConn[command.uid]

ProcessClose(c) ==
    /\ closing' = closing \cup {c}
    /\ IF sendbuf[c] = None
       THEN Delete(c, "ended")
       ELSE UNCHANGED <<recvq, stage, sendbuf, net>>
    /\ UNCHANGED <<stale, messages, out>>

ProcessSend(c, answer) ==
    /\ IF stage[c] = "dead"
       THEN /\ Delete(c, "ended")
            /\ UNCHANGED <<stale, messages, out>>
       ELSE /\ SendTo(c, answer)
            /\ UNCHANGED <<recvq, net>>
    /\ UNCHANGED closing

ProcessPipe ==
    /\ net = At("epoll")
    /\ sbuffer # <<>>
    /\ LET e == Head(sbuffer)
           c == Addressee(e)
       IN  \/ /\ c = None
              /\ UNCHANGED <<stale, stage, sendbuf, messages, closing, out, recvq, net>>
           \/ c # None /\ e.cmd = "c" /\ ProcessClose(c)
           \/ c # None /\ e.cmd = "s" /\ ProcessSend(c, <<e.of, e.n>>)
    /\ sbuffer' = Tail(sbuffer)
    /\ UNCHANGED <<acc, slot, vConn, free, ahead, bye, busy, told, came, cur>>
-----------------------------------------------------------------------------
(* checkTimeout, every two seconds.                                         *)

\* A second passes in which nothing moves the time stamp of c.
Age(c) ==
    /\ c \in Listed \ stale
    /\ stale' = stale \cup {c}
    /\ UNCHANGED <<acc, slot, vConn, free, ahead, linkVars, workVars, cur, net>>

Overdue == {c \in stale : TimeoutOn}

CheckTimeout ==
    /\ net = At("epoll")
    /\ Overdue # {}
    /\ net' = At("timer")
    /\ UNCHANGED <<acc, listVars, linkVars, workVars, cur>>

\* delConnection(cPtr, false, ...) counts the connection off first and leaves
\* the list to the loop, which holds the mutex.
TimeoutOne(c) ==
    /\ net = At("timer")
    /\ c \in Overdue
    /\ Shut(c, "EM_SERVER_TIMEOUT_CLOSE")
    /\ net' = Doing("timerCount", c)
    /\ UNCHANGED <<acc, listVars, bye, messages, closing, out, busy, sbuffer, told, came, cur>>

EndTimeout ==
    /\ net = At("timer")
    /\ Overdue = {}
    /\ net' = At("epoll")
    /\ UNCHANGED <<acc, listVars, linkVars, workVars, cur>>

TimerStep ==
    \/ CheckTimeout
    \/ \E c \in Conn : TimeoutOne(c)
    \/ CountDown("timerCount", "timerUnlink")
    \/ Unlink("timerUnlink", "timer")
    \/ EndTimeout
-----------------------------------------------------------------------------
(* The handle threads.                                                      *)

\* handleOnceThread takes the oldest context.
Pop(h) ==
    /\ busy[h] = None
    /\ recvq # <<>>
    /\ busy' = [busy EXCEPT ![h] = Head(recvq)]
    /\ recvq' = Tail(recvq)
    /\ UNCHANGED <<acc, listVars, linkVars, sbuffer, told, came, cur, net>>

\* A close context calls handleClose.  A request is answered, answered and
\* its connection closed, only closed (it does not decode, the service throws
\* or asks for it), or nothing is sent (a one-way request).  An overloaded or
\* outdated request is not executed, and ends in one of the same ways.
Finish(h) ==
    /\ busy[h] # None
    /\ LET x == busy[h]
           Reply(cmd) == [cmd |-> cmd, uid |-> x.uid, of |-> x.of, n |-> x.n]
       IN  \/ /\ x.kind \in CloseType
              /\ told' = [told EXCEPT ![x.of] = @ + 1]
              /\ UNCHANGED sbuffer
           \/ /\ x.kind \notin CloseType
              /\ \E replies \in {<<>>, <<Reply("s")>>, <<Reply("c")>>, <<Reply("s"), Reply("c")>>} :
                    sbuffer' = sbuffer \o replies
              /\ UNCHANGED told
    /\ busy' = [busy EXCEPT ![h] = None]
    /\ UNCHANGED <<acc, listVars, linkVars, recvq, came, cur, net>>

HandleStep(h) == Pop(h) \/ Finish(h)

AcceptStep == \E c \in Conn : Accept(c) \/ GetUniqId(c) \/ AddTcpConnection(c)

SocketStep == \E c \in Conn : HandleInput(c) \/ PeerCloses(c) \/ LinkDown(c) \/ HandleOutput(c)

Next ==
    \/ AcceptStep
    \/ SocketStep
    \/ ProcessPipe
    \/ EndDelete
    \/ TimerStep
    \/ \E c \in Conn : Age(c)
    \/ \E h \in Handle : HandleStep(h)

Spec == Init /\ [][Next]_vars

-----------------------------------------------------------------------------
(* Properties.                                                              *)

TypeOK ==
    /\ acc.at \in {"accept", "accepted", "numbered"}
    /\ stage \in [Conn -> {"new", "open", "dead", "gone"}]
    /\ bye \subseteq Conn
    /\ slot \in [Conn -> 0 .. Slots]
    /\ vConn \in [Slot -> Conn \cup {None}]
    /\ free \in Seq(Slot) /\ Len(free) <= Slots
    /\ stale \subseteq Listed
    /\ cur \in 0 .. MaxConns
    /\ net.at \in {"epoll", "unlink", "count", "timer", "timerCount", "timerUnlink"}
    /\ recvq \in Seq(Context)
    /\ busy \in [Handle -> Context \cup {None}]
    /\ sbuffer \in Seq(Command)
    /\ sendbuf \in [Conn -> Answer \cup {None}]
    /\ messages \in [Conn -> Seq(Answer)]
    /\ closing \subseteq Conn
    /\ \A c \in Conn : came[c] \in 0 .. Asks[c]
    /\ out \in [Conn -> Seq(Answer)]
    /\ ahead \in [Conn -> 0 .. Slots]
    /\ told \in [Conn -> 0 .. 1]

Holding(s) == acc.at = "numbered" /\ slot[acc.conn] = s

\* Every slot is in exactly one place: free, with a listed connection that
\* bears its number, or with the connection being accepted.
SlotsAgree ==
    /\ \A i, j \in DOMAIN free : free[i] = free[j] => i = j
    /\ \A s \in Slot :
         LET isFree == \E i \in DOMAIN free : free[i] = s
         IN  /\ isFree => vConn[s] = None /\ ~Holding(s)
             /\ Holding(s) => vConn[s] = None
             /\ ~isFree /\ ~Holding(s) => vConn[s] # None
             /\ vConn[s] # None => slot[vConn[s]] = s /\ stage[vConn[s]] \in {"open", "dead"}

\* A connection that passed the limit finds a free slot (the assertion of
\* getUniqId), although connections are counted off and taken off the list
\* in two steps and in either order; the counter is exact between them.
ConnectionsCounted ==
    /\ (acc.at = "accepted" /\ ~Locked) => free # <<>>
    /\ cur = Cardinality(Listed) + (IF net.at = "count" THEN 1 ELSE 0)
                                 - (IF net.at = "timerUnlink" THEN 1 ELSE 0)

Reports(c) ==
    Cardinality({i \in DOMAIN recvq : recvq[i].kind \in CloseType /\ recvq[i].of = c})
      + Cardinality({h \in Handle : busy[h] # None /\ busy[h].kind \in CloseType /\ busy[h].of = c})
      + told[c]

\* The service is told of the end of every connection exactly once, however
\* many reasons to end it came together and however full the queue was.
CloseReportedOnce ==
    \A c \in Conn : Reports(c) =
        IF stage[c] = "gone" \/ (net.conn = c /\ net.at \in {"unlink", "timerCount", "timerUnlink"})
        THEN 1 ELSE 0

\* Slots are reused oldest first.  This is all that keeps a late answer, or a
\* late close, from a connection it is not meant for: it can reach another
\* one only after all slots free when its own ended have been handed out.
ReuseComesLast ==
    \A i \in DOMAIN sbuffer :
        LET c == Addressee(sbuffer[i])
        IN  c = None \/ c = sbuffer[i].of \/ ahead[sbuffer[i].of] = 0

\* Answers wait in _messages only behind an unsent part in the send buffer:
\* so an EPOLLOUT event is due that will send them, and a close requested by
\* the service, which looks at the send buffer only, cuts off no answer.
NothingBehindEmptyBuffer ==
    \A c \in Conn : stage[c] = "open" /\ sendbuf[c] = None => messages[c] = <<>>

Written(c, answer) == \E i \in DOMAIN out[c] : out[c][i] = answer

\* What waits for c in the order the handles gave it, and the places in that
\* line of what is still to be written to c.
Line(c) == messages[c] \o [i \in DOMAIN sbuffer |-> <<sbuffer[i].of, sbuffer[i].n>>]
Due(c) ==
    {i \in DOMAIN messages[c] : ~Written(c, messages[c][i])}
      \cup {Len(messages[c]) + i : i \in {j \in DOMAIN sbuffer :
                                            sbuffer[j].cmd = "s" /\ Addressee(sbuffer[j]) = c}}

DueUpTo(c, k) == {i \in Due(c) : i <= k}

\* On a connection answers go out in the order the handles gave them, none
\* twice and none skipped, whether they were written at once, in parts or
\* from the queue: what a step writes is the first of what is due.
AnswersInOrder ==
    [][\A c \in Conn : \E k \in 0 .. Len(Line(c)) :
          /\ Len(out'[c]) = Len(out[c]) + Cardinality(DueUpTo(c, k))
          /\ \A i \in DOMAIN out[c] : out'[c][i] = out[c][i]
          /\ \A i \in DueUpTo(c, k) :
                out'[c][Len(out[c]) + Cardinality(DueUpTo(c, i))] = Line(c)[i]]_vars

\* kt_epoll_server.h:127-129: EM_CLIENT_CLOSE is a close by the client,
\* EM_SERVER_TIMEOUT_CLOSE one by the server because the connection timed
\* out.  A connection the client is seen to have closed is not reported as
\* timed out.
CloseTypeRight ==
    \A i \in DOMAIN recvq :
        recvq[i].of \in bye => recvq[i].kind # "EM_SERVER_TIMEOUT_CLOSE"
=============================================================================
