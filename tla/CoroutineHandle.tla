-------------------------- MODULE CoroutineHandle --------------------------
(***************************************************************************)
(* A handle thread of the server in coroutine mode                         *)
(* (NET_THREAD_QUEUE_HANDLES_CO): net threads put received data into the   *)
(* handle's queue and notify its scheduler; the first coroutine takes the  *)
(* data out and starts a coroutine for every request; the coroutines of    *)
(* the requests call other services, sleep and yield.  The calls use a     *)
(* net loop of the same thread: their answers and their timeouts are       *)
(* handled in done(), where the loop is at "fire" or at "io".              *)
(*                                                                         *)
(* A request's coroutine is any program of at most Ops such steps.  As in  *)
(* the examples of the repository it does nothing else between sending     *)
(* calls in parallel and coroWhenAll, and sends as many as it announced.   *)
(***************************************************************************)
EXTENDS CoroutineScheduler

CONSTANTS
    Net,            \* net threads that receive data
    Parallel,       \* how many calls are sent in parallel
    Ops,            \* bound of the steps of a request's coroutine
    MaxData         \* bound of the data received

ASSUME HandleAssumption ==
    /\ Parallel \in Nat \ {0}
    /\ {Ops, MaxData} \subseteq Nat

Handle == 1         \* the coroutine of Handle::handleCoroutine

VARIABLES
    queue,          \* length of the handle's DataQueue
    pushed,         \* net threads that have pushed and not notified yet
    received,       \* number of data pushed
    ops,            \* ops[c]: steps left to the request of coroutine c
    calling,        \* coroutines whose synchronous call is not complete
    sending,        \* coroutines with calls sent and no coroWhenAll yet
    count           \* count[c]: calls of its batch that are not complete

dataVars == <<queue, pushed, received>>
callVars == <<calling, sending, count>>
vars == <<schedVars, dataVars, ops, callVars>>

Worker == Coro \ {Handle}

Init ==
    /\ SchedInit(Handle)
    /\ queue = 0
    /\ pushed = {}
    /\ received = 0
    /\ ops = Nobody
    /\ calling = {}
    /\ sending = {}
    /\ count = Nobody
-----------------------------------------------------------------------------
(* The net threads: DataBuffer::insertRecvQueue.                            *)

Push(n) ==
    /\ ~aborted
    /\ n \notin pushed
    /\ received < MaxData
    /\ queue' = queue + 1
    /\ received' = received + 1
    /\ pushed' = pushed \cup {n}
    /\ UNCHANGED <<schedVars, ops, callVars>>

Notify(n) ==
    /\ ~aborted
    /\ n \in pushed
    /\ pushed' = pushed \ {n}
    /\ notified' = TRUE
    /\ UNCHANGED <<lists, sizes, wakeups, loop, ringing, fate, queue, received, ops, callVars>>

\* The server stops (its flag, then Handle::notifyFilter): KT_Epoller::
\* terminate, which also clears the timers.
Terminate ==
    /\ ~aborted
    /\ ~terminated
    /\ terminated' = TRUE
    /\ notified' = TRUE
    /\ UNCHANGED <<lists, sizes, wakeups, loop, ringing, aborted, dataVars, ops, callVars>>
-----------------------------------------------------------------------------
(* The first coroutine: Handle::handleOnceCoroutine.                        *)

TakesData == ~terminated /\ HasFree /\ queue > 0

\* What needs no coroutine: a closed connection, an overload, data that has
\* been in the queue for too long.
HandleReport ==
    /\ Running(Handle)
    /\ TakesData
    /\ queue' = queue - 1
    /\ UNCHANGED <<schedVars, pushed, received, ops, callVars>>

\* A request gets a coroutine of its own, or is turned away (handleOverload).
HandleRequest ==
    /\ Running(Handle)
    /\ TakesData
    /\ queue' = queue - 1
    /\ IF CanGo
       THEN \E c \in Worker : Go(c) /\ ops' = [ops EXCEPT ![c] = Ops]
       ELSE UNCHANGED <<lists, sizes, ops>>
    /\ UNCHANGED <<wakeups, loop, events, fate, pushed, received, callVars>>

\* Nothing to take, or nobody to give it to.
HandleYields ==
    /\ Running(Handle)
    /\ ~TakesData
    /\ YieldSelf(Handle)
    /\ UNCHANGED <<dataVars, ops, callVars>>
-----------------------------------------------------------------------------
(* The coroutine c of a request.                                            *)

Step(c) ==
    /\ Running(c)
    /\ c # Handle
    /\ c \notin sending
    /\ ops[c] > 0
    /\ ops' = [ops EXCEPT ![c] = @ - 1]

\* ServantProxy::invoke, synchronous: the net loop of the thread handles the
\* call at once, and may complete it before the coroutine yields.
Call(c) ==
    /\ Step(c)
    /\ \E atOnce \in BOOLEAN :
         /\ Put(c, atOnce)
         /\ calling' = IF atOnce THEN calling ELSE calling \cup {c}
    /\ Leave(c, "inactive")
    /\ UNCHANGED <<sizes, yields, asleep, due, at, round, ringing, fate, dataVars,
                   sending, count>>

\* A batch of calls; some may be complete at once.
SendAll(c) ==
    /\ Step(c)
    /\ \E left \in 0 .. Parallel :
         /\ count' = [count EXCEPT ![c] = left]
         /\ Put(c, left = 0)
    /\ sending' = sending \cup {c}
    /\ UNCHANGED <<lists, sizes, yields, asleep, due, loop, ringing, fate, dataVars, calling>>

\* coroWhenAll
WhenAll(c) ==
    /\ Running(c)
    /\ c \in sending
    /\ sending' = sending \ {c}
    /\ Leave(c, "inactive")
    /\ UNCHANGED <<sizes, wakeups, at, round, events, fate, dataVars, ops, calling, count>>

TakeNap(c) ==
    /\ Step(c)
    /\ YieldSelf(c) \/ Sleep(c)
    /\ UNCHANGED <<dataVars, callVars>>

End(c) ==
    /\ Running(c)
    /\ c # Handle
    /\ c \notin sending
    /\ Finish(c)
    /\ ops' = [ops EXCEPT ![c] = 0]
    /\ UNCHANGED <<dataVars, callVars>>

RunStep ==
    \/ HandleReport \/ HandleRequest \/ HandleYields
    \/ \E c \in Worker : Call(c) \/ SendAll(c) \/ WhenAll(c) \/ TakeNap(c) \/ End(c)
-----------------------------------------------------------------------------
(* Completions: an answer, a failed connection or a timeout of a call.      *)

InDone == InLoop("fire") \/ InLoop("io")

\* AdapterProxy::finishInvoke, ObjectProxy::doInvokeException.
CallCompletes(c) ==
    /\ InDone
    /\ c \in calling
    /\ calling' = calling \ {c}
    /\ Put(c, TRUE)
    /\ UNCHANGED <<lists, sizes, yields, asleep, due, loop, ringing, fate, dataVars, ops,
                   sending, count>>

MutOneOfAllPuts(c) ==
    /\ InDone
    /\ count[c] > 0
    /\ count' = [count EXCEPT ![c] = @ - 1]
    /\ Put(c, TRUE)
    /\ UNCHANGED <<lists, sizes, yields, asleep, due, loop, ringing, fate, dataVars, ops,
                   calling, sending>>

\* checkAllReqReturn: the last one wakes the coroutine.
OneOfAllCompletes(c) ==
    /\ InDone
    /\ count[c] > 0
    /\ count' = [count EXCEPT ![c] = @ - 1]
    /\ Put(c, count[c] = 1)
    /\ UNCHANGED <<lists, sizes, yields, asleep, due, loop, ringing, fate, dataVars, ops,
                   calling, sending>>

Completion == \E c \in Worker : CallCompletes(c) \/ OneOfAllCompletes(c)

Next ==
    \/ \E n \in Net : Push(n) \/ Notify(n)
    \/ Terminate
    \/ RunStep
    \/ (LoopStep \/ \E c \in Coro : Elapse(c)) /\ UNCHANGED <<dataVars, ops, callVars>>
    \/ Completion

Spec == Init /\ [][Next]_vars

\* The thread runs, so do the net threads between a push and its notify, and
\* time passes.  A wait always ends (EpollTimesOut): it has a bound.  A call
\* is complete at the latest when its timer fires, in one of the calls of
\* done() that follow.
FairSpec ==
    /\ Spec
    /\ WF_vars(LoopStep /\ UNCHANGED <<dataVars, ops, callVars>>)
    /\ WF_vars(RunStep)
    /\ \A n \in Net : WF_vars(Notify(n))
    /\ \A c \in Worker :
         /\ WF_vars(Elapse(c) /\ UNCHANGED <<dataVars, ops, callVars>>)
         /\ SF_vars(CallCompletes(c) \/ OneOfAllCompletes(c))
-----------------------------------------------------------------------------
(* The state is of its type; the coroutine that runs is the first of its    *)
(* list, and the lists hold exactly the coroutines whose status says so.    *)
Distinct(s) == \A i, j \in DOMAIN s : s[i] = s[j] => i = j

ListTypeOK ==
    /\ status \in [Coro -> Status]
    /\ active \in Seq(Coro) /\ avail \in Seq(Coro)
    /\ used \in 0 .. PoolSize /\ current \in 0 .. PoolSize
    /\ {puts, yields, asleep, due} \subseteq [Coro -> Nat]
    /\ at \in Place /\ round \in 0 .. ActiveRound
    /\ cur \in Coro \cup {Main}
    /\ {notified, ringing, terminated, aborted} \subseteq BOOLEAN

CallTypeOK ==
    /\ queue \in Nat /\ received \in Nat /\ pushed \subseteq Net
    /\ ops \in [Coro -> Nat] /\ count \in [Coro -> Nat]
    /\ calling \subseteq Worker /\ sending \subseteq Worker

ListsAgree ==
    /\ Distinct(active) /\ \A i \in DOMAIN active : status[active[i]] = "active"
    /\ Distinct(avail) /\ \A i \in DOMAIN avail : status[avail[i]] = "avail"
    /\ \A c \in Coro :
         /\ status[c] = "active" => \E i \in DOMAIN active : active[i] = c
         /\ status[c] = "avail" => \E i \in DOMAIN avail : avail[i] = c

RunsTheFirst ==
    cur # Main => \/ active # <<>> /\ cur = Head(active)
                  \/ avail # <<>> /\ cur = Head(avail)

TypeOK == ListTypeOK /\ CallTypeOK /\ ListsAgree /\ RunsTheFirst

(* No assert of the scheduler fails: nobody is woken who does not wait      *)
(* (moveToActive, moveToAvail).                                             *)
NeverAborts == ~aborted

\* How many things will wake c.
Sources(c) ==
    puts[c] + yields[c] + asleep[c] + due[c]
    + (IF c \in calling THEN 1 ELSE 0) + (IF count[c] > 0 THEN 1 ELSE 0)

Waits(c) == status[c] \in {"inactive", "timeout"} \/ c \in sending

(* A coroutine that waits has exactly one source of wakeup: an answer of a  *)
(* call, the last answer of a batch, its time, or its place among the       *)
(* yielded or the put.  So it never stays asleep for good, and it never     *)
(* goes on before its answers are there.  One that does not wait has none:  *)
(* no wakeup of an earlier wait is left to end the next one too early.      *)
(* After termination put() wakes nobody.                                    *)
OneWakeup ==
    \A c \in Coro :
        /\ Sources(c) = 1 => Waits(c)
        /\ Sources(c) = 0 => ~Waits(c) \/ terminated
        /\ Sources(c) <= 1

InUse == {c \in Coro : status[c] \notin {"none", "free"}}

(* _usedSize counts the coroutines in use, so that the test before the data *)
(* is taken out of the queue (getFreeSize) agrees with the one of go():     *)
(* a request that was taken out is not turned away.                         *)
PoolAccounted ==
    /\ used = Cardinality(InUse)
    /\ Handle \in InUse
    /\ HasFree => CanGo

(* The thread does not wait for an event while there is something to do:    *)
(* a coroutine that was put or can run, or data and a coroutine for it,     *)
(* unless an event is about to end the wait.  (A sleeper whose time came    *)
(* before fireEvents may have to wait: see FireEventsDone.)                 *)
NoIdleWithWork ==
    at = "epoll" /\ ~notified =>
        /\ puts = Nobody
        /\ active = <<>> /\ avail = <<>>
        /\ queue = 0 \/ ~HasFree \/ pushed # {}

(* All data is taken and every request comes to its end, or the server      *)
(* stops; then the loop ends.                                               *)
Busy == queue > 0 \/ used > 1
Served == /\ Busy ~> ~Busy \/ terminated
          /\ terminated ~> at = "ended"
=============================================================================
