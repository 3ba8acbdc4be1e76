------------------------- MODULE CoroutineScheduler -------------------------
(***************************************************************************)
(* KT_CoroutineScheduler (kt_coroutine.cpp): the coroutines of one thread, *)
(* and the loop that runs them.  When nothing can run the loop calls the   *)
(* epoller's done(), which fires timers and then waits for an event.  Then *)
(* the loop wakes the coroutines that were put, whose sleep is over, or    *)
(* that yielded by themselves; then it runs the active coroutines          *)
(* (ActiveRound at most) and one available one.                            *)
(*                                                                         *)
(* Everything but the epoller's notify event belongs to the thread of the  *)
(* loop.  The lists that hold the sources of wakeups (_activeCoroQueue,    *)
(* _needActiveCoroId, _timeoutCoroId) are counted per coroutine: each is   *)
(* emptied as a whole, so its order decides nothing but the order in which *)
(* the woken run.  The lists _inactive, _timeout and _free are never       *)
(* walked, so the status alone says who is in them.  A failing assert ends *)
(* the program: the build's release flags do not define NDEBUG.            *)
(***************************************************************************)
EXTENDS Naturals, Sequences, FiniteSets

CONSTANTS
    PoolSize,       \* _poolSize
    Batch,          \* how many coroutines are created at a time (100)
    ActiveRound     \* how many active coroutines run in a round (100)

ASSUME SchedulerAssumption ==
    {PoolSize, Batch, ActiveRound} \subseteq Nat \ {0}

Coro == 1 .. PoolSize
Main == 0           \* the uid of _mainCoro
Status == {"none", "free", "avail", "active", "inactive", "timeout"}
Place == {"top", "fire", "epoll", "io", "wake", "run", "ended"}

VARIABLES
    status,         \* _eStatus of each coroutine; "none" before it is created
    active,         \* _active, first to last
    avail,          \* _avail, first to last
    used,           \* _usedSize
    current,        \* _currentSize
    puts,           \* puts[c]: entries of c in _activeCoroQueue
    yields,         \* yields[c]: entries of c in _needActiveCoroId
    asleep,         \* asleep[c]: its entries of _timeoutCoroId not yet due
    due,            \* due[c]: its entries of _timeoutCoroId that are due
    at,             \* where the loop is
    round,          \* active coroutines run in this round
    cur,            \* _currentCoro
    notified,       \* the epoller's notify event is pending
    ringing,        \* a timer has come up since fireEvents
    terminated,     \* _epoller->isTerminate()
    aborted         \* an assert has failed

lists == <<status, active, avail>>
sizes == <<used, current>>
wakeups == <<puts, yields, asleep, due>>
loop == <<at, round, cur>>
events == <<notified, ringing>>
fate == <<terminated, aborted>>
schedVars == <<lists, sizes, wakeups, loop, events, fate>>

With(s) == {c \in Coro : status[c] = s}
Nobody == [c \in Coro |-> 0]
Least(a, b) == IF a < b THEN a ELSE b

\* init(), then one go(): the first coroutine waits for its turn.
SchedInit(first) ==
    /\ current = Least(PoolSize, Batch)
    /\ status = [c \in Coro |-> IF c = first THEN "avail"
                                ELSE IF c <= current THEN "free" ELSE "none"]
    /\ active = <<>>
    /\ avail = <<first>>
    /\ used = 1
    /\ puts = Nobody
    /\ yields = Nobody
    /\ asleep = Nobody
    /\ due = Nobody
    /\ at = "top"
    /\ round = 0
    /\ cur = Main
    /\ notified = FALSE
    /\ ringing = FALSE
    /\ terminated = FALSE
    /\ aborted = FALSE
-----------------------------------------------------------------------------
(* What a running coroutine may do.  It is the first of its list.           *)

Running(c) == cur = c /\ ~aborted

MutLeaveStaysActive(c, s) ==
    /\ status' = [status EXCEPT ![c] = s]
    /\ avail' = IF status[c] = "avail" THEN Tail(avail) ELSE avail
    /\ cur' = Main
    /\ UNCHANGED active

\* CoroutineDel of the running coroutine c, which then has the status s.
Leave(c, s) ==
    /\ status' = [status EXCEPT ![c] = s]
    /\ active' = IF status[c] = "active" THEN Tail(active) ELSE active
    /\ avail' = IF status[c] = "avail" THEN Tail(avail) ELSE avail
    /\ cur' = Main

\* getFreeSize() > 0
HasFree == PoolSize > used

\* go(): take a free coroutine; when there is none, create some more.
NoneLeft == used >= current \/ With("free") = {}
CanGo == ~NoneLeft \/ current < PoolSize
Grown == IF NoneLeft THEN Least(PoolSize, current + Batch) ELSE current

Go(c) ==
    LET created == {d \in Coro : current < d /\ d <= Grown} IN
    /\ CanGo
    /\ c \in With("free") \cup created
    /\ status' = [d \in Coro |-> IF d = c THEN "avail"
                                 ELSE IF d \in created THEN "free" ELSE status[d]]
    /\ avail' = Append(avail, c)
    /\ current' = Grown
    /\ used' = used + 1
    /\ UNCHANGED active

MutPutSilent(c, done) ==
    /\ IF done /\ ~terminated
       THEN puts' = [puts EXCEPT ![c] = @ + 1]
       ELSE UNCHANGED puts
    /\ UNCHANGED notified

\* put() of c when what c waits for is done: the loop is notified.
Put(c, done) ==
    IF done /\ ~terminated
    THEN /\ puts' = [puts EXCEPT ![c] = @ + 1]
         /\ notified' = TRUE
    ELSE UNCHANGED <<puts, notified>>

MutYieldForgets(c) ==
    /\ Leave(c, "inactive")
    /\ UNCHANGED <<sizes, wakeups, at, round, events, fate>>

\* yield(true)
YieldSelf(c) ==
    /\ yields' = [yields EXCEPT ![c] = @ + 1]
    /\ Leave(c, "inactive")
    /\ UNCHANGED <<sizes, puts, asleep, due, at, round, events, fate>>

\* sleep(): a timer that is the nearest of all notifies the epoller.
Sleep(c) ==
    /\ asleep' = [asleep EXCEPT ![c] = @ + 1]
    /\ notified' \in {notified, TRUE}
    /\ Leave(c, "timeout")
    /\ UNCHANGED <<sizes, puts, yields, due, at, round, ringing, fate>>

MutFinishCountsNot(c) ==
    /\ Leave(c, "free")
    /\ UNCHANGED <<sizes, wakeups, at, round, events, fate>>

\* The coroutine's function returns (corotineProc).
Finish(c) ==
    /\ used' = used - 1
    /\ Leave(c, "free")
    /\ UNCHANGED <<current, wakeups, at, round, events, fate>>
-----------------------------------------------------------------------------
(* The loop: run().                                                         *)

InLoop(place) == at = place /\ cur = Main /\ ~aborted

\* The top of the loop: call done() only if nothing can run.
Poll ==
    /\ InLoop("top")
    /\ ~terminated
    /\ at' = IF puts = Nobody /\ avail = <<>> /\ active = <<>> THEN "fire" ELSE "wake"
    /\ UNCHANGED <<lists, sizes, wakeups, round, cur, events, fate>>

\* The loop ends; destroy() frees the coroutines, whatever they wait for.
Quit ==
    /\ InLoop("top")
    /\ terminated
    /\ at' = "ended"
    /\ UNCHANGED <<lists, sizes, wakeups, round, cur, events, fate>>

\* fireEvents drops every timer whose time has come, then the wait begins.
\* A sleeper's timer has an empty callback: that its time came since the
\* last wakeupbytimeout is forgotten here.
FireEventsDone ==
    /\ InLoop("fire")
    /\ at' = "epoll"
    /\ UNCHANGED <<lists, sizes, wakeups, round, cur, events, fate>>

\* The wait returns for a notify, for a timer ...
EpollReturns ==
    /\ InLoop("epoll")
    /\ notified \/ ringing
    /\ at' = "io"
    /\ notified' = FALSE
    /\ ringing' = FALSE
    /\ UNCHANGED <<lists, sizes, wakeups, round, cur, fate>>

\* ... for something on the network, or because it has taken long enough.
EpollTimesOut ==
    /\ InLoop("epoll")
    /\ ~notified
    /\ ~ringing
    /\ at' = "io"
    /\ UNCHANGED <<lists, sizes, wakeups, round, cur, events, fate>>

DoneReturns ==
    /\ InLoop("io")
    /\ at' = "wake"
    /\ UNCHANGED <<lists, sizes, wakeups, round, cur, events, fate>>

\* moveToActive, moveToAvail: asserts that c waits, and appends it.
MoveToActive(c) ==
    IF status[c] \in {"inactive", "timeout"}
    THEN /\ status' = [status EXCEPT ![c] = "active"]
         /\ active' = Append(active, c)
         /\ UNCHANGED <<avail, aborted>>
    ELSE aborted' = TRUE /\ UNCHANGED lists

MoveToAvail(c) ==
    IF status[c] = "inactive"
    THEN /\ status' = [status EXCEPT ![c] = "avail"]
         /\ avail' = Append(avail, c)
         /\ UNCHANGED <<active, aborted>>
    ELSE aborted' = TRUE /\ UNCHANGED lists

\* wakeup(), one round.
Wakeup(c) ==
    /\ InLoop("wake")
    /\ ~terminated
    /\ puts[c] > 0
    /\ MoveToActive(c)
    /\ puts' = [puts EXCEPT ![c] = @ - 1]
    /\ UNCHANGED <<sizes, yields, asleep, due, loop, events, terminated>>

\* wakeupbytimeout(), one round.
WakeupByTimeout(c) ==
    /\ InLoop("wake")
    /\ ~terminated
    /\ puts = Nobody
    /\ due[c] > 0
    /\ MoveToActive(c)
    /\ due' = [due EXCEPT ![c] = @ - 1]
    /\ UNCHANGED <<sizes, puts, yields, asleep, loop, events, terminated>>

MutWakeupBySelfKeeps(c) ==
    /\ InLoop("wake")
    /\ ~terminated
    /\ puts = Nobody
    /\ due = Nobody
    /\ yields[c] > 0
    /\ MoveToAvail(c)
    /\ UNCHANGED <<sizes, wakeups, loop, events, terminated>>

\* wakeupbyself(), one round.
WakeupBySelf(c) ==
    /\ InLoop("wake")
    /\ ~terminated
    /\ puts = Nobody
    /\ due = Nobody
    /\ yields[c] > 0
    /\ MoveToAvail(c)
    /\ yields' = [yields EXCEPT ![c] = @ - 1]
    /\ UNCHANGED <<sizes, puts, asleep, due, loop, events, terminated>>

\* Everybody is awake; after termination nobody is woken any more.
WakeupDone ==
    /\ InLoop("wake")
    /\ \/ terminated
       \/ puts = Nobody /\ due = Nobody /\ yields = Nobody
    /\ at' = "run"
    /\ round' = 0
    /\ UNCHANGED <<lists, sizes, wakeups, cur, events, fate>>

RunActive ==
    /\ InLoop("run")
    /\ active # <<>>
    /\ round < ActiveRound
    /\ cur' = Head(active)
    /\ round' = round + 1
    /\ UNCHANGED <<lists, sizes, wakeups, at, events, fate>>

\* One available coroutine, if there is any, and back to the top.
RunAvail ==
    /\ InLoop("run")
    /\ active = <<>> \/ round = ActiveRound
    /\ cur' = IF avail = <<>> THEN Main ELSE Head(avail)
    /\ at' = "top"
    /\ UNCHANGED <<lists, sizes, wakeups, round, events, fate>>

LoopStep ==
    \/ Poll \/ Quit \/ FireEventsDone \/ EpollReturns \/ EpollTimesOut \/ DoneReturns
    \/ \E c \in Coro : Wakeup(c) \/ WakeupByTimeout(c) \/ WakeupBySelf(c)
    \/ WakeupDone \/ RunActive \/ RunAvail

\* The time of a sleeper comes: the wait ends if it has begun.
Elapse(c) ==
    /\ at # "ended"
    /\ ~aborted
    /\ asleep[c] > 0
    /\ asleep' = [asleep EXCEPT ![c] = @ - 1]
    /\ due' = [due EXCEPT ![c] = @ + 1]
    /\ ringing' = (at = "epoll")
    /\ UNCHANGED <<lists, sizes, puts, yields, loop, notified, fate>>
=============================================================================
