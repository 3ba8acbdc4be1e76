----------------------------- MODULE ThreadPool -----------------------------
(***************************************************************************)
(* KT_ThreadPool (kt_thread_pool.cpp): a queue of tasks, threads that take *)
(* them, and one condition variable on which both the threads without work *)
(* and a caller of waitForAllDone sleep.  Whatever a method does under the *)
(* pool's mutex is one step; the counter of the tasks that run (_atomic)   *)
(* is raised and lowered outside it.                                       *)
(***************************************************************************)
EXTENDS Naturals, Sequences, FiniteSets

CONSTANTS
    Worker,         \* the threads the pool may have
    Task,           \* what is given to exec
    NoTask

ASSUME PoolAssumption == NoTask \notin Task /\ 0 \notin Worker

Caller == 0         \* the thread that calls exec, waitForAllDone and stop

VARIABLES
    tasks,          \* _tasks
    thread,         \* thread[w]: where the worker is
    job,            \* job[w]: the task it has taken
    busy,           \* _atomic
    asleep,         \* who sleeps on _condition
    stopped         \* _bTerminate, once the pool was started

poolVars == <<tasks, thread, job, busy, asleep, stopped>>

ThreadState == {"none", "get", "took", "run", "check", "exit"}

PoolInit ==
    /\ tasks = <<>>
    /\ thread = [w \in Worker |-> "none"]
    /\ job = [w \in Worker |-> NoTask]
    /\ busy = 0
    /\ asleep = {}
    /\ stopped = FALSE
-----------------------------------------------------------------------------
(* The caller.                                                              *)

\* init(n); start()
StartPool(some) ==
    /\ thread' = [w \in Worker |-> IF w \in some THEN "get" ELSE "none"]
    /\ UNCHANGED <<tasks, job, busy, asleep, stopped>>

\* notify_one wakes any one sleeper.
Exec(t) ==
    /\ tasks' = Append(tasks, t)
    /\ asleep' \in IF asleep = {} THEN {asleep} ELSE {asleep \ {x} : x \in asleep}
    /\ UNCHANGED <<thread, job, busy, stopped>>

MutDoneAtOnce == Caller \notin asleep

\* waitForAllDone returns when no task is queued: those that run may not be
\* done.
AllDone == Caller \notin asleep /\ tasks = <<>>

WaitForAllDone ==
    /\ Caller \notin asleep
    /\ tasks # <<>>
    /\ asleep' = asleep \cup {Caller}
    /\ UNCHANGED <<tasks, thread, job, busy, stopped>>

Stop ==
    /\ stopped' = TRUE
    /\ asleep' = {}
    /\ UNCHANGED <<tasks, thread, job, busy>>

Joined == stopped /\ \A w \in Worker : thread[w] \in {"none", "exit"}
-----------------------------------------------------------------------------
(* The worker w: get() and run().                                           *)

GetSleeps(w) ==
    /\ thread[w] = "get" /\ w \notin asleep
    /\ ~stopped
    /\ tasks = <<>>
    /\ asleep' = asleep \cup {w}
    /\ UNCHANGED <<tasks, thread, job, busy, stopped>>

GetTakes(w) ==
    /\ thread[w] = "get" /\ w \notin asleep
    /\ ~stopped
    /\ tasks # <<>>
    /\ job' = [job EXCEPT ![w] = Head(tasks)]
    /\ tasks' = Tail(tasks)
    /\ thread' = [thread EXCEPT ![w] = "took"]
    /\ UNCHANGED <<busy, asleep, stopped>>

GetStops(w) ==
    /\ thread[w] = "get" /\ w \notin asleep
    /\ stopped
    /\ thread' = [thread EXCEPT ![w] = "exit"]
    /\ UNCHANGED <<tasks, job, busy, asleep, stopped>>

Begin(w) ==
    /\ thread[w] = "took"
    /\ busy' = busy + 1
    /\ thread' = [thread EXCEPT ![w] = "run"]
    /\ UNCHANGED <<tasks, job, asleep, stopped>>

MutEndCountsNot(w) ==
    /\ thread[w] = "run"
    /\ job' = [job EXCEPT ![w] = NoTask]
    /\ thread' = [thread EXCEPT ![w] = "check"]
    /\ UNCHANGED <<tasks, busy, asleep, stopped>>

End(w) ==
    /\ thread[w] = "run"
    /\ busy' = busy - 1
    /\ job' = [job EXCEPT ![w] = NoTask]
    /\ thread' = [thread EXCEPT ![w] = "check"]
    /\ UNCHANGED <<tasks, asleep, stopped>>

MutCheckNever(w) ==
    /\ thread[w] = "check"
    /\ thread' = [thread EXCEPT ![w] = "get"]
    /\ UNCHANGED <<tasks, job, busy, asleep, stopped>>

\* All tasks are done: wake whoever waits for that.
Check(w) ==
    /\ thread[w] = "check"
    /\ asleep' = IF busy = 0 /\ tasks = <<>> THEN {} ELSE asleep
    /\ thread' = [thread EXCEPT ![w] = "get"]
    /\ UNCHANGED <<tasks, job, busy, stopped>>

\* The steps of a worker that do not touch its task.
Idle(w) == GetSleeps(w) \/ GetTakes(w) \/ GetStops(w) \/ Check(w)

\* A condition variable may wake a sleeper for no reason.
WakesSpuriously ==
    /\ \E x \in asleep : asleep' = asleep \ {x}
    /\ UNCHANGED <<tasks, thread, job, busy, stopped>>
=============================================================================
