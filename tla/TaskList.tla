------------------------------ MODULE TaskList ------------------------------
(***************************************************************************)
(* TaskList and its subclasses (AdminRegistryServer/ExecuteTask.cpp): one  *)
(* deployment task of several items, executed one after the other          *)
(* (serial), all at once (parallel), or in batches of eachNum with the     *)
(* traffic to the servers of a batch stopped (elegant).  One thread        *)
(* prepares the files, one runs the serial or elegant loop, a pool runs    *)
(* the items of the others; cancelTask comes from outside, by a request or *)
(* because a newer task for the same server is added.                      *)
(*                                                                         *)
(* What an item does (start, stop, patch, ...) is left open: it succeeds   *)
(* or fails.  The list's own mutex makes every change of a status one      *)
(* step.  The removal of a list that is too old is not modelled.           *)
(***************************************************************************)
EXTENDS ThreadPool

CONSTANTS
    N,              \* number of items
    EachNums,       \* sizes of the elegant batches
    MaxThreads      \* bound of the pool's threads (5)

Item == 1 .. N
Least(a, b) == IF a < b THEN a ELSE b

ASSUME ListAssumption ==
    /\ {N, MaxThreads} \subseteq Nat \ {0}
    /\ EachNums \subseteq Nat \ {0}
    /\ Task = Item
    /\ Worker = 1 .. MaxThreads

VARIABLES
    kind,           \* class of the list; elegant lists may ask for serial
    eachNum,        \* size of an elegant batch
    patches,        \* the items whose command is a patch
    item,           \* status of each item
    cancelled,      \* _taskRsp.status = EM_T_CANCEL
    finished,       \* _finished
    prep, pi,       \* the prepare thread, and the item it is at
    main, base,     \* the serial or elegant loop, and the item it is at
    ok,             \* serial: no item has failed so far
    batch,          \* elegant: items of the batch not given to the pool yet
    marked,         \* history: items that cancelTask found not started
    begun           \* history: items whose command was run

listVars == <<kind, eachNum, patches>>
statusVars == <<item, cancelled, finished>>
prepVars == <<prep, pi>>
mainVars == <<main, base, ok, batch>>
history == <<marked, begun>>
vars == <<poolVars, listVars, statusVars, prepVars, mainVars, history>>

Kinds == {"serial", "parallel", "elegant", "elegantSerial"}
ItemStatus == {"notStart", "prepare", "pause", "running", "success", "failed", "cancel"}
Final == {"success", "failed", "cancel"}

PoolThreads == 1 .. Least(MaxThreads, IF kind = "parallel" THEN N
                                      ELSE IF kind = "elegant" THEN eachNum ELSE 1)

\* What the command of an item comes to: executeSingleTask.
Outcome == {"success", "failed"}

\* addTaskReq has made the list and calls execute().
Init ==
    /\ PoolInit
    /\ kind \in Kinds
    /\ eachNum \in EachNums
    /\ patches \in SUBSET Item
    /\ item = [i \in Item |-> "notStart"]
    /\ cancelled = FALSE
    /\ finished = FALSE
    /\ prep = "mark" /\ pi = 1
    /\ main = "none" /\ base = 1
    /\ ok = TRUE
    /\ batch = <<>>
    /\ marked = {} /\ begun = {}

\* TaskListParallel::onExecute holds the list's mutex while it fills the pool.
Unlocked == prep # "exec"

SetStatus(i, s) == item' = [item EXCEPT ![i] = s]
-----------------------------------------------------------------------------
(* TaskList::cancelTask                                                     *)

NotStarted == {i \in Item : item[i] = "notStart"}

CancelTask ==
    /\ Unlocked
    /\ NotStarted # {}
    /\ item' = [i \in Item |-> IF item[i] = "notStart" THEN "cancel" ELSE item[i]]
    /\ cancelled' = TRUE
    /\ marked' = marked \cup NotStarted
    /\ UNCHANGED <<poolVars, listVars, finished, prepVars, mainVars, begun>>
-----------------------------------------------------------------------------
(* The prepare thread: execute, prepareFile and onExecute.                  *)

\* The next item that is a patch is being prepared; that may fail.
PrepareItem ==
    /\ prep = "mark"
    /\ pi \in Item
    /\ IF pi \in patches
       THEN /\ SetStatus(pi, "prepare")
            /\ \/ prep' = prep /\ pi' = pi + 1
               \/ prep' = "fail" /\ pi' = 1
       ELSE prep' = prep /\ pi' = pi + 1 /\ UNCHANGED item
    /\ UNCHANGED <<poolVars, listVars, cancelled, finished, mainVars, history>>

\* The files are transferred: preparePatch_inner, for all patches.
PrepareFilesFails ==
    /\ prep = "mark"
    /\ pi = N + 1
    /\ patches # {}
    /\ prep' = "fail" /\ pi' = 1
    /\ UNCHANGED <<poolVars, listVars, statusVars, mainVars, history>>

PrepareFails ==
    /\ prep = "fail"
    /\ SetStatus(pi, "failed")
    /\ IF pi = N THEN prep' = "done" ELSE prep' = prep
    /\ pi' = pi + 1
    /\ UNCHANGED <<poolVars, listVars, cancelled, finished, mainVars, history>>

OnExecute ==
    /\ prep = "mark"
    /\ pi = N + 1
    /\ IF kind = "parallel"
       THEN /\ prep' = "exec" /\ pi' = 1
            /\ StartPool(PoolThreads)
            /\ UNCHANGED main
       ELSE /\ prep' = "done"
            /\ main' = IF kind = "serial" THEN "serial" ELSE "start"
            /\ UNCHANGED <<poolVars, pi>>
    /\ UNCHANGED <<listVars, statusVars, base, ok, batch, history>>

ParallelExec ==
    /\ prep = "exec"
    /\ Exec(pi)
    /\ prep' = IF pi = N THEN "done" ELSE prep
    /\ pi' = pi + 1
    /\ UNCHANGED <<listVars, statusVars, mainVars, history>>
-----------------------------------------------------------------------------
(* TaskListSerial::doTask                                                   *)

SerialBegin ==
    /\ main = "serial"
    /\ SetStatus(base, "running")
    /\ main' = "serialRun"
    /\ begun' = IF ok THEN begun \cup {base} ELSE begun
    /\ UNCHANGED <<poolVars, listVars, cancelled, finished, prepVars, base, ok, batch, marked>>

\* After a failure the rest is cancelled.
SerialEnd ==
    /\ main = "serialRun"
    /\ \E result \in IF ok THEN Outcome ELSE {"cancel"} :
         /\ SetStatus(base, result)
         /\ ok' = (result = "success")
    /\ base' = base + 1
    /\ main' = IF base = N THEN "end" ELSE "serial"
    /\ finished' = (base = N)
    /\ UNCHANGED <<poolVars, listVars, cancelled, prepVars, batch, history>>
-----------------------------------------------------------------------------
(* TaskListElegant::doTask                                                  *)

ElegantStart ==
    /\ main = "start"
    /\ StartPool(PoolThreads)
    /\ main' = "batch"
    /\ UNCHANGED <<listVars, statusVars, prepVars, base, ok, batch, history>>

\* No batch is left, the task is cancelled, or it was to be serial.
NoMoreBatch == base > N \/ cancelled \/ kind = "elegantSerial"

ElegantLeaves ==
    /\ main = "batch"
    /\ NoMoreBatch
    /\ main' = "last"
    /\ UNCHANGED <<poolVars, listVars, statusVars, prepVars, base, ok, batch, history>>

BatchItems == base .. Least(N, base + eachNum - 1)

MutElegantBatchUncancelled ==
    /\ main = "batch"
    /\ base <= N /\ kind = "elegant"
    /\ item' = [i \in Item |-> IF i \in BatchItems THEN "pause" ELSE item[i]]
    /\ batch' = [k \in 1 .. Cardinality(BatchItems) |-> base + k - 1]
    /\ main' = "exec"
    /\ UNCHANGED <<poolVars, listVars, cancelled, finished, prepVars, base, ok, history>>

\* Under the list's mutex; then the traffic is stopped.
ElegantBatch ==
    /\ main = "batch"
    /\ ~NoMoreBatch
    /\ item' = [i \in Item |-> IF i \in BatchItems THEN "pause" ELSE item[i]]
    /\ batch' = [k \in 1 .. Cardinality(BatchItems) |-> base + k - 1]
    /\ main' = "exec"
    /\ UNCHANGED <<poolVars, listVars, cancelled, finished, prepVars, base, ok, history>>

ElegantExec ==
    /\ main = "exec"
    /\ Exec(Head(batch))
    /\ batch' = Tail(batch)
    /\ main' = IF Len(batch) = 1 THEN "wait" ELSE main
    /\ UNCHANGED <<listVars, statusVars, prepVars, base, ok, history>>

ElegantWaits ==
    /\ main \in {"wait", "last"}
    /\ WaitForAllDone
    /\ UNCHANGED <<listVars, statusVars, prepVars, mainVars, history>>

ElegantNext ==
    /\ main = "wait"
    /\ AllDone
    /\ base' = base + eachNum
    /\ main' = "batch"
    /\ UNCHANGED <<poolVars, listVars, statusVars, prepVars, ok, batch, history>>

ElegantStops ==
    /\ main = "last"
    /\ AllDone
    /\ Stop
    /\ main' = "join"
    /\ UNCHANGED <<listVars, statusVars, prepVars, base, ok, batch, history>>

ElegantFinishes ==
    /\ main = "join"
    /\ Joined
    /\ finished' = TRUE
    /\ main' = "end"
    /\ UNCHANGED <<poolVars, listVars, item, cancelled, prepVars, base, ok, batch, history>>
-----------------------------------------------------------------------------
(* doTaskParallel and TaskListParallel::doTask, in the worker w             *)

ItemBegins(w) ==
    /\ Unlocked
    /\ Begin(w)
    /\ SetStatus(job[w], "running")
    /\ begun' = begun \cup {job[w]}
    /\ UNCHANGED <<listVars, cancelled, finished, prepVars, mainVars, marked>>

ItemEnds(w) ==
    /\ Unlocked
    /\ End(w)
    /\ \E result \in Outcome : SetStatus(job[w], result)
    /\ UNCHANGED <<listVars, cancelled, finished, prepVars, mainVars, history>>

PrepareStep == PrepareItem \/ PrepareFilesFails \/ PrepareFails \/ OnExecute \/ ParallelExec

MainStep ==
    \/ SerialBegin \/ SerialEnd
    \/ ElegantStart \/ ElegantLeaves \/ ElegantBatch \/ ElegantExec
    \/ ElegantWaits \/ ElegantNext \/ ElegantStops \/ ElegantFinishes

WorkerStep(w) ==
    \/ ItemBegins(w) \/ ItemEnds(w)
    \/ Idle(w) /\ UNCHANGED <<listVars, statusVars, prepVars, mainVars, history>>

Next ==
    \/ CancelTask
    \/ PrepareStep
    \/ MainStep
    \/ \E w \in Worker : WorkerStep(w)
    \/ WakesSpuriously /\ UNCHANGED <<listVars, statusVars, prepVars, mainVars, history>>

Spec == Init /\ [][Next]_vars

\* Threads run and what an item does comes to an end (each of its calls has a
\* timeout).  Nothing relies on a wakeup without reason.
FairSpec ==
    /\ Spec
    /\ WF_vars(PrepareStep)
    /\ WF_vars(MainStep)
    /\ \A w \in Worker : WF_vars(WorkerStep(w))
-----------------------------------------------------------------------------
PoolTypeOK ==
    /\ tasks \in Seq(Item)
    /\ thread \in [Worker -> ThreadState]
    /\ job \in [Worker -> Item \cup {NoTask}]
    /\ \A w \in Worker : job[w] # NoTask <=> thread[w] \in {"took", "run"}
    /\ asleep \subseteq Worker \cup {Caller}
    /\ \A w \in Worker \cap asleep : thread[w] = "get"
    /\ stopped \in BOOLEAN

(* The state is of its type: a worker has a task exactly while it has taken *)
(* or runs one, and _atomic counts the workers that run one.                *)
TypeOK ==
    /\ PoolTypeOK
    /\ busy = Cardinality({w \in Worker : thread[w] = "run"})
    /\ kind \in Kinds /\ eachNum \in EachNums /\ patches \subseteq Item
    /\ item \in [Item -> ItemStatus]
    /\ {cancelled, finished, ok} \subseteq BOOLEAN
    /\ prep \in {"mark", "fail", "exec", "done"} /\ pi \in 1 .. N + 1
    /\ main \in {"none", "serial", "serialRun", "start", "batch", "exec", "wait",
                 "last", "join", "end"}
    /\ base \in 1 .. N + eachNum
    /\ batch \in Seq(Item)
    /\ marked \subseteq Item /\ begun \subseteq Item

InTheWorks == {i \in Item : item[i] \in {"pause", "running"}}

(* When the list says it is finished, no item is still being worked on, and *)
(* stop() has thrown no item away that was in the pool's queue.             *)
FinishedIsFinal ==
    finished => /\ InTheWorks = {}
                /\ tasks = <<>>
                /\ \A w \in Worker : job[w] = NoTask

(* An elegant task never has more items in the works than twice a batch:    *)
(* waitForAllDone only waits for an empty queue, so the next batch may      *)
(* begin while every thread of the pool still runs an item, but no earlier. *)
OutageBounded ==
    kind = "elegant" => Cardinality(InTheWorks) <= eachNum + Least(MaxThreads, eachNum)

(* An item of an elegant task that cancelTask found not started is never    *)
(* executed, whatever the prepare thread and the batches do meanwhile.      *)
CancelHolds == kind = "elegant" => marked \cap begun = {}

(* Every task comes to an end and stays there: its list says so or, for a    *)
(* list that never does (parallel, or not prepared), each item has its last *)
(* status for good; and no item is left with the pool.  That cancelTask has *)
(* marked all the items is not an end while a loop or a worker goes on.     *)
Over ==
    /\ \/ finished
       \/ prep = "done" /\ main = "none" /\ \A i \in Item : item[i] \in Final
    /\ tasks = <<>>
    /\ \A w \in Worker : job[w] = NoTask

Ends == <>[]Over
=============================================================================
