--------------------------- MODULE TaskListProofs ---------------------------
(***************************************************************************)
(* Proofs about TaskList and the pool under it, for every number of items, *)
(* of threads and every size of the batches.                               *)
(*                                                                         *)
(* An item that is at work is always held: it is in the pool's queue, in   *)
(* the batch that is being given to the pool, or a worker (or the serial   *)
(* loop) has it.  That, and where the loops can be while the pool has      *)
(* anything to do, is what the four invariants follow from.                *)
(***************************************************************************)
EXTENDS TaskList, FiniteSetTheorems, TLAPS

\* An item that the pool has, or is about to get.
Queued(i) == \E k \in DOMAIN tasks : tasks[k] = i
InBatch(i) == \E k \in DOMAIN batch : batch[k] = i
Taken(i) == \E w \in Worker : job[w] = i
InPool(i) == Queued(i) \/ InBatch(i) \/ Taken(i)

ListOK ==
    /\ kind \in Kinds /\ eachNum \in EachNums /\ patches \subseteq Item
    /\ item \in [Item -> ItemStatus]
    /\ cancelled \in BOOLEAN /\ finished \in BOOLEAN /\ ok \in BOOLEAN
    /\ prep \in {"mark", "fail", "exec", "done"} /\ pi \in 1 .. N + 1
    /\ main \in {"none", "serial", "serialRun", "start", "batch", "exec", "wait",
                 "last", "join", "end"}
    /\ base \in 1 .. N + eachNum
    /\ batch \in Seq(Item)
    /\ marked \subseteq Item /\ begun \subseteq Item
    /\ prep \in {"fail", "exec"} => pi <= N
    /\ main \in {"none", "serial", "serialRun", "exec", "wait"} => base <= N

BusyOK == busy = Cardinality({w \in Worker : thread[w] = "run"})

PoolQuiet == tasks = <<>> /\ \A w \in Worker : thread[w] \in {"none", "exit"}

\* Where the prepare thread and the loop can be, and what the pool has then.
PlaceOK ==
    /\ prep # "done" => main = "none"
    /\ prep = "exec" => kind = "parallel"
    /\ kind = "parallel" => main = "none"
    /\ main \in {"serial", "serialRun"} => kind = "serial"
    /\ finished => main = "end"
    /\ batch # <<>> <=> main = "exec"
    /\ \/ prep \in {"mark", "fail"}
       \/ kind # "parallel" /\ main \in {"none", "serial", "serialRun", "start", "end"}
       => PoolQuiet
    /\ main \in {"batch", "join"} => tasks = <<>>

\* Whatever is at work is held by somebody.
WorksOK ==
    \A i \in Item : item[i] \in {"pause", "running"} =>
        InPool(i) \/ (main = "serialRun" /\ base = i)

\* What the pool has of an elegant task was not found by cancelTask.
CancelOK ==
    kind = "elegant" =>
        /\ marked # {} => cancelled
        /\ \A i \in begun : item[i] # "notStart" /\ i \notin marked
        /\ \A i \in Item : InPool(i) => item[i] # "notStart" /\ i \notin marked

\* The pool has at most a batch to do, and its threads are those it started.
BoundOK ==
    kind = "elegant" =>
        /\ Len(tasks) + Len(batch) <= eachNum
        /\ \A w \in Worker : thread[w] # "none" => w \in PoolThreads

IInv == ListOK /\ PoolTypeOK /\ BusyOK /\ PlaceOK /\ WorksOK /\ CancelOK /\ BoundOK

LEMMA ConstantsOK ==
    /\ N \in Nat /\ N > 0 /\ MaxThreads \in Nat /\ MaxThreads > 0
    /\ \A e \in EachNums : e \in Nat /\ e > 0
    /\ NoTask \notin Item /\ 0 \notin Worker
    /\ Worker = 1 .. MaxThreads
BY ListAssumption, PoolAssumption DEF Item

LEMMA WorkerFinite == IsFiniteSet(Worker) /\ Cardinality(Worker) = MaxThreads
<1>1. IsFiniteSet(1 .. MaxThreads) /\ Cardinality(1 .. MaxThreads) = MaxThreads
  BY ConstantsOK, FS_Interval
<1> QED
  BY <1>1, ConstantsOK

LEMMA InitIInv == Init => IInv
<1> SUFFICES ASSUME Init PROVE IInv
  OBVIOUS
<1> USE ConstantsOK DEF Init, PoolInit
<1>1. ListOK
  <2>1. /\ item \in [Item -> ItemStatus]
        /\ kind \in Kinds /\ eachNum \in EachNums /\ patches \subseteq Item
    BY DEF ItemStatus
  <2>2. pi \in 1 .. N + 1 /\ base \in 1 .. N + eachNum
    BY <2>1
  <2>3. batch \in Seq(Item) /\ marked \subseteq Item /\ begun \subseteq Item
    OBVIOUS
  <2>4. cancelled \in BOOLEAN /\ finished \in BOOLEAN /\ ok \in BOOLEAN
    OBVIOUS
  <2>5. prep = "mark" /\ main = "none"
    OBVIOUS
  <2> QED
    BY <2>1, <2>2, <2>3, <2>4, <2>5 DEF ListOK
<1>2. PoolTypeOK
  <2>1. thread \in [Worker -> ThreadState]
    BY DEF ThreadState
  <2>2. job \in [Worker -> Item \cup {NoTask}]
    OBVIOUS
  <2>3. tasks \in Seq(Item)
    OBVIOUS
  <2>4. \A w \in Worker : thread[w] = "none" /\ job[w] = NoTask
    OBVIOUS
  <2> QED
    BY <2>1, <2>2, <2>3, <2>4 DEF PoolTypeOK
<1>3. BusyOK
  BY FS_EmptySet DEF BusyOK
<1>4. PlaceOK
  BY DEF PlaceOK, PoolQuiet
<1>5. WorksOK
  BY DEF WorksOK
<1>6. CancelOK /\ BoundOK
  BY DEF CancelOK, BoundOK, InPool, Queued, InBatch, Taken
<1> QED
  BY <1>1, <1>2, <1>3, <1>4, <1>5, <1>6 DEF IInv

\* _atomic and the workers that run a task.
LEMMA CountSame ==
    ASSUME BusyOK, busy' = busy,
           \A w \in Worker : (thread'[w] = "run") <=> (thread[w] = "run")
    PROVE  BusyOK'
<1>1. {w \in Worker : thread'[w] = "run"} = {w \in Worker : thread[w] = "run"}
  OBVIOUS
<1> QED
  BY <1>1 DEF BusyOK

LEMMA CountUp ==
    ASSUME PoolTypeOK, BusyOK, NEW w \in Worker, thread[w] = "took",
           thread' = [thread EXCEPT ![w] = "run"], busy' = busy + 1
    PROVE  BusyOK'
<1> DEFINE R == {v \in Worker : thread[v] = "run"}
<1>1. IsFiniteSet(R) /\ Cardinality(R) \in Nat
  BY WorkerFinite, FS_Subset, FS_CardinalityType
<1>2. {v \in Worker : thread'[v] = "run"} = R \cup {w} /\ w \notin R
  BY DEF PoolTypeOK
<1>3. Cardinality(R \cup {w}) = Cardinality(R) + 1
  BY <1>1, <1>2, FS_AddElement
<1> QED
  BY <1>2, <1>3 DEF BusyOK

LEMMA CountDown ==
    ASSUME PoolTypeOK, BusyOK, NEW w \in Worker, thread[w] = "run",
           thread' = [thread EXCEPT ![w] = "check"], busy' = busy - 1
    PROVE  BusyOK'
<1> DEFINE R == {v \in Worker : thread[v] = "run"}
<1>1. IsFiniteSet(R) /\ Cardinality(R) \in Nat
  BY WorkerFinite, FS_Subset, FS_CardinalityType
<1>2. {v \in Worker : thread'[v] = "run"} = R \ {w} /\ w \in R
  BY DEF PoolTypeOK
<1>3. Cardinality(R \ {w}) = Cardinality(R) - 1
  BY <1>1, <1>2, FS_RemoveElement
<1> QED
  BY <1>2, <1>3 DEF BusyOK

LEMMA HeadTail ==
    ASSUME NEW q \in Seq(Item), q # <<>>
    PROVE  /\ Head(q) \in Item /\ Tail(q) \in Seq(Item)
           /\ Len(Tail(q)) = Len(q) - 1 /\ Len(q) > 0
           /\ \A i \in Item : (\E k \in DOMAIN q : q[k] = i) <=>
                              i = Head(q) \/ \E k \in DOMAIN Tail(q) : Tail(q)[k] = i
<1>1. /\ Head(q) \in Item /\ Tail(q) \in Seq(Item)
      /\ Len(q) \in Nat /\ Len(q) > 0 /\ Len(Tail(q)) = Len(q) - 1
      /\ Head(q) = q[1]
  OBVIOUS
<1>2. \A k \in 1 .. Len(q) - 1 : Tail(q)[k] = q[k + 1]
  OBVIOUS
<1>3. DOMAIN q = 1 .. Len(q) /\ DOMAIN Tail(q) = 1 .. Len(q) - 1
  BY <1>1
<1> SUFFICES ASSUME NEW i \in Item
             PROVE  (\E k \in DOMAIN q : q[k] = i) <=>
                    i = Head(q) \/ \E k \in DOMAIN Tail(q) : Tail(q)[k] = i
  BY <1>1
<1>4. ASSUME NEW k \in DOMAIN q, q[k] = i
      PROVE  i = Head(q) \/ \E j \in DOMAIN Tail(q) : Tail(q)[j] = i
  <2>1. CASE k = 1
    BY <1>1, <1>4, <2>1
  <2>2. CASE k # 1
    <3>1. k - 1 \in 1 .. Len(q) - 1 /\ (k - 1) + 1 = k
      BY <1>1, <1>3, <2>2
    <3> QED
      BY <1>2, <1>3, <1>4, <3>1
  <2> QED
    BY <2>1, <2>2
<1>5. ASSUME NEW k \in DOMAIN Tail(q), Tail(q)[k] = i
      PROVE  \E j \in DOMAIN q : q[j] = i
  <2>1. k + 1 \in 1 .. Len(q)
    BY <1>1, <1>3
  <2> QED
    BY <1>2, <1>3, <1>5, <2>1
<1>6. ASSUME i = Head(q) PROVE \E j \in DOMAIN q : q[j] = i
  BY <1>1, <1>3, <1>6
<1> QED
  BY <1>4, <1>5, <1>6

\* exec: one more in the queue, and perhaps one sleeper less.
LEMMA ExecPool ==
    ASSUME PoolTypeOK, BusyOK, NEW t \in Item, Exec(t)
    PROVE  /\ PoolTypeOK' /\ BusyOK'
           /\ Len(tasks') = Len(tasks) + 1
           /\ \A i \in Item : Queued(i)' <=> Queued(i) \/ i = t
<1> USE DEF Exec, PoolTypeOK
<1>1. asleep' \subseteq asleep
  OBVIOUS
<1>2. tasks' \in Seq(Item) /\ Len(tasks') = Len(tasks) + 1
  OBVIOUS
<1>3. \A k \in 1 .. Len(tasks) : tasks'[k] = tasks[k]
  OBVIOUS
<1>4. tasks'[Len(tasks) + 1] = t
  OBVIOUS
<1>5. PoolTypeOK'
  BY <1>1, <1>2
<1>6. BusyOK'
  BY CountSame
<1>7. ASSUME NEW i \in Item PROVE Queued(i)' <=> Queued(i) \/ i = t
  BY <1>2, <1>3, <1>4 DEF Queued
<1> QED
  BY <1>2, <1>5, <1>6, <1>7

\* The threads of a pool that has none start.
LEMMA StartedPool ==
    ASSUME PoolTypeOK, BusyOK, PoolQuiet, NEW some, StartPool(some)
    PROVE  PoolTypeOK' /\ BusyOK'
<1> USE ConstantsOK DEF StartPool, PoolTypeOK, PoolQuiet
<1>1. thread' \in [Worker -> ThreadState]
  BY DEF ThreadState
<1>2. \A w \in Worker : thread'[w] \in {"none", "get"} /\ job[w] = NoTask /\ w \notin asleep
  OBVIOUS
<1>3. PoolTypeOK'
  BY <1>1, <1>2
<1>4. BusyOK'
  BY <1>2, CountSame
<1> QED
  BY <1>3, <1>4

\* What an elegant batch consists of.
LEMMA BatchSeq ==
    ASSUME ListOK, ElegantBatch
    PROVE  /\ batch' \in Seq(Item) /\ batch' # <<>>
           /\ Len(batch') <= eachNum
           /\ BatchItems \subseteq Item
           /\ \A i \in Item : InBatch(i)' <=> i \in BatchItems
<1> USE ConstantsOK DEF ListOK
<1> DEFINE last == Least(N, base + eachNum - 1)
           n == Cardinality(BatchItems)
<1>1. /\ base \in Nat /\ base >= 1 /\ base <= N /\ eachNum \in Nat /\ eachNum >= 1
      /\ last \in Nat /\ base <= last /\ last <= N /\ last <= base + eachNum - 1
  BY DEF ElegantBatch, NoMoreBatch, Least
<1>2. n = last - base + 1
  BY <1>1, FS_Interval DEF BatchItems
<1>3. batch' = [k \in 1 .. n |-> base + k - 1]
  BY DEF ElegantBatch
<1> HIDE DEF n, last
<1>4. \A k \in 1 .. n : base + k - 1 \in Item
  BY <1>1, <1>2 DEF Item
<1>5. batch' \in Seq(Item) /\ Len(batch') = n /\ DOMAIN batch' = 1 .. n
  BY <1>1, <1>2, <1>3, <1>4
<1>6. BatchItems \subseteq Item
  BY <1>1 DEF BatchItems, Item, last
<1>7. ASSUME NEW i \in Item PROVE InBatch(i)' <=> i \in BatchItems
  <2>1. ASSUME i \in BatchItems PROVE InBatch(i)'
    <3>1. i - base + 1 \in 1 .. n /\ base + (i - base + 1) - 1 = i
      BY <1>1, <1>2, <2>1 DEF BatchItems, last, Item
    <3> QED
      BY <1>3, <1>5, <3>1 DEF InBatch
  <2>2. ASSUME InBatch(i)' PROVE i \in BatchItems
    BY <1>1, <1>2, <1>3, <1>5, <2>2 DEF InBatch, BatchItems, last
  <2> QED
    BY <2>1, <2>2
<1> QED
  BY <1>1, <1>2, <1>5, <1>6, <1>7

LEMMA StutterKeeps ==
    ASSUME IInv, UNCHANGED vars
    PROVE  IInv'
BY DEF vars, poolVars, listVars, statusVars, prepVars, mainVars, history, IInv,
   ListOK, PoolTypeOK, BusyOK, PlaceOK, PoolQuiet, WorksOK, CancelOK, BoundOK,
   PoolThreads, InPool, Queued, InBatch, Taken

USE ConstantsOK DEF IInv, poolVars, listVars, statusVars, prepVars, mainVars, history

LEMMA PoolUnmoved ==
    ASSUME UNCHANGED <<tasks, batch, job>>
    PROVE  \A i \in Item : InPool(i)' <=> InPool(i)
BY DEF InPool, Queued, InBatch, Taken

\* Steps in which only the prepare thread or the loop goes on.
LEMMA MovesKeeps ==
    ASSUME IInv, PrepareFilesFails \/ ElegantLeaves
                 \/ ElegantWaits \/ ElegantNext \/ ElegantStops
    PROVE  IInv'
<1> USE DEF PrepareFilesFails, ElegantLeaves, NoMoreBatch, ElegantWaits,
      WaitForAllDone, Caller, ElegantNext, ElegantStops, AllDone, Stop
<1>1. ListOK'
  <2>1. CASE ElegantNext
    BY <2>1 DEF ListOK
  <2>2. CASE ~ElegantNext
    BY <2>2 DEF ListOK
  <2> QED
    BY <2>1, <2>2
<1>2. PoolTypeOK' /\ BusyOK'
  BY DEF PoolTypeOK, BusyOK, ThreadState
<1>3. PlaceOK'
  <2> USE DEF PlaceOK, PoolQuiet, ListOK
  <2>1. CASE PrepareFilesFails
    BY <2>1
  <2>2. CASE ElegantLeaves
    BY <2>2
  <2>3. CASE ElegantWaits
    BY <2>3
  <2>4. CASE ElegantNext
    BY <2>4
  <2>5. CASE ElegantStops
    BY <2>5
  <2> QED
    BY <2>1, <2>2, <2>3, <2>4, <2>5
<1>4. WorksOK'
  <2>1. UNCHANGED <<item, tasks, batch, job>> /\ main # "serialRun"
    BY DEF PlaceOK
  <2> QED
    BY <2>1, PoolUnmoved DEF WorksOK
<1>5. CancelOK'
  BY DEF CancelOK, InPool, Queued, InBatch, Taken, ListOK, PoolTypeOK, PlaceOK
<1>6. BoundOK'
  BY DEF BoundOK, PoolThreads, PlaceOK, ListOK, PoolTypeOK
<1> QED
  BY <1>1, <1>2, <1>3, <1>4, <1>5, <1>6

\* Steps of a worker without a task.
LEMMA IdleStepsKeeps ==
    ASSUME NEW w \in Worker, IInv, GetSleeps(w) \/ GetStops(w) \/ Check(w),
           UNCHANGED <<listVars, statusVars, prepVars, mainVars, history>>
    PROVE  IInv'
<1> USE DEF GetSleeps, GetStops, Check
<1>1. ListOK'
  BY DEF ListOK, ItemStatus, Item, Outcome, Final
<1>2. PoolTypeOK' /\ BusyOK'
  <2>1. CASE GetSleeps(w)
    BY <2>1 DEF PoolTypeOK, BusyOK, ThreadState
  <2>2. CASE GetStops(w)
    BY <2>2 DEF PoolTypeOK, BusyOK, ThreadState
  <2>3. CASE Check(w)
    BY <2>3 DEF PoolTypeOK, BusyOK, ThreadState
  <2> QED
    BY <2>1, <2>2, <2>3
<1>3. PlaceOK'
  BY DEF PlaceOK, PoolQuiet, ListOK, PoolTypeOK
<1>4. WorksOK'
  <2>1. UNCHANGED <<tasks, job, batch, item, main, base>>
    OBVIOUS
  <2> QED
    BY <2>1 DEF WorksOK, InPool, Queued, InBatch, Taken
<1>5. CancelOK'
  BY DEF CancelOK, InPool, Queued, InBatch, Taken, ListOK, PoolTypeOK, PlaceOK
<1>6. BoundOK'
  BY DEF BoundOK, PoolThreads, PlaceOK, ListOK, PoolTypeOK
<1> QED
  BY <1>1, <1>2, <1>3, <1>4, <1>5, <1>6

LEMMA SpuriousKeeps ==
    ASSUME IInv, WakesSpuriously,
           UNCHANGED <<listVars, statusVars, prepVars, mainVars, history>>
    PROVE  IInv'
<1> USE DEF WakesSpuriously
<1>1. ListOK'
  BY DEF ListOK, ItemStatus, Item, Outcome, Final
<1>2. PoolTypeOK' /\ BusyOK'
  BY DEF PoolTypeOK, BusyOK, ThreadState
<1>3. PlaceOK'
  BY DEF PlaceOK, PoolQuiet, ListOK, PoolTypeOK
<1>4. WorksOK'
  BY DEF WorksOK, InPool, Queued, InBatch, Taken, ListOK, PoolTypeOK, PlaceOK
<1>5. CancelOK'
  BY DEF CancelOK, InPool, Queued, InBatch, Taken, ListOK, PoolTypeOK, PlaceOK
<1>6. BoundOK'
  BY DEF BoundOK, PoolThreads, PlaceOK, ListOK, PoolTypeOK
<1> QED
  BY <1>1, <1>2, <1>3, <1>4, <1>5, <1>6

\* cancelTask turns what has not started, which the pool has none of.
LEMMA CancelTaskKeeps ==
    ASSUME IInv, CancelTask
    PROVE  IInv'
<1> USE DEF CancelTask, NotStarted
<1>1. ListOK'
  BY DEF ListOK, ItemStatus, Item, Outcome, Final
<1>2. PoolTypeOK' /\ BusyOK'
  BY DEF PoolTypeOK, BusyOK, ThreadState
<1>3. PlaceOK'
  BY DEF PlaceOK, PoolQuiet, ListOK, PoolTypeOK
<1>4. WorksOK'
  <2>1. \A i \in Item : item'[i] \in {"pause", "running"} => item[i] = item'[i]
    BY DEF ListOK
  <2> QED
    BY <2>1, PoolUnmoved DEF WorksOK
<1>5. CancelOK'
  BY DEF CancelOK, InPool, Queued, InBatch, Taken, ListOK, PoolTypeOK, PlaceOK
<1>6. BoundOK'
  BY DEF BoundOK, PoolThreads, PlaceOK, ListOK, PoolTypeOK
<1> QED
  BY <1>1, <1>2, <1>3, <1>4, <1>5, <1>6

\* The prepare thread: while it prepares, the pool is quiet.
LEMMA PrepareItemKeeps ==
    ASSUME IInv, PrepareItem
    PROVE  IInv'
<1> USE DEF PrepareItem, SetStatus
<1>1. ListOK'
  <2>1. item' \in [Item -> ItemStatus]
    BY DEF ListOK, ItemStatus
  <2>2. /\ prep' \in {"mark", "fail"} /\ pi' \in 1 .. N + 1
        /\ prep' \in {"fail", "exec"} => pi' <= N
    BY DEF ListOK, Item
  <2> QED
    BY <2>1, <2>2 DEF ListOK
<1>2. PoolTypeOK' /\ BusyOK'
  BY DEF PoolTypeOK, BusyOK, ThreadState
<1>3. PlaceOK'
  BY DEF PlaceOK, PoolQuiet, ListOK, PoolTypeOK
<1>4. WorksOK'
  BY DEF WorksOK, InPool, Queued, InBatch, Taken, ListOK, PoolTypeOK, PlaceOK
<1>5. CancelOK'
  BY DEF CancelOK, InPool, Queued, InBatch, Taken, ListOK, PoolTypeOK, PlaceOK
<1>6. BoundOK'
  BY DEF BoundOK, PoolThreads, PlaceOK, ListOK, PoolTypeOK
<1> QED
  BY <1>1, <1>2, <1>3, <1>4, <1>5, <1>6

LEMMA PrepareFailsKeeps ==
    ASSUME IInv, PrepareFails
    PROVE  IInv'
<1> USE DEF PrepareFails, SetStatus
<1>1. ListOK'
  BY DEF ListOK, ItemStatus, Item, Outcome, Final
<1>2. PoolTypeOK' /\ BusyOK'
  BY DEF PoolTypeOK, BusyOK, ThreadState
<1>3. PlaceOK'
  BY DEF PlaceOK, PoolQuiet, ListOK, PoolTypeOK
<1>4. WorksOK'
  BY DEF WorksOK, InPool, Queued, InBatch, Taken, ListOK, PoolTypeOK, PlaceOK
<1>5. CancelOK'
  BY DEF CancelOK, InPool, Queued, InBatch, Taken, ListOK, PoolTypeOK, PlaceOK
<1>6. BoundOK'
  BY DEF BoundOK, PoolThreads, PlaceOK, ListOK, PoolTypeOK
<1> QED
  BY <1>1, <1>2, <1>3, <1>4, <1>5, <1>6

\* Only a parallel list has a pool before its loop starts.
LEMMA OnExecuteKeeps ==
    ASSUME IInv, OnExecute
    PROVE  IInv'
<1> USE DEF OnExecute, StartPool
<1>1. ListOK'
  <2>1. main' \in {"none", "serial", "start"} /\ prep' \in {"exec", "done"}
    BY DEF PlaceOK
  <2>2. pi' \in 1 .. N + 1 /\ (prep' = "exec" => pi' <= N)
    BY DEF ListOK
  <2>3. main' = "serial" => base <= N
    BY DEF ListOK, PlaceOK
  <2> QED
    BY <2>1, <2>2, <2>3 DEF ListOK
<1>2. PoolTypeOK' /\ BusyOK'
  <2>1. CASE kind = "parallel"
    BY <2>1, StartedPool DEF PlaceOK
  <2>2. CASE kind # "parallel"
    BY <2>2 DEF PoolTypeOK, BusyOK
  <2> QED
    BY <2>1, <2>2
<1>3. PlaceOK'
  BY DEF PlaceOK, PoolQuiet, ListOK, PoolTypeOK
<1>4. WorksOK'
  BY DEF WorksOK, InPool, Queued, InBatch, Taken, ListOK, PoolTypeOK, PlaceOK
<1>5. CancelOK'
  BY DEF CancelOK, InPool, Queued, InBatch, Taken, ListOK, PoolTypeOK, PlaceOK
<1>6. BoundOK'
  BY DEF BoundOK, PoolThreads, PlaceOK, ListOK, PoolTypeOK
<1> QED
  BY <1>1, <1>2, <1>3, <1>4, <1>5, <1>6

LEMMA ParallelExecKeeps ==
    ASSUME IInv, ParallelExec
    PROVE  IInv'
<1> USE DEF ParallelExec, Exec
<1>1. ListOK'
  BY DEF ListOK, ItemStatus, Item, Outcome, Final
<1>2. PoolTypeOK' /\ BusyOK'
  BY ExecPool DEF ListOK, Item
<1>3. PlaceOK'
  BY DEF PlaceOK, PoolQuiet, ListOK, PoolTypeOK
<1>4. WorksOK'
  <2>1. \A i \in Item : Queued(i) => Queued(i)'
    BY ExecPool DEF ListOK, Item
  <2> QED
    BY <2>1 DEF WorksOK, InPool, InBatch, Taken, Exec, PlaceOK
<1>5. CancelOK'
  BY DEF CancelOK, InPool, Queued, InBatch, Taken, ListOK, PoolTypeOK, PlaceOK
<1>6. BoundOK'
  BY DEF BoundOK, PoolThreads, PlaceOK, ListOK, PoolTypeOK
<1> QED
  BY <1>1, <1>2, <1>3, <1>4, <1>5, <1>6

\* The serial loop has no pool.
LEMMA SerialBeginKeeps ==
    ASSUME IInv, SerialBegin
    PROVE  IInv'
<1> USE DEF SerialBegin, SetStatus
<1>1. ListOK'
  BY DEF ListOK, ItemStatus, Item, Outcome, Final
<1>2. PoolTypeOK' /\ BusyOK'
  BY DEF PoolTypeOK, BusyOK, ThreadState
<1>3. PlaceOK'
  BY DEF PlaceOK, PoolQuiet, ListOK, PoolTypeOK
<1>4. WorksOK'
  BY DEF WorksOK, InPool, Queued, InBatch, Taken, ListOK, PoolTypeOK, PlaceOK
<1>5. CancelOK'
  BY DEF CancelOK, InPool, Queued, InBatch, Taken, ListOK, PoolTypeOK, PlaceOK
<1>6. BoundOK'
  BY DEF BoundOK, PoolThreads, PlaceOK, ListOK, PoolTypeOK
<1> QED
  BY <1>1, <1>2, <1>3, <1>4, <1>5, <1>6

LEMMA SerialEndKeeps ==
    ASSUME IInv, SerialEnd
    PROVE  IInv'
<1> USE DEF SerialEnd, SetStatus
<1>1. ListOK'
  BY DEF ListOK, ItemStatus, Item, Outcome, Final
<1>2. PoolTypeOK' /\ BusyOK'
  BY DEF PoolTypeOK, BusyOK, ThreadState
<1>3. PlaceOK'
  BY DEF PlaceOK, PoolQuiet, ListOK, PoolTypeOK
<1>4. WorksOK'
  BY DEF WorksOK, InPool, Queued, InBatch, Taken, ListOK, Outcome
<1>5. CancelOK'
  BY DEF CancelOK, InPool, Queued, InBatch, Taken, ListOK, PoolTypeOK, PlaceOK
<1>6. BoundOK'
  BY DEF BoundOK, PoolThreads, PlaceOK, ListOK, PoolTypeOK
<1> QED
  BY <1>1, <1>2, <1>3, <1>4, <1>5, <1>6

\* The elegant loop.
LEMMA ElegantStartKeeps ==
    ASSUME IInv, ElegantStart
    PROVE  IInv'
<1> USE DEF ElegantStart, StartPool
<1>1. ListOK'
  BY DEF ListOK, ItemStatus, Item, Outcome, Final
<1>2. PoolTypeOK' /\ BusyOK'
  BY StartedPool DEF PlaceOK
<1>3. PlaceOK'
  BY DEF PlaceOK, PoolQuiet, ListOK, PoolTypeOK
<1>4. WorksOK'
  BY DEF WorksOK, InPool, Queued, InBatch, Taken, ListOK, PoolTypeOK, PlaceOK
<1>5. CancelOK'
  BY DEF CancelOK, InPool, Queued, InBatch, Taken, ListOK, PoolTypeOK, PlaceOK
<1>6. BoundOK'
  BY DEF BoundOK, PoolThreads, PlaceOK, ListOK, PoolTypeOK
<1> QED
  BY <1>1, <1>2, <1>3, <1>4, <1>5, <1>6

\* A batch starts with an empty queue, and never after cancelTask.
LEMMA ElegantBatchKeeps ==
    ASSUME IInv, ElegantBatch
    PROVE  IInv'
<1>a. /\ batch' \in Seq(Item) /\ batch' # <<>> /\ Len(batch') <= eachNum
      /\ BatchItems \subseteq Item
      /\ \A i \in Item : InBatch(i)' <=> i \in BatchItems
  BY BatchSeq DEF IInv
<1>b. Len(tasks') + Len(batch') <= eachNum'
  <2>1. tasks' = <<>> /\ Len(tasks') = 0
    BY DEF IInv, PlaceOK, ElegantBatch, poolVars
  <2>2. Len(batch') \in Nat
    BY <1>a
  <2>3. eachNum' = eachNum /\ eachNum \in Nat
    BY ConstantsOK DEF IInv, ListOK, ElegantBatch, listVars
  <2> QED
    BY <1>a, <2>1, <2>2, <2>3
<1> USE DEF ElegantBatch, NoMoreBatch, BatchItems, Least
<1>1. ListOK'
  BY <1>a DEF ListOK, ItemStatus
<1>2. PoolTypeOK' /\ BusyOK'
  BY DEF PoolTypeOK, BusyOK, ThreadState
<1>3. PlaceOK'
  BY <1>a DEF PlaceOK, PoolQuiet, ListOK
<1>4. WorksOK'
  BY <1>a DEF WorksOK, InPool, Queued, Taken, InBatch, ListOK, PlaceOK
<1>5. CancelOK'
  BY <1>a DEF CancelOK, InPool, Queued, Taken, ListOK, PlaceOK
<1>6. BoundOK'
  BY <1>b DEF BoundOK, PoolThreads
<1> QED
  BY <1>1, <1>2, <1>3, <1>4, <1>5, <1>6

\* An item goes from the batch to the queue.
LEMMA ElegantExecKeeps ==
    ASSUME IInv, ElegantExec
    PROVE  IInv'
<1> USE DEF ElegantExec, Exec
<1>a. batch # <<>> /\ batch \in Seq(Item) /\ Head(batch) \in Item
  BY HeadTail DEF PlaceOK, ListOK
<1>b. /\ batch' \in Seq(Item) /\ Len(batch') = Len(batch) - 1
      /\ batch' # <<>> <=> main' = "exec"
      /\ \A i \in Item : InBatch(i) <=> i = Head(batch) \/ InBatch(i)'
  <2>1. /\ batch' = Tail(batch)
        /\ main' = IF Len(batch) = 1 THEN "wait" ELSE "exec"
    OBVIOUS
  <2>2. /\ batch' \in Seq(Item) /\ Len(batch') = Len(batch) - 1 /\ Len(batch) > 0
        /\ \A i \in Item : (\E k \in DOMAIN batch : batch[k] = i) <=>
                       i = Head(batch) \/ \E k \in DOMAIN batch' : batch'[k] = i
    BY <1>a, <2>1, HeadTail
  <2>3. batch' # <<>> <=> Len(batch') # 0
    BY <2>2
  <2>4. main' = "exec" <=> Len(batch) # 1
    BY <2>1
  <2>5. batch' # <<>> <=> main' = "exec"
    BY <1>a, <2>2, <2>3, <2>4
  <2> QED
    BY <2>2, <2>5 DEF InBatch
<1>c. /\ Len(tasks') = Len(tasks) + 1
      /\ \A i \in Item : Queued(i)' <=> Queued(i) \/ i = Head(batch)
  BY <1>a, ExecPool
<1>1. ListOK'
  BY <1>a, <1>b DEF ListOK
<1>2. PoolTypeOK' /\ BusyOK'
  BY <1>a, ExecPool
<1>3. PlaceOK'
  BY <1>a, <1>b DEF PlaceOK, PoolQuiet, ListOK
<1>4. WorksOK'
  BY <1>a, <1>b, <1>c DEF WorksOK, InPool, Taken, ListOK, PlaceOK, Exec
<1>5. CancelOK'
  BY <1>a, <1>b, <1>c DEF CancelOK, InPool, Taken, ListOK, PlaceOK, Exec
<1>6. BoundOK'
  <2>1. Len(tasks') + Len(batch') = Len(tasks) + Len(batch)
    BY <1>a, <1>b, <1>c DEF PoolTypeOK
  <2> QED
    BY <2>1 DEF BoundOK, PoolThreads, Exec
<1> QED
  BY <1>1, <1>2, <1>3, <1>4, <1>5, <1>6

\* The threads are joined, so none has a task.
LEMMA ElegantFinishesKeeps ==
    ASSUME IInv, ElegantFinishes
    PROVE  IInv'
<1> USE DEF ElegantFinishes, Joined
<1>1. ListOK'
  BY DEF ListOK, ItemStatus, Item, Outcome, Final
<1>2. PoolTypeOK' /\ BusyOK'
  BY DEF PoolTypeOK, BusyOK, ThreadState
<1>3. PlaceOK'
  BY DEF PlaceOK, PoolQuiet, ListOK, PoolTypeOK
<1>4. WorksOK'
  BY DEF WorksOK, InPool, Queued, InBatch, Taken, ListOK, PoolTypeOK, PlaceOK
<1>5. CancelOK'
  BY DEF CancelOK, InPool, Queued, InBatch, Taken, ListOK, PoolTypeOK, PlaceOK
<1>6. BoundOK'
  BY DEF BoundOK, PoolThreads, PlaceOK, ListOK, PoolTypeOK
<1> QED
  BY <1>1, <1>2, <1>3, <1>4, <1>5, <1>6

\* The workers.
LEMMA ItemBeginsKeeps ==
    ASSUME NEW w \in Worker, IInv, ItemBegins(w)
    PROVE  IInv'
<1> USE DEF ItemBegins, Begin, SetStatus
<1>a. thread[w] = "took" /\ job[w] \in Item /\ Taken(job[w])
  BY DEF PoolTypeOK, Taken
<1>1. ListOK'
  BY <1>a DEF ListOK, ItemStatus
<1>2. PoolTypeOK' /\ BusyOK'
  <2>1. PoolTypeOK'
    BY <1>a DEF PoolTypeOK, ThreadState
  <2>2. BusyOK'
    BY <1>a, CountUp
  <2> QED
    BY <2>1, <2>2
<1>3. PlaceOK'
  BY DEF PlaceOK, PoolQuiet, ListOK, PoolTypeOK
<1>4. WorksOK'
  <2>1. \A i \in Item : i # job[w] => item'[i] = item[i]
    BY <1>a DEF ListOK
  <2>2. InPool(job[w])
    BY <1>a DEF InPool
  <2> QED
    BY <1>a, <2>1, <2>2, PoolUnmoved DEF WorksOK
<1>5. CancelOK'
  BY DEF CancelOK, InPool, Queued, InBatch, Taken, ListOK, PoolTypeOK, PlaceOK
<1>6. BoundOK'
  BY DEF BoundOK, PoolThreads, PlaceOK, ListOK, PoolTypeOK
<1> QED
  BY <1>1, <1>2, <1>3, <1>4, <1>5, <1>6

LEMMA ItemEndsKeeps ==
    ASSUME NEW w \in Worker, IInv, ItemEnds(w)
    PROVE  IInv'
<1> USE DEF ItemEnds, End, SetStatus
<1>a. thread[w] = "run" /\ job[w] \in Item
  BY DEF PoolTypeOK
<1>b. PICK result \in Outcome : item' = [item EXCEPT ![job[w]] = result]
  OBVIOUS
<1>c. /\ \A i \in Item : Taken(i)' => Taken(i)
      /\ \A i \in Item : Taken(i) /\ i # job[w] => Taken(i)'
  BY <1>a DEF Taken, PoolTypeOK
<1>1. ListOK'
  <2>1. item' \in [Item -> ItemStatus]
    BY <1>a, <1>b DEF ListOK, ItemStatus, Outcome
  <2> QED
    BY <2>1 DEF ListOK
<1>2. PoolTypeOK' /\ BusyOK'
  <2>1. PoolTypeOK'
    BY <1>a DEF PoolTypeOK, ThreadState
  <2>2. BusyOK'
    BY <1>a, CountDown
  <2> QED
    BY <2>1, <2>2
<1>3. PlaceOK'
  BY DEF PlaceOK, PoolQuiet, ListOK, PoolTypeOK
<1>4. WorksOK'
  BY <1>a, <1>b, <1>c DEF WorksOK, InPool, Queued, InBatch, ListOK, Outcome
<1>5. CancelOK'
  BY <1>a, <1>b, <1>c DEF CancelOK, InPool, Queued, InBatch, ListOK, Outcome
<1>6. BoundOK'
  BY DEF BoundOK, PoolThreads, PlaceOK, ListOK, PoolTypeOK
<1> QED
  BY <1>1, <1>2, <1>3, <1>4, <1>5, <1>6

\* An item goes from the queue to a worker.
LEMMA GetTakesKeeps ==
    ASSUME NEW w \in Worker, IInv, GetTakes(w),
           UNCHANGED <<listVars, statusVars, prepVars, mainVars, history>>
    PROVE  IInv'
<1> USE DEF GetTakes
<1>a. /\ Head(tasks) \in Item /\ tasks' \in Seq(Item) /\ Len(tasks') = Len(tasks) - 1
      /\ \A i \in Item : Queued(i) <=> i = Head(tasks) \/ Queued(i)'
  BY HeadTail DEF PoolTypeOK, Queued
<1>b. \A i \in Item : InPool(i) <=> InPool(i)'
  <2>1. job[w] = NoTask
    BY DEF PoolTypeOK
  <2>2. \A i \in Item : Taken(i)' <=> Taken(i) \/ i = Head(tasks)
    BY <1>a, <2>1 DEF PoolTypeOK, Taken
  <2> QED
    BY <1>a, <2>2 DEF InPool, InBatch
<1>1. ListOK'
  BY DEF ListOK, ItemStatus, Item, Outcome, Final
<1>2. PoolTypeOK' /\ BusyOK'
  <2>1. PoolTypeOK'
    BY <1>a DEF PoolTypeOK, ThreadState
  <2>2. BusyOK'
    BY CountSame DEF PoolTypeOK
  <2> QED
    BY <2>1, <2>2
<1>3. PlaceOK'
  BY DEF PlaceOK, PoolQuiet, ListOK, PoolTypeOK
<1>4. WorksOK'
  BY <1>b DEF WorksOK, InPool, InBatch
<1>5. CancelOK'
  BY <1>b DEF CancelOK, InPool, InBatch
<1>6. BoundOK'
  BY <1>a DEF BoundOK, PoolThreads, PoolTypeOK, ListOK
<1> QED
  BY <1>1, <1>2, <1>3, <1>4, <1>5, <1>6

LEMMA NextIInv == IInv /\ [Next]_vars => IInv'
<1> SUFFICES ASSUME IInv, [Next]_vars PROVE IInv'
  OBVIOUS
<1>1. CASE CancelTask
  BY <1>1, CancelTaskKeeps
<1>2. CASE PrepareStep
  BY <1>2, PrepareItemKeeps, MovesKeeps, PrepareFailsKeeps, OnExecuteKeeps,
     ParallelExecKeeps DEF PrepareStep
<1>3. CASE MainStep
  BY <1>3, SerialBeginKeeps, SerialEndKeeps, ElegantStartKeeps, ElegantBatchKeeps,
     ElegantExecKeeps, ElegantFinishesKeeps, MovesKeeps DEF MainStep
<1>4. ASSUME NEW w \in Worker, WorkerStep(w) PROVE IInv'
  BY <1>4, ItemBeginsKeeps, ItemEndsKeeps, GetTakesKeeps, IdleStepsKeeps
     DEF WorkerStep, Idle
<1>5. CASE /\ WakesSpuriously
          /\ UNCHANGED <<listVars, statusVars, prepVars, mainVars, history>>
  BY <1>5, SpuriousKeeps
<1>6. CASE UNCHANGED vars
  BY <1>6, StutterKeeps
<1> QED
  BY <1>1, <1>2, <1>3, <1>4, <1>5, <1>6 DEF Next

LEMMA SpecIInv == Spec => []IInv
BY InitIInv, NextIInv, PTL DEF Spec

\* The state of the list and of the pool keeps its type, and _atomic counts
\* the workers that run a task.
THEOREM TaskTypes == Spec => []TypeOK
<1>1. IInv => TypeOK
  BY DEF IInv, ListOK, BusyOK, TypeOK
<1> QED
  BY <1>1, SpecIInv, PTL

\* A list that says it is finished has no item at work and has thrown none
\* away, although waitForAllDone does not wait for the tasks that run: stop()
\* joins the threads before finish().
THEOREM FinishedLeavesNothing == Spec => []FinishedIsFinal
<1>1. IInv => FinishedIsFinal
  <2> SUFFICES ASSUME IInv, finished PROVE FinishedIsFinal
    BY DEF FinishedIsFinal
  <2>1. main = "end" /\ PoolQuiet /\ batch = <<>>
    BY DEF IInv, PlaceOK
  <2>2. \A w \in Worker : job[w] = NoTask
    BY <2>1 DEF IInv, PoolQuiet, PoolTypeOK
  <2>3. tasks = <<>>
    BY <2>1 DEF PoolQuiet
  <2>4. \A i \in Item : ~InPool(i)
    BY <2>1, <2>2, <2>3, ConstantsOK DEF InPool, Queued, InBatch, Taken
  <2>5. InTheWorks = {}
    BY <2>1, <2>4 DEF IInv, WorksOK, InTheWorks
  <2> QED
    BY <2>2, <2>3, <2>5 DEF FinishedIsFinal
<1> QED
  BY <1>1, SpecIInv, PTL

\* What cancelTask found not started is never executed, by an elegant list.
THEOREM CancelledNeverBegins == Spec => []CancelHolds
<1>1. IInv => CancelHolds
  BY DEF IInv, CancelOK, CancelHolds
<1> QED
  BY <1>1, SpecIInv, PTL

\* The first n values of q.
LEMMA ImageOfInterval ==
    ASSUME NEW n \in Nat, NEW q
    PROVE  /\ IsFiniteSet({q[k] : k \in 1 .. n})
           /\ Cardinality({q[k] : k \in 1 .. n}) <= n
<1>1. IsFiniteSet(1 .. n) /\ Cardinality(1 .. n) = n
  BY FS_Interval
<1> DEFINE f == [k \in 1 .. n |-> q[k]]
           T == {q[k] : k \in 1 .. n}
<1>2. f \in Surjection(1 .. n, T)
  BY DEF Surjection
<1> QED
  BY <1>1, <1>2, FS_Surjection

\* At most a batch in the queue, and one item for each thread of the pool.
THEOREM OutageIsBounded == Spec => []OutageBounded
<1>1. IInv => OutageBounded
  <2> SUFFICES ASSUME IInv, kind = "elegant"
               PROVE  Cardinality(InTheWorks) <= eachNum + Least(MaxThreads, eachNum)
    BY DEF OutageBounded
  <2> DEFINE inQueue == {tasks[k] : k \in 1 .. Len(tasks)}
             inBatch == {batch[k] : k \in 1 .. Len(batch)}
             taken == {job[w] : w \in PoolThreads}
             m == Least(MaxThreads, eachNum)
  <2>1. /\ tasks \in Seq(Item) /\ batch \in Seq(Item)
        /\ Len(tasks) \in Nat /\ Len(batch) \in Nat
        /\ eachNum \in Nat /\ eachNum > 0 /\ Len(tasks) + Len(batch) <= eachNum
    BY ConstantsOK DEF IInv, PoolTypeOK, ListOK, BoundOK
  <2>2. m \in Nat /\ m <= MaxThreads /\ PoolThreads = 1 .. m
    BY <2>1, ConstantsOK DEF Least, PoolThreads
  <2>3. IsFiniteSet(inQueue) /\ Cardinality(inQueue) <= Len(tasks)
    BY <2>1, ImageOfInterval
  <2>4. IsFiniteSet(inBatch) /\ Cardinality(inBatch) <= Len(batch)
    BY <2>1, ImageOfInterval
  <2>5. IsFiniteSet(taken) /\ Cardinality(taken) <= m
    BY <2>2, ImageOfInterval
  <2>6. InTheWorks \subseteq (inQueue \cup inBatch) \cup taken
    <3> SUFFICES ASSUME NEW i \in InTheWorks PROVE i \in (inQueue \cup inBatch) \cup taken
      OBVIOUS
    <3>1. InPool(i)
      BY DEF IInv, WorksOK, PlaceOK, InTheWorks
    <3>2. ASSUME NEW w \in Worker, job[w] = i PROVE i \in taken
      BY <3>2, ConstantsOK DEF IInv, BoundOK, PoolTypeOK, InTheWorks
    <3>3. DOMAIN tasks = 1 .. Len(tasks) /\ DOMAIN batch = 1 .. Len(batch)
      BY <2>1
    <3> QED
      BY <3>1, <3>2, <3>3 DEF InPool, Queued, InBatch, Taken
  <2> HIDE DEF inQueue, inBatch, taken, m
  <2>7. /\ IsFiniteSet(inQueue \cup inBatch)
        /\ Cardinality(inQueue \cup inBatch) <= Len(tasks) + Len(batch)
    <3>1. /\ IsFiniteSet(inQueue \cup inBatch)
          /\ Cardinality(inQueue \cup inBatch)
             = Cardinality(inQueue) + Cardinality(inBatch)
               - Cardinality(inQueue \cap inBatch)
      BY <2>3, <2>4, FS_Union
    <3>2. /\ Cardinality(inQueue) \in Nat /\ Cardinality(inBatch) \in Nat
          /\ Cardinality(inQueue \cap inBatch) \in Nat
      BY <2>3, <2>4, FS_CardinalityType, FS_Subset
    <3> QED
      BY <2>1, <2>3, <2>4, <3>1, <3>2
  <2>8. /\ IsFiniteSet((inQueue \cup inBatch) \cup taken)
        /\ Cardinality((inQueue \cup inBatch) \cup taken) <= Len(tasks) + Len(batch) + m
    <3> DEFINE both == inQueue \cup inBatch
    <3>0. IsFiniteSet(both) /\ Cardinality(both) <= Len(tasks) + Len(batch)
      BY <2>7
    <3> HIDE DEF both
    <3>1. /\ IsFiniteSet(both \cup taken)
          /\ Cardinality(both \cup taken)
             = Cardinality(both) + Cardinality(taken) - Cardinality(both \cap taken)
      BY <2>5, <3>0, FS_Union
    <3>2. /\ Cardinality(both) \in Nat /\ Cardinality(taken) \in Nat
          /\ Cardinality(both \cap taken) \in Nat
      BY <2>5, <3>0, FS_CardinalityType, FS_Subset
    <3>3. Cardinality(both \cup taken) <= Len(tasks) + Len(batch) + m
      BY <2>1, <2>2, <2>5, <3>0, <3>1, <3>2
    <3> QED
      BY <3>1, <3>3 DEF both
  <2>9. /\ Cardinality(InTheWorks) \in Nat
        /\ Cardinality(InTheWorks) <= Cardinality((inQueue \cup inBatch) \cup taken)
        /\ Cardinality((inQueue \cup inBatch) \cup taken) \in Nat
    BY <2>6, <2>8, FS_Subset, FS_CardinalityType
  <2>10. Cardinality(InTheWorks) <= eachNum + m
    BY <2>1, <2>2, <2>8, <2>9
  <2> QED
    BY <2>10 DEF m
<1> QED
  BY <1>1, SpecIInv, PTL
=============================================================================
