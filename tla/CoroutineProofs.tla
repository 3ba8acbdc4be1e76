--------------------------- MODULE CoroutineProofs ---------------------------
(***************************************************************************)
(* Proofs about the coroutines of a handle thread, for every number of     *)
(* coroutines, net threads, steps and calls in parallel.                   *)
(*                                                                         *)
(* A coroutine that runs or can run is in the list its status names, and   *)
(* has no source of wakeup; one that waits is in no list and has exactly   *)
(* one.  So whoever is woken does wait, and no assert fails.               *)
(***************************************************************************)
EXTENDS CoroutineHandle, FiniteSetTheorems, TLAPS

In(c, q) == \E i \in DOMAIN q : q[i] = c

IsList(q, s) ==
    /\ q \in Seq(Coro)
    /\ Distinct(q)
    /\ \A c \in Coro : status[c] = s <=> In(c, q)

ListsOK ==
    /\ status \in [Coro -> Status]
    /\ IsList(active, "active") /\ IsList(avail, "avail")
    /\ cur \in Coro \cup {Main}
    /\ RunsTheFirst

\* A coroutine has one source of wakeup exactly when it waits.
Woken(c) ==
    /\ Sources(c) = 1 => Waits(c)
    /\ Sources(c) = 0 => ~Waits(c) \/ terminated
    /\ Sources(c) <= 1

SourceTypes ==
    /\ puts \in [Coro -> Nat] /\ yields \in [Coro -> Nat]
    /\ asleep \in [Coro -> Nat] /\ due \in [Coro -> Nat]
    /\ ops \in [Coro -> Nat] /\ count \in [Coro -> Nat]
    /\ calling \subseteq Worker /\ sending \subseteq Worker

\* Only a coroutine that runs has sent calls and not yet waited for them; one
\* that yielded is inactive, and the handle's coroutine only ever yields.
WakeOK ==
    /\ SourceTypes
    /\ \A c \in Coro : Woken(c)
    /\ \A c \in Coro : yields[c] > 0 => status[c] = "inactive"
    /\ \A c \in sending : cur = c
    /\ puts[Handle] = 0 /\ asleep[Handle] = 0 /\ due[Handle] = 0 /\ count[Handle] = 0
    /\ status[Handle] \in {"avail", "inactive"}
    /\ aborted = FALSE

PoolOK ==
    /\ current \in 0 .. PoolSize
    /\ used = Cardinality(InUse)
    /\ \A c \in Coro : status[c] = "none" <=> c > current

\* No data that the handle's coroutine could take.
NoneToTake == queue = 0 \/ ~HasFree \/ pushed # {}

\* When the loop waits nothing can run, and the handle's coroutine yielded
\* only after it had found nothing to take.
IdleOK ==
    /\ at \in Place /\ round \in 0 .. ActiveRound
    /\ notified \in BOOLEAN /\ ringing \in BOOLEAN /\ terminated \in BOOLEAN
    /\ queue \in Nat /\ received \in Nat /\ pushed \subseteq Net
    /\ at \notin {"top", "run"} => cur = Main
    /\ at = "run" /\ cur # Main => status[cur] = "active"
    /\ at \in {"fire", "epoll"} =>
         /\ active = <<>> /\ avail = <<>>
         /\ terminated => notified
         /\ ~notified => puts = Nobody /\ NoneToTake
    /\ at = "top" /\ yields[Handle] > 0 /\ ~terminated =>
         cur = Main /\ (notified \/ NoneToTake)
    /\ at = "run" /\ ~terminated => yields[Handle] = 0

IInv == ListsOK /\ WakeOK /\ PoolOK /\ IdleOK

LEMMA ConstantsOK ==
    /\ PoolSize \in Nat /\ PoolSize > 0 /\ Batch \in Nat /\ Batch > 0
    /\ ActiveRound \in Nat /\ ActiveRound > 0
    /\ Parallel \in Nat /\ Parallel > 0 /\ Ops \in Nat /\ MaxData \in Nat
    /\ Handle \in Coro /\ Main \notin Coro
    /\ \A c \in Coro : c \in Nat /\ c >= 1 /\ c <= PoolSize
BY SchedulerAssumption, HandleAssumption DEF Coro, Handle, Main

-----------------------------------------------------------------------------
(* Lists of coroutines.                                                     *)

LEMMA AppendList ==
    ASSUME NEW q \in Seq(Coro), Distinct(q), NEW c \in Coro, ~In(c, q)
    PROVE  /\ Append(q, c) \in Seq(Coro) /\ Distinct(Append(q, c)) /\ Append(q, c) # <<>>
           /\ \A d \in Coro : In(d, Append(q, c)) <=> In(d, q) \/ d = c
           /\ q # <<>> => Head(Append(q, c)) = Head(q)
<1> DEFINE r == Append(q, c)
           n == Len(q)
<1>1. n \in Nat /\ DOMAIN q = 1 .. n /\ r \in Seq(Coro) /\ Len(r) = n + 1 /\ DOMAIN r = 1 .. n + 1
  OBVIOUS
<1>2. r[n + 1] = c /\ \A i \in 1 .. n : r[i] = q[i]
  OBVIOUS
<1> HIDE DEF r, n
<1>3. \A i \in 1 .. n : q[i] # c
  BY <1>1 DEF In
<1>4. Distinct(r)
  <2> SUFFICES ASSUME NEW i \in 1 .. n + 1, NEW j \in 1 .. n + 1, r[i] = r[j] PROVE i = j
    BY <1>1 DEF Distinct
  <2>1. CASE i \in 1 .. n /\ j \in 1 .. n
    BY <1>1, <1>2, <2>1 DEF Distinct
  <2>2. CASE i = n + 1 \/ j = n + 1
    BY <1>1, <1>2, <1>3, <2>2
  <2> QED
    BY <1>1, <2>1, <2>2
<1>5. ASSUME NEW d \in Coro PROVE In(d, r) <=> In(d, q) \/ d = c
  <2>1. In(d, r) <=> \E i \in 1 .. n + 1 : r[i] = d
    BY <1>1 DEF In
  <2>2. (\E i \in 1 .. n + 1 : r[i] = d) <=> (\E i \in 1 .. n : r[i] = d) \/ r[n + 1] = d
    BY <1>1
  <2>3. In(d, q) <=> \E i \in 1 .. n : r[i] = d
    BY <1>1, <1>2 DEF In
  <2> QED
    BY <1>2, <2>1, <2>2, <2>3
<1>6. r # <<>>
  BY <1>1
<1>7. q # <<>> => Head(r) = Head(q)
  BY <1>1, <1>2
<1> QED
  BY <1>1, <1>4, <1>5, <1>6, <1>7 DEF r

LEMMA TailList ==
    ASSUME NEW q \in Seq(Coro), Distinct(q), q # <<>>
    PROVE  /\ Head(q) \in Coro /\ In(Head(q), q)
           /\ Tail(q) \in Seq(Coro) /\ Distinct(Tail(q))
           /\ \A d \in Coro : In(d, Tail(q)) <=> In(d, q) /\ d # Head(q)
<1> DEFINE r == Tail(q)
           n == Len(q)
<1>1. /\ n \in Nat /\ n > 0 /\ DOMAIN q = 1 .. n /\ r \in Seq(Coro)
      /\ DOMAIN r = 1 .. n - 1 /\ Head(q) = q[1] /\ q[1] \in Coro
  OBVIOUS
<1>2. \A i \in 1 .. n - 1 : r[i] = q[i + 1] /\ i + 1 \in 1 .. n
  BY <1>1
<1> HIDE DEF r, n
<1>3. In(Head(q), q)
  BY <1>1 DEF In
<1>4. Distinct(r)
  <2> SUFFICES ASSUME NEW i \in 1 .. n - 1, NEW j \in 1 .. n - 1, r[i] = r[j] PROVE i = j
    BY <1>1 DEF Distinct
  <2>1. i + 1 \in 1 .. n /\ j + 1 \in 1 .. n /\ q[i + 1] = q[j + 1]
    BY <1>2
  <2>2. i + 1 = j + 1
    BY <1>1, <2>1 DEF Distinct
  <2> QED
    BY <1>1, <2>2
<1>5. ASSUME NEW d \in Coro PROVE In(d, r) <=> In(d, q) /\ d # Head(q)
  <2>1. ASSUME In(d, r) PROVE In(d, q) /\ d # Head(q)
    <3>1. PICK i \in 1 .. n - 1 : r[i] = d
      BY <1>1, <2>1 DEF In
    <3>2. q[i + 1] = d /\ i + 1 \in 1 .. n /\ i + 1 # 1
      BY <1>1, <1>2, <3>1
    <3> QED
      BY <1>1, <3>2 DEF In, Distinct
  <2>2. ASSUME In(d, q), d # Head(q) PROVE In(d, r)
    <3>1. PICK i \in 1 .. n : q[i] = d
      BY <1>1, <2>2 DEF In
    <3>2. i - 1 \in 1 .. n - 1 /\ (i - 1) + 1 = i
      BY <1>1, <2>2, <3>1
    <3> QED
      BY <1>1, <1>2, <3>1, <3>2 DEF In
  <2> QED
    BY <2>1, <2>2
<1> QED
  BY <1>1, <1>3, <1>4, <1>5 DEF r

\* A coroutine that runs is the head of the list its status names.
LEMMA RunningFirst ==
    ASSUME ListsOK, cur # Main
    PROVE  /\ cur \in Coro
           /\ \/ status[cur] = "active" /\ active # <<>> /\ cur = Head(active)
              \/ status[cur] = "avail" /\ avail # <<>> /\ cur = Head(avail)
<1>1. active # <<>> => In(Head(active), active)
  BY TailList DEF ListsOK, IsList
<1>2. avail # <<>> => In(Head(avail), avail)
  BY TailList DEF ListsOK, IsList
<1> QED
  BY <1>1, <1>2 DEF ListsOK, IsList, RunsTheFirst

LEMMA LeaveLists ==
    ASSUME ListsOK, NEW c \in Coro, cur = c, NEW s \in Status \ {"active", "avail"},
           Leave(c, s)
    PROVE  ListsOK' /\ cur' = Main /\ status' = [status EXCEPT ![c] = s]
<1>1. cur # Main
  BY ConstantsOK
<1>2. status' = [status EXCEPT ![c] = s] /\ cur' = Main /\ status' \in [Coro -> Status]
  BY DEF Leave, ListsOK
<1>3. CASE status[c] = "active" /\ active # <<>> /\ c = Head(active)
  <2>1. active' = Tail(active) /\ avail' = avail
    BY <1>3 DEF Leave
  <2>2. IsList(active, "active")'
    BY <1>2, <1>3, <2>1, TailList DEF IsList, ListsOK
  <2>3. IsList(avail, "avail")'
    BY <1>2, <1>3, <2>1 DEF IsList, ListsOK
  <2> QED
    BY <1>2, <2>2, <2>3 DEF ListsOK, RunsTheFirst
<1>4. CASE status[c] = "avail" /\ avail # <<>> /\ c = Head(avail)
  <2>1. avail' = Tail(avail) /\ active' = active
    BY <1>4 DEF Leave
  <2>2. IsList(avail, "avail")'
    BY <1>2, <1>4, <2>1, TailList DEF IsList, ListsOK
  <2>3. IsList(active, "active")'
    BY <1>2, <1>4, <2>1 DEF IsList, ListsOK
  <2> QED
    BY <1>2, <2>2, <2>3 DEF ListsOK, RunsTheFirst
<1> QED
  BY <1>1, <1>2, <1>3, <1>4, RunningFirst

\* moveToActive, moveToAvail of one that waits.
LEMMA MoveLists ==
    ASSUME ListsOK, NEW c \in Coro, status[c] \in {"inactive", "timeout"},
           MoveToActive(c) \/ (status[c] = "inactive" /\ MoveToAvail(c)),
           cur' = cur, cur = Main
    PROVE  /\ ListsOK' /\ aborted' = aborted
           /\ status' = [status EXCEPT ![c] = IF MoveToActive(c) THEN "active" ELSE "avail"]
<1>1. CASE MoveToActive(c)
  <2>1. /\ status' = [status EXCEPT ![c] = "active"] /\ active' = Append(active, c)
        /\ avail' = avail /\ aborted' = aborted
    BY <1>1 DEF MoveToActive
  <2>2. ~In(c, active) /\ ~In(c, avail)
    BY DEF ListsOK, IsList
  <2>3. IsList(active, "active")'
    BY <2>1, <2>2, AppendList DEF ListsOK, IsList
  <2>4. IsList(avail, "avail")'
    BY <2>1, <2>2 DEF ListsOK, IsList
  <2>5. status' \in [Coro -> Status]
    BY <2>1 DEF ListsOK, Status
  <2> QED
    BY <1>1, <2>1, <2>3, <2>4, <2>5 DEF ListsOK, RunsTheFirst
<1>2. CASE ~MoveToActive(c) /\ status[c] = "inactive" /\ MoveToAvail(c)
  <2>1. /\ status' = [status EXCEPT ![c] = "avail"] /\ avail' = Append(avail, c)
        /\ active' = active /\ aborted' = aborted
    BY <1>2 DEF MoveToAvail
  <2>2. ~In(c, active) /\ ~In(c, avail)
    BY DEF ListsOK, IsList
  <2>3. IsList(avail, "avail")'
    BY <2>1, <2>2, AppendList DEF ListsOK, IsList
  <2>4. IsList(active, "active")'
    BY <2>1, <2>2 DEF ListsOK, IsList
  <2>5. status' \in [Coro -> Status]
    BY <2>1 DEF ListsOK, Status
  <2> QED
    BY <1>2, <2>1, <2>3, <2>4, <2>5 DEF ListsOK, RunsTheFirst
<1> QED
  BY <1>1, <1>2

-----------------------------------------------------------------------------
(* The coroutines in use.                                                   *)

LEMMA CoroFinite == IsFiniteSet(Coro) /\ Cardinality(Coro) = PoolSize
<1>1. IsFiniteSet(1 .. PoolSize) /\ Cardinality(1 .. PoolSize) = PoolSize
  BY ConstantsOK, FS_Interval
<1> QED
  BY <1>1 DEF Coro

LEMMA UsedBounded ==
    ASSUME PoolOK
    PROVE  /\ IsFiniteSet(InUse) /\ used \in Nat /\ used <= PoolSize
           /\ used = PoolSize => InUse = Coro
<1>1. InUse \subseteq Coro
  BY DEF InUse
<1>2. IsFiniteSet(InUse) /\ Cardinality(InUse) <= Cardinality(Coro)
  BY <1>1, CoroFinite, FS_Subset
<1>3. Cardinality(InUse) = Cardinality(Coro) => InUse = Coro
  BY <1>1, CoroFinite, FS_Subset
<1>4. Cardinality(InUse) \in Nat
  BY <1>2, FS_CardinalityType
<1> QED
  BY <1>2, <1>3, <1>4, CoroFinite DEF PoolOK

\* When there is room for a coroutine by _usedSize, go() finds one.
LEMMA RoomMeansGo == ASSUME ListsOK, PoolOK, HasFree PROVE CanGo
<1> SUFFICES ASSUME ~CanGo PROVE FALSE
  OBVIOUS
<1>1. used < PoolSize /\ used \in Nat
  BY UsedBounded, ConstantsOK DEF HasFree
<1>2. current = PoolSize /\ NoneLeft
  BY ConstantsOK DEF CanGo, PoolOK
<1>3. With("free") = {}
  BY <1>1, <1>2, UsedBounded, ConstantsOK DEF NoneLeft
<1>4. \A c \in Coro : status[c] # "none" /\ status[c] # "free"
  BY <1>2, <1>3, ConstantsOK DEF PoolOK, With
<1>5. InUse = Coro
  BY <1>4 DEF InUse
<1> QED
  BY <1>1, <1>5, CoroFinite, ConstantsOK DEF PoolOK

LEMMA GoKeeps ==
    ASSUME ListsOK, PoolOK, NEW c \in Worker, Go(c), cur' = cur
    PROVE  /\ ListsOK' /\ PoolOK'
           /\ status[c] \in {"none", "free"} /\ status'[c] = "avail"
           /\ \A d \in Coro : d # c /\ status[d] \notin {"none", "free"} => status'[d] = status[d]
           /\ \A d \in Coro : d # c /\ status[d] \in {"none", "free"} =>
                                  status'[d] \in {"none", "free"}
<1> DEFINE created == {d \in Coro : current < d /\ d <= Grown}
<1>1. /\ c \in Coro /\ c \in With("free") \cup created
      /\ status' = [d \in Coro |-> IF d = c THEN "avail"
                                   ELSE IF d \in created THEN "free" ELSE status[d]]
      /\ avail' = Append(avail, c) /\ active' = active
      /\ current' = Grown /\ used' = used + 1
  BY DEF Go, Worker
<1>2. Grown \in 0 .. PoolSize /\ current <= Grown
  BY ConstantsOK DEF Grown, Least, PoolOK
<1>3. \A d \in created : status[d] = "none"
  BY ConstantsOK, <1>2 DEF PoolOK
<1>4. status[c] \in {"none", "free"}
  BY <1>1, <1>3 DEF With
<1>5. status' \in [Coro -> Status]
  BY <1>1 DEF ListsOK, Status
<1> HIDE DEF created
<1>6. /\ status'[c] = "avail"
      /\ \A d \in Coro : d # c => status'[d] = IF d \in created THEN "free" ELSE status[d]
  BY <1>1
<1>7. ~In(c, avail) /\ ~In(c, active)
  BY <1>1, <1>4 DEF ListsOK, IsList
<1>8. IsList(avail, "avail")'
  BY <1>1, <1>3, <1>6, <1>7, AppendList DEF ListsOK, IsList
<1>9. IsList(active, "active")'
  BY <1>1, <1>3, <1>6, <1>7 DEF ListsOK, IsList
<1>10. RunsTheFirst'
  BY <1>1, <1>7, AppendList DEF RunsTheFirst, ListsOK, IsList
<1>11. ListsOK'
  BY <1>5, <1>8, <1>9, <1>10 DEF ListsOK
<1>12. InUse' = InUse \cup {c} /\ c \notin InUse
  BY <1>1, <1>3, <1>4, <1>6 DEF InUse
<1>13. used' = Cardinality(InUse')
  BY <1>1, <1>12, UsedBounded, FS_AddElement DEF PoolOK
<1>14. \A d \in Coro : status'[d] = "none" <=> d > Grown
  <2>1. c <= Grown
    BY <1>1, <1>2, <1>4, ConstantsOK DEF PoolOK, created, With
  <2>2. ASSUME NEW d \in Coro, d # c PROVE status'[d] = "none" <=> d > Grown
    <3>1. CASE d \in created
      BY <1>2, <1>6, <2>2, <3>1, ConstantsOK DEF PoolOK, created
    <3>2. CASE d \notin created
      BY <1>2, <1>6, <2>2, <3>2, ConstantsOK DEF PoolOK, created
    <3> QED
      BY <3>1, <3>2
  <2> QED
    BY <1>2, <1>6, <2>1, <2>2, ConstantsOK
<1> QED
  BY <1>1, <1>2, <1>3, <1>4, <1>6, <1>11, <1>13, <1>14 DEF PoolOK

\* A step that frees nobody and makes nobody.
LEMMA PoolSame ==
    ASSUME PoolOK, UNCHANGED sizes,
           \A c \in Coro : /\ status'[c] = "none" <=> status[c] = "none"
                           /\ status'[c] = "free" <=> status[c] = "free"
    PROVE  PoolOK'
<1>1. InUse' = InUse
  BY DEF InUse
<1> QED
  BY <1>1 DEF PoolOK, sizes

LEMMA FinishPool ==
    ASSUME ListsOK, PoolOK, NEW c \in Coro, cur = c, Finish(c)
    PROVE  PoolOK'
<1>1. status' = [status EXCEPT ![c] = "free"]
  BY LeaveLists DEF Finish, Status
<1>2. c \in InUse
  BY RunningFirst, ConstantsOK DEF InUse
<1>3. InUse' = InUse \ {c}
  BY <1>1 DEF InUse, ListsOK
<1>4. used' = Cardinality(InUse')
  BY <1>2, <1>3, UsedBounded, FS_RemoveElement DEF PoolOK, Finish
<1>5. current' = current
  BY DEF Finish
<1>6. \A d \in Coro : status'[d] = "none" <=> status[d] = "none"
  BY <1>1, <1>2 DEF InUse, ListsOK
<1> QED
  BY <1>4, <1>5, <1>6 DEF PoolOK

-----------------------------------------------------------------------------
LEMMA InitIInv == Init => IInv
<1> SUFFICES ASSUME Init PROVE IInv
  OBVIOUS
<1> USE ConstantsOK DEF Init, SchedInit
<1>1. current \in 1 .. PoolSize /\ Nobody \in [Coro -> Nat] /\ \A c \in Coro : Nobody[c] = 0
  BY DEF Least, Nobody
<1>2. /\ status \in [Coro -> Status] /\ status[Handle] = "avail"
      /\ \A c \in Coro : c # Handle => status[c] = IF c <= current THEN "free" ELSE "none"
  BY DEF Status
<1>3. ListsOK
  <2>1. \A c \in Coro : status[c] = "avail" <=> c = Handle
    BY <1>2
  <2>2. IsList(avail, "avail")
    BY <2>1 DEF IsList, In, Distinct
  <2>3. IsList(active, "active")
    BY <1>2 DEF IsList, In, Distinct
  <2> QED
    BY <1>2, <2>2, <2>3 DEF ListsOK, RunsTheFirst
<1>4. WakeOK
  <2>1. \A c \in Coro : Sources(c) = 0 /\ ~Waits(c)
    BY <1>1, <1>2 DEF Sources, Waits
  <2> QED
    BY <1>1, <1>2, <2>1 DEF WakeOK, SourceTypes, Woken
<1>5. PoolOK
  <2>1. InUse = {Handle}
    BY <1>1, <1>2 DEF InUse
  <2>2. Cardinality(InUse) = 1
    BY <2>1, FS_Singleton
  <2>3. \A c \in Coro : status[c] = "none" <=> c > current
    BY <1>1, <1>2 DEF Handle
  <2> QED
    BY <1>1, <2>2, <2>3 DEF PoolOK
<1>6. IdleOK
  <2>1. yields[Handle] = 0 /\ 0 \in 0 .. ActiveRound /\ at \in Place
    BY <1>1 DEF Place
  <2>2. /\ notified \in BOOLEAN /\ ringing \in BOOLEAN /\ terminated \in BOOLEAN
        /\ queue \in Nat /\ received \in Nat /\ pushed \subseteq Net
    OBVIOUS
  <2>3. at = "top" /\ round = 0 /\ cur = Main
    OBVIOUS
  <2> QED
    BY <2>1, <2>2, <2>3 DEF IdleOK
<1> QED
  BY <1>3, <1>4, <1>5, <1>6 DEF IInv

-----------------------------------------------------------------------------
(* The net threads, and time.                                               *)

USE DEF lists, sizes, wakeups, loop, events, fate, dataVars, callVars, schedVars

LEMMA SameLists == ASSUME ListsOK, UNCHANGED lists, cur' = cur PROVE ListsOK'
BY DEF ListsOK, IsList, RunsTheFirst

LEMMA SameWake ==
    ASSUME WakeOK, UNCHANGED <<status, wakeups, ops, callVars, fate>>,
           cur' = cur \/ sending = {}
    PROVE  WakeOK'
BY DEF WakeOK, SourceTypes, Woken, Sources, Waits

LEMMA PushKeeps ==
    ASSUME IInv, NEW n \in Net, Push(n)
    PROVE  IInv'
<1> USE DEF IInv, Push
<1>1. ListsOK' /\ WakeOK' /\ PoolOK'
  BY SameLists, SameWake, PoolSame
<1>2. IdleOK'
  BY DEF IdleOK, NoneToTake, HasFree
<1> QED
  BY <1>1, <1>2

LEMMA NotifyKeeps ==
    ASSUME IInv, NEW n \in Net, Notify(n)
    PROVE  IInv'
<1> USE DEF IInv, Notify
<1>1. ListsOK' /\ WakeOK' /\ PoolOK'
  BY SameLists, SameWake, PoolSame
<1>2. IdleOK'
  BY DEF IdleOK, NoneToTake, HasFree
<1> QED
  BY <1>1, <1>2

LEMMA TerminateKeeps ==
    ASSUME IInv, Terminate
    PROVE  IInv'
<1> USE DEF IInv, Terminate
<1>1. ListsOK' /\ PoolOK'
  BY SameLists, PoolSame
<1>2. WakeOK'
  BY DEF WakeOK, SourceTypes, Woken, Sources, Waits
<1>3. IdleOK'
  BY DEF IdleOK, NoneToTake, HasFree
<1> QED
  BY <1>1, <1>2, <1>3

\* A time that has come is still one source.
LEMMA ElapseKeeps ==
    ASSUME IInv, NEW c \in Coro, Elapse(c), UNCHANGED <<dataVars, ops, callVars>>
    PROVE  IInv'
<1> USE DEF IInv, Elapse
<1>1. ListsOK' /\ PoolOK'
  BY SameLists, PoolSame
<1>2. /\ asleep' \in [Coro -> Nat] /\ due' \in [Coro -> Nat]
      /\ \A d \in Coro : Sources(d)' = Sources(d) /\ (Waits(d)' <=> Waits(d))
  BY DEF WakeOK, SourceTypes, Sources, Waits
<1>3. asleep'[Handle] = 0 /\ due'[Handle] = 0
  BY ConstantsOK DEF WakeOK, SourceTypes
<1>4. WakeOK'
  BY <1>2, <1>3 DEF WakeOK, SourceTypes, Woken
<1>5. IdleOK'
  BY DEF IdleOK, NoneToTake, HasFree
<1> QED
  BY <1>1, <1>4, <1>5

-----------------------------------------------------------------------------
(* The loop.                                                                *)

\* The steps of the loop that move no coroutine.
LEMMA TurnKeeps ==
    ASSUME IInv, UNCHANGED <<dataVars, ops, callVars>>,
           \/ Poll \/ Quit \/ FireEventsDone \/ EpollReturns \/ EpollTimesOut \/ DoneReturns
           \/ WakeupDone \/ RunActive \/ RunAvail
    PROVE  IInv'
<1> USE DEF IInv, InLoop
<1>1. UNCHANGED <<lists, sizes, wakeups, fate>> /\ cur = Main
  BY DEF Poll, Quit, FireEventsDone, EpollReturns, EpollTimesOut, DoneReturns, WakeupDone,
     RunActive, RunAvail
<1>2. sending = {}
  BY <1>1, ConstantsOK DEF WakeOK, SourceTypes, Worker
<1>3. WakeOK' /\ PoolOK'
  BY <1>1, <1>2, SameWake, PoolSame
<1>4. cur' = Main \/ (active # <<>> /\ cur' = Head(active)) \/ (avail # <<>> /\ cur' = Head(avail))
  BY <1>1 DEF Poll, Quit, FireEventsDone, EpollReturns, EpollTimesOut, DoneReturns,
     WakeupDone, RunActive, RunAvail
<1>5. ListsOK'
  <2>1. cur' \in Coro \cup {Main}
    BY <1>4, TailList DEF ListsOK, IsList
  <2> QED
    BY <1>1, <1>4, <2>1 DEF ListsOK, IsList, RunsTheFirst
<1>6. IdleOK'
  <2> USE DEF NoneToTake, HasFree
  <2>1. CASE Poll
    <3>1. at' = "fire" => status[Handle] = "inactive"
      BY <2>1, ConstantsOK DEF Poll, ListsOK, IsList, In, WakeOK
    <3>2. Sources(Handle) = yields[Handle]
      BY ConstantsOK DEF Sources, WakeOK, SourceTypes, Worker
    <3>3. at' = "fire" => yields[Handle] = 1
      BY <2>1, <3>1, <3>2, ConstantsOK DEF Poll, WakeOK, SourceTypes, Woken, Waits
    <3> QED
      BY <1>1, <2>1, <3>3 DEF Poll, IdleOK, Place
  <2>2. CASE Quit \/ FireEventsDone \/ EpollReturns \/ EpollTimesOut \/ DoneReturns
    BY <1>1, <2>2 DEF Quit, FireEventsDone, EpollReturns, EpollTimesOut, DoneReturns, IdleOK,
       Place
  <2>3. CASE WakeupDone
    <3>1. ~terminated => yields[Handle] = 0
      BY <2>3, ConstantsOK DEF WakeupDone, Nobody
    <3> QED
      BY <1>1, <2>3, <3>1, ConstantsOK DEF WakeupDone, IdleOK, Place
  <2>4. CASE RunActive
    <3>1. round' \in 0 .. ActiveRound
      BY <2>4, ConstantsOK DEF RunActive, IdleOK
    <3>2. status[cur'] = "active"
      BY <2>4, TailList DEF RunActive, ListsOK, IsList
    <3> QED
      BY <1>1, <2>4, <3>1, <3>2 DEF RunActive, IdleOK, Place
  <2>5. CASE RunAvail
    BY <1>1, <2>5 DEF RunAvail, IdleOK, Place, WakeOK, SourceTypes
  <2> QED
    BY <2>1, <2>2, <2>3, <2>4, <2>5
<1> QED
  BY <1>3, <1>5, <1>6

\* Whoever is put, or whose time has come, waits for just that.
LEMMA WakeupKeeps ==
    ASSUME IInv, NEW c \in Coro, UNCHANGED <<dataVars, ops, callVars>>,
           Wakeup(c) \/ WakeupByTimeout(c) \/ WakeupBySelf(c)
    PROVE  IInv'
<1> USE DEF IInv, InLoop
<1>1. UNCHANGED <<sizes, asleep, loop, events, terminated>> /\ cur = Main /\ at = "wake"
  BY DEF Wakeup, WakeupByTimeout, WakeupBySelf
<1>2. sending = {}
  BY <1>1, ConstantsOK DEF WakeOK, SourceTypes, Worker
<1>3. /\ puts[c] \in Nat /\ yields[c] \in Nat /\ asleep[c] \in Nat /\ due[c] \in Nat
      /\ count[c] \in Nat
  BY DEF WakeOK, SourceTypes
<1>4. Sources(c) = 1 /\ Waits(c)
  BY <1>3 DEF Wakeup, WakeupByTimeout, WakeupBySelf, WakeOK, Woken, Sources
<1>5. status[c] \in {"inactive", "timeout"} /\ (WakeupBySelf(c) => status[c] = "inactive")
  BY <1>2, <1>4 DEF Waits, WakeupBySelf, WakeOK
<1>6. MoveToActive(c) \/ (status[c] = "inactive" /\ MoveToAvail(c))
  BY <1>5 DEF Wakeup, WakeupByTimeout, WakeupBySelf
<1>7. /\ ListsOK' /\ aborted' = aborted
      /\ \E s \in {"active", "avail"} : status' = [status EXCEPT ![c] = s]
  BY <1>1, <1>5, <1>6, MoveLists
<1>8. PoolOK'
  BY <1>1, <1>5, <1>7, PoolSame DEF ListsOK
<1>9. c = Handle => status' = [status EXCEPT ![c] = "avail"]
  BY <1>5, ConstantsOK DEF Wakeup, WakeupByTimeout, WakeupBySelf, WakeOK, MoveToAvail
<1>10. SourceTypes' /\ Sources(c)' = 0
  BY <1>1, <1>3, <1>4 DEF Wakeup, WakeupByTimeout, WakeupBySelf, WakeOK, SourceTypes, Sources
<1>11. \A d \in Coro : d # c => /\ Sources(d)' = Sources(d) /\ status'[d] = status[d]
                                /\ yields'[d] = yields[d]
  BY <1>1, <1>7 DEF Wakeup, WakeupByTimeout, WakeupBySelf, WakeOK, SourceTypes, Sources, ListsOK
<1>12. status'[c] \in {"active", "avail"} /\ yields'[c] = 0
  <2>1. status'[c] \in {"active", "avail"}
    BY <1>7 DEF ListsOK
  <2>2. puts[c] + yields[c] + asleep[c] + due[c] <= 1
    BY <1>3, <1>4 DEF Sources
  <2>3. yields'[c] = 0
    BY <1>3, <2>2 DEF Wakeup, WakeupByTimeout, WakeupBySelf, WakeOK, SourceTypes
  <2> QED
    BY <2>1, <2>3
<1>13. WakeOK'
  <2>1. \A d \in Coro : Woken(d)'
    BY <1>1, <1>2, <1>10, <1>11, <1>12 DEF Woken, Waits, WakeOK
  <2>2. /\ puts'[Handle] = 0 /\ due'[Handle] = 0
        /\ status'[Handle] \in {"avail", "inactive"}
    BY <1>3, <1>7, <1>9, ConstantsOK
       DEF Wakeup, WakeupByTimeout, WakeupBySelf, WakeOK, SourceTypes, ListsOK
  <2> QED
    BY <1>1, <1>2, <1>7, <1>10, <1>11, <1>12, <2>1, <2>2 DEF WakeOK
<1>14. IdleOK'
  BY <1>1 DEF IdleOK
<1> QED
  BY <1>7, <1>8, <1>13, <1>14

-----------------------------------------------------------------------------
(* A coroutine that runs.                                                   *)

LEMMA NoSource ==
    ASSUME SourceTypes, NEW c \in Coro, Sources(c) = 0
    PROVE  /\ puts[c] = 0 /\ yields[c] = 0 /\ asleep[c] = 0
           /\ due[c] = 0 /\ count[c] = 0 /\ c \notin calling
<1>1. /\ puts[c] \in Nat /\ yields[c] \in Nat /\ asleep[c] \in Nat /\ due[c] \in Nat
      /\ count[c] \in Nat
  BY DEF SourceTypes
<1>2. c \notin calling /\ ~(count[c] > 0)
  BY <1>1 DEF Sources
<1>3. puts[c] + yields[c] + asleep[c] + due[c] = 0
  BY <1>1, <1>2 DEF Sources
<1>4. puts[c] = 0 /\ yields[c] = 0 /\ asleep[c] = 0 /\ due[c] = 0
  <2> DEFINE i == puts[c]
             j == yields[c]
             k == asleep[c]
             l == due[c]
  <2>1. i \in Nat /\ j \in Nat /\ k \in Nat /\ l \in Nat /\ i + j + k + l = 0
    BY <1>1, <1>3
  <2> HIDE DEF i, j, k, l
  <2>2. i = 0 /\ j = 0 /\ k = 0 /\ l = 0
    BY <2>1
  <2> QED
    BY <2>2 DEF i, j, k, l
<1>5. count[c] = 0
  BY <1>1, <1>2
<1> QED
  BY <1>2, <1>4, <1>5

LEMMA RunningFacts ==
    ASSUME IInv, NEW c \in Coro, Running(c)
    PROVE  /\ cur = c /\ cur # Main /\ status[c] \in {"active", "avail"}
           /\ at \in {"top", "run"}
           /\ at = "run" => c # Handle
           /\ at = "top" /\ ~terminated => yields[Handle] = 0
           /\ sending \subseteq {c}
           /\ c \notin sending => /\ puts[c] = 0 /\ yields[c] = 0 /\ asleep[c] = 0
                                  /\ due[c] = 0 /\ count[c] = 0 /\ c \notin calling
<1> USE ConstantsOK DEF IInv, Running
<1>1. cur = c /\ cur # Main /\ status[c] \in {"active", "avail"}
  BY RunningFirst
<1>2. at \in {"top", "run"} /\ (at = "top" /\ ~terminated => yields[Handle] = 0)
  BY <1>1 DEF IdleOK, WakeOK, SourceTypes
<1>3. at = "run" => c # Handle
  BY <1>1 DEF IdleOK, WakeOK
<1>4. sending \subseteq {c}
  BY <1>1 DEF WakeOK
<1>5. ASSUME c \notin sending
      PROVE  /\ puts[c] = 0 /\ yields[c] = 0 /\ asleep[c] = 0
             /\ due[c] = 0 /\ count[c] = 0 /\ c \notin calling
  <2>1. ~Waits(c)
    BY <1>1, <1>5 DEF Waits
  <2>2. /\ puts[c] \in Nat /\ yields[c] \in Nat /\ asleep[c] \in Nat /\ due[c] \in Nat
        /\ count[c] \in Nat
    BY DEF WakeOK, SourceTypes
  <2>3. Sources(c) = 0
    BY <2>1, <2>2 DEF WakeOK, Woken, Sources
  <2> QED
    BY <2>3, NoSource DEF WakeOK
<1> QED
  BY <1>1, <1>2, <1>3, <1>4, <1>5

\* One that leaves with a single source of wakeup.
LEMMA LeaveKeeps ==
    ASSUME IInv, NEW c \in Coro, Running(c), NEW s \in {"inactive", "timeout"}, Leave(c, s),
           UNCHANGED <<sizes, fate>>, SourceTypes', sending' = sending \ {c},
           \A d \in Coro : d # c => Sources(d)' = Sources(d) /\ yields'[d] = yields[d],
           Sources(c)' = 1 \/ (Sources(c)' = 0 /\ terminated),
           yields'[c] > 0 \/ c = Handle => s = "inactive",
           puts'[Handle] = 0, asleep'[Handle] = 0, due'[Handle] = 0, count'[Handle] = 0
    PROVE  /\ ListsOK' /\ WakeOK' /\ PoolOK' /\ cur' = Main
           /\ c # Handle => status'[Handle] = status[Handle]
<1> USE ConstantsOK DEF IInv
<1>1. ListsOK' /\ cur' = Main /\ status' = [status EXCEPT ![c] = s] /\ cur = c
  BY LeaveLists DEF Running, Status
<1>2. \A d \in Coro : d # c => status'[d] = status[d]
  BY <1>1 DEF ListsOK
<1>3. status'[c] = s
  BY <1>1 DEF ListsOK
<1>4. sending' = {} /\ sending \subseteq {c}
  BY RunningFacts
<1>5. PoolOK'
  BY <1>2, <1>3, RunningFacts, PoolSame
<1>6. \A d \in Coro : Woken(d)'
  BY <1>2, <1>3, <1>4 DEF WakeOK, Woken, Waits
<1>7. \A d \in Coro : yields'[d] > 0 => status'[d] = "inactive"
  BY <1>2, <1>3 DEF WakeOK
<1>8. status'[Handle] \in {"avail", "inactive"} /\ aborted' = FALSE
  BY <1>2, <1>3 DEF WakeOK
<1>9. WakeOK'
  BY <1>4, <1>6, <1>7, <1>8 DEF WakeOK
<1> QED
  BY <1>1, <1>2, <1>5, <1>9

\* What the steps of a request's coroutine leave of IdleOK.
LEMMA WorkerIdle ==
    ASSUME IInv, NEW c \in Worker, Running(c), UNCHANGED <<at, round, ringing, terminated>>,
           UNCHANGED dataVars, notified' \in BOOLEAN, yields'[Handle] = yields[Handle],
           cur' \in {cur, Main}, cur' = cur => UNCHANGED status
    PROVE  IdleOK'
<1>1. c \in Coro /\ c # Handle
  BY DEF Worker
<1>2. /\ at \in {"top", "run"} /\ cur # Main
      /\ ~terminated => yields[Handle] = 0
  BY <1>1, RunningFacts DEF IInv, IdleOK
<1>3. at = "run" /\ cur' # Main => status'[cur'] = "active"
  BY <1>2, ConstantsOK DEF IInv, IdleOK
<1> QED
  BY <1>2, <1>3 DEF IInv, IdleOK, WakeOK, SourceTypes

LEMMA YieldKeeps ==
    ASSUME IInv, NEW c \in Coro, Running(c), c \notin sending, YieldSelf(c),
           UNCHANGED callVars, ops' \in [Coro -> Nat]
    PROVE  /\ ListsOK' /\ WakeOK' /\ PoolOK' /\ cur' = Main
           /\ c # Handle => yields'[Handle] = yields[Handle]
<1> USE ConstantsOK DEF YieldSelf
<1>1. /\ Leave(c, "inactive") /\ UNCHANGED <<sizes, fate, puts, asleep, due>>
      /\ yields' = [yields EXCEPT ![c] = @ + 1]
  OBVIOUS
<1>2. SourceTypes'
  <2>1. SourceTypes
    BY DEF IInv, WakeOK
  <2>2. yields' \in [Coro -> Nat]
    BY <1>1, <2>1 DEF SourceTypes
  <2> QED
    BY <1>1, <2>1, <2>2 DEF SourceTypes
<1>3. \A d \in Coro : d # c => Sources(d)' = Sources(d) /\ yields'[d] = yields[d]
  BY <1>1 DEF IInv, WakeOK, SourceTypes, Sources
<1>4. Sources(c)' = 1
  <2>1. /\ puts[c] = 0 /\ yields[c] = 0 /\ asleep[c] = 0 /\ due[c] = 0 /\ count[c] = 0
        /\ c \notin calling
    BY RunningFacts
  <2>2. yields'[c] = 1
    BY <1>1, <2>1 DEF IInv, WakeOK, SourceTypes
  <2> QED
    BY <1>1, <2>1, <2>2 DEF Sources
<1>5. /\ puts'[Handle] = 0 /\ asleep'[Handle] = 0 /\ due'[Handle] = 0 /\ count'[Handle] = 0
      /\ sending' = sending \ {c}
  BY <1>1, RunningFacts DEF IInv, WakeOK
<1> QED
  BY <1>1, <1>2, <1>3, <1>4, <1>5, LeaveKeeps

LEMMA SleepKeeps ==
    ASSUME IInv, NEW c \in Worker, Running(c), c \notin sending, Sleep(c),
           UNCHANGED callVars, ops' \in [Coro -> Nat]
    PROVE  ListsOK' /\ WakeOK' /\ PoolOK' /\ cur' = Main
<1> USE ConstantsOK DEF Sleep, Worker
<1>1. /\ Leave(c, "timeout") /\ UNCHANGED <<sizes, fate, puts, yields, due>>
      /\ asleep' = [asleep EXCEPT ![c] = @ + 1]
  OBVIOUS
<1>2. SourceTypes'
  <2>1. SourceTypes
    BY DEF IInv, WakeOK
  <2>2. asleep' \in [Coro -> Nat]
    BY <1>1, <2>1 DEF SourceTypes
  <2> QED
    BY <1>1, <2>1, <2>2 DEF SourceTypes
<1>3. \A d \in Coro : d # c => Sources(d)' = Sources(d) /\ yields'[d] = yields[d]
  BY <1>1 DEF IInv, WakeOK, SourceTypes, Sources
<1>4. Sources(c)' = 1 /\ yields'[c] = 0
  <2>1. /\ puts[c] = 0 /\ yields[c] = 0 /\ asleep[c] = 0 /\ due[c] = 0 /\ count[c] = 0
        /\ c \notin calling
    BY RunningFacts
  <2>2. asleep'[c] = 1
    BY <1>1, <2>1 DEF IInv, WakeOK, SourceTypes
  <2> QED
    BY <1>1, <2>1, <2>2 DEF Sources
<1>5. /\ puts'[Handle] = 0 /\ asleep'[Handle] = 0 /\ due'[Handle] = 0 /\ count'[Handle] = 0
      /\ sending' = sending \ {c}
  BY <1>1, RunningFacts DEF IInv, WakeOK, SourceTypes
<1> QED
  BY <1>1, <1>2, <1>3, <1>4, <1>5, LeaveKeeps

\* The handle's coroutine runs after the loop has come to its top.
LEMMA HandleReportKeeps ==
    ASSUME IInv, HandleReport
    PROVE  IInv'
<1> USE ConstantsOK DEF HandleReport
<1>1. ListsOK' /\ WakeOK' /\ PoolOK'
  BY SameLists, SameWake, PoolSame DEF IInv
<1>2. /\ at = "top" /\ cur # Main /\ (~terminated => yields[Handle] = 0)
      /\ queue' = queue - 1 /\ queue > 0
  BY RunningFacts DEF TakesData
<1>3. IdleOK'
  BY <1>2 DEF IInv, IdleOK
<1> QED
  BY <1>1, <1>3 DEF IInv

LEMMA HandleRequestKeeps ==
    ASSUME IInv, HandleRequest
    PROVE  IInv'
<1> USE ConstantsOK DEF HandleRequest
<1>1. /\ at = "top" /\ cur = Handle /\ cur # Main /\ (~terminated => yields[Handle] = 0)
      /\ queue' = queue - 1 /\ queue > 0 /\ cur' = cur
      /\ UNCHANGED <<wakeups, loop, events, fate, pushed, received, callVars>>
  BY RunningFacts DEF TakesData
<1>2. IdleOK'
  BY <1>1 DEF IInv, IdleOK
<1>3. CanGo
  BY RoomMeansGo DEF IInv, TakesData
<1>4. PICK c \in Worker : Go(c) /\ ops' = [ops EXCEPT ![c] = Ops]
  BY <1>3
<1>5. /\ ListsOK' /\ PoolOK'
      /\ status[c] \in {"none", "free"} /\ status'[c] = "avail"
      /\ \A d \in Coro : d # c /\ status[d] \notin {"none", "free"} => status'[d] = status[d]
      /\ \A d \in Coro : d # c /\ status[d] \in {"none", "free"} =>
                             status'[d] \in {"none", "free"}
  BY <1>1, <1>4, GoKeeps DEF IInv
<1>6. c # Handle /\ c \in Coro
  BY DEF Worker
<1>7. sending = {}
  BY <1>1 DEF IInv, WakeOK, SourceTypes, Worker
<1>8. \A d \in Coro : Sources(d)' = Sources(d) /\ (Waits(d)' <=> Waits(d))
  BY <1>1, <1>5, <1>7 DEF Sources, Waits
<1>9. ops' \in [Coro -> Nat]
  BY <1>4 DEF IInv, WakeOK, SourceTypes
<1>10. WakeOK'
  BY <1>1, <1>5, <1>6, <1>8, <1>9 DEF IInv, WakeOK, SourceTypes, Woken
<1> QED
  BY <1>2, <1>5, <1>10 DEF IInv

\* It yields when there is nothing for it to take.
LEMMA HandleYieldsKeeps ==
    ASSUME IInv, HandleYields
    PROVE  IInv'
<1> USE ConstantsOK DEF HandleYields
<1>1. Handle \notin sending
  BY DEF IInv, WakeOK, SourceTypes, Worker
<1>2. ListsOK' /\ WakeOK' /\ PoolOK' /\ cur' = Main
  BY <1>1, YieldKeeps DEF IInv, WakeOK, SourceTypes
<1>3. /\ at = "top" /\ UNCHANGED <<at, round, events, terminated, dataVars, used>>
      /\ ~terminated => NoneToTake
  BY RunningFacts DEF TakesData, YieldSelf, NoneToTake, IInv, IdleOK
<1>4. ~terminated => NoneToTake'
  BY <1>3 DEF NoneToTake, HasFree
<1>5. IdleOK'
  BY <1>2, <1>3, <1>4 DEF IInv, IdleOK
<1> QED
  BY <1>2, <1>5 DEF IInv

\* A call that completes at once has put the coroutine before it yields.
LEMMA CallKeeps ==
    ASSUME IInv, NEW c \in Worker, Call(c)
    PROVE  IInv'
<1> USE ConstantsOK DEF Call, Step, Worker
<1>1. /\ Leave(c, "inactive") /\ Running(c) /\ c \notin sending /\ c \in Coro /\ c # Handle
      /\ UNCHANGED <<sizes, yields, asleep, due, at, round, ringing, fate, dataVars, sending, count>>
      /\ ops' = [ops EXCEPT ![c] = @ - 1] /\ ops[c] > 0
  OBVIOUS
<1>2. PICK atOnce \in BOOLEAN :
        Put(c, atOnce) /\ calling' = IF atOnce THEN calling ELSE calling \cup {c}
  OBVIOUS
<1>3. /\ puts[c] = 0 /\ yields[c] = 0 /\ asleep[c] = 0 /\ due[c] = 0 /\ count[c] = 0
      /\ c \notin calling
  BY <1>1, RunningFacts
<1>4. SourceTypes'
  <2>1. SourceTypes
    BY DEF IInv, WakeOK
  <2>2. puts' \in [Coro -> Nat] /\ ops' \in [Coro -> Nat] /\ calling' \subseteq Worker
    BY <1>1, <1>2, <2>1 DEF SourceTypes, Put
  <2> QED
    BY <1>1, <2>1, <2>2 DEF SourceTypes
<1>5. \A d \in Coro : d # c => Sources(d)' = Sources(d) /\ yields'[d] = yields[d]
  <2>1. ASSUME NEW d \in Coro, d # c
        PROVE  puts'[d] = puts[d] /\ (d \in calling' <=> d \in calling)
    BY <1>2, <2>1 DEF Put, IInv, WakeOK, SourceTypes
  <2> QED
    BY <1>1, <2>1 DEF Sources
<1>6. Sources(c)' = 1 \/ (Sources(c)' = 0 /\ terminated)
  <2>1. CASE ~atOnce
    BY <1>1, <1>2, <1>3, <2>1 DEF Put, Sources
  <2>2. CASE atOnce /\ terminated
    BY <1>1, <1>2, <1>3, <2>2 DEF Put, Sources
  <2>3. CASE atOnce /\ ~terminated
    <3>1. puts'[c] = 1
      BY <1>2, <1>3, <2>3 DEF Put, IInv, WakeOK, SourceTypes
    <3> QED
      BY <1>1, <1>2, <1>3, <2>3, <3>1 DEF Sources
  <2> QED
    BY <2>1, <2>2, <2>3
<1>7. /\ puts'[Handle] = 0 /\ asleep'[Handle] = 0 /\ due'[Handle] = 0 /\ count'[Handle] = 0
  BY <1>1, <1>2 DEF IInv, WakeOK, SourceTypes, Put
<1>8. ListsOK' /\ WakeOK' /\ PoolOK' /\ cur' = Main
  BY <1>1, <1>3, <1>4, <1>5, <1>6, <1>7, LeaveKeeps
<1>9. IdleOK'
  <2>1. notified' \in BOOLEAN /\ cur' \in {cur, Main} /\ cur # Main
    BY <1>1, <1>2, <1>8, RunningFacts DEF Put, IInv, IdleOK
  <2> QED
    BY <1>1, <1>8, <2>1, WorkerIdle
<1> QED
  BY <1>8, <1>9 DEF IInv

LEMMA SendAllKeeps ==
    ASSUME IInv, NEW c \in Worker, SendAll(c)
    PROVE  IInv'
<1> USE ConstantsOK DEF SendAll, Step, Worker
<1>1. /\ Running(c) /\ c \notin sending /\ c \in Coro /\ c # Handle
      /\ UNCHANGED <<lists, sizes, yields, asleep, due, loop, ringing, fate, dataVars, calling>>
      /\ ops' = [ops EXCEPT ![c] = @ - 1] /\ ops[c] > 0
      /\ sending' = sending \cup {c}
  OBVIOUS
<1>2. PICK left \in 0 .. Parallel : count' = [count EXCEPT ![c] = left] /\ Put(c, left = 0)
  OBVIOUS
<1>3. /\ puts[c] = 0 /\ yields[c] = 0 /\ asleep[c] = 0 /\ due[c] = 0 /\ count[c] = 0
      /\ c \notin calling /\ sending \subseteq {c} /\ cur = c
  BY <1>1, RunningFacts
<1>4. SourceTypes'
  <2>1. SourceTypes
    BY DEF IInv, WakeOK
  <2>2. puts' \in [Coro -> Nat] /\ ops' \in [Coro -> Nat] /\ count' \in [Coro -> Nat]
    BY <1>1, <1>2, <2>1 DEF SourceTypes, Put
  <2>3. sending' \subseteq Worker
    BY <1>1, <2>1 DEF SourceTypes
  <2> QED
    BY <1>1, <2>1, <2>2, <2>3 DEF SourceTypes
<1>5. \A d \in Coro : d # c => Sources(d)' = Sources(d) /\ (Waits(d)' <=> Waits(d))
  <2>1. ASSUME NEW d \in Coro, d # c
        PROVE  puts'[d] = puts[d] /\ count'[d] = count[d] /\ (d \in sending' <=> d \in sending)
    BY <1>1, <1>2, <2>1 DEF Put, IInv, WakeOK, SourceTypes
  <2> QED
    BY <1>1, <2>1 DEF Sources, Waits
<1>6. Sources(c)' = 1 \/ (Sources(c)' = 0 /\ terminated)
  <2>0. count'[c] = left
    BY <1>2 DEF IInv, WakeOK, SourceTypes
  <2>1. CASE left # 0
    BY <1>1, <1>2, <1>3, <2>0, <2>1 DEF Put, Sources
  <2>2. CASE left = 0 /\ terminated
    BY <1>1, <1>2, <1>3, <2>0, <2>2 DEF Put, Sources
  <2>3. CASE left = 0 /\ ~terminated
    <3>1. puts'[c] = 1
      BY <1>2, <1>3, <2>3 DEF Put, IInv, WakeOK, SourceTypes
    <3> QED
      BY <1>1, <1>2, <1>3, <2>0, <2>3, <3>1 DEF Sources
  <2> QED
    BY <2>1, <2>2, <2>3
<1>7. Waits(c)'
  BY <1>1 DEF Waits
<1>8. \A d \in Coro : Woken(d)'
  BY <1>1, <1>5, <1>6, <1>7 DEF IInv, WakeOK, Woken
<1>9. puts'[Handle] = 0 /\ count'[Handle] = 0
  BY <1>1, <1>2 DEF IInv, WakeOK, SourceTypes, Put
<1>10. WakeOK'
  BY <1>1, <1>3, <1>4, <1>8, <1>9 DEF IInv, WakeOK
<1>11. ListsOK' /\ PoolOK'
  BY <1>1, SameLists, PoolSame DEF IInv
<1>12. IdleOK'
  BY <1>1, <1>2, WorkerIdle DEF Put, IInv, IdleOK
<1> QED
  BY <1>10, <1>11, <1>12 DEF IInv

LEMMA WhenAllKeeps ==
    ASSUME IInv, NEW c \in Worker, WhenAll(c)
    PROVE  IInv'
<1> USE ConstantsOK DEF WhenAll, Worker
<1>1. /\ Running(c) /\ c \in sending /\ c \in Coro /\ c # Handle /\ Leave(c, "inactive")
      /\ UNCHANGED <<sizes, wakeups, at, round, events, fate, dataVars, ops, calling, count>>
      /\ sending' = sending \ {c}
  OBVIOUS
<1>2. SourceTypes' /\ \A d \in Coro : Sources(d)' = Sources(d)
  BY <1>1 DEF IInv, WakeOK, SourceTypes, Sources
<1>3. Waits(c)
  BY <1>1 DEF Waits
<1>4. Sources(c)' = 1 \/ (Sources(c)' = 0 /\ terminated)
  <2>1. Sources(c) \in Nat
    <3>1. /\ puts[c] \in Nat /\ yields[c] \in Nat /\ asleep[c] \in Nat /\ due[c] \in Nat
          /\ count[c] \in Nat
      BY DEF IInv, WakeOK, SourceTypes
    <3> QED
      BY <3>1 DEF Sources
  <2>2. Sources(c) <= 1 /\ (Sources(c) = 0 => terminated)
    BY <1>3 DEF IInv, WakeOK, Woken
  <2> QED
    BY <1>2, <2>1, <2>2
<1>5. ListsOK' /\ WakeOK' /\ PoolOK' /\ cur' = Main
  BY <1>1, <1>2, <1>4, LeaveKeeps DEF IInv, WakeOK
<1>6. IdleOK'
  <2>1. notified' \in BOOLEAN /\ cur' \in {cur, Main} /\ cur # Main
    BY <1>1, <1>5, RunningFacts DEF IInv, IdleOK
  <2> QED
    BY <1>1, <1>5, <2>1, WorkerIdle
<1> QED
  BY <1>5, <1>6 DEF IInv

LEMMA TakeNapKeeps ==
    ASSUME IInv, NEW c \in Worker, TakeNap(c)
    PROVE  IInv'
<1> USE ConstantsOK DEF TakeNap, Step, Worker
<1>1. /\ Running(c) /\ c \notin sending /\ c \in Coro /\ c # Handle
      /\ UNCHANGED <<dataVars, callVars>>
  OBVIOUS
<1>2. ops' \in [Coro -> Nat]
  BY DEF IInv, WakeOK, SourceTypes
<1>3. CASE YieldSelf(c)
  <2>1. ListsOK' /\ WakeOK' /\ PoolOK' /\ cur' = Main /\ yields'[Handle] = yields[Handle]
    BY <1>1, <1>2, <1>3, YieldKeeps
  <2>2. IdleOK'
    <3>1. notified' \in BOOLEAN /\ cur' \in {cur, Main} /\ cur # Main
      BY <1>1, <1>3, <2>1, RunningFacts DEF YieldSelf, IInv, IdleOK
    <3> QED
      BY <1>1, <1>3, <2>1, <3>1, WorkerIdle DEF YieldSelf
  <2> QED
    BY <2>1, <2>2 DEF IInv
<1>4. CASE Sleep(c)
  <2>1. ListsOK' /\ WakeOK' /\ PoolOK' /\ cur' = Main
    BY <1>1, <1>2, <1>4, SleepKeeps
  <2>2. IdleOK'
    <3>1. notified' \in BOOLEAN /\ cur' \in {cur, Main} /\ cur # Main
      BY <1>1, <1>4, <2>1, RunningFacts DEF Sleep, IInv, IdleOK
    <3> QED
      BY <1>1, <1>4, <2>1, <3>1, WorkerIdle DEF Sleep
  <2> QED
    BY <2>1, <2>2 DEF IInv
<1> QED
  BY <1>3, <1>4

\* One that ends has no source of wakeup left.
LEMMA EndKeeps ==
    ASSUME IInv, NEW c \in Worker, End(c)
    PROVE  IInv'
<1> USE ConstantsOK DEF End, Worker
<1>1. /\ Running(c) /\ c \notin sending /\ c \in Coro /\ c # Handle /\ Leave(c, "free")
      /\ UNCHANGED <<current, wakeups, at, round, events, fate, dataVars, callVars>>
      /\ ops' = [ops EXCEPT ![c] = 0]
  BY DEF Finish
<1>2. /\ cur = c /\ puts[c] = 0 /\ yields[c] = 0 /\ asleep[c] = 0 /\ due[c] = 0 /\ count[c] = 0
      /\ c \notin calling /\ sending = {}
  BY <1>1, RunningFacts
<1>3. ListsOK' /\ cur' = Main /\ status' = [status EXCEPT ![c] = "free"]
  BY <1>1, <1>2, LeaveLists DEF IInv, Status
<1>4. /\ status'[c] = "free"
      /\ \A d \in Coro : d # c => status'[d] = status[d]
  BY <1>3 DEF IInv, ListsOK
<1>5. PoolOK'
  BY <1>1, <1>2, FinishPool DEF IInv
<1>6. SourceTypes' /\ \A d \in Coro : Sources(d)' = Sources(d)
  BY <1>1 DEF IInv, WakeOK, SourceTypes, Sources
<1>7. Sources(c)' = 0
  BY <1>1, <1>2 DEF Sources
<1>8. \A d \in Coro : Woken(d)'
  BY <1>1, <1>2, <1>4, <1>6, <1>7 DEF IInv, WakeOK, Woken, Waits
<1>9. \A d \in Coro : yields'[d] > 0 => status'[d] = "inactive"
  BY <1>1, <1>2, <1>4 DEF IInv, WakeOK
<1>10. WakeOK'
  BY <1>1, <1>2, <1>4, <1>6, <1>8, <1>9 DEF IInv, WakeOK
<1>11. IdleOK'
  <2>1. notified' \in BOOLEAN /\ cur' \in {cur, Main} /\ cur # Main
    BY <1>1, <1>3, RunningFacts DEF IInv, IdleOK
  <2> QED
    BY <1>1, <1>3, <2>1, WorkerIdle
<1> QED
  BY <1>3, <1>5, <1>10, <1>11 DEF IInv

-----------------------------------------------------------------------------
(* The completions.                                                         *)

\* What is common to them: the loop is in done(), so nobody runs.
LEMMA DoneIdle ==
    ASSUME IInv, NEW c \in Worker, NEW done \in BOOLEAN, InDone, Put(c, done),
           UNCHANGED <<lists, sizes, yields, asleep, due, loop, ringing, fate, dataVars, ops, sending>>
    PROVE  /\ ListsOK' /\ PoolOK' /\ IdleOK' /\ sending = {} /\ c \in Coro /\ c # Handle
           /\ puts' \in [Coro -> Nat] /\ (puts'[c] = puts[c] + 1 \/ (puts' = puts /\ (terminated \/ ~done)))
           /\ \A d \in Coro : d # c => puts'[d] = puts[d]
           /\ (done /\ ~terminated => puts'[c] = puts[c] + 1) /\ (~done => puts' = puts)
<1> USE ConstantsOK DEF InDone, InLoop, Put, Worker
<1>1. cur = Main /\ at \in {"fire", "io"} /\ c \in Coro /\ c # Handle
  OBVIOUS
<1>2. sending = {}
  BY <1>1 DEF IInv, WakeOK, SourceTypes
<1>3. ListsOK' /\ PoolOK'
  BY SameLists, PoolSame DEF IInv
<1>4. /\ puts' \in [Coro -> Nat]
      /\ \A d \in Coro : d # c => puts'[d] = puts[d]
      /\ (done /\ ~terminated => puts'[c] = puts[c] + 1) /\ (~done => puts' = puts)
      /\ (terminated => puts' = puts)
  BY DEF IInv, WakeOK, SourceTypes
<1>5. notified' \in BOOLEAN /\ (notified => notified') /\ (~notified' => puts' = puts)
  BY DEF IInv, IdleOK
<1>6. IdleOK'
  BY <1>1, <1>4, <1>5 DEF IInv, IdleOK, NoneToTake, HasFree
<1> QED
  BY <1>1, <1>2, <1>3, <1>4, <1>6

LEMMA CallCompletesKeeps ==
    ASSUME IInv, NEW c \in Worker, CallCompletes(c)
    PROVE  IInv'
<1> USE ConstantsOK DEF CallCompletes
<1>1. /\ Put(c, TRUE) /\ InDone /\ c \in calling /\ calling' = calling \ {c}
      /\ UNCHANGED <<lists, sizes, yields, asleep, due, loop, ringing, fate, dataVars, ops,
                     sending, count>>
  OBVIOUS
<1>2. /\ ListsOK' /\ PoolOK' /\ IdleOK' /\ sending = {} /\ c \in Coro /\ c # Handle
      /\ puts' \in [Coro -> Nat] /\ \A d \in Coro : d # c => puts'[d] = puts[d]
      /\ puts'[c] = puts[c] + 1 \/ (puts' = puts /\ terminated)
  BY <1>1, DoneIdle
<1>3. SourceTypes'
  BY <1>1, <1>2 DEF IInv, WakeOK, SourceTypes
<1>4. \A d \in Coro : d # c => Sources(d)' = Sources(d)
  BY <1>1, <1>2 DEF Sources
<1>5. /\ puts[c] \in Nat /\ yields[c] \in Nat /\ asleep[c] \in Nat /\ due[c] \in Nat
      /\ count[c] \in Nat
  BY <1>2 DEF IInv, WakeOK, SourceTypes
<1>6. Sources(c) = 1
  <2> DEFINE k == IF count[c] > 0 THEN 1 ELSE 0
  <2>1. Sources(c) = puts[c] + yields[c] + asleep[c] + due[c] + 1 + k /\ Sources(c) <= 1
    BY <1>1, <1>2 DEF IInv, WakeOK, Woken, Sources
  <2>2. k \in Nat
    OBVIOUS
  <2> DEFINE others == puts[c] + yields[c] + asleep[c] + due[c]
  <2>3. others \in Nat
    BY <1>5
  <2>4. Sources(c) = others + 1 + k
    BY <2>1
  <2> HIDE DEF k, others
  <2> QED
    BY <2>1, <2>2, <2>3, <2>4
<1>7. Sources(c)' = 1 \/ (Sources(c)' = 0 /\ terminated)
  <2>1. Sources(c) = puts[c] + yields[c] + asleep[c] + due[c] + 1 + (IF count[c] > 0 THEN 1 ELSE 0)
    BY <1>1 DEF Sources
  <2>2. Sources(c)' = puts'[c] + yields[c] + asleep[c] + due[c] + 0 + (IF count[c] > 0 THEN 1 ELSE 0)
    BY <1>1 DEF Sources
  <2> QED
    BY <1>2, <1>5, <1>6, <2>1, <2>2
<1>8. \A d \in Coro : Woken(d)'
  BY <1>1, <1>2, <1>4, <1>6, <1>7 DEF IInv, WakeOK, Woken, Waits
<1>9. WakeOK'
  BY <1>1, <1>2, <1>3, <1>8 DEF IInv, WakeOK
<1> QED
  BY <1>2, <1>9 DEF IInv

LEMMA OneOfAllCompletesKeeps ==
    ASSUME IInv, NEW c \in Worker, OneOfAllCompletes(c)
    PROVE  IInv'
<1> USE ConstantsOK DEF OneOfAllCompletes
<1>1. /\ Put(c, count[c] = 1) /\ InDone /\ count[c] > 0 /\ count' = [count EXCEPT ![c] = @ - 1]
      /\ UNCHANGED <<lists, sizes, yields, asleep, due, loop, ringing, fate, dataVars, ops,
                     sending, calling>>
  OBVIOUS
<1>2. /\ ListsOK' /\ PoolOK' /\ IdleOK' /\ sending = {} /\ c \in Coro /\ c # Handle
      /\ puts' \in [Coro -> Nat] /\ \A d \in Coro : d # c => puts'[d] = puts[d]
      /\ (count[c] = 1 => puts'[c] = puts[c] + 1 \/ (puts' = puts /\ terminated))
      /\ (count[c] # 1 => puts' = puts)
  BY <1>1, DoneIdle
<1>3. /\ puts[c] \in Nat /\ yields[c] \in Nat /\ asleep[c] \in Nat /\ due[c] \in Nat
      /\ count[c] \in Nat
  BY <1>2 DEF IInv, WakeOK, SourceTypes
<1>4. /\ count' \in [Coro -> Nat] /\ count'[c] = count[c] - 1
      /\ \A d \in Coro : d # c => count'[d] = count[d]
  <2>1. count \in [Coro -> Nat]
    BY DEF IInv, WakeOK, SourceTypes
  <2> QED
    BY <1>1, <1>2, <1>3, <2>1
<1>5. SourceTypes'
  BY <1>1, <1>2, <1>4 DEF IInv, WakeOK, SourceTypes
<1>6. \A d \in Coro : d # c => Sources(d)' = Sources(d)
  BY <1>1, <1>2, <1>4 DEF Sources
<1>7. Sources(c) = 1
  BY <1>1, <1>2, <1>3 DEF IInv, WakeOK, Woken, Sources
<1>8. Sources(c)' = 1 \/ (Sources(c)' = 0 /\ terminated)
  <2> DEFINE k == IF c \in calling THEN 1 ELSE 0
  <2>1. Sources(c) = puts[c] + yields[c] + asleep[c] + due[c] + k + 1
    BY <1>1 DEF Sources
  <2>2. Sources(c)' = puts'[c] + yields[c] + asleep[c] + due[c] + k
                      + (IF count[c] - 1 > 0 THEN 1 ELSE 0)
    BY <1>1, <1>4 DEF Sources
  <2>3. k \in Nat
    OBVIOUS
  <2> HIDE DEF k
  <2>4. CASE count[c] = 1
    BY <1>2, <1>3, <1>7, <2>1, <2>2, <2>3, <2>4
  <2>5. CASE count[c] > 1
    BY <1>2, <1>3, <1>7, <2>1, <2>2, <2>3, <2>5
  <2> QED
    BY <1>1, <1>3, <2>4, <2>5
<1>9. \A d \in Coro : Woken(d)'
  BY <1>1, <1>2, <1>6, <1>7, <1>8 DEF IInv, WakeOK, Woken, Waits
<1>10. puts'[Handle] = 0 /\ count'[Handle] = 0
  BY <1>2, <1>4 DEF IInv, WakeOK
<1>11. WakeOK'
  BY <1>1, <1>2, <1>5, <1>9, <1>10 DEF IInv, WakeOK
<1> QED
  BY <1>2, <1>11 DEF IInv

-----------------------------------------------------------------------------
LEMMA StutterKeeps == ASSUME IInv, UNCHANGED vars PROVE IInv'
<1>1. ListsOK' /\ WakeOK' /\ PoolOK'
  BY SameLists, SameWake, PoolSame DEF vars, IInv
<1>2. IdleOK'
  BY DEF vars, IInv, IdleOK, NoneToTake, HasFree
<1> QED
  BY <1>1, <1>2 DEF IInv

LEMMA NextIInv == IInv /\ [Next]_vars => IInv'
<1> SUFFICES ASSUME IInv, [Next]_vars PROVE IInv'
  OBVIOUS
<1>1. CASE \E n \in Net : Push(n) \/ Notify(n)
  BY <1>1, PushKeeps, NotifyKeeps
<1>2. CASE Terminate
  BY <1>2, TerminateKeeps
<1>3. CASE RunStep
  BY <1>3, HandleReportKeeps, HandleRequestKeeps, HandleYieldsKeeps, CallKeeps, SendAllKeeps,
     WhenAllKeeps, TakeNapKeeps, EndKeeps DEF RunStep
<1>4. CASE LoopStep /\ UNCHANGED <<dataVars, ops, callVars>>
  <2>1. CASE \E c \in Coro : Wakeup(c) \/ WakeupByTimeout(c) \/ WakeupBySelf(c)
    BY <1>4, <2>1, WakeupKeeps
  <2> QED
    BY <1>4, <2>1, TurnKeeps DEF LoopStep
<1>5. CASE (\E c \in Coro : Elapse(c)) /\ UNCHANGED <<dataVars, ops, callVars>>
  BY <1>5, ElapseKeeps
<1>6. CASE Completion
  BY <1>6, CallCompletesKeeps, OneOfAllCompletesKeeps DEF Completion
<1>7. CASE UNCHANGED vars
  BY <1>7, StutterKeeps
<1> QED
  BY <1>1, <1>2, <1>3, <1>4, <1>5, <1>6, <1>7 DEF Next

LEMMA SpecIInv == Spec => []IInv
BY InitIInv, NextIInv, PTL DEF Spec

-----------------------------------------------------------------------------
(* The state is of its type; the coroutine that runs is the first of its    *)
(* list, and the lists agree with the statuses (CoroutineDel and            *)
(* CoroutineAddTail always come with the change of _eStatus).               *)
THEOREM CoroutineTypes == Spec => []TypeOK
<1>1. IInv => TypeOK
  <2> SUFFICES ASSUME IInv PROVE TypeOK
    OBVIOUS
  <2> USE DEF IInv
  <2>1. used \in 0 .. PoolSize
    BY UsedBounded, ConstantsOK
  <2>2. ListTypeOK
    BY <2>1 DEF ListTypeOK, ListsOK, IsList, WakeOK, SourceTypes, PoolOK, IdleOK
  <2>3. CallTypeOK
    BY DEF CallTypeOK, WakeOK, SourceTypes, IdleOK
  <2>4. ListsAgree
    <3>1. ASSUME NEW q \in Seq(Coro), NEW s, IsList(q, s)
          PROVE  /\ Distinct(q) /\ \A i \in DOMAIN q : status[q[i]] = s
                 /\ \A c \in Coro : status[c] = s => \E i \in DOMAIN q : q[i] = c
      <4>1. \A i \in DOMAIN q : q[i] \in Coro /\ In(q[i], q)
        BY DEF In
      <4> QED
        BY <3>1, <4>1 DEF IsList, In
    <3>2. /\ active \in Seq(Coro) /\ IsList(active, "active")
          /\ avail \in Seq(Coro) /\ IsList(avail, "avail")
      BY DEF ListsOK, IsList
    <3>3. /\ Distinct(active) /\ \A i \in DOMAIN active : status[active[i]] = "active"
          /\ \A c \in Coro : status[c] = "active" => \E i \in DOMAIN active : active[i] = c
      BY <3>1, <3>2
    <3>4. /\ Distinct(avail) /\ \A i \in DOMAIN avail : status[avail[i]] = "avail"
          /\ \A c \in Coro : status[c] = "avail" => \E i \in DOMAIN avail : avail[i] = c
      BY <3>1, <3>2
    <3> QED
      BY <3>3, <3>4 DEF ListsAgree
  <2> QED
    BY <2>2, <2>3, <2>4 DEF TypeOK, ListsOK
<1> QED
  BY <1>1, SpecIInv, PTL

(* No assert of moveToActive and moveToAvail fails: whoever was put, whose  *)
(* time has come or who yielded is still waiting when it is woken.          *)
THEOREM NoAssertFails == Spec => []NeverAborts
<1>1. IInv => NeverAborts
  BY DEF IInv, WakeOK, NeverAborts
<1> QED
  BY <1>1, SpecIInv, PTL

(* A coroutine that waits has exactly one source of wakeup, and one that    *)
(* does not wait has none (put, yield, sleep, coroWhenAll and their         *)
(* completions).                                                            *)
THEOREM WokenOnce == Spec => []OneWakeup
<1>1. IInv => OneWakeup
  BY DEF IInv, WakeOK, Woken, OneWakeup
<1> QED
  BY <1>1, SpecIInv, PTL

(* _usedSize counts the coroutines in use, and while it is below _poolSize  *)
(* go() finds a free coroutine, old or new.                                 *)
THEOREM PoolCounts == Spec => []PoolAccounted
<1>1. IInv => PoolAccounted
  BY RoomMeansGo, ConstantsOK DEF IInv, PoolOK, WakeOK, PoolAccounted, InUse
<1> QED
  BY <1>1, SpecIInv, PTL

(* While the loop waits for an event nothing can run, and there is no data  *)
(* that could be taken, unless the event is about to come.                  *)
THEOREM NoIdle == Spec => []NoIdleWithWork
<1>1. IInv => NoIdleWithWork
  BY DEF IInv, IdleOK, NoneToTake, NoIdleWithWork
<1> QED
  BY <1>1, SpecIInv, PTL
=============================================================================
