----------------------------- MODULE ClientProofs -----------------------------
(***************************************************************************)
(* Proofs about the client's call path, for every number of threads,       *)
(* endpoints and calls and every capacity of the queues.                   *)
(*                                                                         *)
(* The inductive invariant says where a call is.  A call that has been     *)
(* made is in exactly one place: a thread's queue, the object's queue, the *)
(* table of one adapter, or one of the four ends, of which "lost" is held  *)
(* by nobody: FateOK says which calls may end so.  Each step takes one     *)
(* call from a place and puts it into another; the lemmas about the        *)
(* containers and about FinishMsg, AdapterInvoke and ObjectInvoke say into *)
(* which.                                                                  *)
(***************************************************************************)
EXTENDS ClientInvoke, TimeoutQueueOpsProofs, FiniteSetTheorems, SequenceTheorems

End == {"woken", "asyncq", "deleted", "lost"}
Rest == {"tq"} \cup End
Place == {"loopq", "reqq"} \cup Rest

\* How a call is dropped, which is told from the other ends by its fate alone.
Lost == {"thrown", "onlyLogged"}

InTable(m, a) == \E i \in Ids(tq[a]) : tq[a].data[i].ptr = m

At(m, p) ==
    \/ p = "loopq" /\ \E t \in Thread : m \in Elements(loopq[t])
    \/ p = "reqq" /\ \E x \in Elements(reqq) : x.msg = m
    \/ p = "tq" /\ \E a \in Adapter : InTable(m, a)
    \/ p = "woken" /\ m \in woken
    \/ p = "asyncq" /\ m \in Elements(asyncq)
    \/ p = "deleted" /\ deleted[m] = 1
    \/ p = "lost" /\ fate[m] \in Lost

Distinct(s) == \A j, k \in DOMAIN s : s[j] = s[k] => j = k
Waiting == [msg : Msg, deadline : Deadline]
ConnState == {"closed", "connecting", "connected"}

NetOK ==
    /\ net \in NetState /\ now \in 0 .. MaxNow
    /\ valid \in BOOLEAN /\ proxys \subseteq Adapter
    /\ armed \subseteq Thread

LinkOK ==
    /\ conn \in [Adapter -> ConnState]
    /\ req \in [Adapter -> Msg \cup {None}]
    /\ buf \in [Adapter -> Id]
    /\ peer \in [Adapter -> SUBSET (Id \X Msg)]
    /\ up \in [Adapter -> BOOLEAN]
    /\ sent \subseteq Msg

\* What is known of a call, and that it has been made.
MsgOK ==
    /\ serial \in BOOLEAN
    /\ kind \in [Msg -> CallType \cup {None}]
    /\ status \in [Msg -> {"REQ", "RSP", "TIME", "EXC"}]
    /\ adapter \in [Msg -> Adapter \cup {None}]
    /\ begin \in [Msg -> (0 .. MaxNow) \cup {None}]
    /\ \A m \in Msg : Called(m) => kind[m] \in CallType /\ (serial => kind[m] # "ONEWAY")

UserOK ==
    /\ pc \in [Thread -> {"idle", "pushed", "waiting"}]
    /\ cur \in [Thread -> Msg \cup {None}]
    /\ \A t \in Thread : pc[t] # "idle" =>
         cur[t] \in Msg /\ Caller[cur[t]] = t /\ Called(cur[t])

LoopOK ==
    /\ loopq \in [Thread -> Seq(Msg)]
    /\ \A t \in Thread : Distinct(loopq[t]) /\ \A m \in Elements(loopq[t]) : Caller[m] = t

WaitOK ==
    /\ reqq \in Seq(Waiting) /\ Distinct(reqq)
    /\ \A x, y \in Elements(reqq) : x.msg = y.msg => x = y

TableOK ==
    /\ tq \in [Adapter -> Queue]
    /\ \A a \in Adapter : QueueOK(tq[a])
    /\ \A a, b \in Adapter : \A i \in Ids(tq[a]), j \in Ids(tq[b]) :
         tq[a].data[i].ptr = tq[b].data[j].ptr => a = b /\ i = j

EndOK ==
    /\ woken \subseteq Msg
    /\ asyncq \in Seq(Msg) /\ Distinct(asyncq)
    /\ \A m \in Elements(asyncq) : kind[m] = "ASYNC"
    /\ deleted \in [Msg -> 0 .. 1]
    /\ fate \in [Msg -> {"open", "ran", "thrown", "onlyLogged"}]

\* A call is in one place once it has been made, and in none before.
OwnerOK ==
    \A m \in Msg :
        IF Called(m) THEN \E p \in Place : \A s \in Place : At(m, s) <=> s = p
        ELSE \A s \in Place : ~At(m, s)

\* The request under way on a serial connection is still in its table.
ReqOK == \A a \in Adapter : req[a] # None => serial /\ InTable(req[a], a)

IInv ==
    /\ NetOK /\ LinkOK /\ MsgOK /\ UserOK /\ LoopOK /\ WaitOK /\ TableOK /\ EndOK
    /\ OwnerOK /\ ReqOK /\ SyncMsgOutlivesWait

-----------------------------------------------------------------------------
(* Constants and containers.                                                *)

LEMMA ConstantsOK ==
    /\ Kinds \in [Msg -> SUBSET CallType]
    /\ Caller \in [Msg -> Thread]
    /\ Home \in [Msg -> Adapter \cup {None}]
    /\ Lists \subseteq SUBSET Adapter
    /\ None \notin Adapter /\ None \notin Msg /\ None \notin CallType /\ None \notin 0 .. MaxNow
    /\ LoopCap \in Nat /\ NoSendLimit \in Nat /\ AsyncCap \in Nat /\ MaxNow \in Nat
    /\ \A t \in 0 .. MaxNow : t + ReqTimeout \in Deadline /\ t + ConnTimeout \in Deadline
BY ClientAssumption

LEMMA NetStates ==
    /\ Idle \in NetState /\ InTimeout \in NetState
    /\ \A t \in Thread, b \in BOOLEAN : InNotify(t, b) \in NetState
    /\ \A a, b \in Adapter : InPrepare(a, b) \in NetState
    /\ \A a \in Adapter : InDoInvoke(a) \in NetState
BY DEF NetState

LEMMA ElementsType ==
    ASSUME NEW S, NEW s \in Seq(S)
    PROVE  Elements(s) \subseteq S
BY DEF Elements

LEMMA AppendLemma ==
    ASSUME NEW S, NEW s \in Seq(S), NEW x \in S
    PROVE  /\ Append(s, x) \in Seq(S)
           /\ Elements(Append(s, x)) = Elements(s) \cup {x}
           /\ Distinct(s) /\ x \notin Elements(s) => Distinct(Append(s, x))
<1> DEFINE n == Len(s)
           r == Append(s, x)
<1>1. /\ n \in Nat /\ DOMAIN s = 1 .. n /\ DOMAIN r = 1 .. n + 1
      /\ r[n + 1] = x /\ \A i \in 1 .. n : r[i] = s[i]
      /\ r \in Seq(S)
  OBVIOUS
<1> HIDE DEF n, r
<1>2. Elements(r) = Elements(s) \cup {x}
  <2>1. \A i \in DOMAIN r : i = n + 1 \/ i \in DOMAIN s
    BY <1>1
  <2>2. \A i \in DOMAIN s : i \in DOMAIN r
    BY <1>1
  <2> QED
    BY <1>1, <2>1, <2>2 DEF Elements
<1>3. ASSUME Distinct(s), x \notin Elements(s) PROVE Distinct(r)
  <2>1. \A i \in 1 .. n : r[i] # x
    BY <1>1, <1>3 DEF Elements
  <2>2. \A i, j \in 1 .. n : r[i] = r[j] => i = j
    BY <1>1, <1>3 DEF Distinct
  <2>3. \A i \in DOMAIN r : i = n + 1 \/ i \in 1 .. n
    BY <1>1
  <2> QED
    BY <1>1, <2>1, <2>2, <2>3 DEF Distinct
<1> QED
  BY <1>1, <1>2, <1>3 DEF r

LEMMA TailLemma ==
    ASSUME NEW S, NEW s \in Seq(S), s # <<>>
    PROVE  /\ Head(s) \in S /\ Head(s) \in Elements(s)
           /\ Tail(s) \in Seq(S)
           /\ Distinct(s) => /\ Distinct(Tail(s))
                             /\ Elements(Tail(s)) = Elements(s) \ {Head(s)}
<1> DEFINE n == Len(s)
           r == Tail(s)
<1>1. /\ n \in Nat \ {0} /\ DOMAIN s = 1 .. n /\ DOMAIN r = 1 .. n - 1
      /\ Head(s) = s[1] /\ \A i \in 1 .. n - 1 : r[i] = s[i + 1]
      /\ r \in Seq(S) /\ Head(s) \in S
  OBVIOUS
<1> HIDE DEF n, r
<1>2. Head(s) \in Elements(s)
  BY <1>1 DEF Elements
<1>3. ASSUME Distinct(s) PROVE Distinct(r) /\ Elements(r) = Elements(s) \ {Head(s)}
  <2>1. \A i \in DOMAIN r : i + 1 \in DOMAIN s /\ i + 1 # 1 /\ r[i] = s[i + 1]
    BY <1>1
  <2>2. \A i \in DOMAIN s : i = 1 \/ (i - 1 \in DOMAIN r /\ r[i - 1] = s[i])
    BY <1>1
  <2>3. Distinct(r)
    <3>1. SUFFICES ASSUME NEW i \in DOMAIN r, NEW j \in DOMAIN r, r[i] = r[j] PROVE i = j
      BY DEF Distinct
    <3>2. i + 1 = j + 1
      BY <1>3, <2>1, <3>1 DEF Distinct
    <3> QED
      BY <1>1, <3>2
  <2>4. 1 \in DOMAIN s
    BY <1>1
  <2>5. \A i \in DOMAIN r : r[i] \in Elements(s) \ {Head(s)}
    BY <1>1, <1>3, <2>1, <2>4 DEF Elements, Distinct
  <2>6. \A i \in DOMAIN s : s[i] # Head(s) => s[i] \in Elements(r)
    BY <1>1, <2>2 DEF Elements
  <2> QED
    BY <2>3, <2>5, <2>6 DEF Elements
<1> QED
  BY <1>1, <1>2, <1>3 DEF r

\* The queue of one adapter becomes Q; its pointers are in no other table.
LEMMA TableChange ==
    ASSUME TableOK, NEW a \in Adapter, NEW Q, QueueOK(Q), tq' = [tq EXCEPT ![a] = Q],
           \A i, j \in Ids(Q) : Q.data[i].ptr = Q.data[j].ptr => i = j,
           \A i \in Ids(Q) : \A b \in Adapter \ {a} : ~InTable(Q.data[i].ptr, b)
    PROVE  /\ TableOK'
           /\ tq'[a] = Q /\ \A b \in Adapter \ {a} : tq'[b] = tq[b]
           /\ \A n : InTable(n, a)' <=> \E i \in Ids(Q) : Q.data[i].ptr = n
           /\ \A n : \A b \in Adapter \ {a} : InTable(n, b)' <=> InTable(n, b)
<1>1. tq'[a] = Q /\ \A b \in Adapter \ {a} : tq'[b] = tq[b]
  BY DEF TableOK
<1>2. /\ \A n : InTable(n, a)' <=> \E i \in Ids(Q) : Q.data[i].ptr = n
      /\ \A n : \A b \in Adapter \ {a} : InTable(n, b)' <=> InTable(n, b)
  BY <1>1 DEF InTable
<1>3. tq' \in [Adapter -> Queue] /\ \A b \in Adapter : QueueOK(tq'[b])
  BY <1>1 DEF TableOK, QueueOK
<1>4. ASSUME NEW b \in Adapter, NEW c \in Adapter, NEW i \in Ids(tq'[b]), NEW j \in Ids(tq'[c]),
             tq'[b].data[i].ptr = tq'[c].data[j].ptr
      PROVE  b = c /\ i = j
  <2>1. CASE b = a /\ c = a
    BY <1>1, <1>4, <2>1
  <2>2. CASE b = a /\ c # a
    BY <1>1, <1>4, <2>2 DEF InTable
  <2>3. CASE b # a /\ c = a
    BY <1>1, <1>4, <2>3 DEF InTable
  <2>4. CASE b # a /\ c # a
    BY <1>1, <1>4, <2>4 DEF TableOK
  <2> QED
    BY <2>1, <2>2, <2>3, <2>4
<1>5. TableOK'
  BY <1>3, <1>4 DEF TableOK
<1> QED
  BY <1>1, <1>2, <1>5

\* What a queue of the client says of itself.
LEMMA TableFacts ==
    ASSUME TableOK, NEW a \in Adapter
    PROVE  /\ QueueOK(tq[a]) /\ tq[a] \in Queue
           /\ Ids(tq[a]) \subseteq Id
           /\ \A i \in Ids(tq[a]) : tq[a].data[i] \in Entry /\ tq[a].data[i].ptr \in Msg
           /\ \A i, j \in Ids(tq[a]) : tq[a].data[i].ptr = tq[a].data[j].ptr => i = j
           /\ \A i \in Ids(tq[a]) : \A b \in Adapter \ {a} : ~InTable(tq[a].data[i].ptr, b)
<1>1. QueueOK(tq[a]) /\ tq[a] \in Queue
  BY DEF TableOK
<1>2. Ids(tq[a]) \subseteq Id /\ \A i \in Ids(tq[a]) : tq[a].data[i] \in Entry
  BY <1>1, QueueShape
<1>3. \A i \in Ids(tq[a]) : tq[a].data[i].ptr \in Msg
  BY <1>2 DEF Entry, Msg
<1>4. /\ \A i, j \in Ids(tq[a]) : tq[a].data[i].ptr = tq[a].data[j].ptr => i = j
      /\ \A i \in Ids(tq[a]) : \A b \in Adapter \ {a} : ~InTable(tq[a].data[i].ptr, b)
  BY DEF TableOK, InTable
<1> QED
  BY <1>1, <1>2, <1>3, <1>4

LEMMA TableGenerate ==
    ASSUME TableOK, NEW a \in Adapter, tq' = [tq EXCEPT ![a] = GenerateId(@)]
    PROVE  /\ TableOK'
           /\ tq'[a] = GenerateId(tq[a]) /\ \A b \in Adapter \ {a} : tq'[b] = tq[b]
           /\ \A b \in Adapter : tq'[b].data = tq[b].data /\ Ids(tq'[b]) = Ids(tq[b])
           /\ \A n : \A b \in Adapter : InTable(n, b)' <=> InTable(n, b)
<1> DEFINE Q == GenerateId(tq[a])
<1>1. /\ QueueOK(Q) /\ Ids(Q) = Ids(tq[a]) /\ Q.data = tq[a].data
  BY TableFacts, NextIdLemma DEF QueueOK
<1>2. tq' = [tq EXCEPT ![a] = Q]
  BY DEF TableOK
<1> HIDE DEF Q
<1>3. /\ TableOK'
      /\ tq'[a] = Q /\ \A b \in Adapter \ {a} : tq'[b] = tq[b]
      /\ \A n : InTable(n, a)' <=> \E i \in Ids(Q) : Q.data[i].ptr = n
      /\ \A n : \A b \in Adapter \ {a} : InTable(n, b)' <=> InTable(n, b)
  <2>1. \A i, j \in Ids(Q) : Q.data[i].ptr = Q.data[j].ptr => i = j
    BY <1>1, TableFacts
  <2>2. \A i \in Ids(Q) : \A b \in Adapter \ {a} : ~InTable(Q.data[i].ptr, b)
    BY <1>1, TableFacts
  <2> QED
    BY <1>1, <1>2, <2>1, <2>2, TableChange
<1>4. \A b \in Adapter : tq'[b].data = tq[b].data /\ Ids(tq'[b]) = Ids(tq[b])
  BY <1>1, <1>3
<1> QED
  BY <1>1, <1>3, <1>4 DEF InTable, Q

LEMMA TablePush ==
    ASSUME TableOK, NEW a \in Adapter, NEW m \in Msg, NEW dl \in Deadline, NEW isSent \in BOOLEAN,
           \A b \in Adapter : ~InTable(m, b),
           CanPush(GenerateId(tq[a]), NextId(tq[a])),
           tq' = [tq EXCEPT ![a] = Push(GenerateId(tq[a]), m, NextId(tq[a]), dl, isSent)]
    PROVE  /\ TableOK'
           /\ NextId(tq[a]) \in Id \ {0} /\ NextId(tq[a]) \notin Ids(tq[a])
           /\ Ids(tq'[a]) = Ids(tq[a]) \cup {NextId(tq[a])}
           /\ tq'[a].uniqId = NextId(tq[a])
           /\ tq'[a].data[NextId(tq[a])] = [ptr |-> m, hasSend |-> isSent, deadline |-> dl]
           /\ \A i \in Ids(tq[a]) : tq'[a].data[i] = tq[a].data[i]
           /\ \A b \in Adapter \ {a} : tq'[b] = tq[b]
           /\ \A n \in Msg : \A b \in Adapter :
                InTable(n, b)' <=> (InTable(n, b) \/ (n = m /\ b = a))
<1> DEFINE id == NextId(tq[a])
           g == GenerateId(tq[a])
           Q == Push(g, m, id, dl, isSent)
           r == [ptr |-> m, hasSend |-> isSent, deadline |-> dl]
<1>1. /\ QueueOK(g) /\ Ids(g) = Ids(tq[a]) /\ g.data = tq[a].data /\ g.uniqId = id
      /\ id \in Id \ {0}
  BY TableFacts, NextIdLemma DEF QueueOK
<1>2. m \in Ptr /\ id \notin Ids(tq[a]) /\ CanPush(g, id)
  BY <1>1 DEF CanPush, Msg
<1> HIDE DEF id, g
<1>3. /\ QueueOK(Q)
      /\ Ids(Q) = Ids(tq[a]) \cup {id}
      /\ Q.data[id] = r
      /\ Q.uniqId = id
      /\ \A i \in Ids(tq[a]) : Q.data[i] = tq[a].data[i]
  BY <1>1, <1>2, PushLemma
<1>4. tq' = [tq EXCEPT ![a] = Q]
  BY DEF id, g
<1>5. r.ptr = m
  OBVIOUS
<1> HIDE DEF Q, r
<1>6. \A i \in Ids(tq[a]) : tq[a].data[i].ptr # m
  BY DEF InTable
<1>7. \A i \in Ids(Q) : \/ i \in Ids(tq[a]) /\ Q.data[i] = tq[a].data[i] /\ Q.data[i].ptr # m
                        \/ i = id /\ Q.data[i].ptr = m
  BY <1>2, <1>3, <1>5, <1>6
<1>8. \A i, j \in Ids(Q) : Q.data[i].ptr = Q.data[j].ptr => i = j
  <2>1. TAKE i, j \in Ids(Q)
  <2>2. HAVE Q.data[i].ptr = Q.data[j].ptr
  <2> QED
    BY <1>7, <2>1, <2>2, TableFacts
<1>9. \A i \in Ids(Q) : \A b \in Adapter \ {a} : ~InTable(Q.data[i].ptr, b)
  BY <1>7, TableFacts
<1>10. /\ TableOK'
       /\ tq'[a] = Q /\ \A b \in Adapter \ {a} : tq'[b] = tq[b]
       /\ \A n : InTable(n, a)' <=> \E i \in Ids(Q) : Q.data[i].ptr = n
       /\ \A n : \A b \in Adapter \ {a} : InTable(n, b)' <=> InTable(n, b)
  BY <1>3, <1>4, <1>8, <1>9, TableChange
<1>11. \A n \in Msg : InTable(n, a)' <=> (InTable(n, a) \/ n = m)
  <2>1. TAKE n \in Msg
  <2>2. InTable(n, a)' <=> \E i \in Ids(Q) : Q.data[i].ptr = n
    BY <1>10
  <2>3. id \in Ids(Q) /\ Q.data[id].ptr = m
    BY <1>3, <1>5
  <2>4. \A i \in Ids(tq[a]) : i \in Ids(Q) /\ Q.data[i] = tq[a].data[i]
    BY <1>3
  <2> QED
    BY <1>7, <2>2, <2>3, <2>4 DEF InTable
<1> QED
  BY <1>1, <1>2, <1>3, <1>10, <1>11 DEF id, r

LEMMA TableRemove ==
    ASSUME TableOK, NEW a \in Adapter, NEW id \in Ids(tq[a]),
           tq' = [tq EXCEPT ![a] = Remove(@, id)]
    PROVE  /\ TableOK'
           /\ Ids(tq'[a]) = Ids(tq[a]) \ {id} /\ tq'[a].uniqId = tq[a].uniqId
           /\ \A i \in Ids(tq'[a]) : tq'[a].data[i] = tq[a].data[i]
           /\ \A b \in Adapter \ {a} : tq'[b] = tq[b]
           /\ \A n : \A b \in Adapter :
                InTable(n, b)' <=> (InTable(n, b) /\ n # tq[a].data[id].ptr)
<1> DEFINE Q == Remove(tq[a], id)
<1>1. /\ QueueOK(Q) /\ Ids(Q) = Ids(tq[a]) \ {id} /\ Q.uniqId = tq[a].uniqId
      /\ \A i \in Ids(tq[a]) \ {id} : Q.data[i] = tq[a].data[i]
  BY TableFacts, RemoveLemma
<1>2. tq' = [tq EXCEPT ![a] = Q]
  BY DEF TableOK
<1> HIDE DEF Q
<1>3. \A i \in Ids(Q) : i \in Ids(tq[a]) /\ i # id /\ Q.data[i] = tq[a].data[i]
  BY <1>1
<1>4. /\ TableOK'
      /\ tq'[a] = Q /\ \A b \in Adapter \ {a} : tq'[b] = tq[b]
      /\ \A n : InTable(n, a)' <=> \E i \in Ids(Q) : Q.data[i].ptr = n
      /\ \A n : \A b \in Adapter \ {a} : InTable(n, b)' <=> InTable(n, b)
  <2>1. \A i, j \in Ids(Q) : Q.data[i].ptr = Q.data[j].ptr => i = j
    BY <1>3, TableFacts
  <2>2. \A i \in Ids(Q) : \A b \in Adapter \ {a} : ~InTable(Q.data[i].ptr, b)
    BY <1>3, TableFacts
  <2> QED
    BY <1>1, <1>2, <2>1, <2>2, TableChange
<1>5. \A n : InTable(n, a)' <=> (InTable(n, a) /\ n # tq[a].data[id].ptr)
  <2>1. TAKE n
  <2>2. InTable(n, a)' <=> \E i \in Ids(Q) : Q.data[i].ptr = n
    BY <1>4
  <2>3. \A i \in Ids(tq[a]) : tq[a].data[i].ptr = tq[a].data[id].ptr => i = id
    BY TableFacts
  <2>4. \A i \in Ids(tq[a]) : i = id \/ i \in Ids(Q)
    BY <1>1
  <2> QED
    BY <1>3, <2>2, <2>3, <2>4 DEF InTable
<1>6. \A n : \A b \in Adapter \ {a} :
         InTable(n, b)' <=> (InTable(n, b) /\ n # tq[a].data[id].ptr)
  BY <1>4, TableFacts
<1> QED
  BY <1>1, <1>3, <1>4, <1>5, <1>6

LEMMA TablePop ==
    ASSUME TableOK, NEW a \in Adapter, HasUnsent(tq[a]), NEW del \in BOOLEAN,
           tq' = [tq EXCEPT ![a] = PopSend(@, del)]
    PROVE  /\ TableOK'
           /\ NextSend(tq[a]) \in Ids(tq[a]) /\ ~tq[a].data[NextSend(tq[a])].hasSend
           /\ tq'[a].uniqId = tq[a].uniqId
           /\ Ids(tq'[a]) = IF del THEN Ids(tq[a]) \ {NextSend(tq[a])} ELSE Ids(tq[a])
           /\ \A i \in Ids(tq'[a]) :
                /\ tq'[a].data[i].ptr = tq[a].data[i].ptr
                /\ tq'[a].data[i].hasSend <=> (i = NextSend(tq[a]) \/ tq[a].data[i].hasSend)
           /\ \A b \in Adapter \ {a} : tq'[b] = tq[b]
           /\ del => \A n : \A b \in Adapter :
                       InTable(n, b)' <=> (InTable(n, b) /\ n # tq[a].data[NextSend(tq[a])].ptr)
           /\ ~del => \A n : \A b \in Adapter : InTable(n, b)' <=> InTable(n, b)
<1> DEFINE Q == PopSend(tq[a], del)
           id == NextSend(tq[a])
<1>1. /\ QueueOK(Q) /\ Q.uniqId = tq[a].uniqId
      /\ Ids(Q) = IF del THEN Ids(tq[a]) \ {id} ELSE Ids(tq[a])
      /\ \A i \in Ids(Q) : /\ Q.data[i].ptr = tq[a].data[i].ptr
                           /\ Q.data[i].hasSend <=> (i = id \/ tq[a].data[i].hasSend)
  <2>1. QueueOK(tq[a])
    BY TableFacts
  <2> QED
    BY <2>1, PopSendLemma
<1>2. tq' = [tq EXCEPT ![a] = Q]
  BY DEF TableOK
<1>3. id \in Ids(tq[a]) /\ ~tq[a].data[id].hasSend
  BY TableFacts, NextSendLemma
<1> HIDE DEF Q, id
<1>4. \A i \in Ids(Q) : i \in Ids(tq[a]) /\ Q.data[i].ptr = tq[a].data[i].ptr
  BY <1>1
<1>5. /\ TableOK'
      /\ tq'[a] = Q /\ \A b \in Adapter \ {a} : tq'[b] = tq[b]
      /\ \A n : InTable(n, a)' <=> \E i \in Ids(Q) : Q.data[i].ptr = n
      /\ \A n : \A b \in Adapter \ {a} : InTable(n, b)' <=> InTable(n, b)
  <2>1. \A i, j \in Ids(Q) : Q.data[i].ptr = Q.data[j].ptr => i = j
    BY <1>4, TableFacts
  <2>2. \A i \in Ids(Q) : \A b \in Adapter \ {a} : ~InTable(Q.data[i].ptr, b)
    BY <1>4, TableFacts
  <2> QED
    BY <1>1, <1>2, <2>1, <2>2, TableChange
<1>6. \A n : InTable(n, a)' <=> (InTable(n, a) /\ (del => n # tq[a].data[id].ptr))
  <2>1. TAKE n
  <2>2. InTable(n, a)' <=> \E i \in Ids(Q) : Q.data[i].ptr = n
    BY <1>5
  <2>3. \A i \in Ids(tq[a]) : tq[a].data[i].ptr = tq[a].data[id].ptr => i = id
    BY <1>3, TableFacts
  <2>4. \A i \in Ids(tq[a]) : (del /\ i = id) \/ i \in Ids(Q)
    BY <1>1
  <2>5. \A i \in Ids(Q) : ~(del /\ i = id)
    BY <1>1
  <2> QED
    BY <1>4, <2>2, <2>3, <2>4, <2>5 DEF InTable
<1>7. \A n : \A b \in Adapter \ {a} :
         InTable(n, b)' <=> (InTable(n, b) /\ (del => n # tq[a].data[id].ptr))
  BY <1>3, <1>5, TableFacts
<1>8. /\ tq'[a].uniqId = tq[a].uniqId
      /\ Ids(tq'[a]) = IF del THEN Ids(tq[a]) \ {id} ELSE Ids(tq[a])
      /\ \A i \in Ids(tq'[a]) :
           /\ tq'[a].data[i].ptr = tq[a].data[i].ptr
           /\ tq'[a].data[i].hasSend <=> (i = id \/ tq[a].data[i].hasSend)
  BY <1>1, <1>5
<1>9. \A n : \A b \in Adapter :
         InTable(n, b)' <=> (InTable(n, b) /\ (del => n # tq[a].data[id].ptr))
  BY <1>6, <1>7
<1> QED
  BY <1>3, <1>5, <1>8, <1>9 DEF id
-----------------------------------------------------------------------------
(* Where a call goes.                                                       *)

\* Of the places in S, the step puts m into one and touches no other call.
Lands(m, S) ==
    \E e \in S : \A n \in Msg, p \in S : At(n, p)' <=> (At(n, p) \/ (n = m /\ p = e))

\* The step deletes no call but m, and m only when nobody waits for it.
Spares(m) ==
    /\ \A n \in Msg \ {m} : deleted'[n] = deleted[n]
    /\ kind[m] = "SYNC" => deleted'[m] = deleted[m]

\* The parts of the places are told apart by their names.
LEMMA AtPlace ==
    ASSUME NEW m
    PROVE  /\ At(m, "loopq") <=> \E t \in Thread : m \in Elements(loopq[t])
           /\ At(m, "reqq") <=> \E x \in Elements(reqq) : x.msg = m
           /\ At(m, "tq") <=> \E a \in Adapter : InTable(m, a)
           /\ At(m, "woken") <=> m \in woken
           /\ At(m, "asyncq") <=> m \in Elements(asyncq)
           /\ At(m, "deleted") <=> deleted[m] = 1
           /\ At(m, "lost") <=> fate[m] \in Lost
BY DEF At

LEMMA AtPlaceNext ==
    ASSUME NEW m
    PROVE  /\ At(m, "loopq")' <=> \E t \in Thread : m \in Elements(loopq'[t])
           /\ At(m, "reqq")' <=> \E x \in Elements(reqq') : x.msg = m
           /\ At(m, "tq")' <=> \E a \in Adapter : InTable(m, a)'
           /\ At(m, "woken")' <=> m \in woken'
           /\ At(m, "asyncq")' <=> m \in Elements(asyncq')
           /\ At(m, "deleted")' <=> deleted'[m] = 1
           /\ At(m, "lost")' <=> fate'[m] \in Lost
BY DEF At

\* The calls other than m are where they were.
Stay(m) == \A n \in Msg \ {m} : \A p \in Place : At(n, p)' <=> At(n, p)

\* A call that moves to one place keeps one owner.
LEMMA OwnerMoves ==
    ASSUME OwnerOK, begin' = begin, NEW m \in Msg, Called(m), NEW e \in Place,
           \A n \in Msg, p \in Place : At(n, p)' <=> IF n = m THEN p = e ELSE At(n, p)
    PROVE  OwnerOK' /\ Stay(m)
<1>1. OwnerOK'
  BY DEF OwnerOK, Called
<1> QED
  BY <1>1 DEF Stay

\* So does one that is taken from a place and lands in one of the others.
LEMMA OwnerLands ==
    ASSUME OwnerOK, begin' = begin, NEW m \in Msg, Called(m), NEW S \in SUBSET Place,
           \A p \in S : ~At(m, p), Lands(m, S),
           \A n \in Msg, p \in Place \ S : At(n, p)' <=> (At(n, p) /\ n # m)
    PROVE  OwnerOK' /\ Stay(m)
<1>1. PICK e \in S : \A n \in Msg, p \in S : At(n, p)' <=> (At(n, p) \/ (n = m /\ p = e))
  BY DEF Lands
<1>2. \A n \in Msg, p \in Place : At(n, p)' <=> IF n = m THEN p = e ELSE At(n, p)
  BY <1>1
<1> QED
  BY <1>1, <1>2, OwnerMoves

LEMMA OwnerSame ==
    ASSUME OwnerOK, UNCHANGED <<loopq, reqq, tq, endVars, begin>>
    PROVE  OwnerOK'
BY DEF OwnerOK, At, InTable, Called, endVars

\* What a container other than the one a call is taken from says of it.
LEMMA OwnerOnly ==
    ASSUME OwnerOK, NEW m \in Msg, NEW p \in Place, At(m, p)
    PROVE  Called(m) /\ \A s \in Place \ {p} : ~At(m, s)
BY DEF OwnerOK

LEMMA DeletedOnce ==
    ASSUME EndOK, NEW m \in Msg, ~At(m, "deleted"), Delete(m)
    PROVE  /\ deleted' \in [Msg -> 0 .. 1]
           /\ deleted[m] = 0 /\ deleted'[m] = 1
           /\ \A n \in Msg \ {m} : deleted'[n] = deleted[n]
<1>1. deleted[m] = 0 /\ deleted \in [Msg -> 0 .. 1]
  BY AtPlace DEF EndOK
<1> QED
  BY <1>1 DEF Delete

LEMMA FinishLemma ==
    ASSUME EndOK, NEW m \in Msg, kind[m] \in CallType, kind' = kind,
           \A p \in End : ~At(m, p), FinishMsg(m)
    PROVE  EndOK' /\ Lands(m, End) /\ Spares(m)
<1>1. /\ m \notin woken /\ m \notin Elements(asyncq) /\ fate' = fate
      /\ woken' = IF kind[m] = "SYNC" THEN woken \cup {m} ELSE woken
      /\ \A p \in End : ~At(m, p)
  BY AtPlace DEF FinishMsg, End
<1>2. CASE kind[m] = "SYNC"
  <2>1. woken' = woken \cup {m} /\ asyncq' = asyncq /\ deleted' = deleted
    BY <1>1, <1>2 DEF FinishMsg
  <2>2. EndOK'
    BY <1>1, <2>1 DEF EndOK
  <2>3. \A n \in Msg, p \in End : At(n, p)' <=> (At(n, p) \/ (n = m /\ p = "woken"))
    BY <1>1, <2>1, AtPlace, AtPlaceNext DEF End
  <2> QED
    BY <2>1, <2>2, <2>3 DEF Lands, Spares, End
<1>3. CASE kind[m] = "ASYNC" /\ Len(asyncq) < AsyncCap
  <2>0. Len(asyncq) \in Nat /\ AsyncCap \in Nat
    BY ConstantsOK DEF EndOK
  <2>1. woken' = woken /\ asyncq' = Append(asyncq, m) /\ deleted' = deleted
    BY <1>1, <1>3, <2>0 DEF FinishMsg
  <2>2. /\ asyncq' \in Seq(Msg) /\ Distinct(asyncq')
        /\ Elements(asyncq') = Elements(asyncq) \cup {m}
    BY <1>1, <2>1, AppendLemma DEF EndOK
  <2>3. EndOK'
    BY <1>1, <1>3, <2>1, <2>2 DEF EndOK
  <2>4. \A n \in Msg, p \in End : At(n, p)' <=> (At(n, p) \/ (n = m /\ p = "asyncq"))
    BY <1>1, <2>1, <2>2, AtPlace, AtPlaceNext DEF End
  <2> QED
    BY <2>1, <2>3, <2>4 DEF Lands, Spares, End
<1>4. CASE \/ kind[m] = "ASYNC" /\ ~(Len(asyncq) < AsyncCap)
           \/ kind[m] = "ONEWAY"
  <2>1. Len(asyncq) \in Nat /\ AsyncCap \in Nat
    BY ConstantsOK DEF EndOK
  <2>2. woken' = woken /\ asyncq' = asyncq /\ Delete(m)
    <3>1. CASE kind[m] = "ONEWAY"
      BY <1>1, <3>1 DEF FinishMsg
    <3>2. CASE kind[m] = "ASYNC" /\ Len(asyncq) >= AsyncCap
      BY <1>1, <2>1, <3>2 DEF FinishMsg
    <3> QED
      BY <1>4, <2>1, <3>1, <3>2
  <2>3. /\ deleted' \in [Msg -> 0 .. 1]
        /\ deleted[m] = 0 /\ deleted'[m] = 1
        /\ \A n \in Msg \ {m} : deleted'[n] = deleted[n]
    BY <1>1, <2>2, DeletedOnce DEF End
  <2>4. EndOK'
    BY <1>1, <2>2, <2>3 DEF EndOK
  <2>5. \A n \in Msg, p \in End : At(n, p)' <=> (At(n, p) \/ (n = m /\ p = "deleted"))
    BY <1>1, <2>2, <2>3, AtPlace, AtPlaceNext DEF End
  <2>6. Lands(m, End) /\ Spares(m)
    BY <1>4, <2>3, <2>5 DEF Lands, Spares, End
  <2> QED
    BY <2>4, <2>6
<1> QED
  BY <1>2, <1>3, <1>4 DEF CallType

LEMMA ExceptionLemma ==
    ASSUME EndOK, MsgOK, NEW m \in Msg, kind[m] \in CallType, kind' = kind,
           \A p \in End : ~At(m, p), InvokeException(m)
    PROVE  /\ EndOK' /\ Lands(m, End) /\ Spares(m)
           /\ status' \in [Msg -> {"REQ", "RSP", "TIME", "EXC"}]
<1>1. status' \in [Msg -> {"REQ", "RSP", "TIME", "EXC"}]
  BY DEF InvokeException, MsgOK
<1>2. CASE kind[m] = "ASYNC" /\ adapter[m] = None
  <2>1. fate' = [fate EXCEPT ![m] = "onlyLogged"] /\ UNCHANGED <<woken, asyncq, deleted>>
    BY <1>2 DEF InvokeException
  <2>2. EndOK'
    BY <2>1 DEF EndOK
  <2>3. \A n \in Msg, p \in End : At(n, p)' <=> (At(n, p) \/ (n = m /\ p = "lost"))
    <3>1. \A n \in Msg : fate'[n] \in Lost <=> (fate[n] \in Lost \/ n = m)
      BY <2>1 DEF EndOK, Lost
    <3> QED
      BY <2>1, <3>1, AtPlace, AtPlaceNext DEF End
  <2> QED
    BY <1>1, <2>1, <2>2, <2>3 DEF Lands, Spares, End
<1>3. CASE ~(kind[m] = "ASYNC" /\ adapter[m] = None)
  <2>1. FinishMsg(m)
    BY <1>3 DEF InvokeException
  <2> QED
    BY <1>1, <2>1, FinishLemma
<1> QED
  BY <1>2, <1>3
-----------------------------------------------------------------------------
(* AdapterProxy::invoke and ObjectProxy::invoke.                            *)

LEMMA LandsInTable ==
    ASSUME NEW m \in Msg, NEW a \in Adapter, UNCHANGED endVars,
           \A n \in Msg : \A b \in Adapter :
             InTable(n, b)' <=> (InTable(n, b) \/ (n = m /\ b = a))
    PROVE  Lands(m, Rest)
<1>1. \A n \in Msg : At(n, "tq")' <=> (At(n, "tq") \/ n = m)
  BY AtPlace, AtPlaceNext
<1>2. \A n \in Msg, p \in End : At(n, p)' <=> At(n, p)
  BY AtPlace, AtPlaceNext DEF End, endVars
<1>3. \A n \in Msg, p \in Rest : At(n, p)' <=> (At(n, p) \/ (n = m /\ p = "tq"))
  BY <1>1, <1>2 DEF Rest, End
<1> QED
  BY <1>3 DEF Lands, Rest

LEMMA LandsAtEnd ==
    ASSUME NEW m \in Msg, Lands(m, End),
           \A n \in Msg : \A b \in Adapter : InTable(n, b)' <=> InTable(n, b)
    PROVE  Lands(m, Rest)
<1>1. \A n \in Msg : At(n, "tq")' <=> At(n, "tq")
  BY AtPlace, AtPlaceNext
<1>2. PICK e \in End : \A n \in Msg, p \in End : At(n, p)' <=> (At(n, p) \/ (n = m /\ p = e))
  BY DEF Lands
<1>3. \A n \in Msg, p \in Rest : At(n, p)' <=> (At(n, p) \/ (n = m /\ p = e))
  BY <1>1, <1>2 DEF Rest, End
<1> QED
  BY <1>3 DEF Lands, Rest

\* The request is in the table of a, or it has failed and the table is as it
\* was but for the id counter.
LEMMA EnqueueLemma ==
    ASSUME MsgOK, TableOK, EndOK, NEW m \in Msg, Called(m), \A p \in Rest : ~At(m, p),
           NEW a \in Adapter, NEW isSent \in BOOLEAN, kind' = kind, Enqueue(a, m, isSent)
    PROVE  /\ TableOK' /\ EndOK' /\ Lands(m, Rest) /\ Spares(m)
           /\ status' \in [Msg -> {"REQ", "RSP", "TIME", "EXC"}]
           /\ \A n \in Msg : \A b \in Adapter : InTable(n, b) => InTable(n, b)'
           /\ CanPush(GenerateId(tq[a]), NextId(tq[a])) => InTable(m, a)'
<1>1. begin[m] + ReqTimeout \in Deadline /\ kind[m] \in CallType
  BY ConstantsOK DEF MsgOK, Called
<1>2. \A b \in Adapter : ~InTable(m, b)
  BY AtPlace DEF Rest
<1>3. CASE CanPush(GenerateId(tq[a]), NextId(tq[a]))
  <2>1. /\ tq' = [tq EXCEPT ![a] = Push(GenerateId(tq[a]), m, NextId(tq[a]),
                                        begin[m] + ReqTimeout, isSent)]
        /\ status' = status /\ UNCHANGED endVars
    BY <1>3 DEF Enqueue
  <2>2. /\ TableOK'
        /\ \A n \in Msg : \A b \in Adapter :
             InTable(n, b)' <=> (InTable(n, b) \/ (n = m /\ b = a))
    BY <1>1, <1>2, <1>3, <2>1, TablePush
  <2>3. EndOK'
    BY <2>1 DEF EndOK, endVars
  <2>4. Lands(m, Rest)
    BY <2>1, <2>2, LandsInTable
  <2>5. Spares(m)
    BY <2>1 DEF Spares, endVars
  <2> QED
    BY <2>1, <2>2, <2>3, <2>4, <2>5 DEF MsgOK
<1>4. CASE ~CanPush(GenerateId(tq[a]), NextId(tq[a]))
  <2>1. /\ tq' = [tq EXCEPT ![a] = GenerateId(tq[a])]
        /\ status' = [status EXCEPT ![m] = "EXC"]
        /\ FinishMsg(m)
    BY <1>4 DEF Enqueue
  <2>2. TableOK' /\ \A n : \A b \in Adapter : InTable(n, b)' <=> InTable(n, b)
    BY <2>1, TableGenerate
  <2>3. EndOK' /\ Lands(m, End) /\ Spares(m)
    BY <1>1, <2>1, FinishLemma DEF Rest
  <2>4. Lands(m, Rest)
    BY <2>2, <2>3, LandsAtEnd
  <2> QED
    BY <1>4, <2>1, <2>2, <2>3, <2>4 DEF MsgOK
<1> QED
  BY <1>3, <1>4

\* tcpClose and addConnExc keep the types of the connections.
LEMMA CloseLemma ==
    ASSUME LinkOK, NEW S \in SUBSET Adapter, NEW c \in [Adapter -> ConnState], Close(S, c)
    PROVE  /\ conn' \in [Adapter -> ConnState] /\ buf' \in [Adapter -> Id]
           /\ peer' \in [Adapter -> SUBSET (Id \X Msg)]
           /\ \A a \in Adapter : peer'[a] \subseteq peer[a] /\ (a \in S => peer'[a] = {})
<1>1. 0 \in Id
  BY IdSpaceAssumption DEF Id
<1> QED
  BY <1>1 DEF Close, LinkOK, ConnState

LEMMA WriteLemma ==
    ASSUME LinkOK, NEW a \in Adapter, NEW id \in Id, NEW m \in Msg, NEW rest \in BOOLEAN,
           Write(a, id, m, rest)
    PROVE  /\ buf' \in [Adapter -> Id] /\ peer' \in [Adapter -> SUBSET (Id \X Msg)]
           /\ sent' = sent \cup {m}
BY DEF Write, LinkOK

LEMMA AdapterInvokeLemma ==
    ASSUME LinkOK, MsgOK, TableOK, EndOK, ReqOK,
           NEW m \in Msg, Called(m), \A p \in Rest : ~At(m, p),
           NEW a \in Adapter, NEW c \in [Adapter -> ConnState], NEW ok \in NetState,
           NEW blame \in SUBSET Adapter, kind' = kind, serial' = serial,
           AdapterInvoke(m, a, c, ok, blame)
    PROVE  /\ LinkOK' /\ TableOK' /\ EndOK' /\ ReqOK' /\ Lands(m, Rest) /\ Spares(m)
           /\ net' \in NetState
           /\ status' \in [Msg -> {"REQ", "RSP", "TIME", "EXC"}]
<1> DEFINE direct == req[a] = None /\ ~HasUnsent(tq[a]) /\ CanWrite(a, c)
           StatusOK == status' \in [Msg -> {"REQ", "RSP", "TIME", "EXC"}]
<1>1. /\ kind[m] \in CallType /\ (serial => kind[m] # "ONEWAY")
      /\ \A p \in End : ~At(m, p)
      /\ None \notin Msg
      /\ NextId(tq[a]) \in Id \ {0}
  BY ConstantsOK, TableFacts, NextIdLemma DEF MsgOK, Rest
<1>2. CASE /\ status' = [status EXCEPT ![m] = "EXC"]
           /\ FinishMsg(m)
           /\ conn' = c
           /\ net' = ok
           /\ UNCHANGED <<tq, req, buf, peer, up, sent>>
  <2>1. EndOK' /\ Lands(m, End) /\ Spares(m)
    BY <1>1, <1>2, FinishLemma
  <2>2. TableOK' /\ \A n \in Msg : \A b \in Adapter : InTable(n, b)' <=> InTable(n, b)
    BY <1>2 DEF TableOK, InTable
  <2>3. LinkOK'
    BY <1>2 DEF LinkOK
  <2>4. ReqOK'
    BY <1>2 DEF ReqOK, InTable
  <2>5. StatusOK
    BY <1>2 DEF MsgOK
  <2> QED
    BY <1>2, <2>1, <2>2, <2>3, <2>4, <2>5, LandsAtEnd
<1>3. CASE /\ direct
           /\ \E rest \in BOOLEAN : Write(a, NextId(tq[a]), m, rest)
           /\ Underway(a, m)
           /\ IF kind[m] = "ONEWAY"
              THEN /\ Delete(m)
                   /\ tq' = [tq EXCEPT ![a] = GenerateId(@)]
                   /\ UNCHANGED <<status, woken, asyncq, fate>>
              ELSE Enqueue(a, m, TRUE)
           /\ conn' = c
           /\ net' = ok
           /\ UNCHANGED up
  <2>1. /\ req' \in [Adapter -> Msg \cup {None}]
        /\ \A b \in Adapter \ {a} : req'[b] = req[b]
        /\ req'[a] = IF serial /\ CanPush(GenerateId(tq[a]), NextId(tq[a])) THEN m ELSE req[a]
    BY <1>3 DEF Underway, LinkOK
  <2>2. LinkOK'
    <3>1. PICK rest \in BOOLEAN : Write(a, NextId(tq[a]), m, rest)
      BY <1>3
    <3>2. /\ buf' \in [Adapter -> Id] /\ peer' \in [Adapter -> SUBSET (Id \X Msg)]
          /\ sent' = sent \cup {m}
      BY <1>1, <3>1, WriteLemma
    <3> QED
      BY <1>3, <2>1, <3>2 DEF LinkOK
  <2>3. CASE kind[m] = "ONEWAY"
    <3>1. /\ TableOK'
          /\ \A n : \A b \in Adapter : InTable(n, b)' <=> InTable(n, b)
      BY <1>3, <2>3, TableGenerate
    <3>2. /\ deleted' \in [Msg -> 0 .. 1]
          /\ deleted[m] = 0 /\ deleted'[m] = 1
          /\ \A n \in Msg \ {m} : deleted'[n] = deleted[n]
      BY <1>1, <1>3, <2>3, DeletedOnce DEF End
    <3>3. EndOK'
      BY <1>3, <2>3, <3>2 DEF EndOK
    <3>4. Lands(m, End)
      <4>1. \A n \in Msg, p \in End : At(n, p)' <=> (At(n, p) \/ (n = m /\ p = "deleted"))
        BY <1>3, <2>3, <3>2, AtPlace, AtPlaceNext DEF End
      <4> QED
        BY <4>1 DEF Lands, End
    <3>5. Spares(m)
      BY <2>3, <3>2 DEF Spares
    <3>6. ReqOK'
      BY <1>1, <2>1, <2>3, <3>1 DEF ReqOK, LinkOK
    <3>7. StatusOK /\ net' \in NetState
      BY <1>3, <2>3 DEF MsgOK
    <3> QED
      BY <2>2, <3>1, <3>3, <3>4, <3>5, <3>6, <3>7, LandsAtEnd
  <2>4. CASE kind[m] # "ONEWAY"
    <3>1. Enqueue(a, m, TRUE)
      BY <1>3, <2>4
    <3>2. /\ TableOK' /\ EndOK' /\ Lands(m, Rest) /\ Spares(m) /\ StatusOK
          /\ \A n \in Msg : \A b \in Adapter : InTable(n, b) => InTable(n, b)'
          /\ CanPush(GenerateId(tq[a]), NextId(tq[a])) => InTable(m, a)'
      BY <3>1, EnqueueLemma
    <3>3. ReqOK'
      BY <1>1, <2>1, <3>2 DEF ReqOK, LinkOK
    <3> QED
      BY <1>3, <2>2, <3>2, <3>3
  <2> QED
    BY <2>3, <2>4
<1>4. CASE /\ Enqueue(a, m, FALSE)
           /\ conn' = c
           /\ net' = ok
           /\ UNCHANGED <<req, buf, peer, up, sent>>
  <2>1. /\ TableOK' /\ EndOK' /\ Lands(m, Rest) /\ Spares(m) /\ StatusOK
        /\ \A n \in Msg : \A b \in Adapter : InTable(n, b) => InTable(n, b)'
    BY <1>4, EnqueueLemma
  <2>2. LinkOK'
    BY <1>4 DEF LinkOK
  <2>3. ReqOK'
    BY <1>4, <2>1 DEF ReqOK, LinkOK
  <2> QED
    BY <1>4, <2>1, <2>2, <2>3
<1>5. CASE /\ tq' = [tq EXCEPT ![a] = GenerateId(@)]
           /\ Close({a} \cup blame, c)
           /\ up' = [b \in Adapter |-> up[b] /\ b \notin blame]
           /\ fate' = [fate EXCEPT ![m] = "thrown"]
           /\ net' = Idle
           /\ UNCHANGED <<req, status, sent, woken, asyncq, deleted>>
  <2>1. /\ TableOK'
        /\ \A n : \A b \in Adapter : InTable(n, b)' <=> InTable(n, b)
    BY <1>5, TableGenerate
  <2>2. EndOK'
    BY <1>5 DEF EndOK
  <2>3. Lands(m, End)
    <3>1. \A n \in Msg : fate'[n] \in Lost <=> (fate[n] \in Lost \/ n = m)
      BY <1>5 DEF EndOK, Lost
    <3>2. \A n \in Msg, p \in End : At(n, p)' <=> (At(n, p) \/ (n = m /\ p = "lost"))
      BY <1>5, <3>1, AtPlace, AtPlaceNext DEF End
    <3> QED
      BY <3>2 DEF Lands, End
  <2>4. LinkOK'
    <3>1. {a} \cup blame \in SUBSET Adapter
      OBVIOUS
    <3>2. /\ conn' \in [Adapter -> ConnState] /\ buf' \in [Adapter -> Id]
          /\ peer' \in [Adapter -> SUBSET (Id \X Msg)]
      BY <1>5, <3>1, CloseLemma
    <3> QED
      BY <1>5, <3>2 DEF LinkOK
  <2>5. ReqOK'
    BY <1>5, <2>1 DEF ReqOK
  <2>6. Spares(m) /\ StatusOK /\ net' \in NetState
    BY <1>5, NetStates DEF Spares, MsgOK
  <2> QED
    BY <2>1, <2>2, <2>3, <2>4, <2>5, <2>6, LandsAtEnd
<1> QED
  BY <1>2, <1>3, <1>4, <1>5 DEF AdapterInvoke

LEMMA ChoiceLemma ==
    ASSUME proxys \subseteq Adapter, conn \in [Adapter -> ConnState], NEW m \in Msg,
           NEW choice \in HashChoice(m) \cup RoundRobin
    PROVE  choice[1] \in Adapter /\ choice[2] \in [Adapter -> ConnState]
<1> DEFINE good == {a \in proxys : up[a]}
           usable == {a \in proxys : conn[a] = "connected"}
<1>0. good \subseteq Adapter /\ usable \subseteq Adapter /\ "connecting" \in ConnState
  BY DEF ConnState
<1>1. CASE choice \in HashChoice(m)
  <2>1. CASE Home[m] \in good
    <3>1. HashChoice(m) = {<<Home[m], StartConnect({Home[m]})>>}
      BY <2>1 DEF HashChoice
    <3> QED
      BY <1>0, <1>1, <2>1, <3>1 DEF StartConnect
  <2>2. CASE Home[m] \notin good /\ good # {}
    <3>1. HashChoice(m) = {<<a, StartConnect(S \cup {a})>> : a \in good, S \in SUBSET (proxys \ good)}
      BY <2>2 DEF HashChoice
    <3> HIDE DEF good
    <3>2. choice[1] \in Adapter
      BY <1>0, <1>1, <3>1 DEF StartConnect
    <3>3. choice[2] \in [Adapter -> ConnState]
      BY <1>0, <1>1, <3>1 DEF StartConnect
    <3> QED
      BY <3>2, <3>3
  <2>3. CASE Home[m] \notin good /\ good = {}
    <3>1. HashChoice(m) = {<<a, StartConnect(S)>> : a \in proxys, S \in SUBSET proxys}
      BY <2>3 DEF HashChoice
    <3> QED
      BY <1>0, <1>1, <3>1 DEF StartConnect
  <2> QED
    BY <2>1, <2>2, <2>3
<1>2. CASE choice \in RoundRobin
  <2>1. CASE usable # {}
    <3>1. RoundRobin = {<<a, StartConnect(S)>> : a \in usable, S \in SUBSET (proxys \ usable)}
      BY <2>1 DEF RoundRobin
    <3> HIDE DEF usable
    <3> QED
      BY <1>0, <1>2, <3>1 DEF StartConnect
  <2>2. CASE usable = {}
    <3>1. choice[1] \in Adapter
      BY <1>0, <1>2, <2>2 DEF RoundRobin, StartConnect
    <3>2. choice[2] \in [Adapter -> ConnState]
      BY <1>0, <1>2, <2>2 DEF RoundRobin, StartConnect
    <3> QED
      BY <3>1, <3>2
  <2> QED
    BY <2>1, <2>2
<1> QED
  BY <1>1, <1>2

LEMMA WaitAppend ==
    ASSUME WaitOK, NEW m \in Msg, NEW dl \in Deadline, ~At(m, "reqq"),
           reqq' = Append(reqq, [msg |-> m, deadline |-> dl])
    PROVE  WaitOK' /\ \A n : At(n, "reqq")' <=> (At(n, "reqq") \/ n = m)
<1> DEFINE x == [msg |-> m, deadline |-> dl]
<1>1. x \in Waiting /\ x.msg = m
  BY DEF Waiting
<1>2. \A y \in Elements(reqq) : y.msg # m
  BY AtPlace
<1> HIDE DEF x
<1>3. /\ reqq' \in Seq(Waiting) /\ Distinct(reqq')
      /\ Elements(reqq') = Elements(reqq) \cup {x}
  BY <1>1, <1>2, AppendLemma DEF WaitOK, x
<1>4. WaitOK'
  BY <1>1, <1>2, <1>3 DEF WaitOK
<1>5. ASSUME NEW n PROVE At(n, "reqq")' <=> (At(n, "reqq") \/ n = m)
  BY <1>1, <1>3, AtPlace, AtPlaceNext
<1> QED
  BY <1>4, <1>5

\* A request leaves the object's queue.
LEMMA WaitLeaves ==
    ASSUME WaitOK, NEW x \in Elements(reqq), reqq' \in Seq(Waiting), Distinct(reqq'),
           Elements(reqq') = Elements(reqq) \ {x}
    PROVE  /\ WaitOK'
           /\ x.msg \in Msg /\ At(x.msg, "reqq")
           /\ \A n : At(n, "reqq")' <=> (At(n, "reqq") /\ n # x.msg)
<1>1. \A k \in DOMAIN reqq : reqq[k] \in Waiting
  BY DEF WaitOK
<1>2. x.msg \in Msg
  BY <1>1 DEF Elements, Waiting
<1>3. \A n : At(n, "reqq")' <=> (At(n, "reqq") /\ n # x.msg)
  BY AtPlace, AtPlaceNext DEF WaitOK
<1> QED
  BY <1>2, <1>3, AtPlace DEF WaitOK

LEMMA WaitTail ==
    ASSUME WaitOK, reqq # <<>>, reqq' = Tail(reqq)
    PROVE  /\ WaitOK'
           /\ Head(reqq).msg \in Msg /\ At(Head(reqq).msg, "reqq")
           /\ \A n : At(n, "reqq")' <=> (At(n, "reqq") /\ n # Head(reqq).msg)
<1>1. /\ Head(reqq) \in Elements(reqq)
      /\ reqq' \in Seq(Waiting) /\ Distinct(reqq')
      /\ Elements(reqq') = Elements(reqq) \ {Head(reqq)}
  BY TailLemma DEF WaitOK
<1> QED
  BY <1>1, WaitLeaves

LEMMA WaitDelete ==
    ASSUME WaitOK, NEW k \in DOMAIN reqq, reqq' = DeleteAt(reqq, k)
    PROVE  /\ WaitOK'
           /\ reqq[k].msg \in Msg /\ At(reqq[k].msg, "reqq")
           /\ \A n : At(n, "reqq")' <=> (At(n, "reqq") /\ n # reqq[k].msg)
<1>1. reqq[k] \in Elements(reqq)
  BY DEF Elements
<1>2. /\ reqq' \in Seq(Waiting) /\ Distinct(reqq')
      /\ Elements(reqq') = Elements(reqq) \ {reqq[k]}
  BY DeleteAtLemma DEF WaitOK, Distinct
<1> QED
  BY <1>1, <1>2, WaitLeaves

Inner == {"reqq"} \cup Rest

LEMMA LandsInside ==
    ASSUME NEW m \in Msg, Lands(m, Rest), reqq' = reqq
    PROVE  Lands(m, Inner)
<1>1. PICK e \in Rest : \A n \in Msg, p \in Rest : At(n, p)' <=> (At(n, p) \/ (n = m /\ p = e))
  BY DEF Lands
<1>2. \A n \in Msg : At(n, "reqq")' <=> At(n, "reqq")
  BY AtPlace, AtPlaceNext
<1>3. e # "reqq"
  BY DEF Rest, End
<1>4. \A n \in Msg, p \in Inner : At(n, p)' <=> (At(n, p) \/ (n = m /\ p = e))
  BY <1>1, <1>2, <1>3 DEF Inner
<1> QED
  BY <1>4 DEF Lands, Inner

LEMMA LandsWaiting ==
    ASSUME NEW m \in Msg, UNCHANGED <<tq, endVars>>,
           \A n : At(n, "reqq")' <=> (At(n, "reqq") \/ n = m)
    PROVE  Lands(m, Inner)
<1>1. \A n \in Msg, p \in Rest : At(n, p)' <=> At(n, p)
  BY AtPlace, AtPlaceNext DEF Rest, End, endVars, InTable
<1>2. \A n \in Msg, p \in Inner : At(n, p)' <=> (At(n, p) \/ (n = m /\ p = "reqq"))
  BY <1>1 DEF Inner, Rest, End
<1> QED
  BY <1>2 DEF Lands, Inner

LEMMA ObjectInvokeLemma ==
    ASSUME NetOK, LinkOK, MsgOK, WaitOK, TableOK, EndOK, ReqOK,
           NEW m \in Msg, Called(m), \A p \in Inner : ~At(m, p), NEW ok \in NetState,
           kind' = kind, serial' = serial, ObjectInvoke(m, ok)
    PROVE  /\ LinkOK' /\ WaitOK' /\ TableOK' /\ EndOK' /\ ReqOK'
           /\ Lands(m, Inner) /\ Spares(m)
           /\ net' \in NetState
           /\ status' \in [Msg -> {"REQ", "RSP", "TIME", "EXC"}]
           /\ adapter' \in [Msg -> Adapter \cup {None}]
<1>1. /\ begin[m] + ReqTimeout \in Deadline /\ begin[m] + ConnTimeout \in Deadline
      /\ kind[m] \in CallType
      /\ ~At(m, "reqq") /\ \A p \in Rest : ~At(m, p)
  BY ConstantsOK DEF MsgOK, Called, Inner
<1>2. ASSUME NEW dl \in Deadline, reqq' = Append(reqq, [msg |-> m, deadline |-> dl]),
             conn' \in [Adapter -> ConnState],
             UNCHANGED <<tq, req, buf, peer, up, sent, status, endVars>>
      PROVE  /\ LinkOK' /\ WaitOK' /\ TableOK' /\ EndOK' /\ ReqOK'
             /\ Lands(m, Inner) /\ Spares(m)
             /\ status' \in [Msg -> {"REQ", "RSP", "TIME", "EXC"}]
  <2>1. WaitOK' /\ \A n : At(n, "reqq")' <=> (At(n, "reqq") \/ n = m)
    BY <1>1, <1>2, WaitAppend
  <2>2. Lands(m, Inner)
    BY <1>2, <2>1, LandsWaiting
  <2>3. LinkOK'
    BY <1>2 DEF LinkOK
  <2>4. TableOK' /\ ReqOK'
    BY <1>2 DEF TableOK, ReqOK, InTable
  <2>5. EndOK' /\ Spares(m)
    BY <1>2 DEF EndOK, endVars, Spares
  <2> QED
    BY <1>2, <2>1, <2>2, <2>3, <2>4, <2>5 DEF MsgOK
<1>3. CASE /\ ~valid
           /\ reqq' = Append(reqq, [msg |-> m, deadline |-> begin[m] + ReqTimeout])
           /\ net' = ok
           /\ UNCHANGED <<tq, linkVars, status, adapter, endVars>>
  <2>1. conn' \in [Adapter -> ConnState] /\ adapter' \in [Msg -> Adapter \cup {None}]
    BY <1>3 DEF linkVars, LinkOK, MsgOK
  <2>2. UNCHANGED <<req, buf, peer, up, sent>>
    BY <1>3 DEF linkVars
  <2> QED
    BY <1>1, <1>2, <1>3, <2>1, <2>2
<1>4. CASE /\ InvokeException(m)
           /\ net' = ok
           /\ UNCHANGED <<reqq, tq, linkVars, adapter>>
  <2>1. EndOK' /\ Lands(m, End) /\ Spares(m) /\ status' \in [Msg -> {"REQ", "RSP", "TIME", "EXC"}]
    BY <1>1, <1>4, ExceptionLemma DEF Rest
  <2>2. TableOK' /\ \A n \in Msg : \A b \in Adapter : InTable(n, b)' <=> InTable(n, b)
    BY <1>4 DEF TableOK, InTable
  <2>3. LinkOK' /\ ReqOK'
    BY <1>4 DEF LinkOK, linkVars, ReqOK, InTable
  <2>4. WaitOK'
    BY <1>4 DEF WaitOK
  <2>5. Lands(m, Inner)
    BY <1>4, <2>1, <2>2, LandsAtEnd, LandsInside
  <2> QED
    BY <1>4, <2>1, <2>2, <2>3, <2>4, <2>5 DEF MsgOK
<1>5. ASSUME NEW choice \in Choices(m),
             adapter' = [adapter EXCEPT ![m] = choice[1]],
             \/ /\ reqq' = Append(reqq, [msg |-> m, deadline |-> begin[m] + ConnTimeout])
                /\ conn' = choice[2]
                /\ net' = ok
                /\ UNCHANGED <<tq, req, buf, peer, up, sent, status, endVars>>
             \/ /\ AdapterInvoke(m, choice[1], choice[2], ok, {})
                /\ UNCHANGED reqq
      PROVE  /\ LinkOK' /\ WaitOK' /\ TableOK' /\ EndOK' /\ ReqOK'
             /\ Lands(m, Inner) /\ Spares(m)
             /\ net' \in NetState
             /\ status' \in [Msg -> {"REQ", "RSP", "TIME", "EXC"}]
             /\ adapter' \in [Msg -> Adapter \cup {None}]
  <2>1. choice[1] \in Adapter /\ choice[2] \in [Adapter -> ConnState]
    BY ChoiceLemma DEF Choices, NetOK, LinkOK
  <2>2. adapter' \in [Msg -> Adapter \cup {None}]
    BY <1>5, <2>1 DEF MsgOK
  <2>3. CASE /\ reqq' = Append(reqq, [msg |-> m, deadline |-> begin[m] + ConnTimeout])
             /\ conn' = choice[2]
             /\ net' = ok
             /\ UNCHANGED <<tq, req, buf, peer, up, sent, status, endVars>>
    BY <1>1, <1>2, <2>1, <2>2, <2>3
  <2>4. CASE /\ AdapterInvoke(m, choice[1], choice[2], ok, {})
             /\ UNCHANGED reqq
    <3>1. /\ LinkOK' /\ TableOK' /\ EndOK' /\ ReqOK' /\ Lands(m, Rest) /\ Spares(m)
          /\ net' \in NetState
          /\ status' \in [Msg -> {"REQ", "RSP", "TIME", "EXC"}]
      BY <1>1, <2>1, <2>4, AdapterInvokeLemma
    <3>2. WaitOK'
      BY <2>4 DEF WaitOK
    <3> QED
      BY <2>2, <2>4, <3>1, <3>2, LandsInside
  <2> QED
    BY <1>5, <2>3, <2>4
<1> QED
  BY <1>3, <1>4, <1>5 DEF ObjectInvoke
-----------------------------------------------------------------------------
(* The invariant, action by action.                                         *)

LEMMA StartConnectType ==
    ASSUME conn \in [Adapter -> ConnState], NEW S
    PROVE  StartConnect(S) \in [Adapter -> ConnState]
BY DEF StartConnect, ConnState

\* A step that moves no call.
LEMMA QuietStep ==
    ASSUME IInv, NetOK', LinkOK', req' = req,
           UNCHANGED <<cur, serial, loopq, reqq, tq, msgVars, endVars>>,
           pc' \in [Thread -> {"idle", "pushed", "waiting"}],
           \A t \in Thread : pc'[t] # "idle" => pc[t] # "idle"
    PROVE  IInv'
<1>1. /\ MsgOK' /\ UserOK' /\ LoopOK' /\ WaitOK' /\ TableOK'
  BY DEF IInv, MsgOK, UserOK, LoopOK, WaitOK, TableOK, msgVars, Called
<1>2. EndOK' /\ ReqOK'
  BY DEF IInv, EndOK, ReqOK, InTable, endVars, msgVars
<1>3. OwnerOK'
  BY OwnerSame DEF IInv, msgVars
<1>4. SyncMsgOutlivesWait'
  BY DEF IInv, SyncMsgOutlivesWait, msgVars, endVars
<1> QED
  BY <1>1, <1>2, <1>3, <1>4 DEF IInv

\* A step outside the user threads that moves the call m.
LEMMA MoveStep ==
    ASSUME IInv, NEW m \in Msg, Spares(m),
           UNCHANGED <<pc, cur, serial, kind, begin>>,
           NetOK', LinkOK', MsgOK', LoopOK', WaitOK', TableOK', EndOK', OwnerOK', ReqOK'
    PROVE  IInv'
<1>1. UserOK'
  BY DEF IInv, UserOK, Called
<1>2. SyncMsgOutlivesWait'
  <2> SUFFICES ASSUME NEW t \in Thread, pc[t] # "idle", kind[cur[t]] = "SYNC"
               PROVE  deleted'[cur[t]] = 0
    BY DEF SyncMsgOutlivesWait
  <2>1. deleted[cur[t]] = 0 /\ cur[t] \in Msg
    BY DEF IInv, SyncMsgOutlivesWait, UserOK
  <2> QED
    BY <2>1 DEF Spares
<1> QED
  BY <1>1, <1>2 DEF IInv

LEMMA CallStep ==
    ASSUME IInv, NEW t \in Thread, NEW m \in Msg, Call(t, m)
    PROVE  IInv' /\ Stay(m) /\ (At(m, "loopq")' \/ At(m, "deleted")')
<1>1. /\ pc[t] = "idle" /\ Caller[m] = t /\ ~Called(m) /\ now \in 0 .. MaxNow
      /\ begin' = [begin EXCEPT ![m] = now] /\ None \notin 0 .. MaxNow
      /\ \A p \in Place : ~At(m, p)
  BY ConstantsOK DEF Call, IInv, NetOK, OwnerOK
<1>2. /\ Called(m)' /\ \A n \in Msg \ {m} : Called(n)' <=> Called(n)
  BY <1>1 DEF Called, IInv, MsgOK
<1>3. PICK k \in Kinds[m] \ (IF serial THEN {"ONEWAY"} ELSE {}) : kind' = [kind EXCEPT ![m] = k]
  BY DEF Call
<1>4. /\ kind'[m] = k /\ \A n \in Msg \ {m} : kind'[n] = kind[n]
      /\ k \in CallType /\ (serial => k # "ONEWAY")
      /\ kind' \in [Msg -> CallType \cup {None}]
  BY <1>3, ConstantsOK DEF IInv, MsgOK
<1>5. /\ UNCHANGED <<serial, armed, net, valid, proxys, reqq, tq, conn, req, buf, peer, up, sent>>
      /\ UNCHANGED <<status, adapter, woken, asyncq, fate, now>>
  BY DEF Call, regVars, linkVars
<1>6. NetOK' /\ LinkOK' /\ WaitOK' /\ TableOK' /\ ReqOK'
  BY <1>5 DEF IInv, NetOK, LinkOK, WaitOK, TableOK, ReqOK, InTable
<1>7. MsgOK'
  <2>1. begin' \in [Msg -> (0 .. MaxNow) \cup {None}]
    BY <1>1 DEF IInv, MsgOK
  <2>2. \A n \in Msg : Called(n)' => kind'[n] \in CallType /\ (serial => kind'[n] # "ONEWAY")
    BY <1>2, <1>4 DEF IInv, MsgOK
  <2> QED
    BY <1>4, <1>5, <2>1, <2>2 DEF IInv, MsgOK
<1>8. \A n \in Elements(asyncq) : kind'[n] = "ASYNC"
  <2>1. Elements(asyncq) \subseteq Msg /\ \A n \in Elements(asyncq) : kind[n] = "ASYNC"
    BY ElementsType DEF IInv, EndOK
  <2>2. m \notin Elements(asyncq)
    BY <1>1, AtPlace DEF Place, Rest, End
  <2> QED
    BY <1>4, <2>1, <2>2
<1>9. \A u \in Thread : pc[u] # "idle" => cur[u] \in Msg /\ cur[u] # m
  BY <1>1 DEF IInv, UserOK
<1>10. CASE /\ loopq' = [loopq EXCEPT ![t] = Append(@, m)]
            /\ pc' = [pc EXCEPT ![t] = "pushed"]
            /\ cur' = [cur EXCEPT ![t] = m]
            /\ UNCHANGED deleted
  <2>1. /\ loopq'[t] = Append(loopq[t], m) /\ \A u \in Thread \ {t} : loopq'[u] = loopq[u]
        /\ loopq[t] \in Seq(Msg) /\ Distinct(loopq[t]) /\ m \notin Elements(loopq[t])
    <3>1. /\ loopq \in [Thread -> Seq(Msg)]
          /\ loopq[t] \in Seq(Msg) /\ Distinct(loopq[t])
      BY DEF IInv, LoopOK
    <3>2. ~At(m, "loopq")
      BY <1>1 DEF Place
    <3>3. m \notin Elements(loopq[t])
      BY <3>2, AtPlace
    <3>4. /\ loopq'[t] = Append(loopq[t], m)
          /\ \A u \in Thread \ {t} : loopq'[u] = loopq[u]
      BY <1>10, <3>1
    <3> QED
      BY <3>1, <3>3, <3>4
  <2>2. /\ loopq'[t] \in Seq(Msg) /\ Distinct(loopq'[t])
        /\ Elements(loopq'[t]) = Elements(loopq[t]) \cup {m}
    BY <2>1, AppendLemma
  <2>3. LoopOK'
    <3>1. loopq' \in [Thread -> Seq(Msg)]
      BY <1>10, <2>1, <2>2 DEF IInv, LoopOK
    <3> QED
      BY <1>1, <2>1, <2>2, <3>1 DEF IInv, LoopOK
  <2>4. UserOK'
    <3>1. /\ pc' \in [Thread -> {"idle", "pushed", "waiting"}]
          /\ cur' \in [Thread -> Msg \cup {None}]
      BY <1>10 DEF IInv, UserOK
    <3>2. \A u \in Thread : pc'[u] # "idle" =>
             cur'[u] \in Msg /\ Caller[cur'[u]] = u /\ begin'[cur'[u]] # None
      <4> SUFFICES ASSUME NEW u \in Thread, pc'[u] # "idle"
                   PROVE  cur'[u] \in Msg /\ Caller[cur'[u]] = u /\ begin'[cur'[u]] # None
        OBVIOUS
      <4>1. CASE u = t
        <5>1. cur'[t] = m
          BY <1>10 DEF IInv, UserOK
        <5> QED
          BY <1>1, <1>2, <4>1, <5>1 DEF Called
      <4>2. CASE u # t
        <5>1. pc[u] # "idle" /\ cur'[u] = cur[u]
          BY <1>10, <4>2 DEF IInv, UserOK
        <5>2. cur[u] \in Msg /\ Caller[cur[u]] = u /\ Called(cur[u])
          BY <5>1 DEF IInv, UserOK
        <5> QED
          BY <1>1, <1>2, <5>1, <5>2 DEF Called
      <4> QED
        BY <4>1, <4>2
    <3> QED
      BY <3>1, <3>2 DEF UserOK, Called
  <2>5. EndOK'
    BY <1>5, <1>8, <1>10 DEF IInv, EndOK
  <2>6. OwnerOK' /\ Stay(m) /\ At(m, "loopq")'
    <3>1. \A n : At(n, "loopq")' <=> (At(n, "loopq") \/ n = m)
      <4>1. \A n : \A u \in Thread :
               n \in Elements(loopq'[u]) <=> (n \in Elements(loopq[u]) \/ (u = t /\ n = m))
        BY <2>1, <2>2
      <4> QED
        BY <4>1, AtPlace, AtPlaceNext
    <3>2. \A n, p : p \in Inner => (At(n, p)' <=> At(n, p))
      BY <1>5, <1>10, AtPlace, AtPlaceNext DEF Inner, Rest, End, InTable
    <3>3. \A n \in Msg, p \in Place : At(n, p)' <=> (At(n, p) \/ (n = m /\ p = "loopq"))
      BY <3>1, <3>2 DEF Place, Inner, Rest, End
    <3>4. "loopq" \in Place
      BY DEF Place
    <3> QED
      BY <1>1, <1>2, <3>3, <3>4 DEF IInv, OwnerOK, Stay
  <2>7. SyncMsgOutlivesWait'
    <3>1. deleted[m] = 0
      BY <1>1, AtPlace DEF IInv, EndOK, Place, Rest, End
    <3> QED
      BY <1>4, <1>9, <1>10, <3>1 DEF IInv, SyncMsgOutlivesWait, UserOK
  <2> QED
    BY <1>6, <1>7, <2>3, <2>4, <2>5, <2>6, <2>7 DEF IInv
<1>11. CASE Delete(m) /\ UNCHANGED <<loopq, pc, cur>>
  <2>1. /\ deleted' \in [Msg -> 0 .. 1]
        /\ deleted[m] = 0 /\ deleted'[m] = 1
        /\ \A n \in Msg \ {m} : deleted'[n] = deleted[n]
    BY <1>1, <1>11, DeletedOnce DEF IInv, Place, Rest, End
  <2>2. LoopOK' /\ EndOK'
    BY <1>5, <1>8, <1>11, <2>1 DEF IInv, LoopOK, EndOK
  <2>3. UserOK'
    BY <1>2, <1>11 DEF IInv, UserOK, Called
  <2>4. OwnerOK' /\ Stay(m) /\ At(m, "deleted")'
    <3>1. \A n \in Msg : At(n, "deleted")' <=> (At(n, "deleted") \/ n = m)
      BY <2>1, AtPlace, AtPlaceNext
    <3>2. \A n, p : p \in Place \ {"deleted"} => (At(n, p)' <=> At(n, p))
      BY <1>5, <1>11, AtPlace, AtPlaceNext DEF Place, Rest, End, InTable
    <3>3. \A n \in Msg, p \in Place : At(n, p)' <=> (At(n, p) \/ (n = m /\ p = "deleted"))
      BY <3>1, <3>2
    <3>4. "deleted" \in Place
      BY DEF Place, Rest, End
    <3> QED
      BY <1>1, <1>2, <3>3, <3>4 DEF IInv, OwnerOK, Stay
  <2>5. SyncMsgOutlivesWait'
    BY <1>4, <1>9, <1>11, <2>1 DEF IInv, SyncMsgOutlivesWait, UserOK
  <2> QED
    BY <1>6, <1>7, <2>2, <2>3, <2>4, <2>5 DEF IInv
<1> QED
  BY <1>10, <1>11 DEF Call, Delete

LEMMA WakeUpStep ==
    ASSUME IInv, NEW t \in Thread, WakeUp(t)
    PROVE  IInv' /\ Stay(cur[t])
<1> DEFINE m == cur[t]
<1>1. /\ pc[t] = "waiting" /\ m \in woken /\ woken' = woken \ {m} /\ Delete(m)
      /\ pc' = [pc EXCEPT ![t] = "idle"]
      /\ m \in Msg /\ Caller[m] = t /\ Called(m)
  BY DEF WakeUp, Delete, IInv, UserOK
<1>2. /\ UNCHANGED <<cur, serial, loopq, armed, net, valid, proxys, reqq, tq>>
      /\ UNCHANGED <<conn, req, buf, peer, up, sent, kind, status, adapter, begin>>
      /\ UNCHANGED <<asyncq, fate, now>>
  BY DEF WakeUp, handOver, regVars, linkVars, msgVars
<1> HIDE DEF m
<1>3. At(m, "woken") /\ \A p \in Place \ {"woken"} : ~At(m, p)
  BY <1>1, AtPlace, OwnerOnly DEF IInv, Place, Rest, End
<1>4. /\ deleted' \in [Msg -> 0 .. 1]
      /\ deleted[m] = 0 /\ deleted'[m] = 1
      /\ \A n \in Msg \ {m} : deleted'[n] = deleted[n]
  BY <1>1, <1>3, DeletedOnce DEF IInv, Place, Rest, End
<1>5. NetOK' /\ LinkOK' /\ WaitOK' /\ TableOK' /\ ReqOK' /\ LoopOK'
  BY <1>2 DEF IInv, NetOK, LinkOK, WaitOK, TableOK, ReqOK, InTable, LoopOK
<1>6. MsgOK' /\ EndOK'
  BY <1>1, <1>2, <1>4 DEF IInv, MsgOK, EndOK, Called
<1>7. UserOK'
  BY <1>1, <1>2 DEF IInv, UserOK, Called
<1>8. OwnerOK' /\ Stay(m)
  <2>1. \A n \in Msg, p \in Place : At(n, p)' <=> IF n = m THEN p = "deleted" ELSE At(n, p)
    <3>1. \A n \in Msg : /\ At(n, "deleted")' <=> (At(n, "deleted") \/ n = m)
                         /\ At(n, "woken")' <=> (At(n, "woken") /\ n # m)
      BY <1>1, <1>4, AtPlace, AtPlaceNext
    <3>2. \A n \in Msg, p \in Place \ {"deleted", "woken"} : At(n, p)' <=> At(n, p)
      BY <1>2, AtPlace, AtPlaceNext DEF Place, Rest, End, InTable
    <3> QED
      BY <1>3, <3>1, <3>2
  <2> QED
    BY <1>1, <1>2, <2>1, OwnerMoves DEF IInv, Place, Rest, End
<1>9. SyncMsgOutlivesWait'
  <2> SUFFICES ASSUME NEW u \in Thread, pc'[u] # "idle", kind'[cur'[u]] = "SYNC"
               PROVE  deleted'[cur'[u]] = 0
    BY DEF SyncMsgOutlivesWait
  <2>1. u # t /\ pc[u] # "idle" /\ cur'[u] = cur[u] /\ kind' = kind
    BY <1>1, <1>2 DEF IInv, UserOK
  <2>2. cur[u] \in Msg /\ cur[u] # m /\ deleted[cur[u]] = 0
    BY <1>1, <1>2, <2>1 DEF IInv, UserOK, SyncMsgOutlivesWait
  <2> QED
    BY <1>4, <2>1, <2>2
<1> QED
  BY <1>5, <1>6, <1>7, <1>8, <1>9 DEF IInv, m

LEMMA NotifyPopStep ==
    ASSUME IInv, NEW t \in Thread, NotifyPop(t)
    PROVE  IInv' /\ Stay(Head(loopq[t]))
<1> DEFINE m == Head(loopq[t])
<1>1. /\ loopq[t] # <<>> /\ loopq' = [loopq EXCEPT ![t] = Tail(@)]
      /\ ObjectInvoke(m, InNotify(t, TRUE))
      /\ UNCHANGED <<pc, cur, serial, armed, valid, proxys, kind, begin, now>>
  BY DEF NotifyPop, userVars, regVars
<1>2. /\ loopq[t] \in Seq(Msg) /\ Distinct(loopq[t])
      /\ loopq'[t] = Tail(loopq[t]) /\ \A u \in Thread \ {t} : loopq'[u] = loopq[u]
      /\ \A u \in Thread : \A n \in Elements(loopq[u]) : Caller[n] = u
  BY <1>1 DEF IInv, LoopOK
<1>3. /\ m \in Msg /\ m \in Elements(loopq[t]) /\ Tail(loopq[t]) \in Seq(Msg)
      /\ Distinct(Tail(loopq[t])) /\ Elements(Tail(loopq[t])) = Elements(loopq[t]) \ {m}
  BY <1>1, <1>2, TailLemma
<1> HIDE DEF m
<1>4. LoopOK'
  <2>1. loopq' \in [Thread -> Seq(Msg)]
    BY <1>1, <1>3 DEF IInv, LoopOK
  <2>2. \A u \in Thread : Distinct(loopq'[u])
    BY <1>2, <1>3 DEF IInv, LoopOK
  <2>3. \A u \in Thread : Elements(loopq'[u]) \subseteq Elements(loopq[u])
    BY <1>2, <1>3
  <2> QED
    BY <1>2, <2>1, <2>2, <2>3 DEF LoopOK
<1>5. /\ Called(m) /\ \A p \in Inner : ~At(m, p)
  <2>1. At(m, "loopq")
    BY <1>3, AtPlace
  <2>2. "loopq" \notin Inner /\ Inner \subseteq Place /\ "loopq" \in Place
    BY DEF Inner, Place, Rest, End
  <2> QED
    BY <1>3, <2>1, <2>2, OwnerOnly DEF IInv
<1>6. /\ LinkOK' /\ WaitOK' /\ TableOK' /\ EndOK' /\ ReqOK'
      /\ Lands(m, Inner) /\ Spares(m)
      /\ net' \in NetState
      /\ status' \in [Msg -> {"REQ", "RSP", "TIME", "EXC"}]
      /\ adapter' \in [Msg -> Adapter \cup {None}]
  <2>1. InNotify(t, TRUE) \in NetState
    BY NetStates
  <2> QED
    BY <1>1, <1>3, <1>5, <2>1, ObjectInvokeLemma DEF IInv
<1>7. MsgOK' /\ NetOK'
  BY <1>1, <1>6 DEF IInv, MsgOK, NetOK, Called
<1>8. OwnerOK' /\ Stay(m)
  <2>1. \A n \in Msg : At(n, "loopq")' <=> (At(n, "loopq") /\ n # m)
    <3>1. \A n : \A u \in Thread :
             n \in Elements(loopq'[u]) <=> (n \in Elements(loopq[u]) /\ n # m)
      BY <1>2, <1>3
    <3> QED
      BY <3>1, AtPlace, AtPlaceNext
  <2>2. Inner \in SUBSET Place /\ Place \ Inner = {"loopq"}
    BY DEF Place, Inner, Rest, End
  <2> QED
    BY <1>1, <1>3, <1>5, <1>6, <2>1, <2>2, OwnerLands DEF IInv
<1> QED
  BY <1>1, <1>3, <1>4, <1>6, <1>7, <1>8, MoveStep DEF m

LEMMA PrepareOneStep ==
    ASSUME IInv, NEW a \in Adapter, NEW via \in Adapter, PrepareOne(a, via)
    PROVE  IInv' /\ Stay(Head(reqq).msg)
<1> DEFINE m == Head(reqq).msg
<1>1. /\ reqq # <<>> /\ reqq' = Tail(reqq)
      /\ UNCHANGED <<pc, cur, serial, loopq, armed, valid, proxys, kind, begin, now>>
  BY DEF PrepareOne, userVars, handOver, regVars
<1>2. \E b \in Adapter, c \in [Adapter -> ConnState], ok \in NetState :
         /\ adapter' = [adapter EXCEPT ![m] = b]
         /\ AdapterInvoke(m, b, c, ok, {a})
  <2>0. conn \in [Adapter -> ConnState] /\ proxys \subseteq Adapter /\ m \in Msg
    BY <1>1, WaitTail DEF IInv, LinkOK, NetOK
  <2>1. CASE adapter[m] = None /\ Home[m] # None
    <3>1. PICK choice \in HashChoice(m) :
             /\ adapter' = [adapter EXCEPT ![m] = choice[1]]
             /\ AdapterInvoke(m, choice[1], choice[2], InPrepare(a, choice[1]), {a})
      BY <2>1 DEF PrepareOne
    <3>2. choice[1] \in Adapter /\ choice[2] \in [Adapter -> ConnState]
      BY <2>0, ChoiceLemma
    <3>3. InPrepare(a, choice[1]) \in NetState
      BY <3>2, NetStates
    <3> QED
      BY <3>1, <3>2, <3>3
  <2>2. CASE ~(adapter[m] = None /\ Home[m] # None)
    <3>1. /\ adapter' = [adapter EXCEPT ![m] = via]
          /\ AdapterInvoke(m, via, conn, InPrepare(a, via), {a})
      BY <2>2 DEF PrepareOne
    <3>2. InPrepare(a, via) \in NetState
      BY NetStates
    <3> QED
      BY <2>0, <3>1, <3>2
  <2> QED
    BY <2>1, <2>2
<1>3. /\ WaitOK' /\ m \in Msg /\ At(m, "reqq")
      /\ \A n : At(n, "reqq")' <=> (At(n, "reqq") /\ n # m)
  BY <1>1, WaitTail DEF IInv
<1> HIDE DEF m
<1>4. PICK b \in Adapter, c \in [Adapter -> ConnState], ok \in NetState :
         /\ adapter' = [adapter EXCEPT ![m] = b]
         /\ AdapterInvoke(m, b, c, ok, {a})
  BY <1>2
<1>5. Called(m) /\ ~At(m, "loopq") /\ \A p \in Rest : ~At(m, p)
  <2>1. "reqq" \notin Rest /\ Rest \subseteq Place /\ "reqq" \in Place /\ "loopq" \in Place
    BY DEF Place, Rest, End
  <2> QED
    BY <1>3, <2>1, OwnerOnly DEF IInv
<1>6. /\ LinkOK' /\ TableOK' /\ EndOK' /\ ReqOK' /\ Lands(m, Rest) /\ Spares(m)
      /\ net' \in NetState
      /\ status' \in [Msg -> {"REQ", "RSP", "TIME", "EXC"}]
  BY <1>1, <1>3, <1>4, <1>5, AdapterInvokeLemma DEF IInv
<1>7. MsgOK' /\ NetOK' /\ LoopOK'
  BY <1>1, <1>4, <1>6 DEF IInv, MsgOK, NetOK, LoopOK, Called
<1>8. OwnerOK' /\ Stay(m)
  <2>1. \A n \in Msg : At(n, "loopq")' <=> (At(n, "loopq") /\ n # m)
    BY <1>1, <1>5, AtPlace, AtPlaceNext
  <2>2. Rest \in SUBSET Place /\ Place \ Rest = {"loopq", "reqq"}
    BY DEF Place, Rest, End
  <2> QED
    BY <1>1, <1>3, <1>5, <1>6, <2>1, <2>2, OwnerLands DEF IInv
<1> QED
  BY <1>1, <1>3, <1>6, <1>7, <1>8, MoveStep DEF m

\* A request leaves the table of a and is completed.
LEMMA FinishStep ==
    ASSUME IInv, NEW a \in Adapter, NEW id \in Ids(tq[a]),
           tq' = [tq EXCEPT ![a] = Remove(@, id)], FinishMsg(tq[a].data[id].ptr),
           UNCHANGED <<loopq, reqq, kind, begin>>
    PROVE  /\ TableOK' /\ EndOK' /\ OwnerOK'
           /\ tq[a].data[id].ptr \in Msg /\ Spares(tq[a].data[id].ptr)
           /\ Lands(tq[a].data[id].ptr, End) /\ Stay(tq[a].data[id].ptr)
           /\ \A n : \A b \in Adapter :
                InTable(n, b)' <=> (InTable(n, b) /\ n # tq[a].data[id].ptr)
<1> DEFINE m == tq[a].data[id].ptr
<1>1. /\ TableOK' /\ m \in Msg
      /\ \A n : \A b \in Adapter : InTable(n, b)' <=> (InTable(n, b) /\ n # m)
      /\ InTable(m, a)
  <2>1. TableOK
    BY DEF IInv
  <2>2. m \in Msg
    BY <2>1, TableFacts
  <2>3. InTable(m, a)
    BY DEF InTable
  <2> QED
    BY <2>1, <2>2, <2>3, TableRemove
<1>2. FinishMsg(m)
  OBVIOUS
<1> HIDE DEF m
<1>3. Called(m) /\ ~At(m, "loopq") /\ ~At(m, "reqq") /\ At(m, "tq") /\ \A p \in End : ~At(m, p)
  <2>1. At(m, "tq")
    BY <1>1, AtPlace
  <2>2. "tq" \notin End /\ End \subseteq Place /\ {"tq", "reqq", "loopq"} \subseteq Place
    BY DEF Place, Rest, End
  <2> QED
    BY <1>1, <2>1, <2>2, OwnerOnly DEF IInv
<1>4. kind[m] \in CallType
  BY <1>1, <1>3 DEF IInv, MsgOK
<1>5. EndOK' /\ Lands(m, End) /\ Spares(m)
  BY <1>1, <1>2, <1>3, <1>4, FinishLemma DEF IInv
<1>6. OwnerOK' /\ Stay(m)
  <2>1. \A n \in Msg : /\ At(n, "loopq")' <=> (At(n, "loopq") /\ n # m)
                       /\ At(n, "reqq")' <=> (At(n, "reqq") /\ n # m)
    BY <1>3, AtPlace, AtPlaceNext
  <2>2. \A n \in Msg : At(n, "tq")' <=> (At(n, "tq") /\ n # m)
    BY <1>1, AtPlace, AtPlaceNext
  <2>3. End \in SUBSET Place /\ Place \ End = {"loopq", "reqq", "tq"}
    BY DEF Place, Rest, End
  <2> QED
    BY <1>1, <1>3, <1>5, <2>1, <2>2, <2>3, OwnerLands DEF IInv
<1> QED
  BY <1>1, <1>5, <1>6 DEF m

LEMMA StatusType ==
    ASSUME MsgOK, NEW m \in Msg, NEW s \in {"RSP", "TIME", "EXC"},
           status' = [status EXCEPT ![m] = s], UNCHANGED <<serial, kind, adapter, begin>>
    PROVE  MsgOK'
BY DEF MsgOK, Called

\* The answer is taken off the connection, or the adapter is blocked.
LEMMA AnswerTaken ==
    ASSUME LinkOK, NEW a \in Adapter, NEW r, UNCHANGED sent,
           \/ peer' = [peer EXCEPT ![a] = @ \ {r}] /\ UNCHANGED <<conn, buf, up>>
           \/ Block(a),
           req' \in [Adapter -> Msg \cup {None}]
    PROVE  LinkOK'
<1>1. CASE peer' = [peer EXCEPT ![a] = @ \ {r}] /\ UNCHANGED <<conn, buf, up>>
  BY <1>1 DEF LinkOK
<1>2. CASE Block(a)
  <2>1. {a} \in SUBSET Adapter /\ conn \in [Adapter -> ConnState]
    BY DEF LinkOK
  <2>2. /\ conn' \in [Adapter -> ConnState] /\ buf' \in [Adapter -> Id]
        /\ peer' \in [Adapter -> SUBSET (Id \X Msg)]
    BY <1>2, <2>1, CloseLemma DEF Block
  <2> QED
    BY <1>2, <2>2 DEF Block, LinkOK
<1> QED
  BY <1>1, <1>2

LEMMA RespondStep ==
    ASSUME IInv, NEW a \in Adapter, Respond(a)
    PROVE  IInv'
<1>1. /\ ~serial /\ UNCHANGED <<pc, cur, serial, loopq, armed, net, valid, proxys>>
      /\ UNCHANGED <<reqq, req, sent, adapter, kind, begin, now>>
  BY DEF Respond, userVars, handOver, regVars
<1>2. PICK r \in peer[a] :
         IF r[1] \in Ids(tq[a])
         THEN /\ tq' = [tq EXCEPT ![a] = Remove(@, r[1])]
              /\ status' = [status EXCEPT ![tq[a].data[r[1]].ptr] = "RSP"]
              /\ FinishMsg(tq[a].data[r[1]].ptr)
              /\ \/ /\ peer' = [peer EXCEPT ![a] = @ \ {r}]
                    /\ UNCHANGED <<conn, buf, up>>
                 \/ Block(a)
         ELSE /\ peer' = [peer EXCEPT ![a] = @ \ {r}]
              /\ UNCHANGED <<tq, status, conn, buf, up, endVars>>
  BY DEF Respond
<1>3. NetOK' /\ LoopOK' /\ WaitOK' /\ ReqOK'
  BY <1>1 DEF IInv, NetOK, LoopOK, WaitOK, ReqOK
<1>4. LinkOK'
  BY <1>1, <1>2, AnswerTaken DEF IInv, LinkOK
<1>5. CASE r[1] \in Ids(tq[a])
  <2> DEFINE m == tq[a].data[r[1]].ptr
  <2>1. /\ TableOK' /\ EndOK' /\ OwnerOK' /\ m \in Msg /\ Spares(m)
    BY <1>1, <1>2, <1>5, FinishStep
  <2>2. MsgOK'
    BY <1>1, <1>2, <1>5, <2>1, StatusType DEF IInv
  <2> QED
    BY <1>1, <1>3, <1>4, <2>1, <2>2, MoveStep
<1>6. CASE r[1] \notin Ids(tq[a])
  BY <1>1, <1>2, <1>3, <1>4, <1>6, QuietStep DEF IInv, UserOK, msgVars
<1> QED
  BY <1>5, <1>6

LEMMA ReqIntro ==
    ASSUME req' \in [Adapter -> Msg \cup {None}], serial' = serial,
           \A b \in Adapter, n \in Msg : req'[b] = n => serial /\ InTable(n, b)'
    PROVE  ReqOK'
BY DEF ReqOK, InTable

\* The request under way has one id, and the table knows it.
LEMMA UnderwayId ==
    ASSUME IInv, NEW a \in Adapter, req[a] # None
    PROVE  IdOf(a, req[a]) \in Ids(tq[a]) /\ tq[a].data[IdOf(a, req[a])].ptr = req[a]
BY DEF IInv, ReqOK, InTable, IdOf

LEMMA RespondSerialStep ==
    ASSUME IInv, NEW a \in Adapter, RespondSerial(a)
    PROVE  IInv'
<1>1. /\ serial /\ net' = InPrepare(a, a)
      /\ UNCHANGED <<pc, cur, serial, loopq, armed, valid, proxys>>
      /\ UNCHANGED <<reqq, sent, adapter, kind, begin, now>>
  BY DEF RespondSerial, userVars, handOver, regVars
<1>2. PICK r \in peer[a] :
         IF req[a] # None
         THEN /\ tq' = [tq EXCEPT ![a] = Remove(@, IdOf(a, req[a]))]
              /\ req' = [req EXCEPT ![a] = None]
              /\ status' = [status EXCEPT ![req[a]] = "RSP"]
              /\ FinishMsg(req[a])
              /\ \/ /\ peer' = [peer EXCEPT ![a] = @ \ {r}]
                    /\ UNCHANGED <<conn, buf, up>>
                 \/ Block(a)
         ELSE /\ peer' = [peer EXCEPT ![a] = @ \ {r}]
              /\ UNCHANGED <<tq, req, status, conn, buf, up, endVars>>
  BY DEF RespondSerial
<1>3. NetOK' /\ LoopOK' /\ WaitOK'
  BY <1>1, NetStates DEF IInv, NetOK, LoopOK, WaitOK
<1>4. LinkOK'
  <2>1. req' \in [Adapter -> Msg \cup {None}]
    BY <1>2 DEF IInv, LinkOK
  <2> QED
    BY <1>1, <1>2, <2>1, AnswerTaken DEF IInv
<1>5. CASE req[a] # None
  <2> DEFINE id == IdOf(a, req[a])
  <2>1. id \in Ids(tq[a]) /\ tq[a].data[id].ptr = req[a]
    BY <1>5, UnderwayId
  <2> HIDE DEF id
  <2>2. /\ tq' = [tq EXCEPT ![a] = Remove(@, id)] /\ FinishMsg(tq[a].data[id].ptr)
        /\ status' = [status EXCEPT ![req[a]] = "RSP"]
        /\ req' = [req EXCEPT ![a] = None]
    BY <1>2, <1>5, <2>1 DEF id
  <2>3. /\ TableOK' /\ EndOK' /\ OwnerOK' /\ req[a] \in Msg /\ Spares(req[a])
        /\ \A n : \A b \in Adapter : InTable(n, b)' <=> (InTable(n, b) /\ n # req[a])
    BY <1>1, <2>1, <2>2, FinishStep
  <2>4. MsgOK'
    BY <1>1, <2>2, <2>3, StatusType DEF IInv
  <2>5. ReqOK'
    <3>1. ASSUME NEW b \in Adapter, NEW n \in Msg, req'[b] = n
          PROVE  serial /\ InTable(n, b)'
      <4>1. b # a /\ req[b] = n /\ n # None /\ InTable(n, b)
        BY <2>2, <3>1, ConstantsOK DEF IInv, ReqOK, LinkOK
      <4>2. n # req[a]
        BY <2>1, <4>1, TableFacts DEF IInv
      <4> QED
        BY <1>1, <2>3, <4>1, <4>2
    <3> QED
      BY <1>1, <1>4, <3>1, ReqIntro DEF LinkOK
  <2> QED
    BY <1>1, <1>3, <1>4, <2>3, <2>4, <2>5, MoveStep
<1>6. CASE req[a] = None
  BY <1>1, <1>2, <1>3, <1>4, <1>6, QuietStep DEF IInv, UserOK, msgVars
<1> QED
  BY <1>5, <1>6

LEMMA TimeoutAdapterStep ==
    ASSUME IInv, NEW a \in Adapter, TimeoutAdapter(a)
    PROVE  IInv'
<1>1. /\ UNCHANGED <<pc, cur, serial, loopq, armed, valid, proxys, net>>
      /\ UNCHANGED <<reqq, sent, adapter, kind, begin, now>>
  BY DEF TimeoutAdapter, userVars, handOver, regVars
<1>2. PICK id \in Expired(tq[a], now) :
         /\ tq' = [tq EXCEPT ![a] = Remove(@, id)]
         /\ status' = [status EXCEPT ![tq[a].data[id].ptr] = "TIME"]
         /\ FinishMsg(tq[a].data[id].ptr)
         /\ req' = [req EXCEPT ![a] = IF @ = tq[a].data[id].ptr THEN None ELSE @]
         /\ \/ /\ up' = [up EXCEPT ![a] = @ \/ kind[tq[a].data[id].ptr] = "SYNC"]
               /\ IF tq[a].data[id].ptr = req[a] THEN Close({a}, conn)
                  ELSE UNCHANGED <<conn, buf, peer>>
            \/ Block(a)
  BY DEF TimeoutAdapter
<1> DEFINE m == tq[a].data[id].ptr
<1>3. id \in Ids(tq[a])
  <2>1. tq[a].time = {<<tq[a].data[i].deadline, i>> : i \in Ids(tq[a])}
    BY DEF IInv, TableOK, QueueOK, WellFormed, TimeIndexAgrees
  <2>2. \E e \in tq[a].time : e[2] = id
    BY DEF Expired
  <2> QED
    BY <2>1, <2>2
<1>4. /\ TableOK' /\ EndOK' /\ OwnerOK' /\ m \in Msg /\ Spares(m)
      /\ \A n : \A b \in Adapter : InTable(n, b)' <=> (InTable(n, b) /\ n # m)
  BY <1>1, <1>2, <1>3, FinishStep
<1>5. req' = [req EXCEPT ![a] = IF req[a] = m THEN None ELSE req[a]] /\ m = tq[a].data[id].ptr
  BY <1>2
<1>6. MsgOK'
  BY <1>1, <1>2, <1>4, StatusType DEF IInv
<1>7. NetOK' /\ LoopOK' /\ WaitOK'
  BY <1>1 DEF IInv, NetOK, LoopOK, WaitOK
<1>8. LinkOK'
  <2>1. req' \in [Adapter -> Msg \cup {None}]
    BY <1>5 DEF IInv, LinkOK
  <2>2. Close({a}, conn) => /\ conn' \in [Adapter -> ConnState] /\ buf' \in [Adapter -> Id]
                            /\ peer' \in [Adapter -> SUBSET (Id \X Msg)]
    <3>1. {a} \in SUBSET Adapter /\ conn \in [Adapter -> ConnState]
      BY DEF IInv, LinkOK
    <3> QED
      BY <3>1, CloseLemma DEF IInv
  <2>3. up' \in [Adapter -> BOOLEAN]
    <3>1. CASE up' = [up EXCEPT ![a] = @ \/ kind[m] = "SYNC"]
      BY <3>1 DEF IInv, LinkOK
    <3>2. CASE Block(a)
      BY <3>2 DEF IInv, LinkOK, Block
    <3> QED
      BY <1>2, <3>1, <3>2
  <2>4. Close({a}, conn) \/ UNCHANGED <<conn, buf, peer>>
    BY <1>2 DEF Block
  <2> QED
    BY <1>1, <2>1, <2>2, <2>3, <2>4 DEF IInv, LinkOK
<1>9. ReqOK'
  <2> HIDE DEF m
  <2>1. ASSUME NEW b \in Adapter, NEW n \in Msg, req'[b] = n
        PROVE  serial /\ InTable(n, b)'
    <3>1. req[b] = n /\ n # None /\ (b = a => n # m)
      BY <1>5, <2>1, ConstantsOK DEF IInv, LinkOK
    <3>2. serial /\ InTable(n, b)
      BY <3>1 DEF IInv, ReqOK
    <3>3. n # m
      <4>1. b # a => ~InTable(m, b)
        BY <1>3, <1>5, TableFacts DEF IInv
      <4> QED
        BY <3>1, <3>2, <4>1
    <3> QED
      BY <1>4, <3>2, <3>3
  <2> QED
    BY <1>1, <1>8, <2>1, ReqIntro DEF LinkOK
<1> QED
  BY <1>1, <1>4, <1>6, <1>7, <1>8, <1>9, MoveStep

LEMMA TimeoutWaitingStep ==
    ASSUME IInv, TimeoutWaiting
    PROVE  /\ IInv'
           /\ \E m \in Msg : /\ Called(m) /\ At(m, "reqq") /\ InvokeException(m)
                            /\ Stay(m) /\ Lands(m, End)
<1>1. /\ UNCHANGED <<pc, cur, serial, loopq, armed, valid, proxys, net>>
      /\ UNCHANGED <<tq, conn, req, buf, peer, up, sent, adapter, kind, begin, now>>
  BY DEF TimeoutWaiting, userVars, handOver, regVars, linkVars
<1>2. PICK i \in DOMAIN reqq : reqq' = DeleteAt(reqq, i) /\ InvokeException(reqq[i].msg)
  BY DEF TimeoutWaiting
<1> DEFINE m == reqq[i].msg
<1>3. /\ WaitOK' /\ m \in Msg /\ At(m, "reqq")
      /\ \A n : At(n, "reqq")' <=> (At(n, "reqq") /\ n # m)
  BY <1>2, WaitDelete DEF IInv
<1>4. InvokeException(m)
  BY <1>2
<1> HIDE DEF m
<1>5. Called(m) /\ ~At(m, "loopq") /\ ~At(m, "tq") /\ \A p \in End : ~At(m, p)
  <2>1. "reqq" \notin End /\ End \subseteq Place /\ {"tq", "reqq", "loopq"} \subseteq Place
    BY DEF Place, Rest, End
  <2> QED
    BY <1>3, <2>1, OwnerOnly DEF IInv
<1>6. kind[m] \in CallType
  BY <1>3, <1>5 DEF IInv, MsgOK
<1>7. /\ EndOK' /\ Lands(m, End) /\ Spares(m)
      /\ status' \in [Msg -> {"REQ", "RSP", "TIME", "EXC"}]
  BY <1>1, <1>3, <1>4, <1>5, <1>6, ExceptionLemma DEF IInv
<1>8. NetOK' /\ LinkOK' /\ MsgOK' /\ LoopOK'
  BY <1>1, <1>7 DEF IInv, NetOK, LinkOK, MsgOK, LoopOK, Called
<1>9. TableOK' /\ ReqOK'
  BY <1>1 DEF IInv, TableOK, ReqOK, InTable
<1>10. OwnerOK' /\ Stay(m)
  <2>1. \A n \in Msg : /\ At(n, "loopq")' <=> (At(n, "loopq") /\ n # m)
                       /\ At(n, "tq")' <=> (At(n, "tq") /\ n # m)
    BY <1>1, <1>5, AtPlace, AtPlaceNext DEF InTable
  <2>2. End \in SUBSET Place /\ Place \ End = {"loopq", "reqq", "tq"}
    BY DEF Place, Rest, End
  <2> QED
    BY <1>1, <1>3, <1>5, <1>7, <2>1, <2>2, OwnerLands DEF IInv
<1>11. IInv'
  BY <1>1, <1>3, <1>7, <1>8, <1>9, <1>10, MoveStep
<1> QED
  BY <1>3, <1>4, <1>5, <1>7, <1>10, <1>11

LEMMA OwnerStays ==
    ASSUME OwnerOK, begin' = begin, \A n \in Msg, p \in Place : At(n, p)' <=> At(n, p), NEW m
    PROVE  OwnerOK' /\ Stay(m)
<1>1. OwnerOK'
  BY DEF OwnerOK, Called
<1> QED
  BY <1>1 DEF Stay

\* A request of the table is written; a one-way request is then deleted.
LEMMA SendStep ==
    ASSUME IInv, NEW a \in Adapter, HasUnsent(tq[a]), NEW del \in BOOLEAN,
           del <=> kind[tq[a].data[NextSend(tq[a])].ptr] = "ONEWAY",
           tq' = [tq EXCEPT ![a] = PopSend(@, del)],
           IF del THEN Delete(tq[a].data[NextSend(tq[a])].ptr) ELSE UNCHANGED deleted,
           UNCHANGED <<loopq, reqq, woken, asyncq, fate, kind, begin>>
    PROVE  /\ TableOK' /\ EndOK' /\ OwnerOK'
           /\ tq[a].data[NextSend(tq[a])].ptr \in Msg
           /\ Spares(tq[a].data[NextSend(tq[a])].ptr) /\ Stay(tq[a].data[NextSend(tq[a])].ptr)
           /\ \A n \in Msg : n = tq[a].data[NextSend(tq[a])].ptr =>
                IF del THEN At(n, "deleted")' ELSE At(n, "tq")'
           /\ del => \A n : \A b \in Adapter :
                       InTable(n, b)' <=> (InTable(n, b) /\ n # tq[a].data[NextSend(tq[a])].ptr)
           /\ ~del => \A n : \A b \in Adapter : InTable(n, b)' <=> InTable(n, b)
<1> DEFINE id == NextSend(tq[a])
           m  == tq[a].data[id].ptr
<1>0. TableOK
  BY DEF IInv
<1>1. /\ TableOK' /\ id \in Ids(tq[a])
      /\ del => \A n : \A b \in Adapter : InTable(n, b)' <=> (InTable(n, b) /\ n # m)
      /\ ~del => \A n : \A b \in Adapter : InTable(n, b)' <=> InTable(n, b)
  <2>1. TableOK'
    BY <1>0, TablePop
  <2>2. id \in Ids(tq[a])
    BY <1>0, TablePop
  <2>3. del => \A n : \A b \in Adapter : InTable(n, b)' <=> (InTable(n, b) /\ n # m)
    BY <1>0, TablePop
  <2>4. ~del => \A n : \A b \in Adapter : InTable(n, b)' <=> InTable(n, b)
    BY <1>0, TablePop
  <2> QED
    BY <2>1, <2>2, <2>3, <2>4
<1>2. m \in Msg /\ InTable(m, a)
  BY <1>0, <1>1, TableFacts DEF InTable
<1>3. IF del THEN Delete(m) ELSE UNCHANGED deleted
  OBVIOUS
<1>4. del <=> kind[m] = "ONEWAY"
  OBVIOUS
<1> HIDE DEF m, id
<1>5. Called(m) /\ At(m, "tq") /\ \A p \in Place \ {"tq"} : ~At(m, p)
  <2>1. At(m, "tq") /\ "tq" \in Place
    BY <1>2, AtPlace DEF Place, Rest
  <2> QED
    BY <1>2, <2>1, OwnerOnly DEF IInv
<1>6. CASE del
  <2>1. /\ deleted' \in [Msg -> 0 .. 1]
        /\ deleted[m] = 0 /\ deleted'[m] = 1
        /\ \A n \in Msg \ {m} : deleted'[n] = deleted[n]
    BY <1>2, <1>3, <1>5, <1>6, DeletedOnce DEF IInv, Place, Rest, End
  <2>2. EndOK'
    BY <2>1 DEF IInv, EndOK
  <2>3. Spares(m)
    BY <1>4, <1>6, <2>1 DEF Spares
  <2>4. \A n \in Msg, p \in Place : At(n, p)' <=> IF n = m THEN p = "deleted" ELSE At(n, p)
    <3>1. \A n \in Msg : /\ At(n, "deleted")' <=> (At(n, "deleted") \/ n = m)
                         /\ At(n, "tq")' <=> (At(n, "tq") /\ n # m)
      BY <1>1, <1>6, <2>1, AtPlace, AtPlaceNext
    <3>2. \A n \in Msg, p \in Place \ {"deleted", "tq"} : At(n, p)' <=> At(n, p)
      BY AtPlace, AtPlaceNext DEF Place, Rest, End
    <3> QED
      BY <1>5, <3>1, <3>2
  <2>5. OwnerOK' /\ Stay(m)
    BY <1>2, <1>5, <2>4, OwnerMoves DEF IInv, Place, Rest, End
  <2>6. \A n \in Msg : n = m => IF del THEN At(n, "deleted")' ELSE At(n, "tq")'
    BY <1>6, <2>4 DEF Place, Rest, End
  <2> QED
    BY <1>1, <1>2, <2>2, <2>3, <2>5, <2>6 DEF m, id
<1>7. CASE ~del
  <2>1. deleted' = deleted
    BY <1>3, <1>7
  <2>2. EndOK' /\ Spares(m)
    BY <2>1 DEF IInv, EndOK, Spares
  <2>3. \A n \in Msg, p \in Place : At(n, p)' <=> At(n, p)
    <3>1. \A n \in Msg : At(n, "tq")' <=> At(n, "tq")
      BY <1>1, <1>7, AtPlace, AtPlaceNext
    <3>2. \A n \in Msg, p \in Place \ {"tq"} : At(n, p)' <=> At(n, p)
      BY <2>1, AtPlace, AtPlaceNext DEF Place, Rest, End
    <3> QED
      BY <3>1, <3>2
  <2>4. OwnerOK' /\ Stay(m)
    BY <2>3, OwnerStays DEF IInv
  <2>5. \A n \in Msg : n = m => IF del THEN At(n, "deleted")' ELSE At(n, "tq")'
    BY <1>5, <1>7, <2>3 DEF Place, Rest
  <2> QED
    BY <1>1, <1>2, <2>2, <2>4, <2>5 DEF m, id
<1> QED
  BY <1>6, <1>7

LEMMA LinkWritten ==
    ASSUME LinkOK, NEW a \in Adapter, NEW id \in Id, NEW m \in Msg,
           \E rest \in BOOLEAN : Write(a, id, m, rest),
           UNCHANGED <<conn, up>>, req' \in [Adapter -> Msg \cup {None}]
    PROVE  LinkOK'
<1>1. PICK rest \in BOOLEAN : Write(a, id, m, rest)
  OBVIOUS
<1> QED
  BY <1>1, WriteLemma DEF LinkOK

LEMMA LinkClosed ==
    ASSUME LinkOK, NEW a \in Adapter, Close({a}, conn), UNCHANGED <<req, sent>>,
           \E b \in BOOLEAN : up' = [up EXCEPT ![a] = b]
    PROVE  LinkOK'
<1>1. {a} \in SUBSET Adapter /\ conn \in [Adapter -> ConnState]
  BY DEF LinkOK
<1>2. /\ conn' \in [Adapter -> ConnState] /\ buf' \in [Adapter -> Id]
      /\ peer' \in [Adapter -> SUBSET (Id \X Msg)]
  BY <1>1, CloseLemma
<1> QED
  BY <1>2 DEF LinkOK

LEMMA DoInvokeOneStep ==
    ASSUME IInv, NEW a \in Adapter, DoInvokeOne(a)
    PROVE  IInv'
<1> DEFINE id == NextSend(tq[a])
           m  == tq[a].data[id].ptr
<1>1. /\ HasUnsent(tq[a]) /\ ~serial /\ net = InDoInvoke(a)
      /\ UNCHANGED <<pc, cur, serial, loopq, armed, valid, proxys>>
      /\ UNCHANGED <<reqq, kind, status, adapter, begin, woken, asyncq, fate, now>>
  BY DEF DoInvokeOne, userVars, handOver, regVars, msgVars
<1>2. LoopOK' /\ WaitOK' /\ MsgOK' /\ (req' = req => ReqOK')
  BY <1>1 DEF IInv, LoopOK, WaitOK, MsgOK, ReqOK, Called
<1>3. Idle \in NetState /\ net \in NetState
  BY NetStates DEF IInv, NetOK
<1>4. CASE /\ CanWrite(a, conn)
           /\ tq' = [tq EXCEPT ![a] = PopSend(@, kind[m] = "ONEWAY")]
           /\ IF kind[m] = "ONEWAY" THEN Delete(m) ELSE UNCHANGED deleted
           /\ \E rest \in BOOLEAN :
                /\ Write(a, id, m, rest)
                /\ net' = IF rest THEN Idle ELSE net
           /\ UNCHANGED <<conn, req, up>>
  <2> DEFINE del == kind[m] = "ONEWAY"
  <2>0. del \in BOOLEAN /\ tq' = [tq EXCEPT ![a] = PopSend(@, del)]
        /\ IF del THEN Delete(m) ELSE UNCHANGED deleted
    BY <1>4
  <2>1. /\ TableOK' /\ EndOK' /\ OwnerOK' /\ m \in Msg /\ Spares(m)
    BY <1>1, <2>0, SendStep
  <2>2. id \in Id
    <3>1. QueueOK(tq[a]) /\ Ids(tq[a]) \subseteq Id
      BY TableFacts DEF IInv
    <3> QED
      BY <1>1, <3>1, NextSendLemma
  <2> HIDE DEF m, id, del
  <2>3. LinkOK'
    BY <1>4, <2>1, <2>2, LinkWritten DEF IInv, LinkOK
  <2>4. NetOK'
    BY <1>1, <1>3, <1>4 DEF IInv, NetOK
  <2> QED
    BY <1>1, <1>2, <1>4, <2>1, <2>3, <2>4, MoveStep
<1>5. CASE /\ net' = Idle
           /\ UNCHANGED <<tq, linkVars, deleted>>
  <2>1. LinkOK' /\ NetOK'
    BY <1>1, <1>3, <1>5 DEF IInv, LinkOK, NetOK, linkVars
  <2> QED
    BY <1>1, <1>5, <2>1, QuietStep DEF IInv, UserOK, msgVars, endVars, linkVars
<1>6. CASE /\ Close({a}, conn)
           /\ up' = [up EXCEPT ![a] = FALSE]
           /\ net' = Idle
           /\ UNCHANGED <<tq, req, sent, deleted>>
  <2>1. LinkOK'
    BY <1>6, LinkClosed DEF IInv
  <2>2. NetOK'
    BY <1>1, <1>3, <1>6 DEF IInv, NetOK
  <2> QED
    BY <1>1, <1>6, <2>1, <2>2, QuietStep DEF IInv, UserOK, msgVars, endVars
<1> QED
  BY <1>4, <1>5, <1>6 DEF DoInvokeOne

LEMMA DoInvokeSerialStep ==
    ASSUME IInv, NEW a \in Adapter, DoInvokeSerial(a)
    PROVE  IInv'
<1> DEFINE id == NextSend(tq[a])
           m  == tq[a].data[id].ptr
<1>1. /\ serial /\ net' = Idle
      /\ UNCHANGED <<pc, cur, serial, loopq, armed, valid, proxys, reqq, kind, status>>
      /\ UNCHANGED <<adapter, begin, woken, asyncq, fate, deleted, now>>
  BY DEF DoInvokeSerial, userVars, handOver, regVars, msgVars, endVars
<1>2. LoopOK' /\ WaitOK' /\ MsgOK' /\ NetOK'
  BY <1>1, NetStates DEF IInv, LoopOK, WaitOK, MsgOK, NetOK, Called
<1>3. CASE /\ HasUnsent(tq[a])
           /\ tq' = [tq EXCEPT ![a] = PopSend(@, FALSE)]
           /\ req' = [req EXCEPT ![a] = m]
           /\ \E rest \in BOOLEAN : Write(a, id, m, rest)
           /\ UNCHANGED <<conn, up>>
  <2>1. id \in Ids(tq[a]) /\ m \in Msg /\ Ids(tq[a]) \subseteq Id
    <3>1. QueueOK(tq[a]) /\ Ids(tq[a]) \subseteq Id /\ \A i \in Ids(tq[a]) : tq[a].data[i].ptr \in Msg
      BY TableFacts DEF IInv
    <3>2. id \in Ids(tq[a])
      BY <1>3, <3>1, NextSendLemma
    <3> QED
      BY <3>1, <3>2
  <2>2. kind[m] # "ONEWAY"
    <3>1. At(m, "tq") /\ "tq" \in Place
      BY <2>1, AtPlace DEF Place, Rest, InTable
    <3>2. Called(m)
      BY <2>1, <3>1, OwnerOnly DEF IInv
    <3> QED
      BY <1>1, <2>1, <3>2 DEF IInv, MsgOK
  <2>3. /\ TableOK' /\ EndOK' /\ OwnerOK' /\ Spares(m)
        /\ \A n : \A b \in Adapter : InTable(n, b)' <=> InTable(n, b)
    <3>1. /\ TableOK' /\ EndOK' /\ OwnerOK' /\ Spares(m)
          /\ ~FALSE => \A n : \A b \in Adapter : InTable(n, b)' <=> InTable(n, b)
      BY <1>1, <1>3, <2>2, SendStep
    <3> QED
      BY <3>1
  <2>4. InTable(m, a)
    BY <2>1 DEF InTable
  <2> HIDE DEF m, id
  <2>5. req' \in [Adapter -> Msg \cup {None}]
    BY <1>3, <2>1 DEF IInv, LinkOK
  <2>6. LinkOK'
    BY <1>3, <2>1, <2>5, LinkWritten DEF IInv
  <2>7. ReqOK'
    <3>1. ASSUME NEW b \in Adapter, NEW n \in Msg, req'[b] = n
          PROVE  serial /\ InTable(n, b)'
      <4>1. CASE b = a
        BY <1>1, <1>3, <2>3, <2>4, <3>1, <4>1 DEF IInv, LinkOK
      <4>2. CASE b # a
        BY <1>1, <1>3, <2>3, <3>1, <4>2, ConstantsOK DEF IInv, LinkOK, ReqOK
      <4> QED
        BY <4>1, <4>2
    <3> QED
      BY <1>1, <2>5, <3>1, ReqIntro
  <2> QED
    BY <1>1, <1>2, <2>1, <2>3, <2>6, <2>7, MoveStep
<1>4. CASE /\ Close({a}, conn)
           /\ up' = [up EXCEPT ![a] = FALSE]
           /\ UNCHANGED <<tq, req, sent>>
  <2>1. LinkOK'
    BY <1>4, LinkClosed DEF IInv
  <2> QED
    BY <1>1, <1>2, <1>4, <2>1, QuietStep DEF IInv, UserOK, msgVars, endVars
<1>5. CASE UNCHANGED <<tq, linkVars>>
  <2>1. LinkOK' /\ req' = req
    BY <1>5 DEF IInv, LinkOK, linkVars
  <2> QED
    BY <1>1, <1>2, <1>5, <2>1, QuietStep DEF IInv, UserOK, msgVars, endVars
<1> QED
  BY <1>3, <1>4, <1>5 DEF DoInvokeSerial

LEMMA RunCallbackStep ==
    ASSUME IInv, RunCallback
    PROVE  IInv' /\ Stay(Head(asyncq))
<1> DEFINE m == Head(asyncq)
<1>1. /\ asyncq # <<>> /\ Delete(m) /\ asyncq' = Tail(asyncq)
      /\ UNCHANGED <<pc, cur, serial, loopq, armed, net, valid, proxys, reqq, tq, conn, req>>
      /\ UNCHANGED <<buf, peer, up, sent, kind, status, adapter, begin, woken, now>>
      /\ fate' = [fate EXCEPT ![m] = "ran"]
  BY DEF RunCallback, userVars, handOver, regVars, linkVars, msgVars
<1>2. /\ m \in Msg /\ m \in Elements(asyncq) /\ kind[m] = "ASYNC"
      /\ asyncq' \in Seq(Msg) /\ Distinct(asyncq')
      /\ Elements(asyncq') = Elements(asyncq) \ {m}
  BY <1>1, TailLemma DEF IInv, EndOK
<1> HIDE DEF m
<1>3. Called(m) /\ At(m, "asyncq") /\ \A p \in Place \ {"asyncq"} : ~At(m, p)
  <2>1. At(m, "asyncq") /\ "asyncq" \in Place
    BY <1>2, AtPlace DEF Place, Rest, End
  <2> QED
    BY <1>2, <2>1, OwnerOnly DEF IInv
<1>4. /\ deleted' \in [Msg -> 0 .. 1]
      /\ deleted[m] = 0 /\ deleted'[m] = 1
      /\ \A n \in Msg \ {m} : deleted'[n] = deleted[n]
  BY <1>1, <1>2, <1>3, DeletedOnce DEF IInv, Place, Rest, End
<1>5. EndOK' /\ Spares(m)
  BY <1>1, <1>2, <1>4 DEF IInv, EndOK, Spares
<1>6. NetOK' /\ LinkOK' /\ MsgOK' /\ LoopOK' /\ WaitOK'
  BY <1>1 DEF IInv, NetOK, LinkOK, MsgOK, LoopOK, WaitOK, Called
<1>7. TableOK' /\ ReqOK'
  BY <1>1 DEF IInv, TableOK, ReqOK, InTable
<1>8. OwnerOK' /\ Stay(m)
  <2>1. \A n \in Msg, p \in Place : At(n, p)' <=> IF n = m THEN p = "deleted" ELSE At(n, p)
    <3>1. \A n \in Msg : /\ At(n, "deleted")' <=> (At(n, "deleted") \/ n = m)
                         /\ At(n, "asyncq")' <=> (At(n, "asyncq") /\ n # m)
      BY <1>2, <1>4, AtPlace, AtPlaceNext
    <3>2. \A n \in Msg, p \in Place \ {"deleted", "asyncq", "lost"} : At(n, p)' <=> At(n, p)
      BY <1>1, AtPlace, AtPlaceNext DEF Place, Rest, End, InTable
    <3>3. fate[m] \notin Lost
      BY <1>3, AtPlace DEF Place, Rest, End
    <3>4. \A n \in Msg : fate'[n] \in Lost <=> fate[n] \in Lost
      BY <1>1, <1>2, <3>3 DEF IInv, EndOK, Lost
    <3>5. \A n \in Msg : At(n, "lost")' <=> At(n, "lost")
      BY <3>4, AtPlace, AtPlaceNext
    <3> QED
      BY <1>3, <3>1, <3>2, <3>5
  <2> QED
    BY <1>1, <1>2, <1>3, <2>1, OwnerMoves DEF IInv, Place, Rest, End
<1> QED
  BY <1>1, <1>2, <1>5, <1>6, <1>7, <1>8, MoveStep DEF m

\* Events of the connections, the timer, the registry and the clock, and the
\* notify events of the threads, move no call.
LEMMA NetQuietStep ==
    ASSUME IInv, UNCHANGED <<userVars, loopq, reqq, tq, req, sent, msgVars, endVars>>,
           net' \in NetState, now' \in 0 .. MaxNow, valid' \in BOOLEAN,
           proxys' \subseteq Adapter, armed' \subseteq Thread,
           conn' \in [Adapter -> ConnState], buf' \in [Adapter -> Id],
           peer' \in [Adapter -> SUBSET (Id \X Msg)], up' \in [Adapter -> BOOLEAN]
    PROVE  IInv'
<1>1. NetOK' /\ LinkOK'
  BY DEF IInv, NetOK, LinkOK
<1> QED
  BY <1>1, QuietStep DEF IInv, UserOK, userVars

LEMMA QuietActions ==
    ASSUME IInv,
           \/ \E t \in Thread : Notify(t) \/ EnterNotify(t) \/ LeaveNotify(t) \/ BreakNotify(t)
           \/ \E a \in Adapter : \/ ConnectDone(a) \/ DoInvokeDone(a) \/ Writable(a) \/ LinkDown(a)
                                 \/ \E via \in Adapter : PrepareDone(a, via)
           \/ EnterTimeout \/ LeaveTimeout
           \/ RegistryAnswers \/ RegistryGivesUp \/ RegistryUpdates
           \/ Tick
    PROVE  IInv'
<1> USE DEF handOver, regVars, linkVars
<1>0. /\ net \in NetState /\ now \in 0 .. MaxNow /\ valid \in BOOLEAN /\ proxys \subseteq Adapter
      /\ armed \subseteq Thread /\ conn \in [Adapter -> ConnState] /\ buf \in [Adapter -> Id]
      /\ peer \in [Adapter -> SUBSET (Id \X Msg)] /\ up \in [Adapter -> BOOLEAN]
      /\ {"closed", "connecting", "connected"} = ConnState /\ 0 \in Id
  BY IdSpaceAssumption DEF IInv, NetOK, LinkOK, ConnState, Id
<1>1. ASSUME NEW t \in Thread, Notify(t) PROVE IInv'
  <2>1. NetOK' /\ LinkOK'
    BY <1>1 DEF Notify, IInv, NetOK, LinkOK
  <2> QED
    BY <1>1, <2>1, QuietStep DEF Notify, IInv, UserOK
<1>2. ASSUME NEW t \in Thread, EnterNotify(t) \/ LeaveNotify(t) \/ BreakNotify(t) PROVE IInv'
  BY <1>0, <1>2, NetStates, NetQuietStep DEF EnterNotify, LeaveNotify, BreakNotify
<1>3. ASSUME NEW a \in Adapter, ConnectDone(a) PROVE IInv'
  BY <1>0, <1>3, NetStates, NetQuietStep DEF ConnectDone
<1>4. ASSUME NEW a \in Adapter, DoInvokeDone(a) PROVE IInv'
  BY <1>0, <1>4, NetStates, NetQuietStep DEF DoInvokeDone
<1>5. ASSUME NEW a \in Adapter, Close({a}, conn),
             \E b \in BOOLEAN : up' = [up EXCEPT ![a] = b],
             UNCHANGED <<userVars, loopq, armed, net, valid, proxys, reqq, tq, req, sent>>,
             UNCHANGED <<msgVars, endVars, now>>
      PROVE  IInv'
  <2>1. {a} \in SUBSET Adapter
    OBVIOUS
  <2>2. /\ conn' \in [Adapter -> ConnState] /\ buf' \in [Adapter -> Id]
        /\ peer' \in [Adapter -> SUBSET (Id \X Msg)]
    BY <1>0, <1>5, <2>1, CloseLemma DEF IInv
  <2> QED
    BY <1>0, <1>5, <2>2, NetQuietStep
<1>6. ASSUME NEW a \in Adapter, Writable(a) PROVE IInv'
  <2>1. CASE /\ buf' = [buf EXCEPT ![a] = 0]
             /\ net' = InDoInvoke(a)
             /\ UNCHANGED <<conn, peer, up>>
    BY <1>0, <1>6, <2>1, NetStates, NetQuietStep DEF Writable
  <2>2. CASE /\ Close({a}, conn)
             /\ up' = [up EXCEPT ![a] = FALSE]
             /\ UNCHANGED net
    BY <1>5, <1>6, <2>2 DEF Writable
  <2> QED
    BY <1>6, <2>1, <2>2 DEF Writable
<1>7. ASSUME NEW a \in Adapter, LinkDown(a) PROVE IInv'
  <2>1. {up[a], FALSE} \subseteq BOOLEAN
    BY <1>0
  <2> QED
    BY <1>5, <1>7, <2>1 DEF LinkDown
<1>8. ASSUME NEW a \in Adapter, NEW via \in Adapter, PrepareDone(a, via) PROVE IInv'
  <2>1. conn' \in [Adapter -> ConnState]
    BY <1>0, <1>8, StartConnectType DEF PrepareDone
  <2> QED
    BY <1>0, <1>8, <2>1, NetStates, NetQuietStep DEF PrepareDone
<1>9. ASSUME EnterTimeout \/ LeaveTimeout PROVE IInv'
  BY <1>0, <1>9, NetStates, NetQuietStep DEF EnterTimeout, LeaveTimeout
<1>10. ASSUME RegistryAnswers PROVE IInv'
  <2>1. conn' \in [Adapter -> ConnState] /\ proxys' \subseteq Adapter
    BY <1>0, <1>10, StartConnectType, ConstantsOK DEF RegistryAnswers
  <2> QED
    BY <1>0, <1>10, <2>1, NetQuietStep DEF RegistryAnswers
<1>11. ASSUME RegistryGivesUp \/ RegistryUpdates PROVE IInv'
  <2>1. proxys' \subseteq Adapter
    BY <1>0, <1>11, ConstantsOK DEF RegistryGivesUp, RegistryUpdates
  <2> QED
    BY <1>0, <1>11, <2>1, NetQuietStep DEF RegistryGivesUp, RegistryUpdates
<1>12. ASSUME Tick PROVE IInv'
  <2>1. now' \in 0 .. MaxNow
    BY <1>0, <1>12, ConstantsOK DEF Tick
  <2> QED
    BY <1>0, <1>12, <2>1, NetQuietStep DEF Tick
<1> QED
  BY <1>1, <1>2, <1>3, <1>4, <1>6, <1>7, <1>8, <1>9, <1>10, <1>11, <1>12

LEMMA InitIInv == Init => IInv
<1> SUFFICES ASSUME Init PROVE IInv
  OBVIOUS
<1>1. /\ \A t \in Thread : loopq[t] = <<>>
      /\ reqq = <<>> /\ asyncq = <<>> /\ woken = {}
      /\ \A a \in Adapter : tq[a] = EmptyQueue /\ req[a] = None
      /\ \A m \in Msg : begin[m] = None /\ deleted[m] = 0 /\ fate[m] \notin Lost
      /\ Elements(<<>>) = {} /\ Distinct(<<>>)
  BY DEF Init, Elements, Distinct, Lost
<1>2. 0 \in 0 .. MaxNow /\ 0 \in Id
  BY ConstantsOK, IdSpaceAssumption DEF Id
<1>3. NetOK /\ LinkOK
  BY <1>2, NetStates DEF Init, NetOK, LinkOK, ConnState
<1>4. MsgOK /\ UserOK
  BY <1>1 DEF Init, MsgOK, UserOK, Called
<1>5. LoopOK /\ WaitOK /\ EndOK
  BY <1>1 DEF Init, LoopOK, WaitOK, EndOK
<1>6. TableOK
  <2>1. EmptyQueue \in Queue /\ QueueOK(EmptyQueue) /\ Ids(EmptyQueue) = {}
    BY EmptyQueueLemma DEF QueueOK
  <2>2. tq \in [Adapter -> Queue]
    BY <2>1 DEF Init
  <2> QED
    BY <1>1, <2>1, <2>2 DEF TableOK
<1>7. OwnerOK
  <2>1. \A m : \A a \in Adapter : ~InTable(m, a)
    BY <1>1, EmptyQueueLemma DEF InTable
  <2>2. \A m \in Msg, p \in Place : ~At(m, p)
    BY <1>1, <2>1, AtPlace DEF Place, Rest, End
  <2> QED
    BY <1>1, <2>2 DEF OwnerOK, Called
<1>8. ReqOK /\ SyncMsgOutlivesWait
  BY <1>1 DEF Init, ReqOK, SyncMsgOutlivesWait
<1> QED
  BY <1>3, <1>4, <1>5, <1>6, <1>7, <1>8 DEF IInv

LEMMA NextIInv == IInv /\ [Next]_vars => IInv'
<1> SUFFICES ASSUME IInv, [Next]_vars PROVE IInv'
  OBVIOUS
<1>1. CASE \E t \in Thread : UserStep(t)
  <2>1. PICK t \in Thread : (\E m \in Msg : Call(t, m)) \/ Notify(t) \/ WakeUp(t)
    BY <1>1 DEF UserStep
  <2> QED
    BY <2>1, CallStep, WakeUpStep, QuietActions
<1>2. CASE \E t \in Thread : NotifyStep(t)
  <2>1. PICK t \in Thread : EnterNotify(t) \/ NotifyPop(t) \/ LeaveNotify(t) \/ BreakNotify(t)
    BY <1>2 DEF NotifyStep
  <2> QED
    BY <2>1, NotifyPopStep, QuietActions
<1>3. CASE \E a \in Adapter : SocketStep(a)
  <2>1. PICK a \in Adapter : SocketStep(a)
    BY <1>3
  <2>2. CASE ConnectDone(a) \/ DoInvokeDone(a) \/ Writable(a) \/ LinkDown(a)
    BY <2>2, QuietActions
  <2>3. CASE DoInvokeOne(a) \/ DoInvokeSerial(a) \/ Respond(a) \/ RespondSerial(a)
    BY <2>3, DoInvokeOneStep, DoInvokeSerialStep, RespondStep, RespondSerialStep
  <2>4. CASE \E via \in Adapter : PrepareOne(a, via) \/ PrepareDone(a, via)
    BY <2>4, PrepareOneStep, QuietActions
  <2> QED
    BY <2>1, <2>2, <2>3, <2>4 DEF SocketStep
<1>4. CASE TimerStep
  BY <1>4, TimeoutAdapterStep, TimeoutWaitingStep, QuietActions DEF TimerStep
<1>5. CASE RegistryAnswers \/ RegistryGivesUp \/ RegistryUpdates \/ RunCallback \/ Tick
  BY <1>5, RunCallbackStep, QuietActions
<1>6. CASE UNCHANGED vars
  <2>1. NetOK' /\ LinkOK'
    BY <1>6 DEF vars, handOver, regVars, linkVars, IInv, NetOK, LinkOK
  <2> QED
    BY <1>6, <2>1, QuietStep DEF vars, userVars, handOver, linkVars, IInv, UserOK
<1> QED
  BY <1>1, <1>2, <1>3, <1>4, <1>5, <1>6 DEF Next

LEMMA Inductive == Spec => []IInv
BY InitIInv, NextIInv, PTL DEF Spec

-----------------------------------------------------------------------------
(* What the invariant says of the properties.                               *)

LEMMA IInvTypes == IInv => TypeOK
<1> SUFFICES ASSUME IInv PROVE TypeOK
  OBVIOUS
<1>1. \A i \in DOMAIN reqq : reqq[i] \in [msg : Msg, deadline : Deadline]
  <2>1. reqq \in Seq(Waiting)
    BY DEF IInv, WaitOK
  <2>2. \A i \in DOMAIN reqq : reqq[i] \in Waiting
    BY <2>1
  <2> QED
    BY <2>2 DEF Waiting
<1>2. \A a \in Adapter : /\ tq[a].uniqId \in Id
                         /\ \A i \in Ids(tq[a]) : i \in Id /\ tq[a].data[i] \in Entry
                         /\ tq[a].time \subseteq Deadline \X Id
                         /\ Unsent(tq[a]) \subseteq Id
  <2> SUFFICES ASSUME NEW a \in Adapter
               PROVE  /\ tq[a].uniqId \in Id
                      /\ \A i \in Ids(tq[a]) : i \in Id /\ tq[a].data[i] \in Entry
                      /\ tq[a].time \subseteq Deadline \X Id
                      /\ Unsent(tq[a]) \subseteq Id
    OBVIOUS
  <2>1. tq[a] \in Queue
    BY TableFacts DEF IInv
  <2>2. Unsent(tq[a]) \subseteq Id
    BY <2>1, QueueShape, ElementsType DEF Unsent
  <2> QED
    BY <2>1, <2>2, QueueShape
<1> QED
  BY <1>1, <1>2 DEF IInv, NetOK, LinkOK, MsgOK, UserOK, LoopOK, EndOK, ConnState, TypeOK

\* Every variable of the client keeps its type, and no request is deleted
\* twice, for every number of threads, endpoints and calls.
THEOREM ClientTypes == Spec => []TypeOK
BY Inductive, IInvTypes, PTL

\* While a synchronous caller has not left its call, nobody deletes the
\* message it goes on reading.
THEOREM SyncMsgLives == Spec => []SyncMsgOutlivesWait
<1>1. IInv => SyncMsgOutlivesWait
  BY DEF IInv
<1> QED
  BY <1>1, Inductive, PTL
-----------------------------------------------------------------------------
(* OneOwner: the place of a call holds it once.                             *)

LEMMA PositionLemma ==
    ASSUME NEW s, NEW m, Distinct(s)
    PROVE  /\ m \in Elements(s) => \E k : Positions(s, m) = {k}
           /\ m \notin Elements(s) => Positions(s, m) = {}
<1>1. ASSUME m \in Elements(s) PROVE \E k : Positions(s, m) = {k}
  <2>1. PICK k \in DOMAIN s : s[k] = m
    BY <1>1 DEF Elements
  <2>2. \A j \in DOMAIN s : s[j] = m => j = k
    BY <2>1 DEF Distinct
  <2>3. Positions(s, m) = {k}
    BY <2>1, <2>2 DEF Positions
  <2> QED
    BY <2>3
<1>2. m \notin Elements(s) => Positions(s, m) = {}
  BY DEF Elements, Positions
<1> QED
  BY <1>1, <1>2

\* One part of Holders for every place; nothing holds a call that is lost.
HolderAt(m, p) ==
    CASE p = "loopq" -> UNION {{<<"loopq", t, k>> : k \in Positions(loopq[t], m)} : t \in Thread}
      [] p = "reqq" -> {<<"reqq", k>> : k \in {j \in DOMAIN reqq : reqq[j].msg = m}}
      [] p = "tq" -> UNION {{<<"tq", a, i>> : i \in {j \in Ids(tq[a]) : tq[a].data[j].ptr = m}} :
                               a \in Adapter}
      [] p = "woken" -> {<<"woken">> : x \in woken \cap {m}}
      [] p = "asyncq" -> {<<"asyncq", k>> : k \in Positions(asyncq, m)}
      [] p = "deleted" -> {<<"deleted", k>> : k \in 1 .. deleted[m]}
      [] OTHER -> {}

LEMMA HolderLemma ==
    ASSUME IInv, NEW m \in Msg, NEW p \in Place
    PROVE  /\ At(m, p) /\ p # "lost" => \E h : HolderAt(m, p) = {h}
           /\ ~At(m, p) \/ p = "lost" => HolderAt(m, p) = {}
<1> USE DEF IInv
<1>1. CASE p = "loopq"
  <2> DEFINE H(t) == {<<"loopq", t, k>> : k \in Positions(loopq[t], m)}
  <2>1. HolderAt(m, p) = UNION {H(t) : t \in Thread}
    BY <1>1 DEF HolderAt
  <2>2. \A t \in Thread : /\ m \in Elements(loopq[t]) => \E h : H(t) = {h}
                          /\ m \notin Elements(loopq[t]) => H(t) = {}
    <3>1. TAKE t \in Thread
    <3>2. Distinct(loopq[t])
      BY DEF LoopOK
    <3>3. CASE m \in Elements(loopq[t])
      <4>1. PICK k : Positions(loopq[t], m) = {k}
        BY <3>2, <3>3, PositionLemma
      <4>2. H(t) = {<<"loopq", t, k>>}
        BY <4>1
      <4> QED
        BY <3>3, <4>2
    <3>4. CASE m \notin Elements(loopq[t])
      <4>1. Positions(loopq[t], m) = {}
        BY <3>2, <3>4, PositionLemma
      <4> QED
        BY <3>4, <4>1
    <3> QED
      BY <3>3, <3>4
  <2>3. \A t, u \in Thread : m \in Elements(loopq[t]) /\ m \in Elements(loopq[u]) => t = u
    BY DEF LoopOK
  <2>4. At(m, p) <=> \E t \in Thread : m \in Elements(loopq[t])
    BY <1>1, AtPlace
  <2> HIDE DEF H
  <2>5. ASSUME NEW t \in Thread, m \in Elements(loopq[t]) PROVE HolderAt(m, p) = H(t)
    <3>1. \A u \in Thread : u = t \/ H(u) = {}
      BY <2>2, <2>3, <2>5
    <3> QED
      BY <2>1, <3>1
  <2>6. CASE At(m, p)
    BY <1>1, <2>2, <2>4, <2>5, <2>6
  <2>7. CASE ~At(m, p)
    <3>1. \A t \in Thread : H(t) = {}
      BY <2>2, <2>4, <2>7
    <3> QED
      BY <2>1, <2>7, <3>1
  <2> QED
    BY <2>6, <2>7
<1>2. CASE p = "reqq"
  <2> DEFINE D == {j \in DOMAIN reqq : reqq[j].msg = m}
  <2>1. HolderAt(m, p) = {<<"reqq", k>> : k \in D}
    BY <1>2 DEF HolderAt
  <2>2. \A j, k \in D : j = k
    <3>1. TAKE j, k \in D
    <3>2. reqq[j] \in Elements(reqq) /\ reqq[k] \in Elements(reqq) /\ reqq[j].msg = reqq[k].msg
      BY DEF Elements
    <3>3. reqq[j] = reqq[k]
      BY <3>2 DEF WaitOK
    <3> QED
      BY <3>3 DEF WaitOK, Distinct
  <2>3. At(m, p) <=> D # {}
    BY <1>2, AtPlace DEF Elements
  <2> HIDE DEF D
  <2>4. CASE D = {}
    BY <2>1, <2>3, <2>4
  <2>5. ASSUME NEW k \in D PROVE HolderAt(m, p) = {<<"reqq", k>>}
    BY <2>1, <2>2, <2>5
  <2> QED
    BY <1>2, <2>3, <2>4, <2>5
<1>3. CASE p = "tq"
  <2> DEFINE D(a) == {j \in Ids(tq[a]) : tq[a].data[j].ptr = m}
             H(a) == {<<"tq", a, i>> : i \in D(a)}
  <2>1. HolderAt(m, p) = UNION {H(a) : a \in Adapter}
    BY <1>3 DEF HolderAt
  <2>2. \A a, b \in Adapter : \A i \in D(a), j \in D(b) : a = b /\ i = j
    BY DEF TableOK
  <2>3. At(m, p) <=> \E a \in Adapter : D(a) # {}
    BY <1>3, AtPlace DEF InTable
  <2> HIDE DEF D
  <2>4. ASSUME NEW a \in Adapter, NEW i \in D(a) PROVE HolderAt(m, p) = {<<"tq", a, i>>}
    <3>1. H(a) = {<<"tq", a, i>>}
      BY <2>2, <2>4
    <3>2. \A b \in Adapter : b = a \/ H(b) = {}
      BY <2>2, <2>4
    <3> QED
      BY <2>1, <2>4, <3>1, <3>2
  <2>5. CASE \A a \in Adapter : D(a) = {}
    BY <2>1, <2>3, <2>5
  <2> QED
    BY <1>3, <2>3, <2>4, <2>5
<1>4. CASE p = "woken"
  <2>1. HolderAt(m, p) = {<<"woken">> : x \in woken \cap {m}}
    BY <1>4 DEF HolderAt
  <2>2. CASE m \in woken
    <3>1. HolderAt(m, p) = {<<"woken">>}
      BY <2>1, <2>2
    <3> QED
      BY <1>4, <2>2, <3>1, AtPlace
  <2>3. CASE m \notin woken
    <3>1. HolderAt(m, p) = {}
      BY <2>1, <2>3
    <3> QED
      BY <1>4, <2>3, <3>1, AtPlace
  <2> QED
    BY <2>2, <2>3
<1>5. CASE p = "asyncq"
  <2>1. HolderAt(m, p) = {<<"asyncq", k>> : k \in Positions(asyncq, m)}
    BY <1>5 DEF HolderAt
  <2>2. /\ m \in Elements(asyncq) => \E k : Positions(asyncq, m) = {k}
        /\ m \notin Elements(asyncq) => Positions(asyncq, m) = {}
    BY PositionLemma DEF EndOK
  <2>3. At(m, p) <=> m \in Elements(asyncq)
    BY <1>5, AtPlace
  <2>4. CASE m \in Elements(asyncq)
    <3>1. PICK k : Positions(asyncq, m) = {k}
      BY <2>2, <2>4
    <3>2. HolderAt(m, p) = {<<"asyncq", k>>}
      BY <2>1, <3>1
    <3> QED
      BY <1>5, <2>3, <2>4, <3>2
  <2>5. CASE m \notin Elements(asyncq)
    BY <2>1, <2>2, <2>3, <2>5
  <2> QED
    BY <2>4, <2>5
<1>6. CASE p = "deleted"
  <2>1. HolderAt(m, p) = {<<"deleted", k>> : k \in 1 .. deleted[m]}
    BY <1>6 DEF HolderAt
  <2>2. deleted[m] \in {0, 1}
    BY DEF EndOK
  <2>3. 1 .. 0 = {} /\ 1 .. 1 = {1}
    OBVIOUS
  <2>4. At(m, p) <=> deleted[m] = 1
    BY <1>6, AtPlace
  <2>5. CASE deleted[m] = 0
    BY <2>1, <2>3, <2>4, <2>5
  <2>6. CASE deleted[m] = 1
    <3>1. HolderAt(m, p) = {<<"deleted", 1>>}
      BY <2>1, <2>3, <2>6
    <3> QED
      BY <1>6, <2>4, <2>6, <3>1
  <2> QED
    BY <2>2, <2>5, <2>6
<1>7. CASE p = "lost"
  BY <1>7 DEF HolderAt
<1> QED
  BY <1>1, <1>2, <1>3, <1>4, <1>5, <1>6, <1>7 DEF Place, Rest, End

LEMMA HoldersAreParts ==
    ASSUME NEW m
    PROVE  Holders(m) = UNION {HolderAt(m, p) : p \in Place}
<1> DEFINE L == UNION {{<<"loopq", t, k>> : k \in Positions(loopq[t], m)} : t \in Thread}
           W == {<<"reqq", k>> : k \in {j \in DOMAIN reqq : reqq[j].msg = m}}
           T == UNION {{<<"tq", a, i>> : i \in {j \in Ids(tq[a]) : tq[a].data[j].ptr = m}} :
                          a \in Adapter}
           N == {<<"woken">> : x \in woken \cap {m}}
           A == {<<"asyncq", k>> : k \in Positions(asyncq, m)}
           D == {<<"deleted", k>> : k \in 1 .. deleted[m]}
<1>1. Holders(m) = L \cup W \cup T \cup N \cup A \cup D
  BY Zenon DEF Holders
<1>2. /\ HolderAt(m, "loopq") = L /\ HolderAt(m, "reqq") = W /\ HolderAt(m, "tq") = T
      /\ HolderAt(m, "woken") = N /\ HolderAt(m, "asyncq") = A
      /\ HolderAt(m, "deleted") = D /\ HolderAt(m, "lost") = {}
  BY DEF HolderAt
<1> HIDE DEF L, W, T, N, A, D
<1>3. Place = {"loopq", "reqq", "tq", "woken", "asyncq", "deleted", "lost"}
  BY DEF Place, Rest, End
<1> QED
  BY <1>1, <1>2, <1>3

LEMMA HoldersByPlace ==
    ASSUME IInv, NEW m \in Msg
    PROVE  Cardinality(Holders(m)) = IF Called(m) /\ fate[m] \notin Lost THEN 1 ELSE 0
<1>1. ASSUME NEW p \in Place, \A s \in Place : At(m, s) <=> s = p
      PROVE  Cardinality(Holders(m)) = IF p # "lost" THEN 1 ELSE 0
  <2>1. \A s \in Place : s = p \/ HolderAt(m, s) = {}
    BY <1>1, HolderLemma
  <2>2. Holders(m) = HolderAt(m, p)
    BY <2>1, HoldersAreParts
  <2>3. CASE p = "lost"
    BY <2>2, <2>3, HolderLemma, FS_EmptySet
  <2>4. CASE p # "lost"
    <3>1. PICK h : HolderAt(m, p) = {h}
      BY <1>1, <2>4, HolderLemma
    <3> QED
      BY <2>2, <2>4, <3>1, FS_Singleton
  <2> QED
    BY <2>3, <2>4
<1>2. CASE Called(m)
  <2>1. PICK p \in Place : \A s \in Place : At(m, s) <=> s = p
    BY <1>2 DEF IInv, OwnerOK
  <2>2. p = "lost" <=> fate[m] \in Lost
    <3>1. "lost" \in Place
      BY DEF Place, Rest, End
    <3> QED
      BY <2>1, <3>1, AtPlace
  <2> QED
    BY <1>1, <1>2, <2>1, <2>2
<1>3. CASE ~Called(m)
  <2>1. \A s \in Place : HolderAt(m, s) = {}
    BY <1>3, HolderLemma DEF IInv, OwnerOK
  <2>2. Holders(m) = {}
    BY <2>1, HoldersAreParts
  <2> QED
    BY <1>3, <2>2, FS_EmptySet
<1> QED
  BY <1>2, <1>3
-----------------------------------------------------------------------------
(* The calls that are lost are those OneOwner excepts: the fate that is     *)
(* written down at the end of a call says no more than its state does.      *)

FateAt(m) ==
    /\ fate[m] = "thrown" => SendMayThrow
    /\ fate[m] = "onlyLogged" <=> OnlyLogged(m)
    /\ ~Called(m) => status[m] = "REQ"

FateOK == \A m \in Msg : FateAt(m)

\* The step decides about m alone.
Decides(m) ==
    /\ FateAt(m)'
    /\ \A n \in Msg \ {m} : /\ fate'[n] = fate[n] /\ kind'[n] = kind[n]
                           /\ status'[n] = status[n] /\ adapter'[n] = adapter[n]
                           /\ begin'[n] = begin[n]

LEMMA FateDecided ==
    ASSUME FateOK, NEW m \in Msg, Decides(m)
    PROVE  FateOK'
BY DEF Decides, FateOK, FateAt, OnlyLogged, Called

LEMMA FateStays ==
    ASSUME FateOK, UNCHANGED <<fate, kind, status, adapter, begin>>
    PROVE  FateOK'
BY DEF FateOK, FateAt, OnlyLogged, Called

\* AdapterProxy::invoke fails a call or leaves its status as it is, and
\* loses it at most by a hard send.
LEMMA AdapterInvokeFate ==
    ASSUME NEW m, NEW a, NEW c, NEW ok, NEW blame, AdapterInvoke(m, a, c, ok, blame)
    PROVE  /\ status' = status \/ status' = [status EXCEPT ![m] = "EXC"]
           /\ \/ fate' = fate
              \/ SendMayThrow /\ fate' = [fate EXCEPT ![m] = "thrown"]
<1>1. ASSUME NEW isSent, Enqueue(a, m, isSent)
      PROVE  /\ status' = status \/ status' = [status EXCEPT ![m] = "EXC"]
             /\ fate' = fate
  BY <1>1 DEF Enqueue, FinishMsg, endVars
<1>2. FinishMsg(m) => fate' = fate
  BY DEF FinishMsg
<1> QED
  BY <1>1, <1>2 DEF AdapterInvoke

\* A call that is passed to an adapter is no more one without adapter.
LEMMA PassedFate ==
    ASSUME IInv, FateOK, NEW m \in Msg, Called(m), fate[m] \notin Lost, NEW b \in Adapter,
           adapter' = [adapter EXCEPT ![m] = b], UNCHANGED <<kind, begin>>,
           status' = status \/ status' = [status EXCEPT ![m] = "EXC"],
           \/ fate' = fate
           \/ SendMayThrow /\ fate' = [fate EXCEPT ![m] = "thrown"]
    PROVE  FateOK'
<1>1. adapter'[m] # None /\ \A n \in Msg \ {m} : adapter'[n] = adapter[n]
  BY ConstantsOK DEF IInv, MsgOK
<1>2. \A n \in Msg \ {m} : status'[n] = status[n]
  BY DEF IInv, MsgOK
<1>3. /\ \A n \in Msg \ {m} : fate'[n] = fate[n]
      /\ fate'[m] = fate[m] \/ (SendMayThrow /\ fate'[m] = "thrown")
  BY DEF IInv, EndOK
<1>4. Called(m)' /\ ~OnlyLogged(m)'
  BY <1>1 DEF Called, OnlyLogged
<1>5. FateAt(m)'
  BY <1>3, <1>4 DEF FateAt, Lost
<1> QED
  BY <1>1, <1>2, <1>3, <1>5, FateDecided DEF Decides

\* A call that fails without an adapter, or with one.
LEMMA ExceptionFate ==
    ASSUME IInv, FateOK, NEW m \in Msg, Called(m), fate[m] \notin Lost,
           InvokeException(m), UNCHANGED <<kind, begin, adapter>>
    PROVE  FateOK'
<1>1. \A n \in Msg \ {m} : status'[n] = status[n]
  BY DEF InvokeException, IInv, MsgOK
<1>2. CASE kind[m] = "ASYNC" /\ adapter[m] = None
  <2>1. /\ fate'[m] = "onlyLogged" /\ status'[m] = "EXC"
        /\ \A n \in Msg \ {m} : fate'[n] = fate[n]
    BY <1>2 DEF InvokeException, IInv, EndOK, MsgOK
  <2>2. FateAt(m)'
    BY <1>2, <2>1 DEF FateAt, OnlyLogged, Called
  <2> QED
    BY <1>1, <2>1, <2>2, FateDecided DEF Decides
<1>3. CASE ~(kind[m] = "ASYNC" /\ adapter[m] = None)
  <2>1. fate' = fate
    BY <1>3 DEF InvokeException, FinishMsg
  <2>2. FateAt(m)'
    BY <1>3, <2>1 DEF FateAt, FateOK, OnlyLogged, Called, Lost
  <2> QED
    BY <1>1, <2>1, <2>2, FateDecided DEF Decides
<1> QED
  BY <1>2, <1>3

\* An answer or a timeout ends a call of a table.
LEMMA FinishFate ==
    ASSUME IInv, FateOK, NEW a \in Adapter, NEW id \in Ids(tq[a]), NEW m,
           m = tq[a].data[id].ptr, NEW s \in {"RSP", "TIME"},
           status' = [status EXCEPT ![m] = s], FinishMsg(m), UNCHANGED <<kind, begin, adapter>>
    PROVE  FateOK'
<1>1. m \in Msg /\ At(m, "tq") /\ {"tq", "lost"} \subseteq Place
  BY TableFacts, AtPlace DEF IInv, InTable, Place, Rest, End
<1>2. Called(m) /\ fate[m] \notin Lost
  BY <1>1, OwnerOnly, AtPlace DEF IInv
<1>3. fate' = fate
  BY DEF FinishMsg
<1>4. status'[m] = s /\ \A n \in Msg \ {m} : status'[n] = status[n]
  BY <1>1 DEF IInv, MsgOK
<1>5. FateAt(m)'
  BY <1>1, <1>2, <1>3, <1>4 DEF FateAt, FateOK, OnlyLogged, Called, Lost
<1> QED
  BY <1>1, <1>3, <1>4, <1>5, FateDecided DEF Decides

\* The timer's entries belong to the table.
LEMMA ExpiredInTable ==
    ASSUME TableOK, NEW a \in Adapter, NEW id \in Expired(tq[a], now)
    PROVE  id \in Ids(tq[a])
<1>1. tq[a].time = {<<tq[a].data[i].deadline, i>> : i \in Ids(tq[a])}
  BY DEF TableOK, QueueOK, WellFormed, TimeIndexAgrees
<1>2. \E e \in tq[a].time : e[2] = id
  BY DEF Expired
<1> QED
  BY <1>1, <1>2

\* A call taken from one of the queues has not been lost.
LEMMA QueuedFate ==
    ASSUME IInv, NEW m \in Msg, At(m, "loopq") \/ At(m, "reqq") \/ At(m, "asyncq")
    PROVE  Called(m) /\ fate[m] \notin Lost
<1>1. {"loopq", "reqq", "asyncq", "lost"} \subseteq Place
  BY DEF Place, Rest, End
<1> QED
  BY <1>1, OwnerOnly, AtPlace DEF IInv

LEMMA CallFate ==
    ASSUME IInv, FateOK, NEW t \in Thread, NEW m \in Msg, Call(t, m)
    PROVE  FateOK'
<1>1. /\ ~Called(m) /\ UNCHANGED <<status, adapter, fate>>
      /\ \A n \in Msg \ {m} : kind'[n] = kind[n] /\ begin'[n] = begin[n]
      /\ begin'[m] = now
  BY DEF Call, IInv, MsgOK
<1>2. Called(m)'
  BY <1>1, ConstantsOK DEF IInv, NetOK, Called
<1>3. FateAt(m)'
  BY <1>1, <1>2 DEF FateOK, FateAt, OnlyLogged
<1> QED
  BY <1>1, <1>3, FateDecided DEF Decides

LEMMA NotifyPopFate ==
    ASSUME IInv, FateOK, NEW t \in Thread, NotifyPop(t)
    PROVE  FateOK'
<1>1. PICK m \in Msg : m = Head(loopq[t]) /\ m \in Elements(loopq[t])
  BY TailLemma DEF NotifyPop, IInv, LoopOK
<1>2. Called(m) /\ fate[m] \notin Lost
  BY <1>1, AtPlace, QueuedFate
<1>3. UNCHANGED <<kind, begin>> /\ ObjectInvoke(m, InNotify(t, TRUE))
  BY <1>1 DEF NotifyPop
<1>4. CASE UNCHANGED <<status, adapter, endVars>>
  BY <1>3, <1>4, FateStays DEF endVars
<1>5. CASE InvokeException(m) /\ UNCHANGED adapter
  BY <1>2, <1>3, <1>5, ExceptionFate
<1>6. ASSUME NEW choice \in Choices(m), adapter' = [adapter EXCEPT ![m] = choice[1]],
             \/ UNCHANGED <<status, endVars>>
             \/ AdapterInvoke(m, choice[1], choice[2], InNotify(t, TRUE), {})
      PROVE  FateOK'
  <2>1. choice[1] \in Adapter
    <3>1. /\ proxys \subseteq Adapter /\ conn \in [Adapter -> ConnState]
          /\ choice \in HashChoice(m) \cup RoundRobin
      BY <1>6 DEF IInv, LinkOK, NetOK, Choices
    <3> QED
      BY <3>1, ChoiceLemma
  <2>2. /\ status' = status \/ status' = [status EXCEPT ![m] = "EXC"]
        /\ \/ fate' = fate
           \/ SendMayThrow /\ fate' = [fate EXCEPT ![m] = "thrown"]
    BY <1>6, AdapterInvokeFate DEF endVars
  <2> QED
    BY <1>2, <1>3, <1>6, <2>1, <2>2, PassedFate
<1> QED
  BY <1>3, <1>4, <1>5, <1>6 DEF ObjectInvoke

LEMMA PrepareOneFate ==
    ASSUME IInv, FateOK, NEW a \in Adapter, NEW via \in Adapter, PrepareOne(a, via)
    PROVE  FateOK'
<1>1. PICK m \in Msg : m = Head(reqq).msg /\ At(m, "reqq")
  BY WaitTail DEF PrepareOne, IInv
<1>2. Called(m) /\ fate[m] \notin Lost
  BY <1>1, QueuedFate
<1>3. UNCHANGED <<kind, begin>>
  BY DEF PrepareOne
<1>4. \E b \in Adapter : /\ adapter' = [adapter EXCEPT ![m] = b]
                        /\ \E c, ok : AdapterInvoke(m, b, c, ok, {a})
  <2>1. CASE adapter[m] = None /\ Home[m] # None
    <3>1. PICK choice \in HashChoice(m) :
             /\ adapter' = [adapter EXCEPT ![m] = choice[1]]
             /\ AdapterInvoke(m, choice[1], choice[2], InPrepare(a, choice[1]), {a})
      BY <1>1, <2>1 DEF PrepareOne
    <3>2. choice[1] \in Adapter
      BY ChoiceLemma DEF IInv, LinkOK, NetOK
    <3> QED
      BY <3>1, <3>2
  <2>2. CASE ~(adapter[m] = None /\ Home[m] # None)
    <3>1. /\ adapter' = [adapter EXCEPT ![m] = via]
          /\ AdapterInvoke(m, via, conn, InPrepare(a, via), {a})
      BY <1>1, <2>2 DEF PrepareOne
    <3> QED
      BY <3>1
  <2> QED
    BY <2>1, <2>2
<1>5. PICK b \in Adapter : /\ adapter' = [adapter EXCEPT ![m] = b]
                         /\ \E c, ok : AdapterInvoke(m, b, c, ok, {a})
  BY <1>4
<1>6. /\ status' = status \/ status' = [status EXCEPT ![m] = "EXC"]
      /\ \/ fate' = fate
         \/ SendMayThrow /\ fate' = [fate EXCEPT ![m] = "thrown"]
  BY <1>5, AdapterInvokeFate
<1> QED
  BY <1>2, <1>3, <1>5, <1>6, PassedFate

LEMMA AnswerFate ==
    ASSUME IInv, FateOK, NEW a \in Adapter, Respond(a) \/ RespondSerial(a)
    PROVE  FateOK'
<1>0. UNCHANGED <<kind, begin, adapter>>
  BY DEF Respond, RespondSerial
<1>1. CASE Respond(a)
  <2>1. PICK r \in peer[a] :
           IF r[1] \in Ids(tq[a])
           THEN /\ status' = [status EXCEPT ![tq[a].data[r[1]].ptr] = "RSP"]
                /\ FinishMsg(tq[a].data[r[1]].ptr)
           ELSE UNCHANGED <<status, endVars>>
    BY <1>1 DEF Respond
  <2>2. CASE r[1] \in Ids(tq[a])
    BY <1>0, <2>1, <2>2, FinishFate
  <2>3. CASE r[1] \notin Ids(tq[a])
    BY <1>0, <2>1, <2>3, FateStays DEF endVars
  <2> QED
    BY <2>2, <2>3
<1>2. CASE RespondSerial(a)
  <2>1. PICK r \in peer[a] :
           IF req[a] # None
           THEN /\ status' = [status EXCEPT ![req[a]] = "RSP"]
                /\ FinishMsg(req[a])
           ELSE UNCHANGED <<status, endVars>>
    BY <1>2 DEF RespondSerial
  <2>2. CASE req[a] # None
    <3>1. PICK id \in Ids(tq[a]) : id = IdOf(a, req[a]) /\ tq[a].data[id].ptr = req[a]
      BY <2>2, UnderwayId
    <3> QED
      BY <1>0, <2>1, <2>2, <3>1, FinishFate
  <2>3. CASE req[a] = None
    BY <1>0, <2>1, <2>3, FateStays DEF endVars
  <2> QED
    BY <2>2, <2>3
<1> QED
  BY <1>1, <1>2

LEMMA TimeoutFate ==
    ASSUME IInv, FateOK, TimeoutWaiting \/ \E a \in Adapter : TimeoutAdapter(a)
    PROVE  FateOK'
<1>1. CASE TimeoutWaiting
  <2>1. PICK m \in Msg : Called(m) /\ At(m, "reqq") /\ InvokeException(m)
    BY <1>1, TimeoutWaitingStep
  <2>2. UNCHANGED <<kind, begin, adapter>>
    BY <1>1 DEF TimeoutWaiting
  <2> QED
    BY <2>1, <2>2, QueuedFate, ExceptionFate
<1>2. ASSUME NEW a \in Adapter, TimeoutAdapter(a) PROVE FateOK'
  <2>1. UNCHANGED <<kind, begin, adapter>>
    BY <1>2 DEF TimeoutAdapter
  <2>2. PICK id \in Expired(tq[a], now) :
           /\ status' = [status EXCEPT ![tq[a].data[id].ptr] = "TIME"]
           /\ FinishMsg(tq[a].data[id].ptr)
    BY <1>2 DEF TimeoutAdapter
  <2>3. id \in Ids(tq[a])
    BY ExpiredInTable DEF IInv
  <2> QED
    BY <2>1, <2>2, <2>3, FinishFate
<1> QED
  BY <1>1, <1>2

LEMMA RunCallbackFate ==
    ASSUME IInv, FateOK, RunCallback
    PROVE  FateOK'
<1>1. PICK m \in Msg : m = Head(asyncq) /\ m \in Elements(asyncq)
  BY TailLemma DEF RunCallback, IInv, EndOK
<1>2. Called(m) /\ fate[m] \notin Lost
  BY <1>1, AtPlace, QueuedFate
<1>3. /\ UNCHANGED <<kind, status, adapter, begin>>
      /\ fate'[m] = "ran" /\ \A n \in Msg \ {m} : fate'[n] = fate[n]
  BY <1>1 DEF RunCallback, msgVars, IInv, EndOK
<1>4. ~OnlyLogged(m)
  BY <1>2 DEF FateOK, FateAt, Lost
<1>5. FateAt(m)'
  BY <1>2, <1>3, <1>4 DEF FateAt, OnlyLogged, Called
<1> QED
  BY <1>1, <1>3, <1>5, FateDecided DEF Decides

LEMMA QuietFate ==
    ASSUME FateOK,
           \/ \E t \in Thread : \/ Notify(t) \/ WakeUp(t)
                               \/ EnterNotify(t) \/ LeaveNotify(t) \/ BreakNotify(t)
           \/ \E a \in Adapter : \/ ConnectDone(a) \/ DoInvokeDone(a) \/ Writable(a) \/ LinkDown(a)
                                 \/ DoInvokeOne(a) \/ DoInvokeSerial(a)
                                 \/ \E via \in Adapter : PrepareDone(a, via)
           \/ EnterTimeout \/ LeaveTimeout
           \/ RegistryAnswers \/ RegistryGivesUp \/ RegistryUpdates
           \/ Tick \/ UNCHANGED vars
    PROVE  FateOK'
<1> USE DEF msgVars, endVars
<1>1. CASE \E t \in Thread : \/ Notify(t) \/ WakeUp(t)
                            \/ EnterNotify(t) \/ LeaveNotify(t) \/ BreakNotify(t)
  <2>1. UNCHANGED <<fate, kind, status, adapter, begin>>
    BY <1>1 DEF Notify, WakeUp, EnterNotify, LeaveNotify, BreakNotify
  <2> QED
    BY <2>1, FateStays
<1>2. CASE \E a \in Adapter : \/ ConnectDone(a) \/ DoInvokeDone(a) \/ Writable(a) \/ LinkDown(a)
                              \/ DoInvokeOne(a) \/ DoInvokeSerial(a)
                              \/ \E via \in Adapter : PrepareDone(a, via)
  <2>1. UNCHANGED <<fate, kind, status, adapter, begin>>
    BY <1>2 DEF ConnectDone, DoInvokeDone, Writable, LinkDown, DoInvokeOne, DoInvokeSerial,
                PrepareDone
  <2> QED
    BY <2>1, FateStays
<1>3. CASE EnterTimeout \/ LeaveTimeout \/ Tick \/ UNCHANGED vars
  <2>1. UNCHANGED <<fate, kind, status, adapter, begin>>
    BY <1>3 DEF EnterTimeout, LeaveTimeout, Tick, vars
  <2> QED
    BY <2>1, FateStays
<1>4. CASE RegistryAnswers \/ RegistryGivesUp \/ RegistryUpdates
  <2>1. UNCHANGED <<fate, kind, status, adapter, begin>>
    BY <1>4 DEF RegistryAnswers, RegistryGivesUp, RegistryUpdates
  <2> QED
    BY <2>1, FateStays
<1> QED
  BY <1>1, <1>2, <1>3, <1>4

LEMMA FateStep ==
    ASSUME IInv, FateOK, [Next]_vars
    PROVE  FateOK'
<1>1. CASE \E t \in Thread : UserStep(t)
  BY <1>1, CallFate, QuietFate DEF UserStep
<1>2. CASE \E t \in Thread : NotifyStep(t)
  BY <1>2, NotifyPopFate, QuietFate DEF NotifyStep
<1>3. CASE \E a \in Adapter : SocketStep(a)
  BY <1>3, PrepareOneFate, AnswerFate, QuietFate DEF SocketStep
<1>4. CASE TimerStep
  BY <1>4, TimeoutFate, QuietFate DEF TimerStep
<1>5. CASE \/ RegistryAnswers \/ RegistryGivesUp \/ RegistryUpdates \/ RunCallback \/ Tick
           \/ UNCHANGED vars
  BY <1>5, RunCallbackFate, QuietFate
<1> QED
  BY <1>1, <1>2, <1>3, <1>4, <1>5 DEF Next

LEMMA FateOwner == IInv /\ FateOK => OneOwner
<1> SUFFICES ASSUME IInv, FateOK, NEW m \in Msg
             PROVE  Cardinality(Holders(m)) =
                      IF Called(m) /\ ~Thrown(m) /\ ~OnlyLogged(m) THEN 1 ELSE 0
  BY DEF OneOwner
<1>1. fate[m] \in Lost <=> Thrown(m) \/ OnlyLogged(m)
  BY DEF FateOK, FateAt, Thrown, Lost
<1> QED
  BY <1>1, HoldersByPlace

\* Every call that has been made is in exactly one queue or table until it is
\* freed, and it is freed once, in whatever order the user threads, the net
\* thread and the async thread go on.  The only calls in no queue that were
\* not freed are those of a hard send error, where such errors may happen,
\* and asynchronous ones that failed before they had an adapter.
THEOREM OneOwnerAlways == Spec => []OneOwner
<1>1. Init => FateOK
  BY DEF Init, FateOK, FateAt, OnlyLogged
<1>2. IInv /\ FateOK /\ [Next]_vars => FateOK'
  BY FateStep
<1> QED
  BY <1>1, <1>2, Inductive, FateOwner, PTL DEF Spec
-----------------------------------------------------------------------------
(* What a step does to the requests on their way: it keeps them where they  *)
(* are or takes them off (Kept), passes one that was waiting for an adapter *)
(* on to one (Passes), or writes one from the table of an adapter (Sends).  *)

\* The call has not reached an adapter.
Waits(m) == At(m, "loopq") \/ At(m, "reqq")

Kept ==
    /\ sent' = sent /\ serial' = serial
    /\ \A b \in Adapter :
         /\ peer'[b] \subseteq peer[b]
         /\ tq'[b].uniqId = tq[b].uniqId
         /\ \A i \in Ids(tq'[b]) : i \in Ids(tq[b]) /\ tq'[b].data[i] = tq[b].data[i]
         /\ \/ req'[b] = req[b]
            \/ req'[b] = None /\ \/ peer'[b] = {}
                                 \/ \E r \in peer[b] : peer'[b] = peer[b] \ {r}
    /\ \A n \in Msg : /\ Called(n) => Called(n)'
                      /\ Waits(n)' => Waits(n) \/ ~Called(n)

Passes(m, a, w) ==
    /\ sent' = IF w THEN sent \cup {m} ELSE sent
    /\ \A b \in Adapter : \A r \in peer'[b] :
         r \in peer[b] \/ (w /\ b = a /\ r = <<NextId(tq[a]), m>>)
    /\ \A b \in Adapter \ {a} : tq'[b] = tq[b] /\ req'[b] = req[b]
    /\ \/ tq'[a] = tq[a] /\ ~w
       \/ /\ tq'[a].uniqId = NextId(tq[a])
          /\ \A i \in Ids(tq'[a]) :
               \/ i \in Ids(tq[a]) /\ tq'[a].data[i] = tq[a].data[i]
               \/ /\ i = NextId(tq[a]) /\ i \notin Ids(tq[a])
                  /\ tq'[a].data[i].ptr = m /\ (tq'[a].data[i].hasSend <=> w)
    /\ IF w THEN /\ req[a] = None
                 /\ serial => req'[a] = m \/ NextId(tq[a]) \in Ids(tq[a])
            ELSE req'[a] = req[a]

\* m stops waiting, and nothing else does.
Arrives(m) ==
    /\ serial' = serial /\ begin' = begin
    /\ Called(m) /\ Waits(m)
    /\ \A n \in Msg : Waits(n)' <=> (Waits(n) /\ n # m)

Sends(a) ==
    /\ serial' = serial /\ begin' = begin
    /\ NextSend(tq[a]) \in Ids(tq[a]) /\ ~tq[a].data[NextSend(tq[a])].hasSend
    /\ sent' = sent \cup {tq[a].data[NextSend(tq[a])].ptr}
    /\ peer'[a] = peer[a] \cup {<<NextSend(tq[a]), tq[a].data[NextSend(tq[a])].ptr>>}
    /\ tq'[a].uniqId = tq[a].uniqId
    /\ \A i \in Ids(tq'[a]) :
         /\ i \in Ids(tq[a]) /\ tq'[a].data[i].ptr = tq[a].data[i].ptr
         /\ tq'[a].data[i].hasSend <=> (i = NextSend(tq[a]) \/ tq[a].data[i].hasSend)
    /\ serial => req[a] = None /\ req'[a] = tq[a].data[NextSend(tq[a])].ptr
    /\ \A b \in Adapter \ {a} : tq'[b] = tq[b] /\ req'[b] = req[b] /\ peer'[b] = peer[b]
    /\ \A n \in Msg : Waits(n)' <=> Waits(n)

Effect ==
    \/ Kept
    \/ \E m \in Msg, a \in Adapter, w \in BOOLEAN : Passes(m, a, w) /\ Arrives(m)
    \/ \E a \in Adapter : Sends(a)

LEMMA EnqueueEffect ==
    ASSUME MsgOK, TableOK, NEW m \in Msg, Called(m), \A b \in Adapter : ~InTable(m, b),
           NEW a \in Adapter, NEW w \in BOOLEAN, Enqueue(a, m, w)
    PROVE  /\ \A b \in Adapter \ {a} : tq'[b] = tq[b]
           /\ tq'[a].uniqId = NextId(tq[a])
           /\ \A i \in Ids(tq'[a]) :
                \/ i \in Ids(tq[a]) /\ tq'[a].data[i] = tq[a].data[i]
                \/ /\ i = NextId(tq[a]) /\ i \notin Ids(tq[a])
                   /\ tq'[a].data[i].ptr = m /\ (tq'[a].data[i].hasSend <=> w)
<1>1. begin[m] + ReqTimeout \in Deadline
  BY ConstantsOK DEF MsgOK, Called
<1>2. CASE CanPush(GenerateId(tq[a]), NextId(tq[a]))
  <2>1. tq' = [tq EXCEPT ![a] = Push(GenerateId(tq[a]), m, NextId(tq[a]),
                                     begin[m] + ReqTimeout, w)]
    BY <1>2 DEF Enqueue
  <2>2. /\ NextId(tq[a]) \notin Ids(tq[a])
        /\ Ids(tq'[a]) = Ids(tq[a]) \cup {NextId(tq[a])}
        /\ tq'[a].uniqId = NextId(tq[a])
        /\ tq'[a].data[NextId(tq[a])] = [ptr |-> m, hasSend |-> w,
                                         deadline |-> begin[m] + ReqTimeout]
        /\ \A i \in Ids(tq[a]) : tq'[a].data[i] = tq[a].data[i]
        /\ \A b \in Adapter \ {a} : tq'[b] = tq[b]
    <3>1. PICK dl \in Deadline : dl = begin[m] + ReqTimeout
      BY <1>1
    <3>2. tq' = [tq EXCEPT ![a] = Push(GenerateId(tq[a]), m, NextId(tq[a]), dl, w)]
      BY <2>1, <3>1
    <3>3. /\ NextId(tq[a]) \notin Ids(tq[a])
          /\ Ids(tq'[a]) = Ids(tq[a]) \cup {NextId(tq[a])}
          /\ tq'[a].uniqId = NextId(tq[a])
          /\ tq'[a].data[NextId(tq[a])] = [ptr |-> m, hasSend |-> w, deadline |-> dl]
          /\ \A i \in Ids(tq[a]) : tq'[a].data[i] = tq[a].data[i]
          /\ \A b \in Adapter \ {a} : tq'[b] = tq[b]
      BY <1>2, <3>2, TablePush, ZenonT(60)
    <3> QED
      BY <3>1, <3>3
  <2> QED
    BY <2>2
<1>3. CASE ~CanPush(GenerateId(tq[a]), NextId(tq[a]))
  <2>1. tq' = [tq EXCEPT ![a] = GenerateId(@)]
    BY <1>3 DEF Enqueue, TableOK
  <2>2. /\ tq'[a] = GenerateId(tq[a]) /\ \A b \in Adapter \ {a} : tq'[b] = tq[b]
        /\ tq'[a].data = tq[a].data /\ Ids(tq'[a]) = Ids(tq[a])
    BY <2>1, TableGenerate
  <2>3. GenerateId(tq[a]).uniqId = NextId(tq[a])
    BY TableFacts, NextIdLemma
  <2> QED
    BY <2>2, <2>3
<1> QED
  BY <1>2, <1>3

\* The ids of the table are as before, but for the counter.
LEMMA GenerateEffect ==
    ASSUME TableOK, NEW a \in Adapter, tq' = [tq EXCEPT ![a] = GenerateId(@)]
    PROVE  /\ \A b \in Adapter \ {a} : tq'[b] = tq[b]
           /\ tq'[a].uniqId = NextId(tq[a])
           /\ \A i \in Ids(tq'[a]) : i \in Ids(tq[a]) /\ tq'[a].data[i] = tq[a].data[i]
<1>1. /\ tq'[a] = GenerateId(tq[a]) /\ \A b \in Adapter \ {a} : tq'[b] = tq[b]
      /\ tq'[a].data = tq[a].data /\ Ids(tq'[a]) = Ids(tq[a])
  BY TableGenerate
<1>2. GenerateId(tq[a]).uniqId = NextId(tq[a])
  BY TableFacts, NextIdLemma
<1> QED
  BY <1>1, <1>2

LEMMA AdapterInvokeEffect ==
    ASSUME LinkOK, MsgOK, TableOK, NEW m \in Msg, Called(m), \A b \in Adapter : ~InTable(m, b),
           NEW a \in Adapter, NEW c \in [Adapter -> ConnState], NEW ok,
           NEW blame \in SUBSET Adapter, AdapterInvoke(m, a, c, ok, blame)
    PROVE  \E w \in BOOLEAN : Passes(m, a, w)
<1> DEFINE direct == req[a] = None /\ ~HasUnsent(tq[a]) /\ CanWrite(a, c)
<1>1. CASE UNCHANGED <<tq, req, buf, peer, up, sent>>
  <2>1. Passes(m, a, FALSE)
    BY <1>1 DEF Passes
  <2> QED
    BY <2>1
<1>2. CASE /\ direct
           /\ \E rest \in BOOLEAN : Write(a, NextId(tq[a]), m, rest)
           /\ Underway(a, m)
           /\ IF kind[m] = "ONEWAY"
              THEN /\ Delete(m)
                   /\ tq' = [tq EXCEPT ![a] = GenerateId(@)]
                   /\ UNCHANGED <<status, woken, asyncq, fate>>
              ELSE Enqueue(a, m, TRUE)
  <2>1. /\ \A b \in Adapter \ {a} : tq'[b] = tq[b]
        /\ tq'[a].uniqId = NextId(tq[a])
        /\ \A i \in Ids(tq'[a]) :
             \/ i \in Ids(tq[a]) /\ tq'[a].data[i] = tq[a].data[i]
             \/ /\ i = NextId(tq[a]) /\ i \notin Ids(tq[a])
                /\ tq'[a].data[i].ptr = m /\ (tq'[a].data[i].hasSend <=> TRUE)
    <3>1. CASE kind[m] = "ONEWAY"
      <4>1. tq' = [tq EXCEPT ![a] = GenerateId(@)]
        BY <1>2, <3>1
      <4> QED
        BY <4>1, GenerateEffect
    <3>2. CASE kind[m] # "ONEWAY"
      <4>1. Enqueue(a, m, TRUE)
        BY <1>2, <3>2
      <4> QED
        BY <4>1, EnqueueEffect
    <3> QED
      BY <3>1, <3>2
  <2>2. /\ \A b \in Adapter \ {a} : req'[b] = req[b]
        /\ serial => req'[a] = m \/ NextId(tq[a]) \in Ids(tq[a])
    <3>1. Ids(GenerateId(tq[a])) = Ids(tq[a])
      BY TableFacts, NextIdLemma
    <3> QED
      BY <1>2, <3>1 DEF Underway, LinkOK, CanPush
  <2>3. /\ \A b \in Adapter : \A r \in peer'[b] :
             r \in peer[b] \/ (b = a /\ r = <<NextId(tq[a]), m>>)
        /\ sent' = sent \cup {m}
    BY <1>2 DEF Write, LinkOK
  <2>4. Passes(m, a, TRUE)
    BY <1>2, <2>1, <2>2, <2>3 DEF Passes
  <2> QED
    BY <2>4
<1>3. CASE /\ Enqueue(a, m, FALSE)
           /\ UNCHANGED <<req, buf, peer, up, sent>>
  <2>1. /\ \A b \in Adapter \ {a} : tq'[b] = tq[b]
        /\ tq'[a].uniqId = NextId(tq[a])
        /\ \A i \in Ids(tq'[a]) :
             \/ i \in Ids(tq[a]) /\ tq'[a].data[i] = tq[a].data[i]
             \/ /\ i = NextId(tq[a]) /\ i \notin Ids(tq[a])
                /\ tq'[a].data[i].ptr = m /\ (tq'[a].data[i].hasSend <=> FALSE)
    BY <1>3, EnqueueEffect
  <2>2. Passes(m, a, FALSE)
    BY <1>3, <2>1 DEF Passes
  <2> QED
    BY <2>2
<1>4. CASE /\ tq' = [tq EXCEPT ![a] = GenerateId(@)]
           /\ Close({a} \cup blame, c)
           /\ UNCHANGED <<req, status, sent, woken, asyncq, deleted>>
  <2>1. /\ \A b \in Adapter \ {a} : tq'[b] = tq[b]
        /\ tq'[a].uniqId = NextId(tq[a])
        /\ \A i \in Ids(tq'[a]) : i \in Ids(tq[a]) /\ tq'[a].data[i] = tq[a].data[i]
    BY <1>4, GenerateEffect
  <2>2. \A b \in Adapter : peer'[b] \subseteq peer[b]
    BY <1>4 DEF Close
  <2>3. Passes(m, a, FALSE)
    BY <1>4, <2>1, <2>2 DEF Passes
  <2> QED
    BY <2>3
<1> QED
  BY <1>1, <1>2, <1>3, <1>4 DEF AdapterInvoke

\* A step that changes no table and lets no call wait anew.
LEMMA KeptQuiet ==
    ASSUME UNCHANGED <<serial, loopq, reqq, tq, req, sent, begin>>,
           \A b \in Adapter : peer'[b] \subseteq peer[b]
    PROVE  Kept
<1>1. \A n \in Msg : Waits(n)' <=> Waits(n)
  BY AtPlace, AtPlaceNext DEF Waits
<1> QED
  BY <1>1 DEF Kept, Called

LEMMA CloseShrinks ==
    ASSUME NEW S, NEW c, Close(S, c)
    PROVE  \A b \in Adapter : peer'[b] \subseteq peer[b] /\ (b \in S => peer'[b] = {})
BY DEF Close

LEMMA QuietEffect ==
    ASSUME IInv,
           \/ \E t \in Thread : \/ Notify(t) \/ WakeUp(t)
                                \/ EnterNotify(t) \/ LeaveNotify(t) \/ BreakNotify(t)
           \/ \E a \in Adapter : \/ ConnectDone(a) \/ DoInvokeDone(a) \/ Writable(a) \/ LinkDown(a)
                                 \/ \E via \in Adapter : PrepareDone(a, via)
           \/ EnterTimeout \/ LeaveTimeout
           \/ RegistryAnswers \/ RegistryGivesUp \/ RegistryUpdates
           \/ RunCallback \/ Tick \/ UNCHANGED vars
    PROVE  Kept
<1> USE DEF userVars, handOver, regVars, linkVars, msgVars
<1>1. ASSUME NEW t \in Thread, Notify(t) \/ WakeUp(t) PROVE Kept
  BY <1>1, KeptQuiet DEF Notify, WakeUp
<1>2. ASSUME NEW t \in Thread, EnterNotify(t) \/ LeaveNotify(t) \/ BreakNotify(t) PROVE Kept
  BY <1>2, KeptQuiet DEF EnterNotify, LeaveNotify, BreakNotify
<1>3. ASSUME NEW a \in Adapter, ConnectDone(a) \/ DoInvokeDone(a) PROVE Kept
  BY <1>3, KeptQuiet DEF ConnectDone, DoInvokeDone
<1>4. ASSUME NEW a \in Adapter, Writable(a) \/ LinkDown(a) PROVE Kept
  <2>1. \A b \in Adapter : peer'[b] \subseteq peer[b]
    BY <1>4, CloseShrinks DEF Writable, LinkDown
  <2> QED
    BY <1>4, <2>1, KeptQuiet DEF Writable, LinkDown
<1>5. ASSUME NEW a \in Adapter, NEW via \in Adapter, PrepareDone(a, via) PROVE Kept
  BY <1>5, KeptQuiet DEF PrepareDone
<1>6. ASSUME EnterTimeout \/ LeaveTimeout PROVE Kept
  BY <1>6, KeptQuiet DEF EnterTimeout, LeaveTimeout
<1>7. ASSUME RegistryAnswers \/ RegistryGivesUp \/ RegistryUpdates PROVE Kept
  BY <1>7, KeptQuiet DEF RegistryAnswers, RegistryGivesUp, RegistryUpdates
<1>8. ASSUME RunCallback \/ Tick \/ UNCHANGED vars PROVE Kept
  BY <1>8, KeptQuiet DEF RunCallback, Tick, vars
<1> QED
  BY <1>1, <1>2, <1>3, <1>4, <1>5, <1>6, <1>7, <1>8

LEMMA CallEffect ==
    ASSUME IInv, NEW t \in Thread, NEW m \in Msg, Call(t, m)
    PROVE  Kept
<1>1. /\ ~Called(m)
      /\ begin' = [begin EXCEPT ![m] = now] /\ now # None
      /\ \/ loopq' = [loopq EXCEPT ![t] = Append(@, m)]
         \/ loopq' = loopq
      /\ UNCHANGED <<serial, reqq, tq, req, peer, sent>>
  BY ConstantsOK DEF Call, linkVars, IInv, NetOK
<1>2. \A n \in Msg : Called(n) => Called(n)'
  BY <1>1 DEF Called, IInv, MsgOK
<1>3. \A n \in Msg, u \in Thread :
         n \in Elements(loopq'[u]) => n \in Elements(loopq[u]) \/ n = m
  <2>1. CASE loopq' = loopq
    BY <2>1
  <2>2. CASE loopq' = [loopq EXCEPT ![t] = Append(@, m)]
    <3>1. loopq[t] \in Seq(Msg)
      BY DEF IInv, LoopOK
    <3>2. Elements(Append(loopq[t], m)) = Elements(loopq[t]) \cup {m}
      BY <3>1, AppendLemma
    <3>3. loopq'[t] = Append(loopq[t], m) /\ \A u \in Thread \ {t} : loopq'[u] = loopq[u]
      BY <2>2 DEF IInv, LoopOK
    <3> QED
      BY <3>2, <3>3
  <2> QED
    BY <1>1, <2>1, <2>2
<1>4. \A n \in Msg : Waits(n)' => Waits(n) \/ ~Called(n)
  <2>1. \A n \in Msg : At(n, "loopq")' => At(n, "loopq") \/ ~Called(n)
    BY <1>1, <1>3, AtPlace, AtPlaceNext
  <2>2. \A n \in Msg : At(n, "reqq")' <=> At(n, "reqq")
    BY <1>1, AtPlace, AtPlaceNext
  <2> QED
    BY <2>1, <2>2 DEF Waits
<1> QED
  BY <1>1, <1>2, <1>4 DEF Kept

\* The oldest request of a thread's queue leaves it.
LEMMA LoopTail ==
    ASSUME LoopOK, NEW t \in Thread, loopq[t] # <<>>, loopq' = [loopq EXCEPT ![t] = Tail(@)]
    PROVE  /\ Head(loopq[t]) \in Msg /\ At(Head(loopq[t]), "loopq")
           /\ \A n \in Msg : At(n, "loopq")' <=> (At(n, "loopq") /\ n # Head(loopq[t]))
<1>1. /\ loopq[t] \in Seq(Msg) /\ Distinct(loopq[t])
      /\ loopq'[t] = Tail(loopq[t]) /\ \A u \in Thread \ {t} : loopq'[u] = loopq[u]
      /\ \A u \in Thread : \A n \in Elements(loopq[u]) : Caller[n] = u
  BY DEF LoopOK
<1>2. /\ Head(loopq[t]) \in Msg /\ Head(loopq[t]) \in Elements(loopq[t])
      /\ Elements(Tail(loopq[t])) = Elements(loopq[t]) \ {Head(loopq[t])}
  BY <1>1, TailLemma
<1>3. \A n \in Msg, u \in Thread :
         n \in Elements(loopq'[u]) <=> (n \in Elements(loopq[u]) /\ n # Head(loopq[t]))
  <2> DEFINE x == Head(loopq[t])
  <2>1. x \in Elements(loopq[t]) /\ Elements(loopq'[t]) = Elements(loopq[t]) \ {x}
    BY <1>1, <1>2
  <2> HIDE DEF x
  <2>2. \A u \in Thread \ {t} : x \notin Elements(loopq[u])
    BY <1>1, <2>1
  <2>3. \A n \in Msg, u \in Thread :
           n \in Elements(loopq'[u]) <=> (n \in Elements(loopq[u]) /\ n # x)
    BY <1>1, <2>1, <2>2
  <2> QED
    BY <2>3 DEF x
<1> QED
  BY <1>2, <1>3, AtPlace, AtPlaceNext

LEMMA NotifyPopEffect ==
    ASSUME IInv, NEW t \in Thread, NotifyPop(t)
    PROVE  Effect
<1> DEFINE m == Head(loopq[t])
<1>1. /\ loopq[t] # <<>> /\ loopq' = [loopq EXCEPT ![t] = Tail(@)]
      /\ ObjectInvoke(m, InNotify(t, TRUE))
      /\ UNCHANGED <<serial, begin, kind>>
  BY DEF NotifyPop, userVars
<1>2. /\ m \in Msg /\ At(m, "loopq")
      /\ \A n \in Msg : At(n, "loopq")' <=> (At(n, "loopq") /\ n # m)
  BY <1>1, LoopTail DEF IInv
<1> HIDE DEF m
<1>3. Called(m) /\ ~At(m, "reqq") /\ \A b \in Adapter : ~InTable(m, b)
  <2>1. {"loopq", "reqq", "tq"} \subseteq Place
    BY DEF Place, Rest
  <2> QED
    BY <1>2, <2>1, OwnerOnly, AtPlace DEF IInv
<1>4. begin[m] + ReqTimeout \in Deadline /\ begin[m] + ConnTimeout \in Deadline
  BY <1>2, <1>3, ConstantsOK DEF IInv, MsgOK, Called
<1>5. CASE /\ \E dl \in Deadline : reqq' = Append(reqq, [msg |-> m, deadline |-> dl])
           /\ UNCHANGED <<tq, req, peer, sent>>
  <2>1. \A n : At(n, "reqq")' <=> (At(n, "reqq") \/ n = m)
    BY <1>2, <1>3, <1>5, WaitAppend DEF IInv
  <2>2. \A n \in Msg : Waits(n)' => Waits(n)
    BY <1>2, <2>1 DEF Waits
  <2> QED
    BY <1>1, <1>5, <2>2 DEF Effect, Kept, Called
<1>6. CASE UNCHANGED <<reqq, tq, linkVars>>
  <2>1. \A n \in Msg : Waits(n)' => Waits(n)
    BY <1>2, <1>6, AtPlace, AtPlaceNext DEF Waits
  <2> QED
    BY <1>1, <1>6, <2>1 DEF Effect, Kept, Called, linkVars
<1>7. CASE /\ \E choice \in Choices(m) :
                AdapterInvoke(m, choice[1], choice[2], InNotify(t, TRUE), {})
           /\ UNCHANGED reqq
  <2>1. PICK choice \in Choices(m) :
               AdapterInvoke(m, choice[1], choice[2], InNotify(t, TRUE), {})
    BY <1>7
  <2>2. choice[1] \in Adapter /\ choice[2] \in [Adapter -> ConnState]
    BY <1>2, ChoiceLemma DEF Choices, IInv, NetOK, LinkOK
  <2>3. \E w \in BOOLEAN : Passes(m, choice[1], w)
    <3>1. LinkOK /\ MsgOK /\ TableOK /\ {} \in SUBSET Adapter
      BY DEF IInv
    <3> QED
      BY <1>2, <1>3, <2>1, <2>2, <3>1, AdapterInvokeEffect
  <2>4. Arrives(m)
    BY <1>1, <1>2, <1>3, <1>7, AtPlace, AtPlaceNext DEF Arrives, Waits
  <2> QED
    BY <1>2, <2>2, <2>3, <2>4 DEF Effect
<1> QED
  <2>1. UNCHANGED linkVars => UNCHANGED <<req, peer, sent>>
    BY DEF linkVars
  <2> QED
    BY <1>1, <1>4, <1>5, <1>6, <1>7, <2>1 DEF ObjectInvoke

LEMMA PrepareOneEffect ==
    ASSUME IInv, NEW a \in Adapter, NEW via \in Adapter, PrepareOne(a, via)
    PROVE  Effect
<1> DEFINE m == Head(reqq).msg
<1>1. reqq # <<>> /\ reqq' = Tail(reqq) /\ UNCHANGED <<serial, loopq, begin>>
  BY DEF PrepareOne, userVars, handOver
<1>2. /\ m \in Msg /\ At(m, "reqq")
      /\ \A n : At(n, "reqq")' <=> (At(n, "reqq") /\ n # m)
  BY <1>1, WaitTail DEF IInv
<1>3. \E b \in Adapter, c \in [Adapter -> ConnState] : \E ok :
         AdapterInvoke(m, b, c, ok, {a})
  <2>1. conn \in [Adapter -> ConnState] /\ proxys \subseteq Adapter
    BY DEF IInv, LinkOK, NetOK
  <2>2. CASE adapter[m] = None /\ Home[m] # None
    <3>1. PICK choice \in HashChoice(m) :
             AdapterInvoke(m, choice[1], choice[2], InPrepare(a, choice[1]), {a})
      BY <2>2 DEF PrepareOne
    <3>2. choice[1] \in Adapter /\ choice[2] \in [Adapter -> ConnState]
      BY <1>2, <2>1, ChoiceLemma
    <3> QED
      BY <3>1, <3>2
  <2>3. CASE ~(adapter[m] = None /\ Home[m] # None)
    <3>1. AdapterInvoke(m, via, conn, InPrepare(a, via), {a})
      BY <2>3 DEF PrepareOne
    <3> QED
      BY <2>1, <3>1
  <2> QED
    BY <2>2, <2>3
<1> HIDE DEF m
<1>4. PICK b \in Adapter, c \in [Adapter -> ConnState] : \E ok :
         AdapterInvoke(m, b, c, ok, {a})
  BY <1>3
<1>4a. PICK ok : AdapterInvoke(m, b, c, ok, {a})
  BY <1>4
<1>5. Called(m) /\ ~At(m, "loopq") /\ \A d \in Adapter : ~InTable(m, d)
  <2>1. {"loopq", "reqq", "tq"} \subseteq Place
    BY DEF Place, Rest
  <2> QED
    BY <1>2, <2>1, OwnerOnly, AtPlace DEF IInv
<1>6. \E w \in BOOLEAN : Passes(m, b, w)
  BY <1>2, <1>4, <1>4a, <1>5, AdapterInvokeEffect DEF IInv
<1>7. Arrives(m)
  BY <1>1, <1>2, <1>5, AtPlace, AtPlaceNext DEF Arrives, Waits
<1> QED
  BY <1>2, <1>6, <1>7 DEF Effect

\* A request leaves the table of a with its answer or without.
LEMMA RemoveEffect ==
    ASSUME IInv, NEW a \in Adapter, NEW id \in Ids(tq[a]), tq' = [tq EXCEPT ![a] = Remove(@, id)],
           UNCHANGED <<serial, loopq, reqq, begin, sent>>,
           \A b \in Adapter : peer'[b] \subseteq peer[b],
           \A b \in Adapter \ {a} : req'[b] = req[b],
           \/ req'[a] = req[a]
           \/ req'[a] = None /\ \/ peer'[a] = {}
                                \/ \E r \in peer[a] : peer'[a] = peer[a] \ {r}
    PROVE  Kept
<1>1. /\ Ids(tq'[a]) = Ids(tq[a]) \ {id} /\ tq'[a].uniqId = tq[a].uniqId
      /\ \A i \in Ids(tq'[a]) : tq'[a].data[i] = tq[a].data[i]
      /\ \A b \in Adapter \ {a} : tq'[b] = tq[b]
  BY TableRemove DEF IInv
<1>2. \A n \in Msg : Waits(n)' <=> Waits(n)
  BY AtPlace, AtPlaceNext DEF Waits
<1> QED
  BY <1>1, <1>2 DEF Kept, Called

LEMMA AnswerEffect ==
    ASSUME IInv, NEW a \in Adapter, Respond(a) \/ RespondSerial(a)
    PROVE  Kept
<1>1. UNCHANGED <<serial, loopq, reqq, begin, sent>>
  BY DEF Respond, RespondSerial, userVars, handOver
<1>2. ASSUME NEW r \in peer[a],
             peer' = [peer EXCEPT ![a] = @ \ {r}] \/ Block(a)
      PROVE  /\ \A b \in Adapter : peer'[b] \subseteq peer[b]
             /\ peer'[a] = {} \/ peer'[a] = peer[a] \ {r}
  BY <1>2, CloseShrinks DEF Block, IInv, LinkOK
<1>3. CASE Respond(a)
  <2>1. req' = req
    BY <1>3 DEF Respond
  <2>2. PICK r \in peer[a] :
           IF r[1] \in Ids(tq[a])
           THEN /\ tq' = [tq EXCEPT ![a] = Remove(@, r[1])]
                /\ peer' = [peer EXCEPT ![a] = @ \ {r}] \/ Block(a)
           ELSE peer' = [peer EXCEPT ![a] = @ \ {r}] /\ UNCHANGED tq
    BY <1>3 DEF Respond
  <2>3. \A b \in Adapter : peer'[b] \subseteq peer[b]
    BY <1>2, <2>2
  <2> QED
    BY <1>1, <2>1, <2>2, <2>3, RemoveEffect, KeptQuiet
<1>4. CASE RespondSerial(a)
  <2>1. PICK r \in peer[a] :
           IF req[a] # None
           THEN /\ tq' = [tq EXCEPT ![a] = Remove(@, IdOf(a, req[a]))]
                /\ req' = [req EXCEPT ![a] = None]
                /\ peer' = [peer EXCEPT ![a] = @ \ {r}] \/ Block(a)
           ELSE peer' = [peer EXCEPT ![a] = @ \ {r}] /\ UNCHANGED <<tq, req>>
    BY <1>4 DEF RespondSerial
  <2>2. /\ \A b \in Adapter : peer'[b] \subseteq peer[b]
        /\ peer'[a] = {} \/ peer'[a] = peer[a] \ {r}
    BY <1>2, <2>1
  <2>3. CASE req[a] # None
    <3>1. IdOf(a, req[a]) \in Ids(tq[a])
      BY <2>3, UnderwayId
    <3>2. req'[a] = None /\ \A b \in Adapter \ {a} : req'[b] = req[b]
      BY <2>1, <2>3 DEF IInv, LinkOK
    <3> QED
      BY <1>1, <2>1, <2>2, <2>3, <3>1, <3>2, RemoveEffect
  <2>4. CASE req[a] = None
    BY <1>1, <2>1, <2>2, <2>4, KeptQuiet
  <2> QED
    BY <2>3, <2>4
<1> QED
  BY <1>3, <1>4

LEMMA TimeoutEffect ==
    ASSUME IInv, (\E a \in Adapter : TimeoutAdapter(a)) \/ TimeoutWaiting
    PROVE  Kept
<1>1. ASSUME NEW a \in Adapter, TimeoutAdapter(a) PROVE Kept
  <2>1. UNCHANGED <<serial, loopq, reqq, begin, sent>>
    BY <1>1 DEF TimeoutAdapter, userVars, handOver
  <2>2. PICK id \in Expired(tq[a], now) :
           /\ tq' = [tq EXCEPT ![a] = Remove(@, id)]
           /\ req' = [req EXCEPT ![a] = IF @ = tq[a].data[id].ptr THEN None ELSE @]
           /\ \/ IF tq[a].data[id].ptr = req[a] THEN Close({a}, conn) ELSE UNCHANGED peer
              \/ Close({a}, conn)
    BY <1>1 DEF TimeoutAdapter, Block
  <2>3. id \in Ids(tq[a])
    BY ExpiredInTable DEF IInv
  <2>4. /\ \A b \in Adapter : peer'[b] \subseteq peer[b]
        /\ tq[a].data[id].ptr = req[a] => peer'[a] = {}
    BY <2>2, CloseShrinks
  <2>5. /\ \A b \in Adapter \ {a} : req'[b] = req[b]
        /\ req'[a] = req[a] \/ (req'[a] = None /\ peer'[a] = {})
    BY <2>2, <2>4 DEF IInv, LinkOK
  <2> QED
    BY <2>1, <2>2, <2>3, <2>4, <2>5, RemoveEffect
<1>2. ASSUME TimeoutWaiting PROVE Kept
  <2>1. /\ UNCHANGED <<serial, loopq, tq, begin, sent, req, peer>>
        /\ \E i \in DOMAIN reqq : reqq' = DeleteAt(reqq, i)
    BY <1>2 DEF TimeoutWaiting, userVars, handOver, linkVars
  <2>2. \A n \in Msg : Waits(n)' => Waits(n)
    <3>1. \A n : At(n, "reqq")' => At(n, "reqq")
      BY <2>1, WaitDelete DEF IInv
    <3> QED
      BY <2>1, <3>1, AtPlace, AtPlaceNext DEF Waits
  <2> QED
    BY <2>1, <2>2 DEF Kept, Called
<1> QED
  BY <1>1, <1>2

\* A round of doInvoke: the oldest unsent request of a is written, or none is.
LEMMA WriteEffect ==
    ASSUME IInv, NEW a \in Adapter, HasUnsent(tq[a]), NEW del \in BOOLEAN,
           tq' = [tq EXCEPT ![a] = PopSend(@, del)],
           \E rest \in BOOLEAN : Write(a, NextSend(tq[a]), tq[a].data[NextSend(tq[a])].ptr, rest),
           UNCHANGED <<serial, loopq, reqq, begin>>,
           serial => req[a] = None /\ req'[a] = tq[a].data[NextSend(tq[a])].ptr,
           \A b \in Adapter \ {a} : req'[b] = req[b]
    PROVE  Sends(a)
<1> DEFINE id == NextSend(tq[a])
           m  == tq[a].data[id].ptr
<1>1. /\ id \in Ids(tq[a]) /\ ~tq[a].data[id].hasSend
      /\ tq'[a].uniqId = tq[a].uniqId
      /\ Ids(tq'[a]) = IF del THEN Ids(tq[a]) \ {id} ELSE Ids(tq[a])
      /\ \A i \in Ids(tq'[a]) :
           /\ tq'[a].data[i].ptr = tq[a].data[i].ptr
           /\ tq'[a].data[i].hasSend <=> (i = id \/ tq[a].data[i].hasSend)
      /\ \A b \in Adapter \ {a} : tq'[b] = tq[b]
  <2>1. TableOK
    BY DEF IInv
  <2> QED
    BY <2>1, TablePop, ZenonT(60)
<1>2. \A n \in Msg : Waits(n)' <=> Waits(n)
  BY AtPlace, AtPlaceNext DEF Waits
<1>3. \E rest \in BOOLEAN : Write(a, id, m, rest)
  OBVIOUS
<1>4. serial => req[a] = None /\ req'[a] = m
  OBVIOUS
<1> HIDE DEF id, m
<1>5. /\ sent' = sent \cup {m}
      /\ peer'[a] = peer[a] \cup {<<id, m>>}
      /\ \A b \in Adapter \ {a} : peer'[b] = peer[b]
  BY <1>3 DEF Write, IInv, LinkOK
<1>6. \A i \in Ids(tq'[a]) : i \in Ids(tq[a])
  BY <1>1
<1> QED
  BY <1>1, <1>2, <1>4, <1>5, <1>6 DEF Sends, id, m

LEMMA DoInvokeEffect ==
    ASSUME IInv, NEW a \in Adapter, DoInvokeOne(a) \/ DoInvokeSerial(a)
    PROVE  Effect
<1>1. UNCHANGED <<serial, loopq, reqq, begin>>
  BY DEF DoInvokeOne, DoInvokeSerial, userVars, handOver, msgVars
<1>2. CASE DoInvokeOne(a)
  <2>1. ~serial /\ HasUnsent(tq[a])
    BY <1>2 DEF DoInvokeOne
  <2>2. CASE /\ tq' = [tq EXCEPT ![a] = PopSend(@, kind[tq[a].data[NextSend(tq[a])].ptr] = "ONEWAY")]
             /\ \E rest \in BOOLEAN :
                  Write(a, NextSend(tq[a]), tq[a].data[NextSend(tq[a])].ptr, rest)
             /\ req' = req
    <3>1. Sends(a)
      BY <1>1, <2>1, <2>2, WriteEffect
    <3> QED
      BY <3>1 DEF Effect
  <2>3. CASE UNCHANGED <<tq, linkVars>>
    <3>1. Kept
      BY <1>1, <2>3, KeptQuiet DEF linkVars
    <3> QED
      BY <3>1 DEF Effect
  <2>4. CASE Close({a}, conn) /\ UNCHANGED <<tq, req, sent>>
    <3>1. Kept
      BY <1>1, <2>4, CloseShrinks, KeptQuiet
    <3> QED
      BY <3>1 DEF Effect
  <2> QED
    BY <1>2, <2>2, <2>3, <2>4 DEF DoInvokeOne
<1>3. CASE DoInvokeSerial(a)
  <2>1. CASE /\ req[a] = None /\ HasUnsent(tq[a])
             /\ tq' = [tq EXCEPT ![a] = PopSend(@, FALSE)]
             /\ req' = [req EXCEPT ![a] = tq[a].data[NextSend(tq[a])].ptr]
             /\ \E rest \in BOOLEAN :
                  Write(a, NextSend(tq[a]), tq[a].data[NextSend(tq[a])].ptr, rest)
    <3>1. /\ req'[a] = tq[a].data[NextSend(tq[a])].ptr
          /\ \A b \in Adapter \ {a} : req'[b] = req[b]
      BY <2>1 DEF IInv, LinkOK
    <3>2. Sends(a)
      BY <1>1, <2>1, <3>1, WriteEffect
    <3> QED
      BY <3>2 DEF Effect
  <2>2. CASE UNCHANGED <<tq, linkVars>>
    <3>1. Kept
      BY <1>1, <2>2, KeptQuiet DEF linkVars
    <3> QED
      BY <3>1 DEF Effect
  <2>3. CASE Close({a}, conn) /\ UNCHANGED <<tq, req, sent>>
    <3>1. Kept
      BY <1>1, <2>3, CloseShrinks, KeptQuiet
    <3> QED
      BY <3>1 DEF Effect
  <2> QED
    BY <1>3, <2>1, <2>2, <2>3 DEF DoInvokeSerial
<1> QED
  BY <1>2, <1>3

LEMMA NextEffect == IInv /\ [Next]_vars => Effect
<1> SUFFICES ASSUME IInv, [Next]_vars PROVE Effect
  OBVIOUS
<1>0. Kept => Effect
  BY DEF Effect
<1>1. CASE \E t \in Thread : UserStep(t)
  <2>1. PICK t \in Thread : (\E m \in Msg : Call(t, m)) \/ Notify(t) \/ WakeUp(t)
    BY <1>1 DEF UserStep
  <2> QED
    BY <1>0, <2>1, CallEffect, QuietEffect
<1>2. CASE \E t \in Thread : NotifyStep(t)
  <2>1. PICK t \in Thread : EnterNotify(t) \/ NotifyPop(t) \/ LeaveNotify(t) \/ BreakNotify(t)
    BY <1>2 DEF NotifyStep
  <2> QED
    BY <1>0, <2>1, NotifyPopEffect, QuietEffect
<1>3. CASE \E a \in Adapter : SocketStep(a)
  <2>1. PICK a \in Adapter : SocketStep(a)
    BY <1>3
  <2>2. CASE ConnectDone(a) \/ DoInvokeDone(a) \/ Writable(a) \/ LinkDown(a)
    BY <1>0, <2>2, QuietEffect
  <2>3. CASE DoInvokeOne(a) \/ DoInvokeSerial(a)
    BY <2>3, DoInvokeEffect
  <2>4. CASE Respond(a) \/ RespondSerial(a)
    BY <1>0, <2>4, AnswerEffect
  <2>5. CASE \E via \in Adapter : PrepareOne(a, via) \/ PrepareDone(a, via)
    BY <1>0, <2>5, PrepareOneEffect, QuietEffect
  <2> QED
    BY <2>1, <2>2, <2>3, <2>4, <2>5 DEF SocketStep
<1>4. CASE TimerStep
  BY <1>0, <1>4, TimeoutEffect, QuietEffect DEF TimerStep
<1>5. CASE \/ RegistryAnswers \/ RegistryGivesUp \/ RegistryUpdates \/ RunCallback \/ Tick
           \/ UNCHANGED vars
  BY <1>0, <1>5, QuietEffect
<1> QED
  BY <1>1, <1>2, <1>3, <1>4, <1>5 DEF Next

-----------------------------------------------------------------------------
(* WrittenOnce: what has been written waits nowhere.                        *)

\* A call that has been written waits in no queue, and its entry says so.
SentOK ==
    /\ \A m \in sent : Called(m) /\ ~Waits(m)
    /\ \A a \in Adapter : \A i \in Ids(tq[a]) :
         tq[a].data[i].hasSend <=> tq[a].data[i].ptr \in sent
    /\ \A a \in Adapter : \A r \in peer[a] : r[2] \in sent

WrittenAtMostOnce == \A a \in Adapter : \A r \in peer'[a] \ peer[a] : r[2] \notin sent

LEMMA SentStep ==
    ASSUME IInv, SentOK, Effect
    PROVE  SentOK' /\ WrittenAtMostOnce
<1>1. CASE Kept
  BY <1>1 DEF Kept, SentOK, WrittenAtMostOnce, IInv, LinkOK
<1>2. ASSUME NEW m \in Msg, NEW a \in Adapter, NEW w \in BOOLEAN, Passes(m, a, w), Arrives(m)
      PROVE  SentOK' /\ WrittenAtMostOnce
  <2>1. m \notin sent /\ sent' = IF w THEN sent \cup {m} ELSE sent
    BY <1>2 DEF SentOK, Arrives, Passes
  <2>2. \A b \in Adapter : \A i \in Ids(tq[b]) : tq[b].data[i].ptr # m
    <3>1. At(m, "loopq") \/ At(m, "reqq")
      BY <1>2 DEF Arrives, Waits
    <3>2. ~At(m, "tq")
      BY <3>1, OwnerOnly DEF IInv, Place, Rest
    <3> QED
      BY <3>2, AtPlace DEF InTable
  <2>3. \A n \in sent' : Called(n)' /\ ~Waits(n)'
    <3>1. \A n \in sent' : n \in Msg /\ Called(n) /\ (n = m \/ ~Waits(n))
      BY <1>2, <2>1 DEF SentOK, IInv, LinkOK, Arrives
    <3> QED
      BY <1>2, <3>1 DEF Arrives, Called
  <2>4. \A b \in Adapter : \A i \in Ids(tq'[b]) :
           tq'[b].data[i].hasSend <=> tq'[b].data[i].ptr \in sent'
    <3>1. \A b \in Adapter : \A i \in Ids(tq[b]) :
             tq[b].data[i].hasSend <=> tq[b].data[i].ptr \in sent'
      BY <2>1, <2>2 DEF SentOK
    <3>2. \A b \in Adapter \ {a} : tq'[b] = tq[b]
      BY <1>2 DEF Passes
    <3>3. \/ tq'[a] = tq[a]
          \/ \A i \in Ids(tq'[a]) :
               \/ i \in Ids(tq[a]) /\ tq'[a].data[i] = tq[a].data[i]
               \/ tq'[a].data[i].ptr = m /\ (tq'[a].data[i].hasSend <=> w)
      BY <1>2 DEF Passes
    <3>4. m \in sent' <=> w
      BY <2>1
    <3> QED
      BY <3>1, <3>2, <3>3, <3>4
  <2>5. \A b \in Adapter : \A r \in peer'[b] : r \in peer[b] \/ (w /\ r[2] = m)
    BY <1>2 DEF Passes
  <2> QED
    BY <2>1, <2>3, <2>4, <2>5 DEF SentOK, WrittenAtMostOnce
<1>3. ASSUME NEW a \in Adapter, Sends(a) PROVE SentOK' /\ WrittenAtMostOnce
  <2> DEFINE id == NextSend(tq[a])
             m  == tq[a].data[id].ptr
  <2>1. /\ id \in Ids(tq[a]) /\ ~tq[a].data[id].hasSend
        /\ sent' = sent \cup {m}
        /\ peer'[a] = peer[a] \cup {<<id, m>>}
        /\ \A i \in Ids(tq'[a]) :
             /\ i \in Ids(tq[a]) /\ tq'[a].data[i].ptr = tq[a].data[i].ptr
             /\ tq'[a].data[i].hasSend <=> (i = id \/ tq[a].data[i].hasSend)
        /\ \A b \in Adapter \ {a} : tq'[b] = tq[b] /\ peer'[b] = peer[b]
        /\ \A n \in Msg : Waits(n)' <=> Waits(n)
        /\ begin' = begin
    BY <1>3 DEF Sends
  <2>2. m \notin sent
    BY <2>1 DEF SentOK
  <2>3. m \in Msg /\ Called(m) /\ ~Waits(m)
    <3>1. m \in Msg /\ At(m, "tq")
      BY <2>1, TableFacts, AtPlace DEF IInv, InTable
    <3> QED
      BY <3>1, OwnerOnly DEF IInv, Place, Rest, Waits
  <2>4. \A b \in Adapter : \A i \in Ids(tq[b]) : tq[b].data[i].ptr = m => b = a /\ i = id
    BY <2>1 DEF IInv, TableOK
  <2> HIDE DEF m, id
  <2>5. \A n \in sent' : Called(n)' /\ ~Waits(n)'
    <3>1. \A n \in sent' : n \in Msg /\ Called(n) /\ ~Waits(n)
      BY <2>1, <2>3 DEF SentOK, IInv, LinkOK
    <3> QED
      BY <2>1, <3>1 DEF Called
  <2>6. \A b \in Adapter : \A i \in Ids(tq'[b]) :
           tq'[b].data[i].hasSend <=> tq'[b].data[i].ptr \in sent'
    <3>1. \A b \in Adapter \ {a} : \A i \in Ids(tq'[b]) :
             tq'[b].data[i].hasSend <=> tq'[b].data[i].ptr \in sent'
      BY <2>1, <2>4 DEF SentOK
    <3>2. \A i \in Ids(tq'[a]) : tq'[a].data[i].hasSend <=> tq'[a].data[i].ptr \in sent'
      <4>1. TAKE i \in Ids(tq'[a])
      <4>2. CASE i = id
        BY <2>1, <4>2 DEF m
      <4>3. CASE i # id
        BY <2>1, <2>4, <4>3 DEF SentOK
      <4> QED
        BY <4>2, <4>3
    <3> QED
      BY <3>1, <3>2
  <2>7. \A b \in Adapter : \A r \in peer'[b] : r \in peer[b] \/ r[2] = m
    BY <2>1
  <2> QED
    BY <2>1, <2>2, <2>5, <2>6, <2>7 DEF SentOK, WrittenAtMostOnce
<1> QED
  BY <1>1, <1>2, <1>3 DEF Effect

LEMMA InitSentOK == Init => SentOK
<1> SUFFICES ASSUME Init PROVE SentOK
  OBVIOUS
<1>1. \A a \in Adapter : Ids(tq[a]) = {}
  BY EmptyQueueLemma DEF Init
<1> QED
  BY <1>1 DEF Init, SentOK

\* No request is written to a connection twice, however often connections
\* are lost, blocked and set up again, so no call is executed twice.
THEOREM WrittenOnceAlways == Spec => WrittenOnce
<1>1. IInv /\ SentOK /\ [Next]_vars => SentOK' /\ [WrittenAtMostOnce]_vars
  BY NextEffect, SentStep
<1>2. Spec => [][WrittenAtMostOnce]_vars
  BY <1>1, InitSentOK, Inductive, PTL DEF Spec
<1> QED
  BY <1>2 DEF WrittenOnce, WrittenAtMostOnce

LEMMA SentInductive == Spec => []SentOK
<1>1. IInv /\ SentOK /\ [Next]_vars => SentOK'
  BY NextEffect, SentStep
<1> QED
  BY <1>1, InitSentOK, Inductive, PTL DEF Spec

-----------------------------------------------------------------------------
(* AnswerMatchesRequest: an id that is given out has not been used on the   *)
(* connection before.  The counter of an adapter moves once for each call   *)
(* that reaches it, so this is true while fewer calls are made than there   *)
(* are ids; afterwards a late answer may meet a request with the same id.   *)

IdsSuffice == IsFiniteSet(Msg) /\ Cardinality(Msg) < IdSpace

Passed == {n \in Msg : Called(n) /\ ~Waits(n)}

IdsOK ==
    \A a \in Adapter :
        /\ tq[a].uniqId <= Cardinality(Passed)
        /\ \A i \in Ids(tq[a]) : i <= tq[a].uniqId
        /\ \A r \in peer[a] : r[1] <= tq[a].uniqId

MatchOK ==
    \A a \in Adapter : \A r \in peer[a] :
        r[1] \in Ids(tq[a]) => tq[a].data[r[1]].ptr = r[2]

\* A serial connection carries the request under way and no other.
SerialOK ==
    serial => \A a \in Adapter : /\ \A r \in peer[a] : req[a] = r[2]
                                 /\ \A r, s \in peer[a] : r = s

\* The types of what the numbers are compared with.
LEMMA NumberTypes ==
    ASSUME IInv, IdsSuffice
    PROVE  /\ IdSpace \in Nat
           /\ IsFiniteSet(Passed) /\ Cardinality(Passed) \in Nat
           /\ Cardinality(Passed) <= Cardinality(Msg) /\ Cardinality(Msg) < IdSpace
           /\ Cardinality(Msg) \in Nat
           /\ \A a \in Adapter : /\ tq[a] \in Queue /\ tq[a].uniqId \in Nat
                                 /\ \A i \in Ids(tq[a]) : i \in Nat
                                 /\ \A r \in peer[a] : r[1] \in Nat /\ r[2] \in Msg
<1>1. IdSpace \in Nat /\ Id \subseteq Nat
  BY IdSpaceAssumption DEF Id
<1>2. Passed \in SUBSET Msg
  BY DEF Passed
<1>3. /\ IsFiniteSet(Passed) /\ Cardinality(Passed) <= Cardinality(Msg)
      /\ Cardinality(Passed) \in Nat /\ Cardinality(Msg) \in Nat
  BY <1>2, FS_Subset, FS_CardinalityType DEF IdsSuffice
<1>4. ASSUME NEW a \in Adapter
      PROVE  /\ tq[a] \in Queue /\ tq[a].uniqId \in Nat
             /\ \A i \in Ids(tq[a]) : i \in Nat
             /\ \A r \in peer[a] : r[1] \in Nat /\ r[2] \in Msg
  <2>1. tq[a] \in Queue
    BY TableFacts DEF IInv
  <2>2. tq[a].uniqId \in Id /\ Ids(tq[a]) \subseteq Id
    BY <2>1, QueueShape
  <2>3. \A r \in peer[a] : r \in Id \X Msg
    BY DEF IInv, LinkOK
  <2> QED
    BY <1>1, <2>1, <2>2, <2>3
<1> QED
  BY <1>1, <1>3, <1>4 DEF IdsSuffice

\* Calls that have reached an adapter never wait again.
LEMMA PassedGrows ==
    ASSUME IInv, IInv', IdsSuffice, Effect
    PROVE  Cardinality(Passed) <= Cardinality(Passed')
<1>1. Passed \subseteq Passed'
  BY DEF Effect, Kept, Arrives, Sends, Passed, Called
<1>2. IsFiniteSet(Passed')
  BY FS_Subset DEF IdsSuffice, Passed
<1> QED
  BY <1>1, <1>2, FS_Subset

LEMMA PassedCounts ==
    ASSUME IInv, IInv', IdsSuffice, NEW m \in Msg, Arrives(m)
    PROVE  Cardinality(Passed') = Cardinality(Passed) + 1
<1>1. Passed' = Passed \cup {m} /\ m \notin Passed
  BY DEF Arrives, Passed, Called
<1> QED
  BY <1>1, NumberTypes, FS_AddElement

\* The next id of the adapter is one that it has not used.
LEMMA NextIdFresh ==
    ASSUME IInv, IInv', IdsSuffice, IdsOK, NEW m \in Msg, Arrives(m), NEW a \in Adapter
    PROVE  /\ NextId(tq[a]) = tq[a].uniqId + 1
           /\ tq[a].uniqId + 1 <= Cardinality(Passed')
           /\ NextId(tq[a]) \notin Ids(tq[a])
           /\ \A r \in peer[a] : r[1] # NextId(tq[a])
<1>1. /\ Cardinality(Passed') = Cardinality(Passed) + 1 /\ Cardinality(Passed') < IdSpace
      /\ tq[a].uniqId <= Cardinality(Passed) /\ tq[a].uniqId \in Nat /\ tq[a] \in Queue
      /\ Cardinality(Passed) \in Nat /\ IdSpace \in Nat
      /\ \A i \in Ids(tq[a]) : i \in Nat /\ i <= tq[a].uniqId
      /\ \A r \in peer[a] : r[1] \in Nat /\ r[1] <= tq[a].uniqId
  <2>1. Cardinality(Passed') <= Cardinality(Msg) /\ Cardinality(Msg) < IdSpace
        /\ Cardinality(Msg) \in Nat
    <3>1. Passed' \in SUBSET Msg
      BY DEF Passed
    <3> QED
      BY <3>1, FS_Subset, NumberTypes DEF IdsSuffice
  <2> QED
    BY <2>1, PassedCounts, NumberTypes DEF IdsOK
<1>2. tq[a].uniqId + 1 < IdSpace /\ tq[a].uniqId + 1 <= Cardinality(Passed')
  BY <1>1
<1>3. NextId(tq[a]) = tq[a].uniqId + 1
  BY <1>1, <1>2, NextIdCounts
<1> QED
  BY <1>1, <1>2, <1>3

LEMMA MatchStep ==
    ASSUME IInv, IInv', IdsSuffice, IdsOK, MatchOK, SerialOK, Effect
    PROVE  IdsOK' /\ MatchOK' /\ SerialOK'
<1>0. /\ Cardinality(Passed) <= Cardinality(Passed')
      /\ Cardinality(Passed) \in Nat /\ Cardinality(Passed') \in Nat
      /\ \A a \in Adapter : /\ tq[a].uniqId \in Nat
                            /\ \A i \in Ids(tq[a]) : i \in Nat
                            /\ \A r \in peer[a] : r[1] \in Nat /\ r[2] \in Msg
      /\ None \notin Msg
  <2>1. Cardinality(Passed') \in Nat
    BY FS_Subset, FS_CardinalityType DEF IdsSuffice, Passed
  <2> QED
    BY <2>1, NumberTypes, PassedGrows, ConstantsOK
<1>1. ASSUME Kept PROVE IdsOK' /\ MatchOK' /\ SerialOK'
  <2>1. IdsOK'
    BY <1>0, <1>1 DEF Kept, IdsOK
  <2>2. MatchOK'
    BY <1>1 DEF Kept, MatchOK
  <2>3. SerialOK'
    <3> SUFFICES ASSUME serial, NEW a \in Adapter
                 PROVE  /\ \A r \in peer'[a] : req'[a] = r[2]
                        /\ \A r, s \in peer'[a] : r = s
      BY <1>1 DEF SerialOK, Kept
    <3>1. /\ \A r \in peer[a] : req[a] = r[2] /\ \A s \in peer[a] : r = s
          /\ peer'[a] \subseteq peer[a]
      BY <1>1 DEF Kept, SerialOK
    <3>2. \/ req'[a] = req[a]
          \/ peer'[a] = {}
          \/ \E r \in peer[a] : peer'[a] = peer[a] \ {r}
      BY <1>1 DEF Kept
    <3> QED
      BY <3>1, <3>2
  <2> QED
    BY <2>1, <2>2, <2>3
<1>2. ASSUME NEW m \in Msg, NEW a \in Adapter, NEW w \in BOOLEAN, Passes(m, a, w), Arrives(m)
      PROVE  IdsOK' /\ MatchOK' /\ SerialOK'
  <2> DEFINE id == NextId(tq[a])
  <2>1. /\ id = tq[a].uniqId + 1 /\ id <= Cardinality(Passed') /\ id \in Nat
        /\ id \notin Ids(tq[a]) /\ \A r \in peer[a] : r[1] # id
    BY <1>0, <1>2, NextIdFresh
  <2>2. /\ \A b \in Adapter : \A r \in peer'[b] : r \in peer[b] \/ (w /\ b = a /\ r = <<id, m>>)
        /\ \A b \in Adapter \ {a} : tq'[b] = tq[b] /\ req'[b] = req[b]
        /\ \/ tq'[a] = tq[a] /\ ~w
           \/ /\ tq'[a].uniqId = id
              /\ \A i \in Ids(tq'[a]) :
                   \/ i \in Ids(tq[a]) /\ tq'[a].data[i] = tq[a].data[i]
                   \/ i = id /\ tq'[a].data[i].ptr = m
        /\ IF w THEN req[a] = None /\ (serial => req'[a] = m) ELSE req'[a] = req[a]
        /\ serial' = serial
    BY <1>2, <2>1 DEF Passes, Arrives
  <2> HIDE DEF id
  <2>3. IdsOK'
    <3>1. ASSUME NEW b \in Adapter, b # a
          PROVE  /\ tq'[b].uniqId <= Cardinality(Passed')
                 /\ \A i \in Ids(tq'[b]) : i <= tq'[b].uniqId
                 /\ \A r \in peer'[b] : r[1] <= tq'[b].uniqId
      BY <1>0, <2>2, <3>1 DEF IdsOK
    <3>2. /\ tq'[a].uniqId <= Cardinality(Passed')
          /\ \A i \in Ids(tq'[a]) : i <= tq'[a].uniqId
          /\ \A r \in peer'[a] : r[1] <= tq'[a].uniqId
      <4>1. CASE tq'[a] = tq[a] /\ ~w
        BY <1>0, <2>2, <4>1 DEF IdsOK
      <4>2. CASE tq'[a].uniqId = id /\ \A i \in Ids(tq'[a]) : i \in Ids(tq[a]) \/ i = id
        <5>0. tq[a].uniqId \in Nat /\ id = tq[a].uniqId + 1
          BY <1>0, <2>1
        <5>1. ASSUME NEW i \in Ids(tq[a]) PROVE i <= id
          <6>1. i \in Nat /\ i <= tq[a].uniqId
            BY <1>0 DEF IdsOK
          <6> QED
            BY <5>0, <6>1
        <5>2. ASSUME NEW r \in peer[a] PROVE r[1] <= id
          <6>1. r[1] \in Nat /\ r[1] <= tq[a].uniqId
            BY <1>0 DEF IdsOK
          <6> QED
            BY <5>0, <6>1
        <5> QED
          BY <2>1, <2>2, <4>2, <5>1, <5>2
      <4> QED
        BY <2>2, <4>1, <4>2
    <3> QED
      BY <3>1, <3>2 DEF IdsOK
  <2>4. MatchOK'
    <3>1. ASSUME NEW b \in Adapter, NEW r \in peer'[b], r[1] \in Ids(tq'[b])
          PROVE  tq'[b].data[r[1]].ptr = r[2]
      <4>1. CASE r \in peer[b]
        <5>1. b = a => r[1] # id
          BY <2>1, <4>1
        <5>2. r[1] \in Ids(tq[b]) /\ tq'[b].data[r[1]] = tq[b].data[r[1]]
          BY <2>2, <3>1, <5>1
        <5> QED
          BY <4>1, <5>2 DEF MatchOK
      <4>2. CASE w /\ b = a /\ r = <<id, m>>
        BY <2>1, <2>2, <3>1, <4>2
      <4> QED
        BY <2>2, <4>1, <4>2
    <3> QED
      BY <3>1 DEF MatchOK
  <2>5. SerialOK'
    <3> SUFFICES ASSUME serial, NEW b \in Adapter
                 PROVE  /\ \A r \in peer'[b] : req'[b] = r[2]
                        /\ \A r, s \in peer'[b] : r = s
      BY <2>2 DEF SerialOK
    <3>1. \A r \in peer[b] : req[b] = r[2] /\ \A s \in peer[b] : r = s
      BY DEF SerialOK
    <3>2. CASE b # a \/ ~w
      BY <2>2, <3>1, <3>2
    <3>3. CASE b = a /\ w
      <4>1. peer[a] = {}
        BY <1>0, <2>2, <3>1, <3>3
      <4> QED
        BY <2>2, <3>3, <4>1
    <3> QED
      BY <3>2, <3>3
  <2> QED
    BY <2>3, <2>4, <2>5
<1>3. ASSUME NEW a \in Adapter, Sends(a) PROVE IdsOK' /\ MatchOK' /\ SerialOK'
  <2> DEFINE id == NextSend(tq[a])
             m  == tq[a].data[id].ptr
  <2>1. /\ id \in Ids(tq[a])
        /\ peer'[a] = peer[a] \cup {<<id, m>>}
        /\ tq'[a].uniqId = tq[a].uniqId
        /\ \A i \in Ids(tq'[a]) : i \in Ids(tq[a]) /\ tq'[a].data[i].ptr = tq[a].data[i].ptr
        /\ serial => req[a] = None /\ req'[a] = m
        /\ \A b \in Adapter \ {a} : tq'[b] = tq[b] /\ req'[b] = req[b] /\ peer'[b] = peer[b]
        /\ serial' = serial
        /\ m = tq[a].data[id].ptr
    BY <1>3 DEF Sends
  <2> HIDE DEF id, m
  <2>2. IdsOK'
    <3>1. ASSUME NEW b \in Adapter
          PROVE  /\ tq'[b].uniqId = tq[b].uniqId /\ Ids(tq'[b]) \subseteq Ids(tq[b])
                 /\ \A r \in peer'[b] : r \in peer[b] \/ (b = a /\ r[1] = id)
      BY <2>1
    <3> QED
      BY <1>0, <2>1, <3>1 DEF IdsOK
  <2>3. MatchOK'
    <3>1. ASSUME NEW b \in Adapter, NEW r \in peer'[b], r[1] \in Ids(tq'[b])
          PROVE  tq'[b].data[r[1]].ptr = r[2]
      <4>1. CASE r \in peer[b]
        BY <2>1, <3>1, <4>1 DEF MatchOK
      <4>2. CASE b = a /\ r = <<id, m>>
        BY <2>1, <3>1, <4>2
      <4> QED
        BY <2>1, <4>1, <4>2
    <3> QED
      BY <3>1 DEF MatchOK
  <2>4. SerialOK'
    <3> SUFFICES ASSUME serial, NEW b \in Adapter
                 PROVE  /\ \A r \in peer'[b] : req'[b] = r[2]
                        /\ \A r, s \in peer'[b] : r = s
      BY <2>1 DEF SerialOK
    <3>1. \A r \in peer[b] : req[b] = r[2] /\ \A s \in peer[b] : r = s
      BY DEF SerialOK
    <3>2. CASE b # a
      BY <2>1, <3>1, <3>2
    <3>3. CASE b = a
      <4>1. peer[a] = {}
        BY <1>0, <2>1, <3>1, <3>3
      <4> QED
        BY <2>1, <3>3, <4>1
    <3> QED
      BY <3>2, <3>3
  <2> QED
    BY <2>2, <2>3, <2>4
<1> QED
  BY <1>1, <1>2, <1>3 DEF Effect

LEMMA InitMatchOK == Init => IdsOK /\ MatchOK /\ SerialOK
<1> SUFFICES ASSUME Init PROVE IdsOK /\ MatchOK /\ SerialOK
  OBVIOUS
<1>1. \A a \in Adapter : Ids(tq[a]) = {} /\ tq[a].uniqId = 0 /\ peer[a] = {}
  BY EmptyQueueLemma DEF Init, EmptyQueue
<1>2. Passed = {}
  BY DEF Init, Passed, Called
<1>3. Cardinality(Passed) = 0
  BY <1>2, FS_EmptySet
<1> QED
  BY <1>1, <1>3 DEF IdsOK, MatchOK, SerialOK

\* While fewer calls are made than there are ids (2^32 in the code), an answer
\* still to come, even a late one, never meets another request: its id is that
\* of no other request of the connection, and on a serial connection no other
\* request is under way.
THEOREM AnswersMatch ==
    ASSUME IdsSuffice
    PROVE  Spec => []AnswerMatchesRequest
<1>1. IInv /\ IInv' /\ IdsOK /\ MatchOK /\ SerialOK /\ [Next]_vars
        => IdsOK' /\ MatchOK' /\ SerialOK'
  BY NextEffect, MatchStep
<1>2. IInv /\ MatchOK /\ SerialOK => AnswerMatchesRequest
  BY DEF IInv, ReqOK, InTable, MatchOK, SerialOK, AnswerMatchesRequest
<1> QED
  BY <1>1, <1>2, InitMatchOK, Inductive, PTL DEF Spec
-----------------------------------------------------------------------------
(* NoRequestStranded.  Only a hard failure of ::send leaves handleNotify    *)
(* with requests in the thread's queue and the event not armed; where it    *)
(* cannot happen no request is left behind.                                 *)

LEMMA NetNames ==
    ASSUME NEW t, NEW b
    PROVE  /\ \A u, d : InNotify(t, b) = InNotify(u, d) => t = u
           /\ InNotify(t, b) # Idle /\ InNotify(t, b) # InTimeout
           /\ \A a : InNotify(t, b) # InDoInvoke(a)
           /\ \A a, via : InNotify(t, b) # InPrepare(a, via)
<1> DEFINE n == InNotify(t, b)
<1>1. n.at = "handleNotify" /\ n.thread = t
  BY DEF InNotify
<1>2. /\ Idle.at = "epoll" /\ InTimeout.at = "doTimeout"
      /\ \A a : InDoInvoke(a).at = "doInvoke"
      /\ \A a, via : InPrepare(a, via).at = "prepareConnection"
      /\ \A u, d : InNotify(u, d).thread = u
  BY DEF Idle, InTimeout, InDoInvoke, InPrepare, InNotify
<1> HIDE DEF n
<1>3. /\ \A u, d : n = InNotify(u, d) => t = u
      /\ n # Idle /\ n # InTimeout
      /\ \A a : n # InDoInvoke(a)
      /\ \A a, via : n # InPrepare(a, via)
  BY <1>1, <1>2
<1> QED
  BY <1>3 DEF n

\* The thread's notify event is being served.
Serving(t) == net \in {InNotify(t, FALSE), InNotify(t, TRUE)}

\* The step is no business of the queues to the net thread.
LEMMA Elsewhere ==
    ASSUME NoRequestStranded, UNCHANGED <<loopq, armed>>,
           \A t \in Thread : pc[t] = "pushed" => pc'[t] = "pushed",
           net' = net \/ \A t \in Thread : ~Serving(t)
    PROVE  NoRequestStranded'
BY DEF NoRequestStranded, Serving

LEMMA NotServing ==
    ASSUME \/ net \in {Idle, InTimeout}
           \/ \E a \in Adapter : net = InDoInvoke(a)
           \/ \E a, via \in Adapter : net = InPrepare(a, via)
    PROVE  \A t \in Thread : ~Serving(t)
BY NetNames DEF Serving

LEMMA ElsewhereActions ==
    ASSUME IInv, NoRequestStranded,
           \/ \E t \in Thread : WakeUp(t)
           \/ \E a \in Adapter : SocketStep(a)
           \/ TimerStep
           \/ RegistryAnswers \/ RegistryGivesUp \/ RegistryUpdates
           \/ RunCallback \/ Tick \/ UNCHANGED vars
    PROVE  NoRequestStranded'
<1> USE DEF userVars, handOver
<1>1. ASSUME NEW t \in Thread, WakeUp(t) PROVE NoRequestStranded'
  <2>1. \A u \in Thread : pc[u] = "pushed" => pc'[u] = "pushed"
    BY <1>1 DEF WakeUp, IInv, UserOK
  <2> QED
    BY <1>1, <2>1, Elsewhere DEF WakeUp
<1>2. ASSUME NEW a \in Adapter,
             \/ ConnectDone(a) \/ DoInvokeOne(a) \/ DoInvokeDone(a) \/ DoInvokeSerial(a)
             \/ \E via \in Adapter : PrepareOne(a, via) \/ PrepareDone(a, via)
             \/ Writable(a) \/ LinkDown(a) \/ Respond(a) \/ RespondSerial(a)
      PROVE  NoRequestStranded'
  <2>1. UNCHANGED <<loopq, armed, pc>>
    BY <1>2 DEF ConnectDone, DoInvokeOne, DoInvokeDone, DoInvokeSerial, PrepareOne, PrepareDone,
                Writable, LinkDown, Respond, RespondSerial
  <2>2. \/ net = Idle \/ net = InDoInvoke(a)
        \/ \E via \in Adapter : net = InPrepare(a, via)
    BY <1>2 DEF ConnectDone, DoInvokeOne, DoInvokeDone, DoInvokeSerial, PrepareOne, PrepareDone,
                Writable, LinkDown, Respond, RespondSerial
  <2> QED
    BY <2>1, <2>2, NotServing, Elsewhere
<1>3. ASSUME TimerStep PROVE NoRequestStranded'
  <2>1. UNCHANGED <<loopq, armed, pc>> /\ net \in {Idle, InTimeout}
    BY <1>3 DEF TimerStep, EnterTimeout, TimeoutAdapter, TimeoutWaiting, LeaveTimeout
  <2> QED
    BY <2>1, NotServing, Elsewhere
<1>4. ASSUME \/ RegistryAnswers \/ RegistryGivesUp \/ RegistryUpdates
             \/ RunCallback \/ Tick \/ UNCHANGED vars
      PROVE  NoRequestStranded'
  BY <1>4, Elsewhere DEF RegistryAnswers, RegistryGivesUp, RegistryUpdates, RunCallback, Tick, vars
<1> QED
  BY <1>1, <1>2, <1>3, <1>4 DEF SocketStep

LEMMA PopKeepsServing ==
    ASSUME ~SendMayThrow, NEW t \in Thread, NotifyPop(t)
    PROVE  net' = InNotify(t, TRUE)
<1>1. ASSUME NEW m, NEW a, NEW c, NEW ok, NEW blame, AdapterInvoke(m, a, c, ok, blame)
      PROVE  net' = ok
  BY <1>1 DEF AdapterInvoke
<1> QED
  BY <1>1 DEF NotifyPop, ObjectInvoke

LEMMA StrandedStep ==
    ASSUME ~SendMayThrow, IInv, NoRequestStranded, [Next]_vars
    PROVE  NoRequestStranded'
<1> USE DEF userVars, handOver
<1>1. ASSUME NEW t \in Thread, NEW m \in Msg, Call(t, m) PROVE NoRequestStranded'
  <2>1. /\ UNCHANGED <<armed, net>>
        /\ \/ /\ loopq' = [loopq EXCEPT ![t] = Append(@, m)]
              /\ pc' = [pc EXCEPT ![t] = "pushed"]
           \/ UNCHANGED <<loopq, pc>>
    BY <1>1 DEF Call
  <2>2. \A u \in Thread : (u = t /\ pc'[u] = "pushed") \/ (loopq'[u] = loopq[u] /\ pc'[u] = pc[u])
    BY <2>1 DEF IInv, UserOK, LoopOK
  <2> QED
    BY <2>1, <2>2 DEF NoRequestStranded
<1>2. ASSUME NEW t \in Thread, Notify(t) PROVE NoRequestStranded'
  <2>1. /\ UNCHANGED <<loopq, net>> /\ armed' = armed \cup {t}
        /\ \A u \in Thread \ {t} : pc'[u] = pc[u]
    BY <1>2 DEF Notify, IInv, UserOK
  <2> QED
    BY <2>1 DEF NoRequestStranded
<1>3. ASSUME NEW t \in Thread, EnterNotify(t) PROVE NoRequestStranded'
  <2>1. /\ UNCHANGED <<loopq, pc>> /\ armed' = armed \ {t}
        /\ net = Idle /\ net' = InNotify(t, FALSE)
    BY <1>3 DEF EnterNotify
  <2>2. \A u \in Thread : ~Serving(u)
    BY <2>1, NotServing
  <2> QED
    BY <2>1, <2>2 DEF NoRequestStranded, Serving
<1>4. ASSUME NEW t \in Thread, NotifyPop(t) PROVE NoRequestStranded'
  <2>1. /\ UNCHANGED <<armed, pc>> /\ Serving(t) /\ net' = InNotify(t, TRUE)
        /\ \A u \in Thread \ {t} : loopq'[u] = loopq[u]
    BY <1>4, PopKeepsServing DEF NotifyPop, Serving, IInv, LoopOK
  <2>2. \A u \in Thread \ {t} : ~Serving(u)
    BY <2>1, NetNames DEF Serving
  <2> QED
    BY <2>1, <2>2 DEF NoRequestStranded, Serving
<1>5. ASSUME NEW t \in Thread, LeaveNotify(t) \/ BreakNotify(t) PROVE NoRequestStranded'
  <2>1. /\ UNCHANGED <<loopq, pc>> /\ Serving(t)
        /\ armed \subseteq armed' /\ (loopq[t] = <<>> \/ t \in armed')
    BY <1>5 DEF LeaveNotify, BreakNotify, Serving
  <2>2. \A u \in Thread \ {t} : ~Serving(u)
    BY <2>1, NetNames DEF Serving
  <2> QED
    BY <2>1, <2>2 DEF NoRequestStranded, Serving
<1> QED
  BY <1>1, <1>2, <1>3, <1>4, <1>5, ElsewhereActions DEF Next, UserStep, NotifyStep

\* No lost wakeup, unless a send error leaves the notify handler as an
\* exception: a request in a thread's queue always has somebody who comes for
\* it, whatever the order of the push, the arming of the event,
\* the drain of the queue and its interruption after a millisecond.
THEOREM NothingStranded ==
    ASSUME ~SendMayThrow
    PROVE  Spec => []NoRequestStranded
<1>1. Init => NoRequestStranded
  BY DEF Init, NoRequestStranded
<1>2. IInv /\ NoRequestStranded /\ [Next]_vars => NoRequestStranded'
  BY StrandedStep
<1> QED
  BY <1>1, <1>2, Inductive, PTL DEF Spec
-----------------------------------------------------------------------------
(* The client implements RpcCall.                                           *)

\* What the status says of a call, by the place it is in.
PhaseOK ==
    \A m \in Msg :
        /\ ~Called(m) => kind[m] = None /\ status[m] = "REQ"
        /\ At(m, "woken") \/ At(m, "asyncq") => status[m] # "REQ"
        /\ Waits(m) \/ At(m, "tq") => status[m] = "REQ"
        /\ At(m, "tq") /\ kind[m] = "ONEWAY" => m \notin sent

\* A step of the abstract specification, or none.
AbstractStep == [Abstract!Next]_(Abstract!vars)

\* The calls other than m are left alone.
Apart(m) ==
    /\ Stay(m)
    /\ \A n \in Msg \ {m} : /\ begin'[n] = begin[n] /\ kind'[n] = kind[n]
                           /\ status'[n] = status[n] /\ (n \in sent' <=> n \in sent)

\* Where m is after the step, and how it has ended if it has.
Outcome(m) ==
    \/ status'[m] = "REQ" /\ \E p \in {"reqq", "tq"} : At(m, p)'
    \/ status'[m] = "REQ" /\ m \notin sent /\ \E p \in {"deleted", "lost"} : At(m, p)'
    \/ status'[m] \in {"RSP", "TIME", "EXC"} /\ \E p \in End : At(m, p)'

LEMMA PhaseByPlace ==
    ASSUME IInv, NEW m \in Msg
    PROVE  CallPhase(m) = IF ~Called(m) THEN "new"
                          ELSE IF status[m] = "RSP" THEN "answered"
                          ELSE IF \/ status[m] # "REQ" \/ At(m, "lost")
                                  \/ At(m, "deleted") /\ m \notin sent
                          THEN "failed"
                          ELSE IF m \in sent THEN "sent" ELSE "pending"
<1>1. deleted[m] > 0 <=> deleted[m] = 1
  BY DEF IInv, EndOK
<1> QED
  BY <1>1, AtPlace DEF CallPhase, Lost

LEMMA PhaseByPlaceNext ==
    ASSUME IInv', NEW m \in Msg
    PROVE  CallPhase(m)' = IF ~Called(m)' THEN "new"
                           ELSE IF status'[m] = "RSP" THEN "answered"
                           ELSE IF \/ status'[m] # "REQ" \/ At(m, "lost")'
                                   \/ At(m, "deleted")' /\ m \notin sent'
                           THEN "failed"
                           ELSE IF m \in sent' THEN "sent" ELSE "pending"
<1>1. deleted'[m] > 0 <=> deleted'[m] = 1
  BY DEF IInv, EndOK
<1> QED
  BY <1>1, AtPlaceNext DEF CallPhase, Lost

\* The abstract step, from what happens to one call.
LEMMA AbstractMove ==
    ASSUME NEW m \in Msg, \A n \in Msg \ {m} : CallPhase(n)' = CallPhase(n), kind' = kind,
           \/ CallPhase(m)' = CallPhase(m)
           \/ CallPhase(m) = "pending" /\ CallPhase(m)' \in {"sent", "failed"}
           \/ kind[m] # "ONEWAY" /\ CallPhase(m) = "sent" /\ CallPhase(m)' \in {"answered", "failed"}
    PROVE  AbstractStep
<1> DEFINE ph == [n \in Msg |-> CallPhase(n)]
           ow == {n \in Msg : kind[n] = "ONEWAY"}
<1>1. ow' = ow
  OBVIOUS
<1>2. /\ ph' = [ph EXCEPT ![m] = CallPhase(m)']
      /\ ph[m] = CallPhase(m)
  OBVIOUS
<1>3. m \in ow <=> kind[m] = "ONEWAY"
  OBVIOUS
<1>4. CASE CallPhase(m)' = CallPhase(m)
  <2>1. ph' = ph
    BY <1>4
  <2> QED
    BY <1>1, <2>1 DEF AbstractStep, Abstract!vars
<1>5. CASE CallPhase(m)' # CallPhase(m)
  <2>1. m \in {d \in Msg : ph'[d] # ph[d]}
    BY <1>5
  <2>2. CASE CallPhase(m) = "pending" /\ CallPhase(m)' = "sent"
    <3>1. Abstract!Transmit(m)
      BY <1>1, <1>2, <2>2 DEF Abstract!Transmit, Abstract!Move
    <3> QED
      BY <2>1, <3>1 DEF AbstractStep, Abstract!Next
  <2>3. CASE \/ CallPhase(m) = "pending" /\ CallPhase(m)' = "failed"
             \/ kind[m] # "ONEWAY" /\ CallPhase(m) = "sent" /\ CallPhase(m)' = "failed"
    <3>1. Abstract!Fail(m)
      BY <1>1, <1>2, <1>3, <2>3 DEF Abstract!Fail, Abstract!Move
    <3> QED
      BY <2>1, <3>1 DEF AbstractStep, Abstract!Next
  <2>4. CASE kind[m] # "ONEWAY" /\ CallPhase(m) = "sent" /\ CallPhase(m)' = "answered"
    <3>1. Abstract!Answer(m)
      BY <1>1, <1>2, <1>3, <2>4 DEF Abstract!Answer, Abstract!Move
    <3> QED
      BY <2>1, <3>1 DEF AbstractStep, Abstract!Next
  <2> QED
    BY <1>5, <2>2, <2>3, <2>4
<1> QED
  BY <1>4, <1>5

LEMMA ApartPhases ==
    ASSUME IInv, IInv', PhaseOK, NEW m \in Msg, Apart(m)
    PROVE  \A n \in Msg \ {m} :
              /\ CallPhase(n)' = CallPhase(n)
              /\ ~Called(n)' => kind'[n] = None /\ status'[n] = "REQ"
              /\ At(n, "woken")' \/ At(n, "asyncq")' => status'[n] # "REQ"
              /\ Waits(n)' \/ At(n, "tq")' => status'[n] = "REQ"
              /\ At(n, "tq")' /\ kind'[n] = "ONEWAY" => n \notin sent'
<1> SUFFICES ASSUME NEW n \in Msg \ {m}
             PROVE  /\ CallPhase(n)' = CallPhase(n)
                    /\ ~Called(n)' => kind'[n] = None /\ status'[n] = "REQ"
                    /\ At(n, "woken")' \/ At(n, "asyncq")' => status'[n] # "REQ"
                    /\ Waits(n)' \/ At(n, "tq")' => status'[n] = "REQ"
                    /\ At(n, "tq")' /\ kind'[n] = "ONEWAY" => n \notin sent'
  OBVIOUS
<1>1. /\ \A p \in Place : At(n, p)' <=> At(n, p)
      /\ status'[n] = status[n] /\ (n \in sent' <=> n \in sent)
      /\ begin'[n] = begin[n] /\ kind'[n] = kind[n]
  BY DEF Apart, Stay
<1>2. {"loopq", "reqq", "tq", "woken", "asyncq", "deleted", "lost"} \subseteq Place
  BY DEF Place, Rest, End
<1>3. CallPhase(n)' = CallPhase(n)
  BY <1>1, <1>2, PhaseByPlace, PhaseByPlaceNext DEF Called
<1> QED
  BY <1>1, <1>2, <1>3 DEF PhaseOK, Waits, Called

\* A call on its way moves on, or ends.
LEMMA PhaseMoves ==
    ASSUME IInv, IInv', SentOK, PhaseOK, NEW m \in Msg, Waits(m) \/ At(m, "tq"), Apart(m),
           UNCHANGED <<begin, kind>>, m \in sent => m \in sent', Outcome(m),
           status'[m] = "RSP" => m \in sent,
           At(m, "tq")' /\ kind[m] = "ONEWAY" => m \notin sent'
    PROVE  PhaseOK' /\ AbstractStep
<1>0. {"loopq", "reqq", "tq", "woken", "asyncq", "deleted", "lost"} \subseteq Place
  BY DEF Place, Rest, End
<1>1. /\ Called(m) /\ status[m] = "REQ" /\ ~At(m, "lost") /\ ~At(m, "deleted")
      /\ m \in sent => kind[m] # "ONEWAY"
  BY <1>0, OwnerOnly DEF IInv, PhaseOK, Waits, SentOK
<1>2. CallPhase(m) = IF m \in sent THEN "sent" ELSE "pending"
  BY <1>1, PhaseByPlace
<1>3. Called(m)' /\ kind' = kind
  BY <1>1 DEF Called
<1>4. \A p, q \in Place : At(m, p)' /\ At(m, q)' => p = q
  BY <1>3 DEF IInv, OwnerOK
<1>5. CASE status'[m] = "REQ" /\ \E p \in {"reqq", "tq"} : At(m, p)'
  <2>1. ~At(m, "lost")' /\ ~At(m, "deleted")' /\ ~At(m, "woken")' /\ ~At(m, "asyncq")'
    BY <1>0, <1>4, <1>5
  <2>2. CallPhase(m)' = IF m \in sent' THEN "sent" ELSE "pending"
    BY <1>3, <1>5, <2>1, PhaseByPlaceNext
  <2>3. AbstractStep
    BY <1>2, <1>3, <2>2, ApartPhases, AbstractMove
  <2> QED
    BY <1>3, <1>5, <2>1, <2>3, ApartPhases DEF PhaseOK
<1>6. CASE status'[m] = "REQ" /\ m \notin sent /\ \E p \in {"deleted", "lost"} : At(m, p)'
  <2>1. ~Waits(m)' /\ ~At(m, "tq")' /\ ~At(m, "woken")' /\ ~At(m, "asyncq")'
    BY <1>0, <1>4, <1>6 DEF Waits
  <2>2. CallPhase(m)' \in {"sent", "failed"}
    BY <1>3, <1>6, PhaseByPlaceNext
  <2>3. AbstractStep
    BY <1>2, <1>3, <1>6, <2>2, ApartPhases, AbstractMove
  <2> QED
    BY <1>3, <2>1, <2>3, ApartPhases DEF PhaseOK
<1>7. CASE status'[m] \in {"RSP", "TIME", "EXC"} /\ \E p \in End : At(m, p)'
  <2>1. ~Waits(m)' /\ ~At(m, "tq")'
    <3>1. End \subseteq Place /\ "tq" \notin End /\ "reqq" \notin End /\ "loopq" \notin End
      BY DEF Place, Rest, End
    <3> QED
      BY <1>0, <1>4, <1>7, <3>1 DEF Waits
  <2>2. CallPhase(m)' = IF status'[m] = "RSP" THEN "answered" ELSE "failed"
    BY <1>3, <1>7, PhaseByPlaceNext
  <2>3. AbstractStep
    BY <1>1, <1>2, <1>3, <1>7, <2>2, ApartPhases, AbstractMove
  <2> QED
    BY <1>3, <1>7, <2>1, <2>3, ApartPhases DEF PhaseOK
<1> QED
  BY <1>5, <1>6, <1>7 DEF Outcome

\* A step that leaves every call where it is is none of the abstract steps.
LEMMA PhaseQuiet ==
    ASSUME PhaseOK, UNCHANGED <<loopq, reqq, tq, endVars, begin, kind, status, sent>>
    PROVE  PhaseOK' /\ AbstractStep
<1>1. \A m \in Msg : CallPhase(m)' = CallPhase(m)
  BY DEF CallPhase, Called, endVars
<1>2. AbstractStep
  <2> DEFINE ph == [m \in Msg |-> CallPhase(m)]
  <2>1. ph' = ph
    BY <1>1
  <2>2. {m \in Msg : kind[m] = "ONEWAY"}' = {m \in Msg : kind[m] = "ONEWAY"}
    OBVIOUS
  <2> QED
    BY <2>1, <2>2 DEF AbstractStep, Abstract!vars
<1>3. PhaseOK'
  BY DEF PhaseOK, Waits, At, InTable, Called, endVars
<1> QED
  BY <1>2, <1>3

\* The caller or the async thread disposes of a call that has ended.
LEMMA PhaseDispose ==
    ASSUME IInv, IInv', PhaseOK, NEW m \in Msg, At(m, "woken") \/ At(m, "asyncq"), Stay(m),
           UNCHANGED <<loopq, reqq, tq, begin, kind, status, sent>>
    PROVE  PhaseOK' /\ AbstractStep
<1>0. Apart(m)
  BY DEF Apart
<1>1. status[m] # "REQ" /\ Called(m) /\ ~Waits(m) /\ ~At(m, "tq")
  <2>1. {"loopq", "reqq", "tq", "woken", "asyncq"} \subseteq Place
    BY DEF Place, Rest, End
  <2> QED
    BY <2>1, OwnerOnly DEF PhaseOK, IInv, Waits
<1>2. ~Waits(m)' /\ ~At(m, "tq")' /\ Called(m)'
  BY <1>1, AtPlace, AtPlaceNext DEF Waits, InTable, Called
<1>3. CallPhase(m)' = CallPhase(m)
  BY <1>1, <1>2, PhaseByPlace, PhaseByPlaceNext
<1>4. AbstractStep
  BY <1>0, <1>3, ApartPhases, AbstractMove
<1> QED
  BY <1>0, <1>1, <1>2, <1>4, ApartPhases DEF PhaseOK
-----------------------------------------------------------------------------
(* How AdapterProxy::invoke and ObjectProxy::invoke leave a call.           *)

\* The statuses and the writes of the other calls do not change.
OnlyStatus(m) == \A n \in Msg \ {m} : status'[n] = status[n] /\ (n \in sent' <=> n \in sent)

\* A call that goes on is in a queue or a table, or it has failed; one that is
\* kept in a table has not been written when nobody waits for its answer.
Turns(m) ==
    /\ OnlyStatus(m) /\ Outcome(m) /\ status'[m] # "RSP" /\ (m \in sent => m \in sent')
    /\ At(m, "tq")' /\ kind[m] = "ONEWAY" => m \notin sent'

LEMMA LandsSomewhere ==
    ASSUME NEW m \in Msg, NEW S, Lands(m, S)
    PROVE  \E p \in S : At(m, p)'
BY DEF Lands

LEMMA FailedOutcome ==
    ASSUME MsgOK, NEW m \in Msg, status' = [status EXCEPT ![m] = "EXC"], sent' = sent,
           Lands(m, End)
    PROVE  Outcome(m) /\ OnlyStatus(m) /\ status'[m] # "RSP"
<1>1. status'[m] = "EXC" /\ OnlyStatus(m)
  BY DEF MsgOK, OnlyStatus
<1> QED
  BY <1>1, LandsSomewhere DEF Outcome

LEMMA ExceptionOutcome ==
    ASSUME EndOK, MsgOK, NEW m \in Msg, kind[m] \in CallType, kind' = kind, sent' = sent,
           \A p \in End : ~At(m, p), status[m] = "REQ", m \notin sent, InvokeException(m)
    PROVE  Outcome(m) /\ OnlyStatus(m) /\ status'[m] # "RSP"
<1>1. CASE kind[m] = "ONEWAY"
  <2>1. status' = status /\ Delete(m)
    BY <1>1 DEF InvokeException, FinishMsg
  <2>2. At(m, "deleted")'
    BY <2>1, DeletedOnce, AtPlaceNext DEF End
  <2> QED
    BY <2>1, <2>2 DEF Outcome, OnlyStatus
<1>2. CASE kind[m] # "ONEWAY"
  <2>1. status' = [status EXCEPT ![m] = "EXC"]
    BY <1>2 DEF InvokeException
  <2>2. Lands(m, End)
    BY ExceptionLemma
  <2> QED
    BY <2>1, <2>2, FailedOutcome
<1> QED
  BY <1>1, <1>2

LEMMA EnqueueOutcome ==
    ASSUME MsgOK, TableOK, EndOK, NEW m \in Msg, Called(m), \A p \in Rest : ~At(m, p),
           NEW a \in Adapter, NEW isSent \in BOOLEAN, kind' = kind, status[m] = "REQ",
           Enqueue(a, m, isSent)
    PROVE  /\ Outcome(m) /\ status'[m] # "RSP"
           /\ \A n \in Msg \ {m} : status'[n] = status[n]
<1>1. CASE CanPush(GenerateId(tq[a]), NextId(tq[a]))
  <2>1. status' = status
    BY <1>1 DEF Enqueue
  <2>2. InTable(m, a)'
    BY <1>1, EnqueueLemma
  <2>3. At(m, "tq")'
    BY <2>2, AtPlaceNext
  <2> QED
    BY <2>1, <2>3 DEF Outcome
<1>2. CASE ~CanPush(GenerateId(tq[a]), NextId(tq[a]))
  <2>1. status' = [status EXCEPT ![m] = "EXC"] /\ FinishMsg(m)
    BY <1>2 DEF Enqueue
  <2>2. Lands(m, End)
    BY <2>1, FinishLemma DEF MsgOK, Rest
  <2>3. status'[m] = "EXC" /\ \A n \in Msg \ {m} : status'[n] = status[n]
    BY <2>1 DEF MsgOK
  <2> QED
    BY <2>2, <2>3, LandsSomewhere DEF Outcome
<1> QED
  BY <1>1, <1>2

LEMMA AdapterInvokeOutcome ==
    ASSUME LinkOK, MsgOK, TableOK, EndOK, NEW m \in Msg, Called(m), \A p \in Rest : ~At(m, p),
           NEW a \in Adapter, NEW c \in [Adapter -> ConnState], NEW ok,
           NEW blame \in SUBSET Adapter, kind' = kind, status[m] = "REQ", m \notin sent,
           AdapterInvoke(m, a, c, ok, blame)
    PROVE  Turns(m)
<1> DEFINE direct == req[a] = None /\ ~HasUnsent(tq[a]) /\ CanWrite(a, c)
<1>0. kind[m] \in CallType /\ \A p \in End : ~At(m, p)
  BY DEF MsgOK, Rest
<1>1. CASE /\ status' = [status EXCEPT ![m] = "EXC"]
           /\ FinishMsg(m)
           /\ UNCHANGED <<tq, req, buf, peer, up, sent>>
  <2>1. Lands(m, End)
    BY <1>0, <1>1, FinishLemma
  <2> QED
    BY <1>1, <2>1, FailedOutcome DEF Turns
<1>2. CASE /\ direct
           /\ \E rest \in BOOLEAN : Write(a, NextId(tq[a]), m, rest)
           /\ IF kind[m] = "ONEWAY"
              THEN /\ Delete(m)
                   /\ tq' = [tq EXCEPT ![a] = GenerateId(@)]
                   /\ UNCHANGED <<status, woken, asyncq, fate>>
              ELSE Enqueue(a, m, TRUE)
  <2>1. sent' = sent \cup {m}
    BY <1>2 DEF Write
  <2>2. CASE kind[m] = "ONEWAY"
    <3>1. Delete(m) /\ tq' = [tq EXCEPT ![a] = GenerateId(@)] /\ status' = status
      BY <1>2, <2>2
    <3>2. At(m, "deleted")'
      BY <1>0, <3>1, DeletedOnce, AtPlaceNext DEF End
    <3>3. ~At(m, "tq")'
      BY <3>1, TableGenerate, AtPlace, AtPlaceNext DEF Rest
    <3> QED
      BY <2>1, <3>1, <3>2, <3>3 DEF Turns, Outcome, OnlyStatus
  <2>3. CASE kind[m] # "ONEWAY"
    <3>1. Enqueue(a, m, TRUE)
      BY <1>2, <2>3
    <3> QED
      BY <2>1, <2>3, <3>1, EnqueueOutcome DEF Turns, OnlyStatus
  <2> QED
    BY <2>2, <2>3
<1>3. CASE /\ Enqueue(a, m, FALSE)
           /\ UNCHANGED <<req, buf, peer, up, sent>>
  BY <1>3, EnqueueOutcome DEF Turns, OnlyStatus
<1>4. CASE /\ fate' = [fate EXCEPT ![m] = "thrown"]
           /\ UNCHANGED <<req, status, sent, woken, asyncq, deleted>>
  <2>1. At(m, "lost")'
    BY <1>4, AtPlaceNext DEF EndOK, Lost
  <2> QED
    BY <1>4, <2>1 DEF Turns, Outcome, OnlyStatus
<1> QED
  BY <1>1, <1>2, <1>3, <1>4 DEF AdapterInvoke

LEMMA ObjectInvokeOutcome ==
    ASSUME NetOK, LinkOK, MsgOK, WaitOK, TableOK, EndOK,
           NEW m \in Msg, Called(m), \A p \in Inner : ~At(m, p), NEW ok,
           kind' = kind, status[m] = "REQ", m \notin sent, ObjectInvoke(m, ok)
    PROVE  Turns(m)
<1>0. /\ kind[m] \in CallType
      /\ begin[m] + ReqTimeout \in Deadline /\ begin[m] + ConnTimeout \in Deadline
      /\ ~At(m, "reqq") /\ \A p \in Rest : ~At(m, p)
  BY ConstantsOK DEF MsgOK, Called, Inner
<1>1. CASE /\ \E dl \in Deadline : reqq' = Append(reqq, [msg |-> m, deadline |-> dl])
           /\ UNCHANGED <<sent, status>>
  <2>1. At(m, "reqq")'
    BY <1>0, <1>1, WaitAppend
  <2> QED
    BY <1>1, <2>1 DEF Turns, Outcome, OnlyStatus
<1>2. CASE InvokeException(m) /\ UNCHANGED <<reqq, tq, linkVars, adapter>>
  <2>1. sent' = sent
    BY <1>2 DEF linkVars
  <2> QED
    BY <1>0, <1>2, <2>1, ExceptionOutcome DEF Turns, Rest
<1>3. CASE \E choice \in Choices(m) : AdapterInvoke(m, choice[1], choice[2], ok, {})
  <2>1. PICK choice \in Choices(m) : AdapterInvoke(m, choice[1], choice[2], ok, {})
    BY <1>3
  <2>2. choice[1] \in Adapter /\ choice[2] \in [Adapter -> ConnState]
    BY ChoiceLemma DEF Choices, NetOK, LinkOK
  <2>3. {} \in SUBSET Adapter
    OBVIOUS
  <2> QED
    BY <1>0, <2>1, <2>2, <2>3, AdapterInvokeOutcome
<1> QED
  BY <1>0, <1>1, <1>2, <1>3 DEF ObjectInvoke, linkVars, endVars
-----------------------------------------------------------------------------
(* The abstract step of each action.                                        *)

LEMMA CallPhases ==
    ASSUME IInv, IInv', SentOK, PhaseOK, NEW t \in Thread, NEW m \in Msg, Call(t, m)
    PROVE  PhaseOK' /\ AbstractStep
<1>1. /\ ~Called(m) /\ status' = status /\ sent' = sent
      /\ begin' = [begin EXCEPT ![m] = now] /\ now # None
      /\ Stay(m) /\ (At(m, "loopq")' \/ At(m, "deleted")')
  BY CallStep, ConstantsOK DEF Call, linkVars, IInv, NetOK
<1>2. PICK k \in CallType : kind' = [kind EXCEPT ![m] = k]
  BY ConstantsOK DEF Call
<1>3. status[m] = "REQ" /\ m \notin sent /\ Called(m)' /\ kind[m] # "ONEWAY"
  BY <1>1, ConstantsOK DEF PhaseOK, SentOK, IInv, MsgOK, Called, CallType
<1>4. Apart(m)
  BY <1>1, <1>2 DEF Apart, IInv, MsgOK
<1>5. ~At(m, "woken")' /\ ~At(m, "asyncq")' /\ ~At(m, "tq")' /\ ~At(m, "lost")'
  <2>1. {"loopq", "woken", "asyncq", "tq", "lost", "deleted"} \subseteq Place
    BY DEF Place, Rest, End
  <2>2. \A p, q \in Place : At(m, p)' /\ At(m, q)' => p = q
    BY <1>3 DEF IInv, OwnerOK
  <2> QED
    BY <1>1, <2>1, <2>2
<1>6. PhaseOK'
  BY <1>1, <1>3, <1>4, <1>5, ApartPhases DEF PhaseOK
<1>7. CallPhase(m) = "new" /\ CallPhase(m)' \in {"pending", "failed"}
  BY <1>1, <1>3, PhaseByPlace, PhaseByPlaceNext
<1>8. AbstractStep
  <2> DEFINE ph == [n \in Msg |-> CallPhase(n)]
             ow == {n \in Msg : kind[n] = "ONEWAY"}
  <2>1. /\ ph' = [ph EXCEPT ![m] = CallPhase(m)']
        /\ ph[m] = "new"
    BY <1>4, <1>7, ApartPhases
  <2>2. ow' \in {ow, ow \cup {m}}
    <3>1. ow' = IF k = "ONEWAY" THEN ow \cup {m} ELSE ow
      BY <1>2, <1>3 DEF IInv, MsgOK
    <3> QED
      BY <3>1
  <2>3. m \in {d \in Msg : ph'[d] # ph[d]}
    BY <1>7
  <2>4. Abstract!Submit(m) \/ Abstract!Refuse(m)
    BY <1>7, <2>1, <2>2 DEF Abstract!Submit, Abstract!Refuse, Abstract!Begin, Abstract!Move
  <2> QED
    BY <2>3, <2>4 DEF AbstractStep, Abstract!Next
<1> QED
  BY <1>6, <1>8

LEMMA NotifyPopPhases ==
    ASSUME IInv, IInv', SentOK, PhaseOK, NEW t \in Thread, NotifyPop(t)
    PROVE  PhaseOK' /\ AbstractStep
<1>1. PICK m \in Msg : m = Head(loopq[t]) /\ At(m, "loopq")
  BY LoopTail DEF NotifyPop, IInv
<1>2. Stay(m) /\ ObjectInvoke(m, InNotify(t, TRUE)) /\ UNCHANGED <<begin, kind>>
  BY <1>1, NotifyPopStep DEF NotifyPop
<1>3. Called(m) /\ \A p \in Inner : ~At(m, p)
  <2>1. "loopq" \notin Inner /\ Inner \subseteq Place /\ "loopq" \in Place
    BY DEF Inner, Place, Rest, End
  <2> QED
    BY <1>1, <2>1, OwnerOnly DEF IInv
<1>4. Waits(m) /\ status[m] = "REQ" /\ m \notin sent
  BY <1>1 DEF Waits, PhaseOK, SentOK
<1>5. Turns(m)
  BY <1>2, <1>3, <1>4, ObjectInvokeOutcome DEF IInv
<1>6. Apart(m)
  BY <1>2, <1>5 DEF Apart, Turns, OnlyStatus
<1> QED
  BY <1>2, <1>4, <1>5, <1>6, PhaseMoves DEF Turns

LEMMA PrepareOnePhases ==
    ASSUME IInv, IInv', SentOK, PhaseOK, NEW a \in Adapter, NEW via \in Adapter, PrepareOne(a, via)
    PROVE  PhaseOK' /\ AbstractStep
<1>1. PICK m \in Msg : m = Head(reqq).msg /\ At(m, "reqq")
  BY WaitTail DEF PrepareOne, IInv
<1>2. Stay(m) /\ UNCHANGED <<begin, kind>>
  BY <1>1, PrepareOneStep DEF PrepareOne
<1>3. Called(m) /\ \A p \in Rest : ~At(m, p)
  <2>1. "reqq" \notin Rest /\ Rest \subseteq Place /\ "reqq" \in Place
    BY DEF Place, Rest, End
  <2> QED
    BY <1>1, <2>1, OwnerOnly DEF IInv
<1>4. Waits(m) /\ status[m] = "REQ" /\ m \notin sent
  BY <1>1 DEF Waits, PhaseOK, SentOK
<1>5. \E b \in Adapter, c \in [Adapter -> ConnState] : \E ok :
         AdapterInvoke(m, b, c, ok, {a})
  <2>1. conn \in [Adapter -> ConnState] /\ proxys \subseteq Adapter
    BY DEF IInv, LinkOK, NetOK
  <2>2. CASE adapter[m] = None /\ Home[m] # None
    <3>1. PICK choice \in HashChoice(m) :
             AdapterInvoke(m, choice[1], choice[2], InPrepare(a, choice[1]), {a})
      BY <1>1, <2>2 DEF PrepareOne
    <3>2. choice[1] \in Adapter /\ choice[2] \in [Adapter -> ConnState]
      BY <2>1, ChoiceLemma
    <3> QED
      BY <3>1, <3>2
  <2>3. CASE ~(adapter[m] = None /\ Home[m] # None)
    <3>1. AdapterInvoke(m, via, conn, InPrepare(a, via), {a})
      BY <1>1, <2>3 DEF PrepareOne
    <3> QED
      BY <2>1, <3>1
  <2> QED
    BY <2>2, <2>3
<1>6. Turns(m)
  <2>0. PICK b \in Adapter, c \in [Adapter -> ConnState] : \E ok :
           AdapterInvoke(m, b, c, ok, {a})
    BY <1>5
  <2>1. PICK ok : AdapterInvoke(m, b, c, ok, {a})
    BY <2>0
  <2>2. {a} \in SUBSET Adapter
    OBVIOUS
  <2> QED
    BY <1>2, <1>3, <1>4, <2>1, <2>2, AdapterInvokeOutcome DEF IInv
<1>7. Apart(m)
  BY <1>2, <1>6 DEF Apart, Turns, OnlyStatus
<1> QED
  BY <1>2, <1>4, <1>6, <1>7, PhaseMoves DEF Turns

LEMMA TimeoutWaitingPhases ==
    ASSUME IInv, IInv', SentOK, PhaseOK, TimeoutWaiting
    PROVE  PhaseOK' /\ AbstractStep
<1>1. PICK m \in Msg : Called(m) /\ At(m, "reqq") /\ InvokeException(m) /\ Stay(m) /\ Lands(m, End)
  BY TimeoutWaitingStep
<1>2. UNCHANGED <<begin, kind, sent>>
  BY DEF TimeoutWaiting, linkVars
<1>3. kind[m] \in CallType /\ \A p \in End : ~At(m, p)
  <2>1. "reqq" \notin End /\ End \subseteq Place /\ "reqq" \in Place
    BY DEF Place, Rest, End
  <2> QED
    BY <1>1, <2>1, OwnerOnly DEF IInv, MsgOK
<1>4. Waits(m) /\ status[m] = "REQ" /\ m \notin sent
  BY <1>1 DEF Waits, PhaseOK, SentOK
<1>5. Outcome(m) /\ OnlyStatus(m) /\ status'[m] # "RSP"
  BY <1>1, <1>2, <1>3, <1>4, ExceptionOutcome DEF IInv
<1>6. Apart(m)
  BY <1>1, <1>2, <1>5 DEF Apart, OnlyStatus
<1> QED
  BY <1>2, <1>4, <1>5, <1>6, PhaseMoves

\* A request leaves the table of a with its answer, or when its time is over.
LEMMA FinishPhases ==
    ASSUME IInv, IInv', SentOK, PhaseOK, NEW a \in Adapter, NEW id \in Ids(tq[a]), NEW m \in Msg,
           m = tq[a].data[id].ptr, NEW s \in {"RSP", "TIME"}, s = "RSP" => m \in sent,
           tq' = [tq EXCEPT ![a] = Remove(@, id)], FinishMsg(m),
           status' = [status EXCEPT ![m] = s], UNCHANGED <<loopq, reqq, kind, begin, sent>>
    PROVE  PhaseOK' /\ AbstractStep
<1>1. Stay(m) /\ Lands(m, End)
  BY FinishStep
<1>2. At(m, "tq")
  BY AtPlace DEF InTable
<1>3. status'[m] = s /\ OnlyStatus(m)
  BY DEF IInv, MsgOK, OnlyStatus
<1>4. Outcome(m)
  BY <1>1, <1>3, LandsSomewhere DEF Outcome
<1>5. Apart(m)
  BY <1>1, <1>3 DEF Apart, OnlyStatus
<1>6. kind[m] = "ONEWAY" => m \notin sent'
  BY <1>2 DEF PhaseOK
<1> QED
  BY <1>2, <1>3, <1>4, <1>5, <1>6, PhaseMoves

\* The oldest unsent request of a is written.
LEMMA SendPhases ==
    ASSUME IInv, IInv', SentOK, PhaseOK, NEW a \in Adapter, HasUnsent(tq[a]), NEW m \in Msg,
           m = tq[a].data[NextSend(tq[a])].ptr, NEW del \in BOOLEAN, del <=> kind[m] = "ONEWAY",
           tq' = [tq EXCEPT ![a] = PopSend(@, del)],
           IF del THEN Delete(m) ELSE UNCHANGED deleted, sent' = sent \cup {m},
           UNCHANGED <<loopq, reqq, woken, asyncq, fate, kind, begin, status>>
    PROVE  PhaseOK' /\ AbstractStep
<1>1. /\ Stay(m)
      /\ IF del THEN At(m, "deleted")' ELSE At(m, "tq")'
  BY SendStep
<1>2. NextSend(tq[a]) \in Ids(tq[a]) /\ ~tq[a].data[NextSend(tq[a])].hasSend
  BY TablePop DEF IInv
<1>3. At(m, "tq") /\ m \notin sent
  BY <1>2, AtPlace DEF InTable, SentOK
<1>4. status'[m] = "REQ"
  BY <1>3 DEF PhaseOK
<1>5. Outcome(m)
  BY <1>1, <1>3, <1>4 DEF Outcome
<1>6. Apart(m)
  BY <1>1 DEF Apart
<1>7. At(m, "tq")' => kind[m] # "ONEWAY"
  <2>1. Called(m)' /\ {"tq", "deleted"} \subseteq Place
    BY <1>3, OwnerOnly DEF IInv, Called, Place, Rest, End
  <2>2. ~(At(m, "tq")' /\ At(m, "deleted")')
    BY <2>1 DEF IInv, OwnerOK
  <2> QED
    BY <1>1, <2>2
<1> QED
  BY <1>3, <1>4, <1>5, <1>6, <1>7, PhaseMoves

LEMMA AnswerPhases ==
    ASSUME IInv, IInv', SentOK, PhaseOK, MatchOK, SerialOK, NEW a \in Adapter,
           Respond(a) \/ RespondSerial(a)
    PROVE  PhaseOK' /\ AbstractStep
<1>0. UNCHANGED <<loopq, reqq, kind, begin, sent>>
  BY DEF Respond, RespondSerial, handOver
<1>1. CASE Respond(a)
  <2>1. PICK r \in peer[a] :
           IF r[1] \in Ids(tq[a])
           THEN /\ tq' = [tq EXCEPT ![a] = Remove(@, r[1])]
                /\ status' = [status EXCEPT ![tq[a].data[r[1]].ptr] = "RSP"]
                /\ FinishMsg(tq[a].data[r[1]].ptr)
           ELSE UNCHANGED <<tq, status, endVars>>
    BY <1>1 DEF Respond
  <2>2. CASE r[1] \in Ids(tq[a])
    <3>1. PICK m \in Msg : m = tq[a].data[r[1]].ptr
      BY <2>2, TableFacts DEF IInv
    <3>2. m \in sent
      BY <2>2, <3>1 DEF MatchOK, SentOK
    <3> QED
      BY <1>0, <2>1, <2>2, <3>1, <3>2, FinishPhases
  <2>3. CASE r[1] \notin Ids(tq[a])
    BY <1>0, <2>1, <2>3, PhaseQuiet
  <2> QED
    BY <2>2, <2>3
<1>2. CASE RespondSerial(a)
  <2>1. PICK r \in peer[a] :
           IF req[a] # None
           THEN /\ tq' = [tq EXCEPT ![a] = Remove(@, IdOf(a, req[a]))]
                /\ status' = [status EXCEPT ![req[a]] = "RSP"]
                /\ FinishMsg(req[a])
           ELSE UNCHANGED <<tq, status, endVars>>
    BY <1>2 DEF RespondSerial
  <2>2. CASE req[a] # None
    <3>1. PICK id \in Ids(tq[a]) : id = IdOf(a, req[a]) /\ tq[a].data[id].ptr = req[a]
      BY <2>2, UnderwayId
    <3>2. PICK m \in Msg : m = req[a]
      BY <2>2 DEF IInv, LinkOK
    <3>3. m \in sent
      BY <1>2, <3>2 DEF RespondSerial, SerialOK, SentOK
    <3> QED
      BY <1>0, <2>1, <2>2, <3>1, <3>2, <3>3, FinishPhases
  <2>3. CASE req[a] = None
    BY <1>0, <2>1, <2>3, PhaseQuiet
  <2> QED
    BY <2>2, <2>3
<1> QED
  BY <1>1, <1>2

LEMMA TimeoutAdapterPhases ==
    ASSUME IInv, IInv', SentOK, PhaseOK, NEW a \in Adapter, TimeoutAdapter(a)
    PROVE  PhaseOK' /\ AbstractStep
<1>0. UNCHANGED <<loopq, reqq, kind, begin, sent>>
  BY DEF TimeoutAdapter, handOver
<1>1. PICK id \in Expired(tq[a], now) :
         /\ tq' = [tq EXCEPT ![a] = Remove(@, id)]
         /\ status' = [status EXCEPT ![tq[a].data[id].ptr] = "TIME"]
         /\ FinishMsg(tq[a].data[id].ptr)
  BY DEF TimeoutAdapter
<1>2. id \in Ids(tq[a])
  BY ExpiredInTable DEF IInv
<1>3. PICK m \in Msg : m = tq[a].data[id].ptr
  BY <1>2, TableFacts DEF IInv
<1> QED
  BY <1>0, <1>1, <1>2, <1>3, FinishPhases

LEMMA DoInvokePhases ==
    ASSUME IInv, IInv', SentOK, PhaseOK, NEW a \in Adapter, DoInvokeOne(a) \/ DoInvokeSerial(a)
    PROVE  PhaseOK' /\ AbstractStep
<1>0. UNCHANGED <<loopq, reqq, woken, asyncq, fate, kind, begin, status>>
  BY DEF DoInvokeOne, DoInvokeSerial, handOver, msgVars, endVars
<1>1. HasUnsent(tq[a]) => tq[a].data[NextSend(tq[a])].ptr \in Msg
  <2> SUFFICES ASSUME HasUnsent(tq[a]) PROVE tq[a].data[NextSend(tq[a])].ptr \in Msg
    OBVIOUS
  <2>1. /\ QueueOK(tq[a]) /\ \A i \in Ids(tq[a]) : tq[a].data[i].ptr \in Msg
    BY TableFacts DEF IInv
  <2> QED
    BY <2>1, NextSendLemma
<1>2. CASE DoInvokeOne(a)
  <2>1. HasUnsent(tq[a])
    BY <1>2 DEF DoInvokeOne
  <2>2. PICK m \in Msg : m = tq[a].data[NextSend(tq[a])].ptr
    BY <1>1, <2>1
  <2>3. \/ /\ tq' = [tq EXCEPT ![a] = PopSend(@, kind[m] = "ONEWAY")]
           /\ IF kind[m] = "ONEWAY" THEN Delete(m) ELSE UNCHANGED deleted
           /\ sent' = sent \cup {m}
        \/ UNCHANGED <<tq, sent, deleted>>
    BY <1>2, <2>2 DEF DoInvokeOne, Write, linkVars
  <2> QED
    BY <1>0, <2>1, <2>2, <2>3, SendPhases, PhaseQuiet DEF endVars
<1>3. CASE DoInvokeSerial(a)
  <2>1. UNCHANGED deleted /\ serial
    BY <1>3 DEF DoInvokeSerial, endVars
  <2>2. CASE UNCHANGED <<tq, sent>>
    BY <1>0, <2>1, <2>2, PhaseQuiet DEF endVars
  <2>3. CASE ~UNCHANGED <<tq, sent>>
    <3>1. /\ HasUnsent(tq[a]) /\ tq' = [tq EXCEPT ![a] = PopSend(@, FALSE)]
          /\ sent' = sent \cup {tq[a].data[NextSend(tq[a])].ptr}
      BY <1>3, <2>3 DEF DoInvokeSerial, Write, linkVars
    <3>2. PICK m \in Msg : m = tq[a].data[NextSend(tq[a])].ptr
      BY <1>1, <3>1
    <3>3. kind[m] # "ONEWAY"
      <4>1. NextSend(tq[a]) \in Ids(tq[a])
        BY <3>1, TableFacts, NextSendLemma DEF IInv
      <4>2. At(m, "tq") /\ "tq" \in Place
        BY <3>2, <4>1, AtPlace DEF Place, Rest, InTable
      <4>3. Called(m)
        BY <4>2, OwnerOnly DEF IInv
      <4> QED
        BY <2>1, <4>3 DEF IInv, MsgOK
    <3> QED
      BY <1>0, <2>1, <3>1, <3>2, <3>3, SendPhases
  <2> QED
    BY <2>2, <2>3
<1> QED
  BY <1>2, <1>3

LEMMA DisposePhases ==
    ASSUME IInv, IInv', PhaseOK, (\E t \in Thread : WakeUp(t)) \/ RunCallback
    PROVE  PhaseOK' /\ AbstractStep
<1>1. ASSUME NEW t \in Thread, WakeUp(t) PROVE PhaseOK' /\ AbstractStep
  <2>1. PICK m \in Msg : m = cur[t] /\ At(m, "woken")
    BY <1>1, AtPlace DEF WakeUp, IInv, UserOK
  <2>2. Stay(m)
    BY <1>1, <2>1, WakeUpStep
  <2>3. UNCHANGED <<loopq, reqq, tq, begin, kind, status, sent>>
    BY <1>1 DEF WakeUp, handOver, linkVars, msgVars
  <2> QED
    BY <2>1, <2>2, <2>3, PhaseDispose
<1>2. ASSUME RunCallback PROVE PhaseOK' /\ AbstractStep
  <2>1. PICK m \in Msg : m = Head(asyncq) /\ m \in Elements(asyncq)
    BY <1>2, TailLemma DEF RunCallback, IInv, EndOK
  <2>2. Stay(m)
    BY <1>2, <2>1, RunCallbackStep
  <2>3. UNCHANGED <<loopq, reqq, tq, begin, kind, status, sent>>
    BY <1>2 DEF RunCallback, handOver, linkVars, msgVars
  <2> QED
    BY <2>1, <2>2, <2>3, AtPlace, PhaseDispose
<1> QED
  BY <1>1, <1>2

LEMMA QuietPhases ==
    ASSUME PhaseOK,
           \/ \E t \in Thread : Notify(t) \/ EnterNotify(t) \/ LeaveNotify(t) \/ BreakNotify(t)
           \/ \E a \in Adapter : \/ ConnectDone(a) \/ DoInvokeDone(a) \/ Writable(a) \/ LinkDown(a)
                                 \/ \E via \in Adapter : PrepareDone(a, via)
           \/ EnterTimeout \/ LeaveTimeout
           \/ RegistryAnswers \/ RegistryGivesUp \/ RegistryUpdates
           \/ Tick \/ UNCHANGED vars
    PROVE  PhaseOK' /\ AbstractStep
<1> USE DEF handOver, linkVars, msgVars
<1>1. CASE \E t \in Thread : Notify(t) \/ EnterNotify(t) \/ LeaveNotify(t) \/ BreakNotify(t)
  <2>1. UNCHANGED <<loopq, reqq, tq, endVars, begin, kind, status, sent>>
    BY <1>1 DEF Notify, EnterNotify, LeaveNotify, BreakNotify
  <2> QED
    BY <2>1, PhaseQuiet
<1>2. CASE \E a \in Adapter : \/ ConnectDone(a) \/ DoInvokeDone(a) \/ Writable(a) \/ LinkDown(a)
                              \/ \E via \in Adapter : PrepareDone(a, via)
  <2>1. UNCHANGED <<loopq, reqq, tq, endVars, begin, kind, status, sent>>
    BY <1>2 DEF ConnectDone, DoInvokeDone, Writable, LinkDown, PrepareDone
  <2> QED
    BY <2>1, PhaseQuiet
<1>3. CASE EnterTimeout \/ LeaveTimeout \/ Tick \/ UNCHANGED vars
  <2>1. UNCHANGED <<loopq, reqq, tq, endVars, begin, kind, status, sent>>
    BY <1>3 DEF EnterTimeout, LeaveTimeout, Tick, vars
  <2> QED
    BY <2>1, PhaseQuiet
<1>4. CASE RegistryAnswers \/ RegistryGivesUp \/ RegistryUpdates
  <2>1. UNCHANGED <<loopq, reqq, tq, endVars, begin, kind, status, sent>>
    BY <1>4 DEF RegistryAnswers, RegistryGivesUp, RegistryUpdates
  <2> QED
    BY <2>1, PhaseQuiet
<1> QED
  BY <1>1, <1>2, <1>3, <1>4

LEMMA NextPhases ==
    ASSUME IInv, IInv', SentOK, PhaseOK, MatchOK, SerialOK, [Next]_vars
    PROVE  PhaseOK' /\ AbstractStep
<1>1. CASE \E t \in Thread : UserStep(t)
  <2>1. PICK t \in Thread : (\E m \in Msg : Call(t, m)) \/ Notify(t) \/ WakeUp(t)
    BY <1>1 DEF UserStep
  <2> QED
    BY <2>1, CallPhases, DisposePhases, QuietPhases
<1>2. CASE \E t \in Thread : NotifyStep(t)
  <2>1. PICK t \in Thread : EnterNotify(t) \/ NotifyPop(t) \/ LeaveNotify(t) \/ BreakNotify(t)
    BY <1>2 DEF NotifyStep
  <2> QED
    BY <2>1, NotifyPopPhases, QuietPhases
<1>3. CASE \E a \in Adapter : SocketStep(a)
  <2>1. PICK a \in Adapter : SocketStep(a)
    BY <1>3
  <2>2. CASE ConnectDone(a) \/ DoInvokeDone(a) \/ Writable(a) \/ LinkDown(a)
    BY <2>2, QuietPhases
  <2>3. CASE DoInvokeOne(a) \/ DoInvokeSerial(a)
    BY <2>3, DoInvokePhases
  <2>4. CASE Respond(a) \/ RespondSerial(a)
    BY <2>4, AnswerPhases
  <2>5. CASE \E via \in Adapter : PrepareOne(a, via) \/ PrepareDone(a, via)
    BY <2>5, PrepareOnePhases, QuietPhases
  <2> QED
    BY <2>1, <2>2, <2>3, <2>4, <2>5 DEF SocketStep
<1>4. CASE TimerStep
  BY <1>4, TimeoutAdapterPhases, TimeoutWaitingPhases, QuietPhases DEF TimerStep
<1>5. CASE \/ RegistryAnswers \/ RegistryGivesUp \/ RegistryUpdates \/ RunCallback \/ Tick
           \/ UNCHANGED vars
  BY <1>5, DisposePhases, QuietPhases
<1> QED
  BY <1>1, <1>2, <1>3, <1>4, <1>5 DEF Next

LEMMA InitPhases == Init => PhaseOK /\ Abstract!Init
<1> SUFFICES ASSUME Init PROVE PhaseOK /\ Abstract!Init
  OBVIOUS
<1>1. \A m \in Msg : /\ ~Called(m) /\ kind[m] = None /\ status[m] = "REQ" /\ kind[m] # "ONEWAY"
                     /\ \A p \in Place : ~At(m, p)
  BY InitIInv, ConstantsOK DEF Init, Called, IInv, OwnerOK, CallType
<1>2. \A m \in Msg : CallPhase(m) = "new"
  BY <1>1 DEF CallPhase
<1>3. Abstract!Init
  BY <1>1, <1>2 DEF Abstract!Init
<1>4. PhaseOK
  BY <1>1 DEF PhaseOK, Waits, Place, Rest, End
<1> QED
  BY <1>3, <1>4

\* While fewer calls are made than there are ids, the client implements
\* RpcCall: through whatever queues, connections and
\* timers a call passes, it is submitted once, written before it is answered,
\* and ends at most once, with the answer or with a failure.
THEOREM ClientImplementsCalls ==
    ASSUME IdsSuffice
    PROVE  Spec => ImplementsRpcCall
<1>1. /\ Init => IInv /\ SentOK /\ IdsOK /\ MatchOK /\ SerialOK /\ PhaseOK
      /\ Init => Abstract!Init
  BY InitIInv, InitSentOK, InitMatchOK, InitPhases
<1>2. IInv /\ SentOK /\ [Next]_vars => SentOK'
  BY NextEffect, SentStep
<1>3. IInv /\ IInv' /\ IdsOK /\ MatchOK /\ SerialOK /\ [Next]_vars
        => IdsOK' /\ MatchOK' /\ SerialOK'
  BY NextEffect, MatchStep
<1>4. IInv /\ IInv' /\ SentOK /\ PhaseOK /\ MatchOK /\ SerialOK /\ [Next]_vars
        => PhaseOK' /\ [Abstract!Next]_(Abstract!vars)
  BY NextPhases DEF AbstractStep
<1> QED
  BY <1>1, <1>2, <1>3, <1>4, NextIInv, PTL DEF Spec, ImplementsRpcCall, Abstract!Spec
=============================================================================
