------------------------- MODULE TimeoutQueueProofs -------------------------
(***************************************************************************)
(* Every operation of KT_TimeoutQueueNew keeps its three containers in     *)
(* agreement, for every size of the id counter, every set of pointers and  *)
(* every set of deadlines; and no pointer is lost or stored twice.         *)
(***************************************************************************)
EXTENDS TimeoutQueue, TimeoutQueueOpsProofs

\* The inductive invariant: the three containers agree, and the owner and the
\* queue have the same idea of which pointers the queue keeps.
IInv == TypeOK /\ IndexesAgree /\ NothingLostOrDoubled

LEMMA InitIInv == Init => IInv
<1> SUFFICES ASSUME Init PROVE IInv
  OBVIOUS
<1>1. q = EmptyQueue /\ now = 0 /\ held = {}
  BY DEF Init
<1>2. q \in Queue /\ WellFormed(q) /\ Ids(q) = {}
  BY <1>1, EmptyQueueLemma DEF QueueOK
<1> QED
  BY <1>1, <1>2 DEF IInv, TypeOK, IndexesAgree, NothingLostOrDoubled

\* What timeout() returns is an entry of the table.
LEMMA ExpiredLemma ==
    ASSUME QueueOK(q), NEW t
    PROVE  Expired(q, t) \subseteq Ids(q)
<1> SUFFICES ASSUME NEW id \in Expired(q, t) PROVE id \in Ids(q)
  OBVIOUS
<1>1. PICK e \in q.time : e[2] = id
  BY DEF Expired
<1>2. q.time = {<<q.data[i].deadline, i>> : i \in Ids(q)}
  BY DEF QueueOK, WellFormed, TimeIndexAgrees
<1> QED
  BY <1>1, <1>2

LEMMA NextIInv == IInv /\ [Next]_vars => IInv'
<1> SUFFICES ASSUME IInv, [Next]_vars PROVE IInv'
  OBVIOUS
<1>1. /\ QueueOK(q) /\ now \in Nat /\ held \subseteq Ptr
      /\ held = {q.data[i].ptr : i \in Ids(q)}
      /\ \A i, j \in Ids(q) : q.data[i].ptr = q.data[j].ptr => i = j
  BY DEF IInv, TypeOK, IndexesAgree, NothingLostOrDoubled, QueueOK
<1>2. ASSUME QueueOK(q'), now' \in Nat, held' \subseteq Ptr, NothingLostOrDoubled'
      PROVE  IInv'
  BY <1>2 DEF IInv, TypeOK, IndexesAgree, QueueOK
<1>3. ASSUME NEW p \in Ptr, NEW d \in Deadline, NEW s \in BOOLEAN, PushNew(p, d, s)
      PROVE  IInv'
  <2> DEFINE id == NextId(q)
             g == GenerateId(q)
  <2>1. /\ p \notin held /\ now' = now
        /\ \/ CanPush(g, id) /\ q' = Push(g, p, id, d, s) /\ held' = held \cup {p}
           \/ q' = g /\ held' = held
    BY <1>3 DEF PushNew
  <2>2. /\ QueueOK(g) /\ Ids(g) = Ids(q) /\ id \in Id \ {0}
        /\ g.data = q.data
    BY <1>1, NextIdLemma DEF QueueOK, GenerateId, Queue
  <2> HIDE DEF id, g
  <2>3. CASE CanPush(g, id) /\ q' = Push(g, p, id, d, s) /\ held' = held \cup {p}
    <3>1. /\ QueueOK(q')
          /\ Ids(q') = Ids(q) \cup {id} /\ id \notin Ids(q)
          /\ q'.data[id] = [ptr |-> p, hasSend |-> s, deadline |-> d]
          /\ \A i \in Ids(q) : q'.data[i] = q.data[i]
      <4>1. id \notin Ids(q) /\ \A i \in Ids(g) : g.data[i] = q.data[i]
        BY <2>2, <2>3 DEF CanPush
      <4> QED
        BY <2>2, <2>3, <4>1, PushLemma
    <3>2. {q'.data[i].ptr : i \in Ids(q')} = {q.data[i].ptr : i \in Ids(q)} \cup {p}
      BY <3>1
    <3>3. NothingLostOrDoubled'
      BY <1>1, <2>1, <2>3, <3>1, <3>2 DEF NothingLostOrDoubled
    <3> QED
      BY <1>1, <1>2, <2>1, <2>3, <3>1, <3>3
  <2>4. CASE q' = g /\ held' = held
    <3>1. NothingLostOrDoubled'
      BY <1>1, <2>2, <2>4 DEF NothingLostOrDoubled
    <3> QED
      BY <1>1, <1>2, <2>1, <2>2, <2>4, <3>1
  <2> QED
    BY <2>1, <2>3, <2>4

\* Erasing and timing out differ only in how the entry is chosen.
<1>4. ASSUME NEW id \in Ids(q), q' = Remove(q, id), held' = held \ {q.data[id].ptr}, now' = now
      PROVE  IInv'
  <2>1. /\ QueueOK(q') /\ Ids(q') = Ids(q) \ {id}
        /\ \A i \in Ids(q) \ {id} : q'.data[i] = q.data[i]
    BY <1>1, <1>4, RemoveLemma
  <2>2. {q'.data[i].ptr : i \in Ids(q')} = {q.data[i].ptr : i \in Ids(q)} \ {q.data[id].ptr}
    BY <1>1, <2>1
  <2>3. NothingLostOrDoubled'
    BY <1>1, <1>4, <2>1, <2>2 DEF NothingLostOrDoubled
  <2> QED
    BY <1>1, <1>2, <1>4, <2>1, <2>3
<1>5. ASSUME NEW id \in Id, Erase(id)
      PROVE  IInv'
  BY <1>4, <1>5 DEF Erase
<1>6. ASSUME NEW del \in BOOLEAN, SendHead(del)
      PROVE  IInv'
  <2> DEFINE id == NextSend(q)
  <2>1. /\ HasUnsent(q) /\ q' = PopSend(q, del) /\ now' = now
        /\ held' = IF del THEN held \ {q.data[id].ptr} ELSE held
    BY <1>6 DEF SendHead
  <2>2. /\ QueueOK(q') /\ id \in Ids(q)
        /\ Ids(q') = IF del THEN Ids(q) \ {id} ELSE Ids(q)
        /\ \A i \in Ids(q') : q'.data[i].ptr = q.data[i].ptr
    BY <1>1, <2>1, PopSendLemma, NextSendLemma
  <2> HIDE DEF id
  <2>3. CASE del
    <3>1. Ids(q') = Ids(q) \ {id} /\ held' = held \ {q.data[id].ptr}
      BY <2>1, <2>2, <2>3
    <3>2. {q'.data[i].ptr : i \in Ids(q')} = {q.data[i].ptr : i \in Ids(q)} \ {q.data[id].ptr}
      BY <1>1, <2>2, <3>1
    <3>3. NothingLostOrDoubled'
      BY <1>1, <2>2, <3>1, <3>2 DEF NothingLostOrDoubled
    <3> QED
      BY <1>1, <1>2, <2>1, <2>2, <3>1, <3>3
  <2>4. CASE ~del
    <3>1. Ids(q') = Ids(q) /\ held' = held
      BY <2>1, <2>2, <2>4
    <3>2. NothingLostOrDoubled'
      BY <1>1, <2>2, <3>1 DEF NothingLostOrDoubled
    <3> QED
      BY <1>1, <1>2, <2>1, <2>2, <3>1, <3>2
  <2> QED
    BY <2>3, <2>4
<1>7. CASE TimeoutOne
  <2>1. PICK id \in Expired(q, now) :
           q' = Remove(q, id) /\ held' = held \ {q.data[id].ptr} /\ now' = now
    BY <1>7 DEF TimeoutOne
  <2> QED
    BY <1>1, <1>4, <2>1, ExpiredLemma
<1>8. CASE Tick
  <2>1. q' = q /\ held' = held /\ now' \in Nat
    BY <1>1, <1>8 DEF Tick
  <2> QED
    BY <1>1, <1>2, <2>1 DEF NothingLostOrDoubled
<1>9. CASE UNCHANGED vars
  <2>1. q' = q /\ held' = held /\ now' = now
    BY <1>9 DEF vars
  <2> QED
    BY <1>1, <1>2, <2>1 DEF NothingLostOrDoubled
<1> QED
  BY <1>3, <1>5, <1>6, <1>7, <1>8, <1>9 DEF Next

\* The three containers of KT_TimeoutQueueNew agree in every reachable
\* state, for a counter of any width: no dangling iterator, no request
\* without a timer, no unsent request outside the send list.
THEOREM Consistency == Spec => []IndexesAgree
<1>1. IInv => IndexesAgree
  BY DEF IInv
<1> QED
  BY <1>1, InitIInv, NextIInv, PTL DEF Spec

\* Every container stays in its type.
THEOREM TypeCorrectness == Spec => []TypeOK
<1>1. IInv => TypeOK
  BY DEF IInv
<1> QED
  BY <1>1, InitIInv, NextIInv, PTL DEF Spec

\* A pointer the queue accepted is in exactly one entry until a call hands
\* it back: no request is dropped and none can be completed twice.
THEOREM Conservation == Spec => []NothingLostOrDoubled
<1>1. IInv => NothingLostOrDoubled
  BY DEF IInv
<1> QED
  BY <1>1, InitIInv, NextIInv, PTL DEF Spec

\* No overtaking from the list s to the list t: what stands before an element
\* of both in t stood before it in s.
NobodyOvertakes(s, t) ==
    \A i, j \in DOMAIN t : i < j =>
       \A b \in DOMAIN s : s[b] = t[j] =>
          \E a \in DOMAIN s : a < b /\ s[a] = t[i]

\* A new list that picks elements of the old one, in their order.
LEMMA PickKeepsOrder ==
    ASSUME NEW s, NEW t, NEW f,
           \A i, j \in DOMAIN s : s[i] = s[j] => i = j,
           \A i \in DOMAIN t : f[i] \in DOMAIN s /\ t[i] = s[f[i]],
           \A i, j \in DOMAIN t : i < j => f[i] < f[j]
    PROVE  NobodyOvertakes(s, t)
<1> SUFFICES ASSUME NEW i \in DOMAIN t, NEW j \in DOMAIN t, i < j,
                    NEW b \in DOMAIN s, s[b] = t[j]
             PROVE  \E a \in DOMAIN s : a < b /\ s[a] = t[i]
  BY DEF NobodyOvertakes
<1>1. f[i] \in DOMAIN s /\ t[i] = s[f[i]] /\ f[i] < f[j]
  OBVIOUS
<1>2. b = f[j]
  OBVIOUS
<1> QED
  BY <1>1, <1>2

\* A step of the owner keeps the order of those that wait.
LEMMA NextKeepsOrder == IInv /\ [Next]_vars => NobodyOvertakes(q.send, q'.send)
<1> SUFFICES ASSUME IInv, [Next]_vars PROVE NobodyOvertakes(q.send, q'.send)
  OBVIOUS
<1>1. /\ QueueOK(q) /\ q \in Queue /\ q.send \in Seq(Id)
      /\ Len(q.send) \in Nat /\ DOMAIN q.send = 1 .. Len(q.send)
      /\ \A i, j \in DOMAIN q.send : q.send[i] = q.send[j] => i = j
      /\ Elements(q.send) = {i \in Ids(q) : ~q.data[i].hasSend}
  BY QueueShape DEF IInv, TypeOK, IndexesAgree, QueueOK, WellFormed, SendIndexAgrees, Unsent
<1>2. CASE q'.send = q.send
  <2> SUFFICES ASSUME NEW i \in DOMAIN q.send, NEW j \in DOMAIN q.send, i < j,
                      NEW b \in DOMAIN q.send, q.send[b] = q.send[j]
               PROVE  \E a \in DOMAIN q.send : a < b /\ q.send[a] = q.send[i]
    BY <1>2 DEF NobodyOvertakes
  <2>1. b = j
    BY <1>1
  <2> QED
    BY <2>1
<1>3. ASSUME NEW id \in Id, id \notin Elements(q.send), q'.send = Append(q.send, id)
      PROVE  NobodyOvertakes(q.send, q'.send)
  <2>1. /\ DOMAIN q'.send = 1 .. Len(q.send) + 1
        /\ \A i \in 1 .. Len(q.send) : q'.send[i] = q.send[i]
        /\ q'.send[Len(q.send) + 1] = id
    BY <1>1, <1>3
  <2> SUFFICES ASSUME NEW i \in DOMAIN q'.send, NEW j \in DOMAIN q'.send, i < j,
                      NEW b \in DOMAIN q.send, q.send[b] = q'.send[j]
               PROVE  \E a \in DOMAIN q.send : a < b /\ q.send[a] = q'.send[i]
    BY DEF NobodyOvertakes
  <2>2. q'.send[j] # id
    BY <1>3 DEF Elements
  <2>3. i \in 1 .. Len(q.send) /\ j \in 1 .. Len(q.send)
    BY <1>1, <2>1, <2>2
  <2>4. b = j /\ q'.send[i] = q.send[i]
    BY <1>1, <2>1, <2>3
  <2> QED
    BY <1>1, <2>3, <2>4
<1>4. CASE q.send # <<>> /\ q'.send = Tail(q.send)
  <2> DEFINE f == [i \in DOMAIN q.send |-> i + 1]
  <2>1. \A i \in DOMAIN q.send : f[i] = i + 1
    OBVIOUS
  <2> HIDE DEF f
  <2>2. /\ DOMAIN q'.send = 1 .. Len(q.send) - 1
        /\ \A i \in 1 .. Len(q.send) - 1 : q'.send[i] = q.send[i + 1]
    BY <1>1, <1>4
  <2>3. \A i \in DOMAIN q'.send :
           i \in DOMAIN q.send /\ f[i] \in DOMAIN q.send /\ q'.send[i] = q.send[f[i]]
    BY <1>1, <2>1, <2>2
  <2>4. \A i, j \in DOMAIN q'.send : i < j => f[i] < f[j]
    BY <1>1, <2>1, <2>3
  <2> QED
    <3>1. \A i \in DOMAIN q'.send : f[i] \in DOMAIN q.send /\ q'.send[i] = q.send[f[i]]
      BY <2>3
    <3>2. \A i, j \in DOMAIN q.send : q.send[i] = q.send[j] => i = j
      BY <1>1
    <3> QED
      BY <2>4, <3>1, <3>2, PickKeepsOrder
<1>5. ASSUME NEW k \in DOMAIN q.send, q'.send = DeleteAt(q.send, k)
      PROVE  NobodyOvertakes(q.send, q'.send)
  <2> DEFINE f == [i \in DOMAIN q.send |-> IF i < k THEN i ELSE i + 1]
  <2>1. \A i \in DOMAIN q.send : f[i] = IF i < k THEN i ELSE i + 1
    OBVIOUS
  <2> HIDE DEF f
  <2>2. /\ DOMAIN q'.send = 1 .. Len(q.send) - 1
        /\ \A i \in 1 .. Len(q.send) - 1 :
              q'.send[i] = IF i < k THEN q.send[i] ELSE q.send[i + 1]
    BY <1>1, <1>5 DEF DeleteAt
  <2>3. \A i \in DOMAIN q'.send :
           i \in DOMAIN q.send /\ f[i] \in DOMAIN q.send /\ q'.send[i] = q.send[f[i]]
    BY <1>1, <2>1, <2>2
  <2>4. \A i, j \in DOMAIN q'.send : i < j => f[i] < f[j]
    BY <1>1, <2>1, <2>3
  <2> QED
    BY <1>1, <2>3, <2>4, PickKeepsOrder
<1>6. ASSUME NEW id \in Ids(q), q' = Remove(q, id)
      PROVE  NobodyOvertakes(q.send, q'.send)
  <2>1. q'.send = IF q.data[id].hasSend THEN q.send ELSE Unlink(q.send, id)
    BY <1>1, <1>6 DEF Remove, Queue
  <2>2. CASE q.data[id].hasSend
    BY <1>2, <2>1, <2>2
  <2>3. CASE ~q.data[id].hasSend
    <3> DEFINE k == CHOOSE n \in DOMAIN q.send : q.send[n] = id
    <3>1. \E n \in DOMAIN q.send : q.send[n] = id
      BY <1>1, <1>6, <2>3 DEF Elements
    <3>2. k \in DOMAIN q.send
      BY <3>1
    <3>3. q'.send = DeleteAt(q.send, k)
      BY <2>1, <2>3 DEF Unlink
    <3> QED
      BY <1>5, <3>2, <3>3
  <2> QED
    BY <2>2, <2>3
<1>7. ASSUME NEW p \in Ptr, NEW d \in Deadline, NEW s \in BOOLEAN, PushNew(p, d, s)
      PROVE  NobodyOvertakes(q.send, q'.send)
  <2>1. /\ GenerateId(q) \in Queue /\ NextId(q) \in Id
        /\ GenerateId(q).send = q.send /\ Ids(GenerateId(q)) = Ids(q)
    BY <1>1, NextIdLemma DEF GenerateId, Queue
  <2>2. CASE CanPush(GenerateId(q), NextId(q))
    <3>1. NextId(q) \notin Elements(q.send)
      BY <1>1, <2>1, <2>2 DEF CanPush
    <3>2. q' = Push(GenerateId(q), p, NextId(q), d, s)
      BY <1>7, <2>2 DEF PushNew
    <3>3. q'.send = IF s THEN q.send ELSE Append(q.send, NextId(q))
      BY <2>1, <3>2 DEF Push, Queue
    <3> QED
      BY <1>2, <1>3, <2>1, <3>1, <3>3
  <2>3. CASE ~CanPush(GenerateId(q), NextId(q))
    <3>1. q' = GenerateId(q)
      BY <1>7, <2>3 DEF PushNew
    <3> QED
      BY <1>2, <2>1, <3>1
  <2> QED
    BY <2>2, <2>3
<1>8. ASSUME NEW id \in Id, Erase(id)
      PROVE  NobodyOvertakes(q.send, q'.send)
  BY <1>6, <1>8 DEF Erase
<1>9. ASSUME NEW del \in BOOLEAN, SendHead(del)
      PROVE  NobodyOvertakes(q.send, q'.send)
  <2>1. q.send # <<>> /\ q' = PopSend(q, del)
    BY <1>9 DEF SendHead, HasUnsent
  <2>2. q'.send = Tail(q.send)
    BY <1>1, <2>1 DEF PopSend, Queue
  <2> QED
    BY <1>4, <2>1, <2>2
<1>10. CASE TimeoutOne
  <2>1. PICK id \in Expired(q, now) : q' = Remove(q, id)
    BY <1>10 DEF TimeoutOne
  <2> QED
    BY <1>1, <1>6, <2>1, ExpiredLemma
<1>11. CASE Tick \/ UNCHANGED vars
  <2>1. q' = q
    BY <1>11 DEF Tick, vars
  <2> QED
    BY <1>2, <2>1
<1> QED
  BY <1>7, <1>8, <1>9, <1>10, <1>11 DEF Next

\* First come, first sent: whatever is pushed, sent, answered or timed out, a
\* request that waits to be sent is never overtaken.
THEOREM SendOrder == Spec => SendOrderKept
<1>1. ASSUME IInv, [Next]_vars
      PROVE  [\A i, j \in DOMAIN q.send' : i < j =>
                \A b \in DOMAIN q.send : q.send[b] = q.send'[j] =>
                   \E a \in DOMAIN q.send : a < b /\ q.send[a] = q.send'[i]]_q
  <2>1. NobodyOvertakes(q.send, q'.send)
    BY <1>1, NextKeepsOrder
  <2> QED
    BY <2>1 DEF NobodyOvertakes
<1> QED
  BY <1>1, InitIInv, NextIInv, PTL DEF Spec, SendOrderKept
=============================================================================
