----------------------- MODULE TimeoutQueueOpsProofs ------------------------
(***************************************************************************)
(* What the methods of KT_TimeoutQueueNew do to a queue value: each keeps  *)
(* the three containers in agreement.  The proofs about the request table  *)
(* alone (TimeoutQueueProofs) and about the tables of the client's         *)
(* connections (ClientProofs) rest on these lemmas.                        *)
(***************************************************************************)
EXTENDS TimeoutQueueOps, TLAPS

\* Deleting the element at k of a sequence without repetitions leaves a
\* sequence without repetitions, of all the other elements.
LEMMA DeleteAtLemma ==
    ASSUME NEW S, NEW s \in Seq(S), NEW k \in DOMAIN s,
           \A i, j \in DOMAIN s : s[i] = s[j] => i = j
    PROVE  /\ DeleteAt(s, k) \in Seq(S)
           /\ \A i, j \in DOMAIN DeleteAt(s, k) :
                 DeleteAt(s, k)[i] = DeleteAt(s, k)[j] => i = j
           /\ Elements(DeleteAt(s, k)) = Elements(s) \ {s[k]}
<1> DEFINE d == DeleteAt(s, k)
<1>1. /\ Len(s) \in Nat
      /\ DOMAIN s = 1 .. Len(s)
      /\ \A i \in 1 .. Len(s) : s[i] \in S
      /\ Len(s) - 1 \in Nat
  OBVIOUS
<1>2. /\ DOMAIN d = 1 .. (Len(s) - 1)
      /\ \A j \in 1 .. (Len(s) - 1) : d[j] = IF j < k THEN s[j] ELSE s[j + 1]
  BY DEF DeleteAt
<1>3. d \in Seq(S)
  <2>1. \A j \in 1 .. (Len(s) - 1) : d[j] \in S
    BY <1>1, <1>2
  <2>2. d \in [1 .. (Len(s) - 1) -> S]
    BY <1>2, <2>1 DEF DeleteAt
  <2> QED
    BY <1>1, <2>2
<1>4. \A i, j \in DOMAIN d : d[i] = d[j] => i = j
  BY <1>1, <1>2
<1>5. Elements(d) = Elements(s) \ {s[k]}
  <2>1. ASSUME NEW i \in DOMAIN d
        PROVE  d[i] \in Elements(s) \ {s[k]}
    BY <1>1, <1>2 DEF Elements
  <2>2. ASSUME NEW i \in DOMAIN s, s[i] # s[k]
        PROVE  s[i] \in Elements(d)
    <3>1. CASE i < k
      <4>1. i \in DOMAIN d /\ d[i] = s[i]
        BY <1>1, <1>2, <3>1
      <4> QED
        BY <4>1 DEF Elements
    <3>2. CASE i > k
      <4>1. i - 1 \in DOMAIN d /\ d[i - 1] = s[i]
        BY <1>1, <1>2, <3>2
      <4> QED
        BY <4>1 DEF Elements
    <3> QED
      BY <1>1, <2>2, <3>1, <3>2
  <2>3. Elements(d) = {d[i] : i \in DOMAIN d} /\ Elements(s) = {s[i] : i \in DOMAIN s}
    BY DEF Elements
  <2> QED
    BY <2>1, <2>2, <2>3
<1> QED
  BY <1>3, <1>4, <1>5
-----------------------------------------------------------------------------
\* Invariant of one queue value: typed, and its containers agree.
QueueOK(Q) == Q \in Queue /\ WellFormed(Q)

LEMMA QueueShape ==
    ASSUME NEW Q \in Queue
    PROVE  /\ Ids(Q) \subseteq Id
           /\ \A i \in Ids(Q) : Q.data[i] \in Entry
           /\ Q.data \in [Ids(Q) -> Entry]
           /\ Q.send \in Seq(Id)
           /\ Q.uniqId \in Id
           /\ Q.time \subseteq Deadline \X Id
BY DEF Queue, Table, Ids

LEMMA TableIntro ==
    ASSUME NEW I \in SUBSET Id, NEW d \in [I -> Entry]
    PROVE  d \in Table
BY DEF Table

LEMMA EmptyQueueLemma == QueueOK(EmptyQueue) /\ Ids(EmptyQueue) = {}
<1> DEFINE Q == EmptyQueue
<1>1. /\ Q.uniqId = 0 /\ Q.data = [i \in {} |-> {}] /\ Q.time = {} /\ Q.send = <<>>
      /\ Ids(Q) = {}
  BY DEF EmptyQueue, Ids
<1>2. Q \in Queue
  <2>1. Q.data \in [{} -> Entry]
    BY <1>1
  <2>2. Q.data \in Table
    BY <2>1, TableIntro
  <2>3. Q.uniqId \in Id
    BY <1>1, IdSpaceAssumption DEF Id
  <2>4. Q.send \in Seq(Id)
    BY <1>1
  <2> QED
    BY <1>1, <2>2, <2>3, <2>4 DEF Queue, EmptyQueue
<1> HIDE DEF Q
<1>3. Unsent(Q) = {}
  BY <1>1 DEF Unsent, Elements
<1>4. WellFormed(Q)
  BY <1>1, <1>3 DEF WellFormed, TimeIndexAgrees, SendIndexAgrees, ZeroIsReserved
<1> QED
  BY <1>1, <1>2, <1>4 DEF QueueOK, Q

\* The generated id is a counter value and is never 0.
LEMMA NextIdLemma ==
    ASSUME NEW Q \in Queue
    PROVE  /\ NextId(Q) \in Id \ {0}
           /\ GenerateId(Q) \in Queue
           /\ Ids(GenerateId(Q)) = Ids(Q)
           /\ GenerateId(Q).data = Q.data
           /\ GenerateId(Q).uniqId = NextId(Q)
           /\ WellFormed(Q) => WellFormed(GenerateId(Q))
<1>1. Q.uniqId \in 0 .. (IdSpace - 1) /\ IdSpace \in Nat /\ IdSpace > 1
  BY IdSpaceAssumption, QueueShape DEF Id
<1>2. (Q.uniqId + 1) % IdSpace \in 0 .. (IdSpace - 1)
  BY <1>1
<1>3. (0 + 1) % IdSpace = 1
  BY <1>1
<1>4. NextId(Q) \in Id \ {0}
  BY <1>1, <1>2, <1>3 DEF NextId, Id
<1>5. /\ GenerateId(Q) \in Queue
      /\ GenerateId(Q).uniqId = NextId(Q)
      /\ GenerateId(Q).data = Q.data
      /\ GenerateId(Q).time = Q.time
      /\ GenerateId(Q).send = Q.send
  BY <1>4 DEF GenerateId, Queue
<1>6. Ids(GenerateId(Q)) = Ids(Q)
  BY <1>5 DEF Ids
<1>7. ASSUME WellFormed(Q) PROVE WellFormed(GenerateId(Q))
  BY <1>5, <1>7 DEF WellFormed, TimeIndexAgrees, SendIndexAgrees,
                    ZeroIsReserved, Ids, Unsent
<1> QED
  BY <1>4, <1>5, <1>6, <1>7

\* Below the end of its range the counter simply counts.
LEMMA NextIdCounts ==
    ASSUME NEW Q \in Queue, Q.uniqId + 1 < IdSpace
    PROVE  NextId(Q) = Q.uniqId + 1
<1>1. Q.uniqId \in 0 .. (IdSpace - 1) /\ IdSpace \in Nat /\ IdSpace > 1
  BY IdSpaceAssumption, QueueShape DEF Id
<1>2. (Q.uniqId + 1) % IdSpace = Q.uniqId + 1
  BY <1>1
<1> QED
  BY <1>1, <1>2 DEF NextId

\* push() of a fresh id keeps the containers in agreement.
LEMMA PushLemma ==
    ASSUME NEW Q, QueueOK(Q),
           NEW p \in Ptr, NEW id \in Id \ {0}, NEW dl \in Deadline,
           NEW sent \in BOOLEAN, CanPush(Q, id)
    PROVE  /\ QueueOK(Push(Q, p, id, dl, sent))
           /\ Ids(Push(Q, p, id, dl, sent)) = Ids(Q) \cup {id}
           /\ Push(Q, p, id, dl, sent).data[id] =
                [ptr |-> p, hasSend |-> sent, deadline |-> dl]
           /\ Push(Q, p, id, dl, sent).uniqId = Q.uniqId
           /\ \A i \in Ids(Q) : Push(Q, p, id, dl, sent).data[i] = Q.data[i]
<1> DEFINE r == [ptr |-> p, hasSend |-> sent, deadline |-> dl]
           P == Push(Q, p, id, dl, sent)
<1>1. /\ Q \in Queue /\ WellFormed(Q) /\ id \notin Ids(Q) /\ r \in Entry
  BY DEF QueueOK, CanPush, Entry
<1>2. /\ P.uniqId = Q.uniqId
      /\ P.data = [i \in Ids(Q) \cup {id} |-> IF i = id THEN r ELSE Q.data[i]]
      /\ P.time = Q.time \cup {<<dl, id>>}
      /\ P.send = IF sent THEN Q.send ELSE Append(Q.send, id)
  BY <1>1 DEF Push, Queue
<1>3. /\ Ids(P) = Ids(Q) \cup {id}
      /\ P.data[id] = r
      /\ \A i \in Ids(Q) : P.data[i] = Q.data[i]
  BY <1>1, <1>2 DEF Ids
<1>4. P \in Queue
  <2>1. P.data \in Table
    <3>1. P.data \in [Ids(Q) \cup {id} -> Entry]
      BY <1>1, <1>2, QueueShape
    <3>2. Ids(Q) \cup {id} \in SUBSET Id
      BY <1>1, QueueShape
    <3> QED
      BY <3>1, <3>2, TableIntro
  <2>2. P.time \in SUBSET (Deadline \X Id)
    BY <1>1, <1>2, QueueShape
  <2>3. P.send \in Seq(Id)
    BY <1>1, <1>2, QueueShape
  <2> QED
    BY <1>1, <1>2, <2>1, <2>2, <2>3 DEF Queue, Push
<1> HIDE DEF P
<1>5. TimeIndexAgrees(P)
  <2>1. Q.time = {<<Q.data[i].deadline, i>> : i \in Ids(Q)}
    BY <1>1 DEF WellFormed, TimeIndexAgrees
  <2>2. \A i \in Ids(P) : i = id \/ (i \in Ids(Q) /\ P.data[i] = Q.data[i])
    BY <1>3
  <2>3. P.data[id].deadline = dl
    BY <1>3
  <2>4. {<<P.data[i].deadline, i>> : i \in Ids(P)} =
           {<<Q.data[i].deadline, i>> : i \in Ids(Q)} \cup {<<dl, id>>}
    BY <1>3, <2>2, <2>3
  <2> QED
    BY <1>2, <2>1, <2>4 DEF TimeIndexAgrees
<1>6. SendIndexAgrees(P)
  <2>1. /\ Unsent(Q) = {i \in Ids(Q) : ~Q.data[i].hasSend}
        /\ \A j, k \in DOMAIN Q.send : Q.send[j] = Q.send[k] => j = k
        /\ \A j \in DOMAIN Q.send : Q.send[j] # id
    <3>1. /\ Unsent(Q) = {i \in Ids(Q) : ~Q.data[i].hasSend}
          /\ \A j, k \in DOMAIN Q.send : Q.send[j] = Q.send[k] => j = k
      BY <1>1 DEF WellFormed, SendIndexAgrees
    <3>2. Unsent(Q) = {Q.send[k] : k \in DOMAIN Q.send}
      BY DEF Unsent, Elements
    <3>3. \A j \in DOMAIN Q.send : Q.send[j] \in Ids(Q)
      BY <3>1, <3>2
    <3> QED
      BY <1>1, <3>1, <3>2, <3>3
  <2>2. CASE sent
    <3>1. P.send = Q.send
      BY <1>2, <2>2
    <3>2. Unsent(P) = Unsent(Q)
      BY <3>1 DEF Unsent
    <3>3. {i \in Ids(P) : ~P.data[i].hasSend} = {i \in Ids(Q) : ~Q.data[i].hasSend}
      BY <1>1, <1>3, <2>2
    <3> QED
      BY <2>1, <3>1, <3>2, <3>3 DEF SendIndexAgrees
  <2>3. CASE ~sent
    <3>1. /\ P.send = Append(Q.send, id)
          /\ Q.send \in Seq(Id)
      BY <1>1, <1>2, <2>3, QueueShape
    <3>2. /\ DOMAIN P.send = 1 .. (Len(Q.send) + 1)
          /\ DOMAIN Q.send = 1 .. Len(Q.send)
          /\ Len(Q.send) \in Nat
          /\ \A j \in 1 .. Len(Q.send) : P.send[j] = Q.send[j]
          /\ P.send[Len(Q.send) + 1] = id
      BY <3>1
    <3>3. Unsent(P) = Unsent(Q) \cup {id}
      BY <3>2 DEF Unsent, Elements
    <3>4. {i \in Ids(P) : ~P.data[i].hasSend} =
             {i \in Ids(Q) : ~Q.data[i].hasSend} \cup {id}
      BY <1>1, <1>3, <2>3
    <3>5. \A j, k \in DOMAIN P.send : P.send[j] = P.send[k] => j = k
      <4> DEFINE n == Len(Q.send)
      <4>1. /\ \A j, k \in 1 .. n : Q.send[j] = Q.send[k] => j = k
            /\ \A j \in 1 .. n : Q.send[j] # id
        BY <2>1, <3>2
      <4>2. /\ \A j, k \in 1 .. n : P.send[j] = P.send[k] => j = k
            /\ \A j \in 1 .. n : P.send[j] # id
        BY <3>2, <4>1
      <4>3. n \in Nat /\ P.send[n + 1] = id /\ DOMAIN P.send = 1 .. (n + 1)
        BY <3>2
      <4> HIDE DEF n, P
      <4>4. SUFFICES ASSUME NEW j \in 1 .. (n + 1), NEW k \in 1 .. (n + 1),
                            P.send[j] = P.send[k]
                     PROVE  j = k
        BY <4>3
      <4>5. CASE j \in 1 .. n /\ k \in 1 .. n
        BY <4>2, <4>4, <4>5
      <4>6. CASE j = n + 1 \/ k = n + 1
        <5>1. (j = n + 1 \/ j \in 1 .. n) /\ (k = n + 1 \/ k \in 1 .. n)
          BY <4>3
        <5> QED
          BY <4>2, <4>3, <4>4, <4>6, <5>1
      <4> QED
        BY <4>3, <4>5, <4>6
    <3> QED
      BY <2>1, <3>3, <3>4, <3>5 DEF SendIndexAgrees
  <2> QED
    BY <2>2, <2>3
<1>7. ZeroIsReserved(P)
  BY <1>1, <1>3 DEF WellFormed, ZeroIsReserved
<1>8. QueueOK(P)
  BY <1>4, <1>5, <1>6, <1>7 DEF QueueOK, WellFormed
<1> QED
  BY <1>2, <1>3, <1>8 DEF P

\* The entry with this id, unlinked from the send list when it is linked.
LEMMA UnlinkLemma ==
    ASSUME NEW Q, QueueOK(Q), NEW id \in Ids(Q), ~Q.data[id].hasSend
    PROVE  /\ Unlink(Q.send, id) \in Seq(Id)
           /\ \A i, j \in DOMAIN Unlink(Q.send, id) :
                 Unlink(Q.send, id)[i] = Unlink(Q.send, id)[j] => i = j
           /\ Elements(Unlink(Q.send, id)) = Unsent(Q) \ {id}
<1> DEFINE k == CHOOSE k \in DOMAIN Q.send : Q.send[k] = id
<1>1. /\ Q.send \in Seq(Id)
      /\ \A i, j \in DOMAIN Q.send : Q.send[i] = Q.send[j] => i = j
      /\ Unsent(Q) = {i \in Ids(Q) : ~Q.data[i].hasSend}
  BY QueueShape DEF QueueOK, WellFormed, SendIndexAgrees
<1>2. Unsent(Q) = Elements(Q.send) /\ Elements(Q.send) = {Q.send[j] : j \in DOMAIN Q.send}
  BY DEF Unsent, Elements
<1>3. \E j \in DOMAIN Q.send : Q.send[j] = id
  BY <1>1, <1>2
<1>4. k \in DOMAIN Q.send /\ Q.send[k] = id
  BY <1>3
<1>5. Unlink(Q.send, id) = DeleteAt(Q.send, k)
  BY DEF Unlink
<1> HIDE DEF k
<1> QED
  BY <1>1, <1>2, <1>4, <1>5, DeleteAtLemma

\* erase() and timeout() of an entry keep the containers in agreement.
LEMMA RemoveLemma ==
    ASSUME NEW Q, QueueOK(Q), NEW id \in Ids(Q)
    PROVE  /\ QueueOK(Remove(Q, id))
           /\ Ids(Remove(Q, id)) = Ids(Q) \ {id}
           /\ Remove(Q, id).uniqId = Q.uniqId
           /\ \A i \in Ids(Q) \ {id} : Remove(Q, id).data[i] = Q.data[i]
<1> DEFINE R == Remove(Q, id)
<1>1. Q \in Queue /\ WellFormed(Q)
  BY DEF QueueOK
<1>2. /\ R.uniqId = Q.uniqId
      /\ R.data = [i \in Ids(Q) \ {id} |-> Q.data[i]]
      /\ R.time = Q.time \ {<<Q.data[id].deadline, id>>}
      /\ R.send = IF Q.data[id].hasSend THEN Q.send ELSE Unlink(Q.send, id)
  BY <1>1 DEF Remove, Queue
<1>3. /\ Ids(R) = Ids(Q) \ {id}
      /\ \A i \in Ids(Q) \ {id} : R.data[i] = Q.data[i]
  BY <1>2 DEF Ids
<1>4. Unsent(Q) = {i \in Ids(Q) : ~Q.data[i].hasSend}
  BY <1>1 DEF WellFormed, SendIndexAgrees
<1>5. R.send \in Seq(Id)
  BY <1>1, <1>2, QueueShape, UnlinkLemma
<1>6. R \in Queue
  <2>1. R.data \in [Ids(Q) \ {id} -> Entry]
    BY <1>1, <1>2, QueueShape
  <2>2. R.data \in Table
    BY <1>1, <2>1, QueueShape, TableIntro
  <2>3. R.time \in SUBSET (Deadline \X Id)
    BY <1>1, <1>2, QueueShape
  <2> QED
    BY <1>1, <1>2, <1>5, <2>2, <2>3 DEF Queue, Remove
<1> HIDE DEF R
<1>7. TimeIndexAgrees(R)
  <2>1. Q.time = {<<Q.data[i].deadline, i>> : i \in Ids(Q)}
    BY <1>1 DEF WellFormed, TimeIndexAgrees
  <2>2. {<<R.data[i].deadline, i>> : i \in Ids(R)} =
           {<<Q.data[i].deadline, i>> : i \in Ids(Q)} \ {<<Q.data[id].deadline, id>>}
    BY <1>3
  <2> QED
    BY <1>2, <2>1, <2>2 DEF TimeIndexAgrees
<1>8. SendIndexAgrees(R)
  <2>1. Unsent(R) = Unsent(Q) \ {id}
    <3>1. CASE Q.data[id].hasSend
      <4>1. R.send = Q.send
        BY <1>2, <3>1
      <4>2. Unsent(R) = Unsent(Q)
        BY <4>1 DEF Unsent
      <4> QED
        BY <1>4, <3>1, <4>2
    <3>2. CASE ~Q.data[id].hasSend
      <4>1. R.send = Unlink(Q.send, id)
        BY <1>2, <3>2
      <4> QED
        BY <3>2, <4>1, UnlinkLemma DEF Unsent
    <3> QED
      BY <3>1, <3>2
  <2>2. {i \in Ids(R) : ~R.data[i].hasSend} = Unsent(Q) \ {id}
    BY <1>3, <1>4
  <2>3. \A j, k \in DOMAIN R.send : R.send[j] = R.send[k] => j = k
    <3>1. \A j, k \in DOMAIN Q.send : Q.send[j] = Q.send[k] => j = k
      BY <1>1 DEF WellFormed, SendIndexAgrees
    <3>2. CASE Q.data[id].hasSend
      BY <1>2, <3>1, <3>2
    <3>3. CASE ~Q.data[id].hasSend
      <4>1. R.send = Unlink(Q.send, id)
        BY <1>2, <3>3
      <4>2. \A i, j \in DOMAIN Unlink(Q.send, id) :
               Unlink(Q.send, id)[i] = Unlink(Q.send, id)[j] => i = j
        BY <3>3, UnlinkLemma
      <4> QED
        BY ONLY <4>1, <4>2
    <3> QED
      BY <3>2, <3>3
  <2> QED
    BY <2>1, <2>2, <2>3 DEF SendIndexAgrees
<1>9. ZeroIsReserved(R)
  BY <1>1, <1>3 DEF WellFormed, ZeroIsReserved
<1>10. QueueOK(R)
  BY <1>6, <1>7, <1>8, <1>9 DEF QueueOK, WellFormed
<1> QED
  BY <1>2, <1>3, <1>10 DEF R

\* The head of a send list is an entry that has not been sent.
LEMMA NextSendLemma ==
    ASSUME NEW Q, QueueOK(Q), HasUnsent(Q)
    PROVE  NextSend(Q) \in Ids(Q) /\ ~Q.data[NextSend(Q)].hasSend
<1>1. Q.send \in Seq(Id) /\ Q.send # <<>>
  BY QueueShape DEF QueueOK, HasUnsent
<1>2. 1 \in DOMAIN Q.send /\ NextSend(Q) = Q.send[1]
  BY <1>1 DEF NextSend
<1>3. NextSend(Q) \in Unsent(Q)
  BY <1>2 DEF Unsent, Elements
<1> QED
  BY <1>3 DEF QueueOK, WellFormed, SendIndexAgrees

\* popSend(), with and without deletion, keeps the containers in agreement.
LEMMA PopSendLemma ==
    ASSUME NEW Q, QueueOK(Q), HasUnsent(Q), NEW del \in BOOLEAN
    PROVE  /\ QueueOK(PopSend(Q, del))
           /\ Ids(PopSend(Q, del)) = IF del THEN Ids(Q) \ {NextSend(Q)} ELSE Ids(Q)
           /\ PopSend(Q, del).uniqId = Q.uniqId
           /\ \A i \in Ids(PopSend(Q, del)) :
                 /\ PopSend(Q, del).data[i].ptr = Q.data[i].ptr
                 /\ PopSend(Q, del).data[i].hasSend <=>
                       (i = NextSend(Q) \/ Q.data[i].hasSend)
<1> DEFINE id == NextSend(Q)
           R == PopSend(Q, del)
<1>1. /\ Q \in Queue /\ WellFormed(Q)
      /\ id \in Ids(Q) /\ ~Q.data[id].hasSend
      /\ Q.send \in Seq(Id) /\ Q.send # <<>>
  BY NextSendLemma, QueueShape DEF QueueOK, HasUnsent
<1>2. /\ R.uniqId = Q.uniqId
      /\ R.data = IF del THEN [i \in Ids(Q) \ {id} |-> Q.data[i]]
                         ELSE [Q.data EXCEPT ![id].hasSend = TRUE]
      /\ R.time = IF del THEN Q.time \ {<<Q.data[id].deadline, id>>} ELSE Q.time
      /\ R.send = Tail(Q.send)
  BY <1>1 DEF PopSend, NextSend, Queue
<1>3. Q.data \in [Ids(Q) -> Entry] /\ Ids(Q) \subseteq Id
  BY <1>1, QueueShape
<1>4. Ids(R) = IF del THEN Ids(Q) \ {id} ELSE Ids(Q)
  BY <1>2, <1>3 DEF Ids
<1>5. \A i \in Ids(R) : /\ R.data[i] \in Entry
                        /\ R.data[i].ptr = Q.data[i].ptr
                        /\ R.data[i].deadline = Q.data[i].deadline
                        /\ R.data[i].hasSend <=> (i = id \/ Q.data[i].hasSend)
  <2>1. CASE del
    <3>1. \A i \in Ids(R) : i # id /\ i \in Ids(Q) /\ R.data[i] = Q.data[i]
      BY <1>2, <1>4, <2>1
    <3> QED
      BY <1>3, <3>1
  <2>2. CASE ~del
    <3>1. \A i \in Ids(R) :
             /\ i \in Ids(Q)
             /\ R.data[i] = IF i = id THEN [Q.data[i] EXCEPT !.hasSend = TRUE]
                                     ELSE Q.data[i]
      BY <1>2, <1>3, <1>4, <2>2
    <3> QED
      BY <1>3, <3>1 DEF Entry
  <2> QED
    BY <2>1, <2>2
<1>6. R \in Queue
  <2>1. R.data \in [Ids(R) -> Entry]
    BY <1>1, <1>2, <1>3, <1>4, <1>5
  <2>2. R.data \in Table
    BY <1>3, <1>4, <2>1, TableIntro
  <2>3. R.time \in SUBSET (Deadline \X Id) /\ R.send \in Seq(Id)
    BY <1>1, <1>2, QueueShape
  <2> QED
    BY <1>1, <1>2, <2>2, <2>3 DEF Queue, PopSend
<1>7. /\ Len(Q.send) \in Nat \ {0}
      /\ DOMAIN R.send = 1 .. (Len(Q.send) - 1)
      /\ DOMAIN Q.send = 1 .. Len(Q.send)
      /\ \A j \in 1 .. (Len(Q.send) - 1) : R.send[j] = Q.send[j + 1]
      /\ Q.send[1] = id
  BY <1>1, <1>2 DEF NextSend
<1> HIDE DEF R, id
<1>8. TimeIndexAgrees(R)
  <2>1. Q.time = {<<Q.data[i].deadline, i>> : i \in Ids(Q)}
    BY <1>1 DEF WellFormed, TimeIndexAgrees
  <2>2. {<<R.data[i].deadline, i>> : i \in Ids(R)} =
           {<<Q.data[i].deadline, i>> : i \in Ids(R)}
    BY <1>5
  <2>3. CASE del
    <3>1. Ids(R) = Ids(Q) \ {id}
      BY <1>4, <2>3
    <3>2. {<<Q.data[i].deadline, i>> : i \in Ids(R)} =
             {<<Q.data[i].deadline, i>> : i \in Ids(Q)} \ {<<Q.data[id].deadline, id>>}
      BY <3>1
    <3> QED
      BY <1>2, <2>1, <2>2, <2>3, <3>2 DEF TimeIndexAgrees
  <2>4. CASE ~del
    BY <1>2, <1>4, <2>1, <2>2, <2>4 DEF TimeIndexAgrees
  <2> QED
    BY <2>3, <2>4
<1>9. SendIndexAgrees(R)
  <2>1. /\ Unsent(Q) = {i \in Ids(Q) : ~Q.data[i].hasSend}
        /\ \A j, k \in DOMAIN Q.send : Q.send[j] = Q.send[k] => j = k
    BY <1>1 DEF WellFormed, SendIndexAgrees
  <2>2. Unsent(R) = Unsent(Q) \ {id}
    <3>1. Unsent(Q) = {Q.send[j] : j \in DOMAIN Q.send}
      BY DEF Unsent, Elements
    <3>2. Unsent(R) = {R.send[j] : j \in DOMAIN R.send}
      BY DEF Unsent, Elements
    <3>3. ASSUME NEW j \in DOMAIN R.send
          PROVE  R.send[j] \in Unsent(Q) \ {id}
      <4>1. j + 1 \in DOMAIN Q.send /\ R.send[j] = Q.send[j + 1] /\ 1 \in DOMAIN Q.send /\ j + 1 # 1
        BY <1>7
      <4> QED
        BY <1>7, <2>1, <3>1, <4>1
    <3>4. ASSUME NEW j \in DOMAIN Q.send, Q.send[j] # id
          PROVE  Q.send[j] \in Unsent(R)
      <4>1. j - 1 \in DOMAIN R.send /\ R.send[j - 1] = Q.send[j]
        BY <1>7, <3>4
      <4> QED
        BY <3>2, <4>1
    <3> QED
      BY <3>1, <3>2, <3>3, <3>4
  <2>3. {i \in Ids(R) : ~R.data[i].hasSend} = Unsent(Q) \ {id}
    <3>1. \A i : i \in Ids(R) /\ i # id <=> i \in Ids(Q) /\ i # id
      BY <1>4
    <3>2. \A i : i \in Ids(R) /\ ~R.data[i].hasSend <=>
                    i \in Ids(Q) /\ ~Q.data[i].hasSend /\ i # id
      BY <1>5, <3>1
    <3> QED
      BY <2>1, <3>2
  <2>4. ASSUME NEW j \in DOMAIN R.send, NEW k \in DOMAIN R.send, R.send[j] = R.send[k]
        PROVE  j = k
    <3> DEFINE n == Len(Q.send)
    <3>0. j \in 1 .. (n - 1) /\ k \in 1 .. (n - 1) /\ n \in Nat
      BY <1>7
    <3>1. /\ j + 1 \in DOMAIN Q.send /\ k + 1 \in DOMAIN Q.send
          /\ Q.send[j + 1] = Q.send[k + 1]
      <4>1. R.send[j] = Q.send[j + 1] /\ R.send[k] = Q.send[k + 1]
        BY <1>7, <3>0
      <4>2. j + 1 \in 1 .. n /\ k + 1 \in 1 .. n
        BY <3>0
      <4> QED
        BY <1>7, <2>4, <4>1, <4>2
    <3>2. j + 1 = k + 1
      BY <2>1, <3>1
    <3> QED
      BY <1>7, <3>2
  <2> QED
    BY <2>2, <2>3, <2>4 DEF SendIndexAgrees
<1>10. ZeroIsReserved(R)
  BY <1>1, <1>4 DEF WellFormed, ZeroIsReserved
<1>11. QueueOK(R)
  BY <1>6, <1>8, <1>9, <1>10 DEF QueueOK, WellFormed
<1> QED
  BY <1>2, <1>4, <1>5, <1>11 DEF R, id
=============================================================================
