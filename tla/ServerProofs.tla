----------------------------- MODULE ServerProofs -----------------------------
(***************************************************************************)
(* Proofs about the server's connections, for every number of clients,     *)
(* requests, slots, handle threads and every capacity of the queue.        *)
(*                                                                         *)
(* A slot number is with one connection at a time and goes to the back of  *)
(* the free list; the counter of connections differs from the list only    *)
(* while the net thread is between two steps; a context or a command names *)
(* a connection that still has its slot, or one whose slot is free or has  *)
(* been through the whole list.                                            *)
(***************************************************************************)
EXTENDS ServerConnections, FiniteSetTheorems, SequenceTheorems, TLAPS

StageName == {"new", "open", "dead", "gone"}
AccAt == {"accept", "accepted", "numbered"}
NetAt == {"epoll", "unlink", "count", "timer", "timerCount", "timerUnlink"}
Deleting == {"unlink", "timerCount", "timerUnlink"}
One(b) == IF b THEN 1 ELSE 0

Linked(c) == stage[c] \in {"open", "dead"}

DataOK ==
    /\ bye \subseteq Conn /\ closing \subseteq Conn
    /\ recvq \in Seq(Context) /\ sbuffer \in Seq(Command)
    /\ busy \in [Handle -> Context \cup {None}]
    /\ sendbuf \in [Conn -> Answer \cup {None}]
    /\ messages \in [Conn -> Seq(Answer)] /\ out \in [Conn -> Seq(Answer)]
    /\ came \in [Conn -> Nat] /\ \A c \in Conn : came[c] <= Asks[c]
    /\ told \in [Conn -> Nat]

\* What the accept thread and the net thread are doing, and to whom.
ThreadsOK ==
    /\ acc \in [at : AccAt, conn : Conn \cup {None}]
    /\ net \in [at : NetAt, conn : Conn \cup {None}]
    /\ acc.at # "accept" => acc.conn \in Conn /\ stage[acc.conn] = "new"
    /\ net.at \in Deleting => net.conn \in Conn /\ stage[net.conn] = "dead"
    /\ net.at = "count" => net.conn \in Conn /\ stage[net.conn] = "gone"

SlotsOK ==
    /\ stage \in [Conn -> StageName]
    /\ slot \in [Conn -> 0 .. Slots] /\ vConn \in [Slot -> Conn \cup {None}]
    /\ free \in Seq(Slot)
    /\ SlotsAgree
    /\ \A c \in Conn : Linked(c) => slot[c] \in Slot /\ vConn[slot[c]] = c
    /\ acc.at = "numbered" => slot[acc.conn] \in Slot

\* A slot is free, with a listed connection or with the one being accepted;
\* the accept thread counts a connection that it found room for.
CountOK ==
    /\ IsFiniteSet(Listed) /\ cur \in Int
    /\ Len(free) + Cardinality(Listed) + One(acc.at = "numbered") = Slots
    /\ cur = Cardinality(Listed) + One(net.at = "count") - One(net.at = "timerUnlink")
    /\ cur <= MaxConns /\ (acc.at # "accept" => cur < MaxConns)

Hits(q, c) == {i \in DOMAIN q : q[i].kind \in CloseType /\ q[i].of = c}
InHand(c) == {h \in Handle : busy[h] # None /\ busy[h].kind \in CloseType /\ busy[h].of = c}

ReportsOK ==
    /\ \A c \in Conn : IsFiniteSet(InHand(c))
    /\ CloseReportedOnce

\* The connection a context or a command is about still has the slot it
\* names, or that slot is in the free list where ahead says, or it has been
\* handed out since.
Fine(x) ==
    \/ Linked(x.of) /\ slot[x.of] = x.uid
    \/ /\ stage[x.of] = "gone"
       /\ ahead[x.of] > 0 => ahead[x.of] \in DOMAIN free /\ free[ahead[x.of]] = x.uid

LateOK ==
    /\ ahead \in [Conn -> 0 .. Slots]
    /\ \A i \in DOMAIN recvq : Fine(recvq[i])
    /\ \A h \in Handle : busy[h] # None => Fine(busy[h])
    /\ \A i \in DOMAIN sbuffer : Fine(sbuffer[i])

BuffersOK ==
    /\ NothingBehindEmptyBuffer
    /\ \A c \in Conn : stage[c] = "new" => sendbuf[c] = None /\ messages[c] = <<>>

IInv ==
    /\ DataOK /\ ThreadsOK /\ SlotsOK /\ stale \subseteq Listed
    /\ CountOK /\ ReportsOK /\ LateOK /\ BuffersOK

-----------------------------------------------------------------------------
(* Constants, and the close contexts in a queue.                            *)

LEMMA ConstantsOK ==
    /\ Slots \in Nat /\ MaxConns \in Nat /\ 0 < MaxConns /\ MaxConns <= Slots
    /\ QueueCap \in Nat /\ OverloadAt \in Nat
    /\ Asks \in [Conn -> Nat]
    /\ None \notin Conn /\ None \notin Context /\ None \notin Answer
    /\ \A s \in Slot : s \in Nat /\ s > 0
BY ServerAssumption DEF Slot

LEMMA HitsFinite ==
    ASSUME NEW q \in Seq(Context), NEW c
    PROVE  IsFiniteSet(Hits(q, c)) /\ Cardinality(Hits(q, c)) \in Nat
<1>1. DOMAIN q = 1 .. Len(q) /\ Len(q) \in Nat
  OBVIOUS
<1>2. IsFiniteSet(1 .. Len(q))
  BY <1>1, FS_Interval
<1>3. Hits(q, c) \in SUBSET (1 .. Len(q))
  BY <1>1 DEF Hits
<1> QED
  BY <1>2, <1>3, FS_Subset, FS_CardinalityType

LEMMA HitsAppend ==
    ASSUME NEW q \in Seq(Context), NEW x \in Context, NEW c
    PROVE  Cardinality(Hits(Append(q, x), c)) =
             Cardinality(Hits(q, c)) + One(x.kind \in CloseType /\ x.of = c)
<1> DEFINE n == Len(q)
           r == Append(q, x)
<1>1. /\ n \in Nat /\ DOMAIN q = 1 .. n /\ DOMAIN r = 1 .. n + 1
      /\ r[n + 1] = x /\ \A i \in 1 .. n : r[i] = q[i]
  OBVIOUS
<1> HIDE DEF n, r
<1>2. n + 1 \notin Hits(q, c)
  BY <1>1 DEF Hits
<1>3. CASE x.kind \in CloseType /\ x.of = c
  <2>1. Hits(r, c) = Hits(q, c) \cup {n + 1}
    BY <1>1, <1>3 DEF Hits
  <2> QED
    <3>1. IsFiniteSet(Hits(q, c)) /\ Cardinality(Hits(q, c)) \in Nat
      BY HitsFinite
    <3>2. Cardinality(Hits(r, c)) = Cardinality(Hits(q, c)) + 1
      BY <1>2, <2>1, <3>1, FS_AddElement
    <3> QED
      BY <1>3, <3>2 DEF One, r
<1>4. CASE ~(x.kind \in CloseType /\ x.of = c)
  <2>1. Hits(r, c) = Hits(q, c)
    BY <1>1, <1>4 DEF Hits
  <2> QED
    BY <1>4, <2>1, HitsFinite DEF One, r
<1> QED
  BY <1>3, <1>4

LEMMA HitsTail ==
    ASSUME NEW q \in Seq(Context), q # <<>>, NEW c
    PROVE  Cardinality(Hits(q, c)) =
             Cardinality(Hits(Tail(q), c)) + One(Head(q).kind \in CloseType /\ Head(q).of = c)
<1> DEFINE n == Len(q)
           r == Tail(q)
           T == Hits(q, c) \ {1}
           f == [i \in Hits(r, c) |-> i + 1]
<1>1. /\ n \in Nat /\ n > 0 /\ DOMAIN q = 1 .. n /\ DOMAIN r = 1 .. n - 1
      /\ Head(q) = q[1] /\ r \in Seq(Context)
  OBVIOUS
<1>2. \A i \in 1 .. n - 1 : r[i] = q[i + 1]
  BY <1>1
<1> HIDE DEF n, r
<1>3. \A i \in Hits(r, c) : i \in 1 .. n - 1 /\ i + 1 \in T
  BY <1>1, <1>2 DEF Hits
<1>4. \A j \in T : j - 1 \in Hits(r, c) /\ j = (j - 1) + 1
  <2> SUFFICES ASSUME NEW j \in T PROVE j - 1 \in Hits(r, c) /\ j = (j - 1) + 1
    OBVIOUS
  <2>1. j \in 1 .. n /\ j # 1 /\ q[j].kind \in CloseType /\ q[j].of = c
    BY <1>1 DEF Hits
  <2>2. j - 1 \in 1 .. n - 1 /\ r[j - 1] = q[j]
    BY <1>1, <1>2, <2>1
  <2> QED
    BY <1>1, <2>1, <2>2 DEF Hits
<1>5. f \in Bijection(Hits(r, c), T)
  <2>1. f \in [Hits(r, c) -> T]
    BY <1>3
  <2>2. \A i, j \in Hits(r, c) : f[i] = f[j] => i = j
    BY <1>3
  <2>3. \A j \in T : \E i \in Hits(r, c) : f[i] = j
    BY <1>4
  <2> QED
    BY <2>1, <2>2, <2>3 DEF Bijection, Injection, Surjection, IsInjective
<1>6. IsFiniteSet(Hits(r, c)) /\ IsFiniteSet(Hits(q, c))
  BY <1>1, HitsFinite
<1>7. Cardinality(T) = Cardinality(Hits(r, c))
  BY <1>5, <1>6, FS_Bijection DEF ExistsBijection
<1>8. Cardinality(T) = IF 1 \in Hits(q, c) THEN Cardinality(Hits(q, c)) - 1
                                            ELSE Cardinality(Hits(q, c))
  BY <1>6, FS_RemoveElement
<1>9. 1 \in Hits(q, c) <=> Head(q).kind \in CloseType /\ Head(q).of = c
  BY <1>1 DEF Hits
<1> QED
  BY <1>1, <1>7, <1>8, <1>9, HitsFinite DEF One, r

LEMMA HitsConcat ==
    ASSUME NEW q \in Seq(Context), NEW b \in Seq(Context), NEW c,
           \A i \in DOMAIN b : b[i].kind \notin CloseType
    PROVE  Hits(q \o b, c) = Hits(q, c)
<1> DEFINE r == q \o b
           n == Len(q)
           m == Len(b)
<1>1. /\ n \in Nat /\ m \in Nat /\ DOMAIN q = 1 .. n /\ DOMAIN b = 1 .. m
      /\ DOMAIN r = 1 .. n + m
  OBVIOUS
<1>2. \A i \in 1 .. n + m : r[i] = IF i <= n THEN q[i] ELSE b[i - n]
  BY ConcatProperties
<1> HIDE DEF r, n, m
<1>3. ASSUME NEW i \in 1 .. n + m, ~(i <= n) PROVE r[i].kind \notin CloseType
  <2>1. i - n \in 1 .. m
    BY <1>1, <1>3
  <2> QED
    BY <1>1, <1>2, <1>3, <2>1
<1>4. \A i \in Hits(r, c) : i \in 1 .. n /\ r[i] = q[i]
  BY <1>1, <1>2, <1>3 DEF Hits
<1>5. \A i \in 1 .. n : i \in 1 .. n + m /\ r[i] = q[i]
  BY <1>1, <1>2
<1> QED
  BY <1>1, <1>4, <1>5 DEF Hits, r

-----------------------------------------------------------------------------
(* Slots.                                                                   *)

IsFree(s) == \E i \in DOMAIN free : free[i] = s

\* SlotsAgree, slot by slot, and the other way round.
LEMMA SlotsFacts ==
    ASSUME ThreadsOK, SlotsOK
    PROVE  /\ \A s \in Slot : IsFree(s) => vConn[s] = None /\ ~Holding(s)
           /\ \A s \in Slot : Holding(s) => vConn[s] = None
           /\ \A s \in Slot : ~IsFree(s) /\ ~Holding(s) => vConn[s] # None
           /\ \A s \in Slot : vConn[s] # None =>
                vConn[s] \in Conn /\ slot[vConn[s]] = s /\ Linked(vConn[s])
           /\ \A c \in Conn : c \in Listed <=> Linked(c)
           /\ \A c \in Conn : Linked(c) =>
                slot[c] \in Slot /\ vConn[slot[c]] = c /\ ~IsFree(slot[c]) /\ ~Holding(slot[c])
<1>1. \A s \in Slot : vConn[s] # None =>
        vConn[s] \in Conn /\ slot[vConn[s]] = s /\ Linked(vConn[s])
  BY DEF SlotsOK, SlotsAgree, Linked
<1>2. \A c \in Conn : Linked(c) => slot[c] \in Slot /\ vConn[slot[c]] = c
  BY DEF SlotsOK
<1>3. \A c \in Conn : c \in Listed <=> Linked(c)
  BY <1>1, <1>2, ConstantsOK DEF Listed
<1>4. \A s \in Slot : /\ IsFree(s) => vConn[s] = None /\ ~Holding(s)
                      /\ Holding(s) => vConn[s] = None
                      /\ ~IsFree(s) /\ ~Holding(s) => vConn[s] # None
  BY DEF SlotsOK, SlotsAgree, IsFree
<1> QED
  BY <1>1, <1>2, <1>3, <1>4, ConstantsOK

\* SlotsAgree from its parts.
LEMMA SlotsIntro ==
    ASSUME \A i, j \in DOMAIN free : free[i] = free[j] => i = j,
           \A s \in Slot : IsFree(s) => vConn[s] = None /\ ~Holding(s),
           \A s \in Slot : Holding(s) => vConn[s] = None,
           \A s \in Slot : ~IsFree(s) /\ ~Holding(s) => vConn[s] # None,
           \A s \in Slot : vConn[s] # None => slot[vConn[s]] = s /\ Linked(vConn[s])
    PROVE  SlotsAgree
BY DEF SlotsAgree, IsFree, Linked

\* A step that moves no slot, and at most closes a transceiver.
Quiet ==
    /\ UNCHANGED <<acc, slot, vConn, free, ahead>>
    /\ \/ stage' = stage
       \/ \E c \in Conn : Linked(c) /\ stage' = [stage EXCEPT ![c] = "dead"]

LEMMA QuietStage ==
    ASSUME SlotsOK, Quiet
    PROVE  /\ stage' \in [Conn -> StageName]
           /\ \A c \in Conn : /\ Linked(c)' <=> Linked(c)
                              /\ stage'[c] = "new" <=> stage[c] = "new"
                              /\ stage'[c] = "gone" <=> stage[c] = "gone"
                              /\ stage'[c] = "open" => stage[c] = "open"
                              /\ stage[c] = "dead" => stage'[c] = "dead"
<1>1. stage \in [Conn -> StageName]
  BY DEF SlotsOK
<1>2. CASE stage' = stage
  BY <1>1, <1>2 DEF Linked
<1>3. CASE \E c \in Conn : Linked(c) /\ stage' = [stage EXCEPT ![c] = "dead"]
  <2>1. PICK c \in Conn : Linked(c) /\ stage' = [stage EXCEPT ![c] = "dead"]
    BY <1>3
  <2>2. stage' \in [Conn -> StageName]
    BY <1>1, <2>1 DEF StageName
  <2>3. stage[c] \in {"open", "dead"} /\ stage'[c] = "dead"
    BY <1>1, <2>1 DEF Linked
  <2>4. \A d \in Conn : d # c => stage'[d] = stage[d]
    BY <1>1, <2>1
  <2> QED
    BY <2>2, <2>3, <2>4 DEF Linked
<1> QED
  BY <1>2, <1>3 DEF Quiet

LEMMA QuietSlots ==
    ASSUME ThreadsOK, SlotsOK, Quiet
    PROVE  /\ SlotsOK' /\ Listed' = Listed
           /\ acc'.at # "accept" => acc'.conn \in Conn /\ stage'[acc'.conn] = "new"
           /\ \A x \in Context \cup Command : Fine(x) => Fine(x)'
<1>1. UNCHANGED <<acc, slot, vConn, free, ahead>>
  BY DEF Quiet
<1>2. Listed' = Listed /\ (\A s : IsFree(s)' <=> IsFree(s)) /\ \A s : Holding(s)' <=> Holding(s)
  BY <1>1 DEF Listed, IsFree, Holding
<1>3. SlotsAgree'
  <2>1. \A i, j \in DOMAIN free : free[i] = free[j] => i = j
    BY DEF SlotsOK, SlotsAgree
  <2>2. \A s \in Slot : vConn[s] # None => vConn[s] \in Conn /\ slot[vConn[s]] = s /\ Linked(vConn[s])
    BY SlotsFacts
  <2>3. \A s \in Slot : vConn[s] # None => slot[vConn[s]] = s /\ stage'[vConn[s]] \in {"open", "dead"}
    BY <2>2, QuietStage DEF Linked
  <2>4. \A s \in Slot : /\ IsFree(s) => vConn[s] = None /\ ~Holding(s)
                        /\ Holding(s) => vConn[s] = None
                        /\ ~IsFree(s) /\ ~Holding(s) => vConn[s] # None
    BY SlotsFacts
  <2>5. \A s \in Slot : /\ IsFree(s)' => vConn'[s] = None /\ ~Holding(s)'
                        /\ Holding(s)' => vConn'[s] = None
                        /\ ~IsFree(s)' /\ ~Holding(s)' => vConn'[s] # None
                        /\ vConn'[s] # None => slot'[vConn'[s]] = s /\ stage'[vConn'[s]] \in {"open", "dead"}
    BY <1>1, <1>2, <2>3, <2>4
  <2>6. \A i, j \in DOMAIN free' : free'[i] = free'[j] => i = j
    BY <1>1, <2>1
  <2> QED
    BY <2>5, <2>6 DEF SlotsAgree, IsFree
<1>4. SlotsOK'
  BY <1>1, <1>3, QuietStage DEF SlotsOK
<1>5. acc.at # "accept" => acc.conn \in Conn /\ stage'[acc.conn] = "new"
  BY QuietStage DEF ThreadsOK
<1>6. ASSUME NEW x \in Context \cup Command, Fine(x) PROVE Fine(x)'
  <2>1. x.of \in Conn
    BY DEF Context, Command
  <2> QED
    BY <1>1, <1>6, <2>1, QuietStage DEF Fine
<1> QED
  BY <1>1, <1>2, <1>4, <1>5, <1>6

\* The first slot of the free list goes to the connection being accepted.
LEMMA GetUniqIdSlots ==
    ASSUME ThreadsOK, SlotsOK, ahead \in [Conn -> 0 .. Slots], NEW c \in Conn, GetUniqId(c)
    PROVE  /\ SlotsOK' /\ Listed' = Listed /\ Len(free') = Len(free) - 1
           /\ ahead' \in [Conn -> 0 .. Slots]
           /\ \A x \in Context \cup Command : Fine(x) => Fine(x)'
<1> DEFINE u == Head(free)
           n == Len(free)
<1>1. /\ acc.at = "accepted" /\ acc.conn = c /\ stage[c] = "new"
      /\ acc'.at = "numbered" /\ acc'.conn = c
      /\ stage' = stage /\ vConn' = vConn /\ free # <<>> /\ free' = Tail(free)
      /\ slot' = [slot EXCEPT ![c] = u]
      /\ \A d \in Conn : ahead'[d] = IF ahead[d] > 0 THEN ahead[d] - 1 ELSE 0
  BY DEF GetUniqId, Doing, ThreadsOK, linkVars
<1>2. /\ n \in Nat /\ n > 0 /\ DOMAIN free = 1 .. n /\ free' \in Seq(Slot)
      /\ DOMAIN free' = 1 .. n - 1 /\ Len(free') = n - 1 /\ u = free[1] /\ u \in Slot
  BY <1>1 DEF SlotsOK
<1>3. \A i \in 1 .. n - 1 : free'[i] = free[i + 1] /\ i + 1 \in 1 .. n
  BY <1>1, <1>2 DEF SlotsOK
<1>4. \A i, j \in 1 .. n : free[i] = free[j] => i = j
  BY <1>2 DEF SlotsOK, SlotsAgree
<1> HIDE DEF u, n
<1>5. ~Linked(c) /\ (\A d \in Conn : Linked(d)' <=> Linked(d)) /\ Listed' = Listed
  BY <1>1 DEF Linked, Listed
<1>6. slot' \in [Conn -> 0 .. Slots] /\ slot'[c] = u /\ \A d \in Conn : d # c => slot'[d] = slot[d]
  BY <1>1, <1>2 DEF SlotsOK, Slot
<1>7. \A s \in Slot : IsFree(s)' <=> IsFree(s) /\ s # u
  <2> SUFFICES ASSUME NEW s \in Slot PROVE IsFree(s)' <=> IsFree(s) /\ s # u
    OBVIOUS
  <2>1. IsFree(s)' => IsFree(s) /\ s # u
    <3> SUFFICES ASSUME IsFree(s)' PROVE IsFree(s) /\ s # u
      OBVIOUS
    <3>1. PICK i \in 1 .. n - 1 : free'[i] = s
      BY <1>2 DEF IsFree
    <3>2. free[i + 1] = s /\ i + 1 \in 1 .. n /\ i + 1 # 1 /\ 1 \in 1 .. n
      BY <1>2, <1>3, <3>1
    <3> QED
      BY <1>2, <1>4, <3>2 DEF IsFree
  <2>2. IsFree(s) /\ s # u => IsFree(s)'
    <3> SUFFICES ASSUME IsFree(s), s # u PROVE IsFree(s)'
      OBVIOUS
    <3>1. PICK i \in 1 .. n : free[i] = s
      BY <1>2 DEF IsFree
    <3>2. i # 1 /\ i - 1 \in 1 .. n - 1 /\ (i - 1) + 1 = i
      BY <1>2, <3>1
    <3> QED
      BY <1>2, <1>3, <3>1, <3>2 DEF IsFree
  <2> QED
    BY <2>1, <2>2
<1>8. IsFree(u) /\ \A s \in Slot : ~Holding(s) /\ (Holding(s)' <=> s = u)
  <2>1. 1 \in 1 .. n
    BY <1>2
  <2>2. IsFree(u)
    BY <1>2, <2>1 DEF IsFree
  <2>3. ASSUME NEW s \in Slot PROVE ~Holding(s) /\ (Holding(s)' <=> s = u)
    BY <1>1, <1>6 DEF Holding
  <2> QED
    BY <2>2, <2>3
<1>9. SlotsAgree'
  <2>1. ASSUME NEW i \in 1 .. n - 1, NEW j \in 1 .. n - 1, free'[i] = free'[j] PROVE i = j
    BY <1>2, <1>3, <1>4, <2>1
  <2>2. \A s \in Slot : /\ IsFree(s)' => vConn'[s] = None /\ ~Holding(s)'
                        /\ Holding(s)' => vConn'[s] = None
                        /\ ~IsFree(s)' /\ ~Holding(s)' => vConn'[s] # None
    BY <1>1, <1>7, <1>8, SlotsFacts
  <2>3. \A s \in Slot : vConn'[s] # None => slot'[vConn'[s]] = s /\ stage'[vConn'[s]] \in {"open", "dead"}
    BY <1>1, <1>5, <1>6, SlotsFacts DEF Linked
  <2> QED
    BY <1>2, <2>1, <2>2, <2>3 DEF SlotsAgree, IsFree
<1>10. \A d \in Conn : Linked(d)' => slot'[d] \in Slot /\ vConn'[slot'[d]] = d
  BY <1>1, <1>5, <1>6 DEF SlotsOK
<1>11. SlotsOK'
  BY <1>1, <1>2, <1>6, <1>9, <1>10 DEF SlotsOK
<1>12. ahead' \in [Conn -> 0 .. Slots]
  BY ConstantsOK DEF GetUniqId
<1>13. ASSUME NEW x \in Context \cup Command, Fine(x) PROVE Fine(x)'
  <2>1. x.of \in Conn
    BY DEF Context, Command
  <2>2. CASE Linked(x.of) /\ slot[x.of] = x.uid
    BY <1>5, <1>6, <2>1, <2>2 DEF Fine
  <2>3. CASE stage[x.of] = "gone"
    <3> DEFINE a == ahead[x.of]
    <3>1. a \in Nat /\ ahead'[x.of] = IF a > 0 THEN a - 1 ELSE 0
      BY <1>1, <2>1
    <3>2. stage'[x.of] = "gone" /\ (a > 0 => a \in 1 .. n /\ free[a] = x.uid)
      BY <1>1, <1>2, <1>13, <2>3 DEF Fine, Linked
    <3> HIDE DEF a
    <3>3. a > 1 => a - 1 \in 1 .. n - 1 /\ free'[a - 1] = free[a]
      BY <1>2, <1>3, <3>1, <3>2
    <3>4. ahead'[x.of] > 0 => ahead'[x.of] \in DOMAIN free' /\ free'[ahead'[x.of]] = x.uid
      BY <1>2, <3>1, <3>2, <3>3
    <3> QED
      BY <3>2, <3>4 DEF Fine
  <2> QED
    BY <1>13, <2>2, <2>3 DEF Fine
<1> QED
  BY <1>2, <1>5, <1>11, <1>12, <1>13 DEF n

\* The connection that has been accepted is put where its slot says.
LEMMA AddTcpConnectionSlots ==
    ASSUME ThreadsOK, SlotsOK, NEW c \in Conn, AddTcpConnection(c)
    PROVE  /\ SlotsOK' /\ c \notin Listed /\ Listed' = Listed \cup {c}
           /\ \A x \in Context \cup Command : Fine(x) => Fine(x)'
<1> DEFINE u == slot[c]
<1>1. /\ acc.at = "numbered" /\ acc.conn = c /\ stage[c] = "new" /\ acc'.at = "accept"
      /\ slot' = slot /\ free' = free /\ ahead' = ahead
      /\ vConn' = [vConn EXCEPT ![u] = c] /\ stage' = [stage EXCEPT ![c] = "open"]
  BY DEF AddTcpConnection, Doing, At, ThreadsOK
<1>2. u \in Slot /\ Holding(u) /\ (\A s \in Slot : Holding(s) <=> s = u) /\ \A s \in Slot : ~Holding(s)'
  BY <1>1 DEF SlotsOK, Holding
<1> HIDE DEF u
<1>3. vConn' \in [Slot -> Conn \cup {None}] /\ vConn'[u] = c /\ \A s \in Slot : s # u => vConn'[s] = vConn[s]
  BY <1>1, <1>2 DEF SlotsOK
<1>4. /\ stage' \in [Conn -> StageName] /\ stage'[c] = "open"
      /\ \A d \in Conn : d # c => stage'[d] = stage[d]
  BY <1>1 DEF SlotsOK, StageName
<1>5. ~Linked(c) /\ Linked(c)' /\ \A d \in Conn : d # c => (Linked(d)' <=> Linked(d))
  BY <1>1, <1>4 DEF Linked
<1>6. \A s \in Slot : IsFree(s)' <=> IsFree(s)
  BY <1>1 DEF IsFree
<1>7. \A s \in Slot : vConn[s] # c /\ (vConn[s] # None => vConn[s] \in Conn)
  BY <1>5, SlotsFacts, ConstantsOK
<1>8. SlotsAgree'
  <2>1. \A s \in Slot : /\ IsFree(s)' => vConn'[s] = None /\ ~Holding(s)'
                        /\ Holding(s)' => vConn'[s] = None
                        /\ ~IsFree(s)' /\ ~Holding(s)' => vConn'[s] # None
    BY <1>2, <1>3, <1>6, SlotsFacts, ConstantsOK
  <2>2. \A s \in Slot : vConn'[s] # None => slot'[vConn'[s]] = s /\ stage'[vConn'[s]] \in {"open", "dead"}
    <3>1. u = slot[c]
      BY DEF u
    <3> QED
      BY <1>1, <1>3, <1>4, <1>7, <3>1, SlotsFacts DEF Linked
  <2>3. \A i, j \in DOMAIN free' : free'[i] = free'[j] => i = j
    BY <1>1 DEF SlotsOK, SlotsAgree
  <2> QED
    BY <2>1, <2>2, <2>3 DEF SlotsAgree, IsFree
<1>9. ASSUME NEW d \in Conn, Linked(d)' PROVE slot'[d] \in Slot /\ vConn'[slot'[d]] = d
  <2>1. CASE d = c
    BY <1>1, <1>2, <1>3, <2>1 DEF u
  <2>2. CASE d # c
    <3>1. Linked(d)
      BY <1>5, <1>9, <2>2
    <3>2. slot[d] \in Slot /\ vConn[slot[d]] = d /\ ~Holding(slot[d])
      BY <3>1, SlotsFacts
    <3> QED
      BY <1>1, <1>2, <1>3, <3>2
  <2> QED
    BY <2>1, <2>2
<1>10. SlotsOK'
  BY <1>1, <1>3, <1>4, <1>8, <1>9 DEF SlotsOK
<1>11. c \notin Listed /\ Listed' = Listed \cup {c}
  <2>1. \A s \in Slot : vConn'[s] \in Conn => vConn'[s] = c \/ (vConn'[s] = vConn[s])
    BY <1>3
  <2>2. \A s \in Slot : vConn[s] \in Conn => s # u
    BY <1>2, SlotsFacts, ConstantsOK
  <2> QED
    BY <1>2, <1>3, <1>7, <2>1, <2>2 DEF Listed
<1>12. ASSUME NEW x \in Context \cup Command, Fine(x) PROVE Fine(x)'
  <2>1. x.of \in Conn
    BY DEF Context, Command
  <2>2. x.of # c
    BY <1>1, <1>12 DEF Fine, Linked
  <2> QED
    BY <1>1, <1>4, <1>12, <2>1, <2>2 DEF Fine, Linked
<1> QED
  BY <1>10, <1>11, <1>12

\* The slot of a deleted connection goes to the back of the free list.
LEMMA UnlinkSlots ==
    ASSUME ThreadsOK, SlotsOK, ahead \in [Conn -> 0 .. Slots], Len(free) < Slots,
           NEW from \in Deleting, NEW to \in NetAt, Unlink(from, to),
           NEW c, c = net.conn
    PROVE  /\ c \in Conn /\ stage[c] = "dead" /\ c \in Listed /\ Listed' = Listed \ {c}
           /\ SlotsOK' /\ Len(free') = Len(free) + 1
           /\ ahead' \in [Conn -> 0 .. Slots]
           /\ \A d \in Conn : stage'[d] = IF d = c THEN "gone" ELSE stage[d]
           /\ \A x \in Context \cup Command : Fine(x) => Fine(x)'
<1> DEFINE u == slot[c]
           n == Len(free)
<1>1. /\ c \in Conn /\ stage[c] = "dead" /\ acc' = acc
      /\ vConn' = [vConn EXCEPT ![u] = None] /\ free' = Append(free, u)
      /\ ahead' = [ahead EXCEPT ![c] = n + 1] /\ slot' = [slot EXCEPT ![c] = 0]
      /\ stage' = [stage EXCEPT ![c] = "gone"]
  BY DEF Unlink, DelNoLock, ThreadsOK
<1>2. Linked(c) /\ u \in Slot /\ vConn[u] = c /\ ~IsFree(u) /\ ~Holding(u)
  BY <1>1, SlotsFacts DEF Linked
<1>3. /\ n \in Nat /\ DOMAIN free = 1 .. n /\ free' \in Seq(Slot)
      /\ DOMAIN free' = 1 .. n + 1 /\ Len(free') = n + 1
      /\ free'[n + 1] = u /\ \A i \in 1 .. n : free'[i] = free[i] /\ i # n + 1
  BY <1>1, <1>2 DEF SlotsOK
<1>4. \A i, j \in 1 .. n : free[i] = free[j] => i = j
  BY <1>3 DEF SlotsOK, SlotsAgree
<1>5. /\ stage' \in [Conn -> StageName] /\ stage'[c] = "gone"
      /\ \A d \in Conn : d # c => stage'[d] = stage[d]
  BY <1>1 DEF SlotsOK, StageName
<1>6. /\ slot' \in [Conn -> 0 .. Slots] /\ \A d \in Conn : d # c => slot'[d] = slot[d]
  BY <1>1, ConstantsOK DEF SlotsOK
<1>7. /\ vConn' \in [Slot -> Conn \cup {None}] /\ vConn'[u] = None
      /\ \A s \in Slot : s # u => vConn'[s] = vConn[s]
  BY <1>1, <1>2 DEF SlotsOK
<1>8. /\ ahead' \in [Conn -> 0 .. Slots] /\ ahead'[c] = n + 1
      /\ \A d \in Conn : d # c => ahead'[d] = ahead[d]
  <2>1. n + 1 \in 0 .. Slots
    BY <1>3, ConstantsOK DEF n
  <2> QED
    BY <1>1, <2>1
<1>9. n = Len(free) /\ u = slot[c]
  OBVIOUS
<1> HIDE DEF u, n
<1>10. ~Linked(c)' /\ \A d \in Conn : d # c => (Linked(d)' <=> Linked(d))
  BY <1>5 DEF Linked
<1>11. ASSUME NEW s \in Slot PROVE IsFree(s)' <=> IsFree(s) \/ s = u
  <2>1. n + 1 \in 1 .. n + 1 /\ \A i \in 1 .. n : i \in 1 .. n + 1
    BY <1>3
  <2>2. \A i \in 1 .. n + 1 : i \in 1 .. n \/ i = n + 1
    BY <1>3
  <2> QED
    BY <1>3, <2>1, <2>2 DEF IsFree
<1>12. ASSUME NEW s \in Slot PROVE Holding(s)' <=> Holding(s)
  <2>1. acc.at = "numbered" => acc.conn \in Conn /\ acc.conn # c
    BY <1>1 DEF ThreadsOK
  <2> QED
    BY <1>1, <1>6, <2>1 DEF Holding
<1>13. \A s \in Slot : vConn[s] = c => s = u
  BY <1>1, <1>9, SlotsFacts, ConstantsOK
<1>14. SlotsAgree'
  <2>1. ASSUME NEW i \in 1 .. n + 1, NEW j \in 1 .. n + 1, free'[i] = free'[j] PROVE i = j
    <3>1. \A k \in 1 .. n : free'[k] # u
      BY <1>2, <1>3 DEF IsFree
    <3>2. CASE i \in 1 .. n /\ j \in 1 .. n
      BY <1>3, <1>4, <2>1, <3>2
    <3>3. CASE i = n + 1 \/ j = n + 1
      <4>1. \A k \in 1 .. n + 1 : k \in 1 .. n \/ k = n + 1
        BY <1>3
      <4> QED
        BY <1>3, <2>1, <3>1, <3>3, <4>1
    <3> QED
      BY <1>3, <3>2, <3>3
  <2>2. ASSUME NEW s \in Slot
        PROVE  /\ IsFree(s)' => vConn'[s] = None /\ ~Holding(s)'
               /\ Holding(s)' => vConn'[s] = None
               /\ ~IsFree(s)' /\ ~Holding(s)' => vConn'[s] # None
    BY <1>2, <1>7, <1>11, <1>12, SlotsFacts
  <2>3. \A s \in Slot : vConn'[s] # None => slot'[vConn'[s]] = s /\ stage'[vConn'[s]] \in {"open", "dead"}
    BY <1>5, <1>6, <1>7, <1>13, SlotsFacts DEF Linked
  <2> QED
    BY <1>3, <2>1, <2>2, <2>3 DEF SlotsAgree, IsFree
<1>15. ASSUME NEW d \in Conn, Linked(d)' PROVE slot'[d] \in Slot /\ vConn'[slot'[d]] = d
  <2>1. d # c /\ Linked(d)
    BY <1>10, <1>15
  <2>2. slot[d] \in Slot /\ vConn[slot[d]] = d
    BY <2>1, SlotsFacts
  <2>3. slot[d] # u
    BY <1>2, <2>1, <2>2
  <2> QED
    BY <1>6, <1>7, <2>1, <2>2, <2>3
<1>16. acc'.at = "numbered" => slot'[acc'.conn] \in Slot
  <2>1. acc.at = "numbered" => acc.conn \in Conn /\ acc.conn # c
    BY <1>1 DEF ThreadsOK
  <2> QED
    BY <1>1, <1>6, <2>1 DEF SlotsOK
<1>17. SlotsOK'
  BY <1>3, <1>5, <1>6, <1>7, <1>14, <1>15, <1>16 DEF SlotsOK
<1>18. c \in Listed /\ Listed' = Listed \ {c}
  <2>1. c \in Listed
    BY <1>1, <1>2 DEF Listed
  <2>2. \A s \in Slot : vConn'[s] \in Conn => s # u /\ vConn'[s] = vConn[s] /\ vConn'[s] # c
    BY <1>7, <1>13, ConstantsOK
  <2>3. \A s \in Slot : vConn[s] \in Conn /\ vConn[s] # c => vConn'[s] = vConn[s]
    BY <1>2, <1>7
  <2> QED
    BY <2>1, <2>2, <2>3 DEF Listed
<1>19. ASSUME NEW x \in Context \cup Command, Fine(x) PROVE Fine(x)'
  <2>1. x.of \in Conn
    BY DEF Context, Command
  <2>2. CASE x.of = c
    <3>1. slot[c] = x.uid
      BY <1>1, <1>19, <2>2 DEF Fine
    <3>2. n + 1 \in DOMAIN free'
      BY <1>3
    <3> QED
      BY <1>3, <1>5, <1>8, <1>9, <2>2, <3>1, <3>2 DEF Fine
  <2>3. CASE x.of # c
    <3>1. \A i \in DOMAIN free : i \in DOMAIN free' /\ free'[i] = free[i]
      BY <1>3
    <3>2. /\ stage'[x.of] = stage[x.of] /\ slot'[x.of] = slot[x.of]
          /\ ahead'[x.of] = ahead[x.of]
      BY <1>5, <1>6, <1>8, <2>1, <2>3
    <3> QED
      BY <1>19, <3>1, <3>2 DEF Fine, Linked
  <2> QED
    BY <2>2, <2>3
<1> QED
  BY <1>1, <1>3, <1>5, <1>8, <1>9, <1>17, <1>18, <1>19
-----------------------------------------------------------------------------
(* Steps that leave the slots alone.                                        *)

\* The end of c is on its way to the service, or has reached it.
Ended(c) == stage[c] = "gone" \/ (net.conn = c /\ net.at \in Deleting)

LEMMA ReportsFacts ==
    ASSUME recvq \in Seq(Context), told \in [Conn -> Nat],
           \A c \in Conn : IsFiniteSet(InHand(c))
    PROVE  /\ CloseReportedOnce <=> \A c \in Conn : Reports(c) = One(Ended(c))
           /\ \A c \in Conn :
                /\ Reports(c) = Cardinality(Hits(recvq, c)) + Cardinality(InHand(c)) + told[c]
                /\ Cardinality(Hits(recvq, c)) \in Nat /\ Cardinality(InHand(c)) \in Nat
                /\ told[c] \in Nat
<1>1. \A c \in Conn :
        Reports(c) = Cardinality(Hits(recvq, c)) + Cardinality(InHand(c)) + told[c]
  BY DEF Reports, Hits, InHand
<1>2. CloseReportedOnce <=> \A c \in Conn : Reports(c) = One(Ended(c))
  BY DEF CloseReportedOnce, One, Ended, Deleting
<1> QED
  BY <1>1, <1>2, HitsFinite, FS_CardinalityType

\* Nothing is deleted, and no close context comes or goes.
LEMMA Stays ==
    ASSUME IInv, Quiet, UNCHANGED <<net, cur, told, busy>>, recvq' \in Seq(Context),
           \A c \in Conn : Hits(recvq', c) = Hits(recvq, c)
    PROVE  ThreadsOK' /\ SlotsOK' /\ Listed' = Listed /\ CountOK' /\ ReportsOK'
<1>1. SlotsOK' /\ Listed' = Listed
  BY QuietSlots DEF IInv
<1>2. ThreadsOK'
  <2>1. acc' = acc /\ net' = net
    BY DEF Quiet
  <2> QED
    BY <2>1, QuietStage, QuietSlots DEF IInv, ThreadsOK
<1>3. CountOK'
  BY <1>1 DEF IInv, CountOK, Quiet
<1>4. ReportsOK'
  <2>1. \A c \in Conn : InHand(c)' = InHand(c) /\ (Ended(c)' <=> Ended(c))
    BY QuietStage DEF IInv, InHand, Ended
  <2>2. told' = told /\ told \in [Conn -> Nat]
    BY DEF IInv, DataOK
  <2>3. \A c \in Conn : Hits(recvq, c)' = Hits(recvq, c)
    OBVIOUS
  <2>4. \A c \in Conn : IsFiniteSet(InHand(c)')
    BY <2>1 DEF IInv, ReportsOK
  <2>5. \A c \in Conn : Reports(c)' = Cardinality(Hits(recvq, c)') + Cardinality(InHand(c)') + told'[c]
    BY DEF Reports, Hits, InHand
  <2>6. \A c \in Conn : Reports(c)' = Reports(c)
    BY <2>1, <2>2, <2>3, <2>5 DEF Reports, Hits, InHand
  <2>7. \A c \in Conn : Reports(c) = One(Ended(c))
    BY ReportsFacts DEF IInv, ReportsOK, DataOK
  <2>8. CloseReportedOnce' <=> \A c \in Conn : Reports(c)' = One(Ended(c)')
    BY DEF CloseReportedOnce, One, Ended, Deleting
  <2>9. \A c \in Conn : Reports(c)' = One(Ended(c)')
    BY <2>1, <2>6, <2>7 DEF One
  <2> QED
    BY <2>4, <2>8, <2>9 DEF ReportsOK
<1> QED
  BY <1>1, <1>2, <1>3, <1>4

\* The transceiver of c is closed, the handles are told, and the net thread
\* goes on to delete it.
LEMMA Shuts ==
    ASSUME IInv, NEW c \in Conn, Linked(c), net.at \in {"epoll", "timer"},
           NEW type \in CloseType, Report(c, type),
           stage' = [stage EXCEPT ![c] = "dead"],
           NEW to \in {"unlink", "timerCount"}, net' = Doing(to, c),
           UNCHANGED <<acc, slot, vConn, free, ahead, busy, told, cur>>
    PROVE  /\ Quiet /\ ThreadsOK' /\ SlotsOK' /\ Listed' = Listed /\ CountOK' /\ ReportsOK'
           /\ recvq' \in Seq(Context) /\ \A i \in DOMAIN recvq' : Fine(recvq[i])'
<1> DEFINE x == CloseContext(c, type)
           n == Len(recvq)
<1>1. Quiet /\ SlotsOK' /\ Listed' = Listed
  BY QuietSlots DEF IInv, Quiet
<1>2. slot[c] \in Slot /\ slot[c] \in Nat
  BY ConstantsOK DEF IInv, SlotsOK
<1>3. x \in Context /\ x.kind = type /\ x.of = c /\ x.uid = slot[c]
  BY <1>2 DEF CloseContext, Context
<1>4. /\ recvq \in Seq(Context) /\ recvq' = Append(recvq, x) /\ recvq' \in Seq(Context)
      /\ n \in Nat /\ DOMAIN recvq = 1 .. n /\ DOMAIN recvq' = 1 .. n + 1
      /\ recvq'[n + 1] = x /\ \A i \in 1 .. n : recvq'[i] = recvq[i]
  BY <1>3 DEF Report, IInv, DataOK
<1> HIDE DEF x, n
<1>5. Fine(x)
  BY <1>3 DEF Fine
<1>6. ASSUME NEW i \in DOMAIN recvq' PROVE Fine(recvq[i])'
  <2>1. \A y \in Context : Fine(y) => Fine(y)'
    BY <1>1, QuietSlots DEF IInv
  <2>2. recvq'[i] \in Context /\ Fine(recvq'[i])
    <3>1. i \in 1 .. n \/ i = n + 1
      BY <1>4
    <3>2. CASE i \in 1 .. n
      BY <1>4, <3>2 DEF IInv, LateOK
    <3>3. CASE i = n + 1
      BY <1>3, <1>4, <1>5, <3>3
    <3> QED
      BY <3>1, <3>2, <3>3
  <2>3. PICK y \in Context : y = recvq'[i]
    BY <2>2
  <2>4. Fine(y)'
    BY <2>1, <2>2, <2>3
  <2> QED
    BY <2>3, <2>4 DEF Fine
<1>7. net'.at = to /\ net'.conn = c /\ net' \in [at : NetAt, conn : Conn \cup {None}]
  BY DEF Doing, NetAt
<1>8. ThreadsOK'
  <2>1. stage'[c] = "dead"
    BY DEF IInv, SlotsOK
  <2> QED
    BY <1>1, <1>7, <2>1, QuietSlots DEF IInv, ThreadsOK, Quiet, Deleting
<1>9. CountOK'
  BY <1>1, <1>7 DEF IInv, CountOK, One, Quiet
<1>10. ReportsOK'
  <2>1. \A d \in Conn : InHand(d)' = InHand(d)
    BY DEF InHand
  <2>2. \A d \in Conn : Ended(d)' <=> Ended(d) \/ d = c
    BY <1>1, <1>7, QuietStage DEF IInv, Ended, Deleting
  <2>3. ~Ended(c)
    BY DEF Ended, Deleting, Linked
  <2>4. \A d \in Conn : Hits(recvq, d)' = Hits(recvq', d)
    BY DEF Hits
  <2>5. \A d \in Conn : Cardinality(Hits(recvq, d)') = Cardinality(Hits(recvq, d)) + One(d = c)
    BY <1>3, <1>4, <2>4, HitsAppend DEF One
  <2>6. \A d \in Conn : Reports(d)' = Cardinality(Hits(recvq, d)') + Cardinality(InHand(d)') + told'[d]
    BY DEF Reports, Hits, InHand
  <2>7. \A d \in Conn : /\ Reports(d) = Cardinality(Hits(recvq, d)) + Cardinality(InHand(d)) + told[d]
                        /\ Cardinality(Hits(recvq, d)) \in Nat /\ Cardinality(InHand(d)) \in Nat
                        /\ told[d] \in Nat /\ Reports(d) = One(Ended(d))
    BY ReportsFacts DEF IInv, ReportsOK, DataOK
  <2>8. ASSUME NEW d \in Conn PROVE Reports(d)' = One(Ended(d)')
    <3>1. Reports(d)' = Reports(d) + One(d = c)
      BY <2>1, <2>5, <2>6, <2>7 DEF One
    <3> QED
      BY <2>2, <2>3, <2>7, <3>1 DEF One
  <2>9. CloseReportedOnce' <=> \A d \in Conn : Reports(d)' = One(Ended(d)')
    BY DEF CloseReportedOnce, One, Ended, Deleting
  <2> QED
    BY <2>1, <2>8, <2>9 DEF ReportsOK, IInv
<1> QED
  BY <1>1, <1>4, <1>6, <1>8, <1>9, <1>10

\* The queues after such a step, from what is in them.
LEMMA LateStays ==
    ASSUME IInv, Quiet, recvq' \in Seq(Context), sbuffer' \in Seq(Command),
           busy' \in [Handle -> Context \cup {None}],
           \A i \in DOMAIN recvq' : Fine(recvq[i])' \/ Fine(recvq'[i]),
           \A h \in Handle : busy'[h] # None => Fine(busy'[h]),
           \A i \in DOMAIN sbuffer' : Fine(sbuffer'[i])
    PROVE  LateOK'
<1>1. \A x \in Context \cup Command : Fine(x) => Fine(x)'
  BY QuietSlots DEF IInv
<1>2. ASSUME NEW i \in DOMAIN recvq' PROVE Fine(recvq[i])'
  <2>1. PICK y \in Context : y = recvq'[i]
    OBVIOUS
  <2>2. Fine(recvq'[i]) => Fine(y)'
    BY <1>1, <2>1
  <2> QED
    BY <2>1, <2>2 DEF Fine
<1>3. ASSUME NEW h \in Handle, busy'[h] # None PROVE Fine(busy[h])'
  <2>1. PICK y \in Context : y = busy'[h]
    BY <1>3
  <2>2. Fine(y)'
    BY <1>1, <1>3, <2>1
  <2> QED
    BY <2>1, <2>2 DEF Fine
<1>4. ASSUME NEW i \in DOMAIN sbuffer' PROVE Fine(sbuffer[i])'
  <2>1. PICK y \in Command : y = sbuffer'[i]
    OBVIOUS
  <2>2. Fine(y)'
    BY <1>1, <2>1
  <2> QED
    BY <2>1, <2>2 DEF Fine
<1>5. ahead' = ahead
  BY DEF Quiet
<1> QED
  BY <1>2, <1>3, <1>4, <1>5 DEF LateOK, IInv

LEMMA BuffersIntro ==
    ASSUME \A d \in Conn :
             /\ stage[d] = "open" /\ sendbuf[d] = None => messages[d] = <<>>
             /\ stage[d] = "new" => sendbuf[d] = None /\ messages[d] = <<>>
    PROVE  BuffersOK
BY DEF BuffersOK, NothingBehindEmptyBuffer

LEMMA BuffersStay ==
    ASSUME IInv, Quiet, UNCHANGED <<sendbuf, messages>>
    PROVE  BuffersOK'
BY QuietStage DEF IInv, BuffersOK, NothingBehindEmptyBuffer

-----------------------------------------------------------------------------
(* Socket events.                                                           *)

LEMMA HandleInputStep ==
    ASSUME IInv, NEW c \in Conn, HandleInput(c)
    PROVE  IInv'
<1>1. /\ net = At("epoll") /\ stage[c] = "open" /\ stale' = stale \ {c}
      /\ UNCHANGED <<acc, slot, vConn, free, ahead, linkVars, busy, sbuffer, told, cur, net>>
  BY DEF HandleInput, Refresh
<1>2. Quiet
  BY <1>1 DEF Quiet, linkVars
<1>3. PICK k \in 1 .. (Asks[c] - came[c]) :
        LET batch == [j \in 1 .. k |->
                        [kind |-> Verdict, uid |-> slot[c], of |-> c, n |-> came[c] + j]]
        IN  /\ recvq' = IF Verdict = "discard" THEN recvq ELSE recvq \o batch
            /\ came' = [came EXCEPT ![c] = @ + k]
  BY DEF HandleInput
<1> DEFINE batch == [j \in 1 .. k |->
                       [kind |-> Verdict, uid |-> slot[c], of |-> c, n |-> came[c] + j]]
<1>4. came[c] \in Nat /\ Asks[c] \in Nat /\ k \in Nat /\ came[c] + k <= Asks[c]
  BY ConstantsOK DEF IInv, DataOK
<1>5. slot[c] \in Slot /\ recvq \in Seq(Context)
  BY <1>1 DEF IInv, SlotsOK, Linked, DataOK
<1>6. Verdict # "discard" => Verdict \in {"request", "overload"}
  BY DEF Verdict
<1>7. ASSUME Verdict # "discard" PROVE batch \in Seq(Context)
  <2>1. \A j \in 1 .. k :
          [kind |-> Verdict, uid |-> slot[c], of |-> c, n |-> came[c] + j] \in Context
    BY <1>4, <1>5, <1>6, <1>7 DEF Context
  <2>2. batch \in [1 .. k -> Context]
    BY <2>1
  <2> QED
    BY <1>4, <2>2
<1>8. /\ recvq' \in Seq(Context)
      /\ \A d \in Conn : Hits(recvq', d) = Hits(recvq, d)
      /\ \A i \in DOMAIN recvq' : Fine(recvq'[i])
  <2>1. CASE Verdict = "discard"
    BY <1>3, <1>5, <2>1 DEF IInv, LateOK
  <2>2. CASE Verdict # "discard"
    <3>1. recvq' = recvq \o batch /\ batch \in Seq(Context)
      BY <1>3, <1>7, <2>2
    <3>2. DOMAIN batch = 1 .. k /\ Len(batch) = k
      BY <1>4
    <3>3. \A j \in 1 .. k : batch[j].kind \notin CloseType /\ batch[j].of = c /\ batch[j].uid = slot[c]
      BY <1>6, <2>2 DEF CloseType
    <3> HIDE DEF batch
    <3>4. /\ recvq' \in Seq(Context) /\ DOMAIN recvq' = 1 .. Len(recvq) + k /\ Len(recvq) \in Nat
          /\ DOMAIN recvq = 1 .. Len(recvq)
      <4>1. Len(recvq) \in Nat /\ DOMAIN recvq = 1 .. Len(recvq)
        BY <1>5
      <4>2. recvq' \in Seq(Context) /\ Len(recvq') = Len(recvq) + k
        BY <1>5, <3>1, <3>2, ConcatProperties
      <4> QED
        BY <4>1, <4>2, LenProperties
    <3>5. \A i \in 1 .. Len(recvq) + k :
            recvq'[i] = IF i <= Len(recvq) THEN recvq[i] ELSE batch[i - Len(recvq)]
      BY <1>5, <3>1, <3>2, ConcatProperties
    <3>6. \A d \in Conn : Hits(recvq', d) = Hits(recvq, d)
      BY <1>5, <3>1, <3>2, <3>3, HitsConcat
    <3>7. ASSUME NEW i \in 1 .. Len(recvq) + k PROVE Fine(recvq'[i])
      <4>1. CASE i <= Len(recvq)
        <5>1. i \in DOMAIN recvq
          BY <3>4, <4>1
        <5> QED
          BY <3>5, <4>1, <5>1 DEF IInv, LateOK
      <4>2. CASE ~(i <= Len(recvq))
        <5>1. i - Len(recvq) \in 1 .. k
          BY <1>4, <3>4, <4>2
        <5>2. recvq'[i].of = c /\ recvq'[i].uid = slot[c]
          BY <3>3, <3>5, <4>2, <5>1
        <5> QED
          BY <1>1, <5>2 DEF Fine, Linked
      <4> QED
        BY <4>1, <4>2
    <3> QED
      BY <3>4, <3>6, <3>7
  <2> QED
    BY <2>1, <2>2
<1>9. ThreadsOK' /\ SlotsOK' /\ Listed' = Listed /\ CountOK' /\ ReportsOK'
  BY <1>1, <1>2, <1>8, Stays
<1>10. DataOK'
  <2>1. came' = [came EXCEPT ![c] = came[c] + k] /\ came \in [Conn -> Nat]
    BY <1>3 DEF IInv, DataOK
  <2>2. came' \in [Conn -> Nat] /\ came'[c] = came[c] + k /\ \A d \in Conn : d # c => came'[d] = came[d]
    BY <1>4, <2>1
  <2>3. \A d \in Conn : came'[d] <= Asks[d]
    BY <1>4, <2>2 DEF IInv, DataOK
  <2> QED
    BY <1>1, <1>8, <2>2, <2>3 DEF IInv, DataOK, linkVars
<1>11. LateOK'
  <2>1. sbuffer' = sbuffer /\ busy' = busy
    BY <1>1
  <2> QED
    BY <1>2, <1>8, <2>1, LateStays DEF IInv, LateOK, DataOK
<1>12. BuffersOK'
  BY <1>1, <1>2, BuffersStay DEF linkVars
<1> QED
  BY <1>1, <1>9, <1>10, <1>11, <1>12 DEF IInv

LEMMA PeerClosesStep ==
    ASSUME IInv, NEW c \in Conn, PeerCloses(c)
    PROVE  IInv'
<1>1. /\ stage[c] = "open" /\ stage' = [stage EXCEPT ![c] = "dead"]
      /\ bye' = bye \cup {c} /\ sendbuf' = [sendbuf EXCEPT ![c] = None]
      /\ stale' = stale \ {c}
      /\ UNCHANGED <<acc, slot, vConn, free, ahead, messages, closing, out, workVars, cur, net>>
  BY DEF PeerCloses, Refresh
<1>2. Quiet
  BY <1>1 DEF Quiet, Linked
<1>3. ThreadsOK' /\ SlotsOK' /\ Listed' = Listed /\ CountOK' /\ ReportsOK'
  BY <1>1, <1>2, Stays DEF IInv, DataOK, workVars
<1>4. DataOK'
  BY <1>1 DEF IInv, DataOK, workVars
<1>5. LateOK'
  BY <1>1, <1>2, LateStays DEF IInv, LateOK, DataOK, workVars
<1>6. BuffersOK'
  <2>1. stage'[c] = "dead" /\ \A d \in Conn : d # c => stage'[d] = stage[d] /\ sendbuf'[d] = sendbuf[d]
    BY <1>1 DEF IInv, SlotsOK, DataOK
  <2> QED
    BY <1>1, <2>1 DEF IInv, BuffersOK, NothingBehindEmptyBuffer
<1> QED
  BY <1>1, <1>3, <1>4, <1>5, <1>6 DEF IInv

LEMMA LinkDownStep ==
    ASSUME IInv, NEW c \in Conn, LinkDown(c)
    PROVE  IInv'
<1>1. /\ net = At("epoll") /\ stage[c] = "open" /\ Report(c, "ended")
      /\ stage' = [stage EXCEPT ![c] = "dead"] /\ sendbuf' = [sendbuf EXCEPT ![c] = None]
      /\ net' = Doing("unlink", c)
      /\ UNCHANGED <<acc, listVars, bye, messages, closing, out, busy, sbuffer, told, came, cur>>
  BY DEF LinkDown, Delete, Shut
<1>2. /\ Quiet /\ ThreadsOK' /\ SlotsOK' /\ Listed' = Listed /\ CountOK' /\ ReportsOK'
      /\ recvq' \in Seq(Context) /\ \A i \in DOMAIN recvq' : Fine(recvq[i])'
  <2>1. net.at \in {"epoll", "timer"} /\ Linked(c) /\ "ended" \in CloseType
    BY <1>1 DEF At, Linked, CloseType
  <2> QED
    BY <1>1, <2>1, Shuts DEF listVars
<1>3. DataOK'
  BY <1>1, <1>2 DEF IInv, DataOK
<1>4. LateOK'
  BY <1>1, <1>2, LateStays DEF IInv, LateOK, DataOK
<1>5. BuffersOK'
  <2>1. stage'[c] = "dead" /\ \A d \in Conn : d # c => stage'[d] = stage[d] /\ sendbuf'[d] = sendbuf[d]
    BY <1>1 DEF IInv, SlotsOK, DataOK
  <2> QED
    BY <1>1, <2>1 DEF IInv, BuffersOK, NothingBehindEmptyBuffer
<1> QED
  BY <1>1, <1>2, <1>3, <1>4, <1>5 DEF IInv, listVars

\* What is sent leaves the queue in order, and only what is stuck stays.
LEMMA FlushFacts ==
    ASSUME DataOK, NEW c \in Conn, Flush(c)
    PROVE  /\ out' \in [Conn -> Seq(Answer)] /\ messages' \in [Conn -> Seq(Answer)]
           /\ sendbuf' \in [Conn -> Answer \cup {None}]
           /\ \A d \in Conn : d # c => sendbuf'[d] = sendbuf[d] /\ messages'[d] = messages[d]
           /\ sendbuf'[c] = None => messages'[c] = <<>>
<1> DEFINE left == Left(c)
<1>1. /\ out \in [Conn -> Seq(Answer)] /\ messages \in [Conn -> Seq(Answer)]
      /\ sendbuf \in [Conn -> Answer \cup {None}]
  BY DEF DataOK
<1>2. left \in Seq(Answer) /\ out[c] \in Seq(Answer)
  BY <1>1 DEF Left
<1>3. CASE /\ out' = [out EXCEPT ![c] = @ \o left]
           /\ sendbuf' = [sendbuf EXCEPT ![c] = None]
           /\ messages' = [messages EXCEPT ![c] = <<>>]
  <2>1. out[c] \o left \in Seq(Answer) /\ <<>> \in Seq(Answer)
    BY <1>2
  <2> HIDE DEF left
  <2> QED
    BY <1>1, <1>3, <2>1
<1>4. CASE \E j \in DOMAIN left :
             /\ out' = [out EXCEPT ![c] = @ \o SubSeq(left, 1, j)]
             /\ sendbuf' = [sendbuf EXCEPT ![c] = left[j]]
             /\ messages' = [messages EXCEPT ![c] = SubSeq(left, j + 1, Len(left))]
  <2> HIDE DEF left
  <2>1. PICK j \in DOMAIN left :
          /\ out' = [out EXCEPT ![c] = @ \o SubSeq(left, 1, j)]
          /\ sendbuf' = [sendbuf EXCEPT ![c] = left[j]]
          /\ messages' = [messages EXCEPT ![c] = SubSeq(left, j + 1, Len(left))]
    BY <1>4
  <2>2. j \in 1 .. Len(left) /\ Len(left) \in Nat /\ left[j] \in Answer /\ left[j] # None
    BY <1>2, ConstantsOK
  <2>3. SubSeq(left, 1, j) \in Seq(Answer) /\ SubSeq(left, j + 1, Len(left)) \in Seq(Answer)
    BY <1>2, <2>2
  <2>4. out[c] \o SubSeq(left, 1, j) \in Seq(Answer)
    BY <1>2, <2>3
  <2> QED
    BY <1>1, <2>1, <2>2, <2>3, <2>4
<1> QED
  BY <1>3, <1>4 DEF Flush

LEMMA HandleOutputStep ==
    ASSUME IInv, NEW c \in Conn, HandleOutput(c)
    PROVE  IInv'
<1>1. /\ net = At("epoll") /\ stage[c] = "open" /\ Flush(c)
      /\ UNCHANGED <<acc, slot, vConn, free, ahead, bye, closing, busy, sbuffer, told, came, cur>>
      /\ stale' = stale \/ stale' = stale \ {c}
  BY DEF HandleOutput, Refresh
<1>2. /\ out' \in [Conn -> Seq(Answer)] /\ messages' \in [Conn -> Seq(Answer)]
      /\ sendbuf' \in [Conn -> Answer \cup {None}]
      /\ \A d \in Conn : d # c => sendbuf'[d] = sendbuf[d] /\ messages'[d] = messages[d]
      /\ sendbuf'[c] = None => messages'[c] = <<>>
  BY <1>1, FlushFacts DEF IInv
<1>3. /\ Quiet /\ ThreadsOK' /\ SlotsOK' /\ Listed' = Listed /\ CountOK' /\ ReportsOK'
      /\ recvq' \in Seq(Context) /\ \A i \in DOMAIN recvq' : Fine(recvq[i])' \/ Fine(recvq'[i])
  <2>1. CASE /\ Report(c, "ended") /\ stage' = [stage EXCEPT ![c] = "dead"]
             /\ net' = Doing("unlink", c)
    <3>1. net.at \in {"epoll", "timer"} /\ Linked(c) /\ "ended" \in CloseType
      BY <1>1 DEF At, Linked, CloseType
    <3> QED
      BY <1>1, <2>1, <3>1, Shuts
  <2>2. CASE UNCHANGED <<recvq, stage, net>>
    <3>1. Quiet
      BY <1>1, <2>2 DEF Quiet
    <3> QED
      BY <1>1, <2>2, <3>1, Stays DEF IInv, DataOK, LateOK
  <2> QED
    BY <2>1, <2>2 DEF HandleOutput
<1>4. DataOK'
  BY <1>1, <1>2, <1>3 DEF IInv, DataOK
<1>5. LateOK'
  BY <1>1, <1>3, LateStays DEF IInv, LateOK, DataOK
<1>6. BuffersOK'
  <2>1. \A d \in Conn : /\ stage'[d] = "open" => stage[d] = "open"
                        /\ stage'[d] = "new" => stage[d] = "new" /\ d # c
    BY <1>1, <1>3, QuietStage DEF IInv
  <2> QED
    BY <1>2, <2>1 DEF IInv, BuffersOK, NothingBehindEmptyBuffer
<1> QED
  BY <1>1, <1>3, <1>4, <1>5, <1>6 DEF IInv

-----------------------------------------------------------------------------
(* The commands of the handles.                                             *)

\* What a command may have done to the connection that has the slot.
CommandDone ==
    /\ Quiet /\ ThreadsOK' /\ SlotsOK' /\ Listed' = Listed /\ CountOK' /\ ReportsOK'
    /\ recvq' \in Seq(Context) /\ \A i \in DOMAIN recvq' : Fine(recvq[i])' \/ Fine(recvq'[i])
    /\ sendbuf' \in [Conn -> Answer \cup {None}] /\ messages' \in [Conn -> Seq(Answer)]
    /\ out' \in [Conn -> Seq(Answer)] /\ closing' \subseteq Conn
    /\ stale' \subseteq stale /\ BuffersOK'

\* It is deleted.
LEMMA CommandDeletes ==
    ASSUME IInv, NEW c \in Conn, Linked(c), net.at = "epoll",
           UNCHANGED <<acc, slot, vConn, free, ahead, busy, told, cur>>,
           Delete(c, "ended"), UNCHANGED <<stale, messages, out>>, closing' \subseteq Conn
    PROVE  CommandDone
<1>1. /\ sendbuf \in [Conn -> Answer \cup {None}] /\ messages \in [Conn -> Seq(Answer)]
      /\ out \in [Conn -> Seq(Answer)] /\ stage \in [Conn -> StageName]
  BY DEF IInv, DataOK, SlotsOK
<1>2. /\ Report(c, "ended") /\ stage' = [stage EXCEPT ![c] = "dead"]
      /\ sendbuf' = [sendbuf EXCEPT ![c] = None] /\ net' = Doing("unlink", c)
  BY DEF Delete, Shut
<1>3. /\ Quiet /\ ThreadsOK' /\ SlotsOK' /\ Listed' = Listed /\ CountOK' /\ ReportsOK'
      /\ recvq' \in Seq(Context) /\ \A i \in DOMAIN recvq' : Fine(recvq[i])'
  BY <1>2, Shuts DEF CloseType
<1>4. BuffersOK'
  <2>1. /\ stage'[c] = "dead"
        /\ \A d \in Conn : d # c => stage'[d] = stage[d] /\ sendbuf'[d] = sendbuf[d]
    BY <1>1, <1>2
  <2> QED
    BY <2>1 DEF IInv, BuffersOK, NothingBehindEmptyBuffer
<1> QED
  BY <1>1, <1>2, <1>3, <1>4 DEF CommandDone

\* Or it stays, and its buffers are as BuffersOK has them.
LEMMA CommandKeeps ==
    ASSUME IInv, NEW c \in Conn, Linked(c), net.at = "epoll",
           UNCHANGED <<acc, slot, vConn, free, ahead, busy, told, cur>>,
           UNCHANGED <<recvq, net>>, closing' \subseteq Conn, stale' \subseteq stale,
           stage' = stage \/ stage' = [stage EXCEPT ![c] = "dead"],
           sendbuf' \in [Conn -> Answer \cup {None}], messages' \in [Conn -> Seq(Answer)],
           out' \in [Conn -> Seq(Answer)],
           \A d \in Conn : d # c => sendbuf'[d] = sendbuf[d] /\ messages'[d] = messages[d],
           stage'[c] = "open" /\ sendbuf'[c] = None => messages'[c] = <<>>
    PROVE  CommandDone
<1>1. Quiet
  BY DEF Quiet
<1>2. ThreadsOK' /\ SlotsOK' /\ Listed' = Listed /\ CountOK' /\ ReportsOK'
  BY <1>1, Stays DEF IInv, DataOK
<1>3. recvq' \in Seq(Context) /\ \A i \in DOMAIN recvq' : Fine(recvq'[i])
  BY DEF IInv, LateOK, DataOK
<1>4. BuffersOK'
  <2>1. \A d \in Conn : /\ stage'[d] = "open" => stage[d] = "open"
                        /\ stage'[d] = "new" => stage[d] = "new" /\ d # c
    BY <1>1, QuietStage DEF IInv, Linked
  <2> QED
    BY <2>1 DEF IInv, BuffersOK, NothingBehindEmptyBuffer
<1> QED
  BY <1>1, <1>2, <1>3, <1>4 DEF CommandDone

LEMMA CommandEffect ==
    ASSUME IInv, NEW c \in Conn, Linked(c), NEW answer \in Answer, net.at = "epoll",
           UNCHANGED <<acc, slot, vConn, free, ahead, busy, told, cur>>,
           ProcessClose(c) \/ ProcessSend(c, answer)
    PROVE  CommandDone
<1>1. /\ sendbuf \in [Conn -> Answer \cup {None}] /\ messages \in [Conn -> Seq(Answer)]
      /\ out \in [Conn -> Seq(Answer)] /\ closing \subseteq Conn /\ stage \in [Conn -> StageName]
      /\ messages[c] \in Seq(Answer) /\ out[c] \in Seq(Answer)
  BY DEF IInv, DataOK, SlotsOK
<1>2. stage[c] = "open" /\ sendbuf[c] = None => messages[c] = <<>>
  BY DEF IInv, BuffersOK, NothingBehindEmptyBuffer
<1>3. CASE Delete(c, "ended") /\ UNCHANGED <<stale, messages, out>> /\ closing' \subseteq Conn
  BY <1>3, CommandDeletes
<1>4. CASE UNCHANGED <<recvq, stage, sendbuf, net, stale, messages, out>> /\ closing' \subseteq Conn
  BY <1>1, <1>2, <1>4, CommandKeeps
<1>5. CASE SendTo(c, answer) /\ UNCHANGED <<recvq, net, closing>> /\ stage[c] # "dead"
  <2>1. answer # None /\ Append(out[c], answer) \in Seq(Answer)
        /\ Append(messages[c], answer) \in Seq(Answer) /\ <<answer>> \in Seq(Answer)
    BY <1>1, ConstantsOK
  <2>2. CASE messages[c] = <<>> /\ sendbuf[c] = None
    <3>1. CASE /\ out' = [out EXCEPT ![c] = Append(@, answer)] /\ Refresh(c)
               /\ UNCHANGED <<stage, sendbuf, messages>>
      BY <1>1, <1>5, <2>1, <2>2, <3>1, CommandKeeps DEF Refresh
    <3>2. CASE /\ out' = [out EXCEPT ![c] = Append(@, answer)]
               /\ sendbuf' = [sendbuf EXCEPT ![c] = answer]
               /\ messages' = [messages EXCEPT ![c] = <<answer>>]
               /\ Refresh(c) /\ UNCHANGED stage
      BY <1>1, <1>5, <2>1, <3>2, CommandKeeps DEF Refresh
    <3>3. CASE stage' = [stage EXCEPT ![c] = "dead"] /\ UNCHANGED <<stale, sendbuf, messages, out>>
      BY <1>1, <1>5, <2>2, <3>3, CommandKeeps
    <3> QED
      BY <1>5, <2>2, <3>1, <3>2, <3>3 DEF SendTo
  <2>3. CASE ~(messages[c] = <<>> /\ sendbuf[c] = None)
    <3>1. /\ messages' = [messages EXCEPT ![c] = Append(@, answer)] /\ Refresh(c)
          /\ UNCHANGED <<stage, sendbuf, out>>
      BY <1>5, <2>3 DEF SendTo
    <3>2. stage[c] = "open" => sendbuf[c] # None
      BY <1>2, <2>3
    <3> QED
      BY <1>1, <1>5, <2>1, <3>1, <3>2, CommandKeeps DEF Refresh
  <2> QED
    BY <2>2, <2>3
<1> QED
  BY <1>1, <1>3, <1>4, <1>5 DEF ProcessClose, ProcessSend

LEMMA ProcessPipeStep ==
    ASSUME IInv, ProcessPipe
    PROVE  IInv'
<1> DEFINE e == Head(sbuffer)
<1>1. /\ net = At("epoll") /\ sbuffer # <<>> /\ sbuffer' = Tail(sbuffer)
      /\ UNCHANGED <<acc, slot, vConn, free, ahead, bye, busy, told, came, cur>>
  BY DEF ProcessPipe
<1>2. sbuffer \in Seq(Command) /\ e \in Command /\ sbuffer' \in Seq(Command) /\ net.at = "epoll"
  BY <1>1 DEF IInv, DataOK, At
<1>3. <<e.of, e.n>> \in Answer /\ e.uid \in Slot
  BY <1>2 DEF Command, Answer
<1>4. \A i \in DOMAIN sbuffer' : Fine(sbuffer'[i])
  <2>1. \A i \in DOMAIN sbuffer' : i + 1 \in DOMAIN sbuffer /\ sbuffer'[i] = sbuffer[i + 1]
    BY <1>1, <1>2
  <2> QED
    BY <2>1 DEF IInv, LateOK
<1>5. CommandDone
  <2>1. CASE /\ Addressee(e) = None
             /\ UNCHANGED <<stale, stage, sendbuf, messages, closing, out, recvq, net>>
    <3>1. Quiet
      BY <1>1, <2>1 DEF Quiet
    <3>2. ThreadsOK' /\ SlotsOK' /\ Listed' = Listed /\ CountOK' /\ ReportsOK'
      BY <1>1, <2>1, <3>1, Stays DEF IInv, DataOK
    <3>3. BuffersOK'
      BY <2>1, <3>1, BuffersStay
    <3> QED
      BY <1>1, <2>1, <3>1, <3>2, <3>3 DEF CommandDone, IInv, DataOK, LateOK
  <2>2. ASSUME NEW c, c = Addressee(e), c # None, ProcessClose(c) \/ ProcessSend(c, <<e.of, e.n>>)
        PROVE  CommandDone
    <3>1. c \in Conn /\ Linked(c)
      BY <1>3, <2>2, SlotsFacts DEF IInv, Addressee
    <3> QED
      BY <1>1, <1>2, <1>3, <2>2, <3>1, CommandEffect
  <2> QED
    BY <2>1, <2>2 DEF ProcessPipe
<1>6. DataOK'
  BY <1>1, <1>2, <1>5 DEF IInv, DataOK, CommandDone
<1>7. LateOK'
  BY <1>1, <1>2, <1>4, <1>5, LateStays DEF IInv, LateOK, DataOK, CommandDone
<1> QED
  BY <1>5, <1>6, <1>7 DEF IInv, CommandDone
-----------------------------------------------------------------------------
(* The timer, and the two steps that end a deletion.                        *)

LEMMA TimeoutOneStep ==
    ASSUME IInv, NEW c \in Conn, TimeoutOne(c)
    PROVE  IInv'
<1>1. /\ net = At("timer") /\ c \in stale /\ Report(c, "EM_SERVER_TIMEOUT_CLOSE")
      /\ stage' = [stage EXCEPT ![c] = "dead"] /\ sendbuf' = [sendbuf EXCEPT ![c] = None]
      /\ net' = Doing("timerCount", c)
      /\ UNCHANGED <<acc, listVars, bye, messages, closing, out, busy, sbuffer, told, came, cur>>
  BY DEF TimeoutOne, Shut, Overdue
<1>2. /\ Quiet /\ ThreadsOK' /\ SlotsOK' /\ Listed' = Listed /\ CountOK' /\ ReportsOK'
      /\ recvq' \in Seq(Context) /\ \A i \in DOMAIN recvq' : Fine(recvq[i])'
  <2>1. Linked(c)
    BY <1>1, SlotsFacts DEF IInv
  <2>2. net.at \in {"epoll", "timer"} /\ "EM_SERVER_TIMEOUT_CLOSE" \in CloseType
    BY <1>1 DEF At, CloseType
  <2> QED
    BY <1>1, <2>1, <2>2, Shuts DEF listVars
<1>3. DataOK'
  BY <1>1, <1>2 DEF IInv, DataOK
<1>4. LateOK'
  BY <1>1, <1>2, LateStays DEF IInv, LateOK, DataOK
<1>5. BuffersOK'
  <2>1. stage'[c] = "dead" /\ \A d \in Conn : d # c => stage'[d] = stage[d] /\ sendbuf'[d] = sendbuf[d]
    BY <1>1 DEF IInv, SlotsOK, DataOK
  <2> QED
    BY <1>1, <2>1 DEF IInv, BuffersOK, NothingBehindEmptyBuffer
<1> QED
  BY <1>1, <1>2, <1>3, <1>4, <1>5 DEF IInv, listVars

\* The steps of the net thread that only move it, and the counter.
LEMMA NetMoves ==
    ASSUME IInv, UNCHANGED <<acc, listVars, linkVars, workVars>>,
           net' \in [at : NetAt, conn : Conn \cup {None}],
           net'.at \in Deleting => net'.conn \in Conn /\ stage[net'.conn] = "dead",
           net'.at = "count" => net'.conn \in Conn /\ stage[net'.conn] = "gone",
           cur' \in Int, cur' <= cur,
           cur' = Cardinality(Listed) + One(net'.at = "count") - One(net'.at = "timerUnlink"),
           \A c \in Conn : net'.conn = c /\ net'.at \in Deleting <=> net.conn = c /\ net.at \in Deleting
    PROVE  IInv'
<1> USE DEF listVars, linkVars, workVars
<1>1. Quiet /\ SlotsOK' /\ Listed' = Listed
  BY QuietSlots DEF IInv, Quiet
<1>2. DataOK' /\ BuffersOK' /\ stale' \subseteq Listed'
  BY <1>1, BuffersStay DEF IInv, DataOK
<1>3. LateOK'
  BY <1>1, LateStays DEF IInv, LateOK, DataOK
<1>4. ThreadsOK'
  BY DEF IInv, ThreadsOK
<1>5. CountOK'
  BY <1>1, ConstantsOK DEF IInv, CountOK
<1>6. ReportsOK'
  <2>1. \A c \in Conn : Reports(c)' = Reports(c) /\ InHand(c)' = InHand(c) /\ (Ended(c)' <=> Ended(c))
    BY DEF Reports, InHand, Ended
  <2>2. CloseReportedOnce' <=> \A c \in Conn : Reports(c)' = One(Ended(c)')
    BY DEF CloseReportedOnce, One, Ended, Deleting
  <2>3. \A c \in Conn : Reports(c) = One(Ended(c))
    BY ReportsFacts DEF IInv, ReportsOK, DataOK
  <2> QED
    BY <2>1, <2>2, <2>3 DEF IInv, ReportsOK, One
<1> QED
  BY <1>1, <1>2, <1>3, <1>4, <1>5, <1>6 DEF IInv

LEMMA CountDownStep ==
    ASSUME IInv, CountDown("count", "epoll") \/ CountDown("timerCount", "timerUnlink")
    PROVE  IInv'
<1>1. UNCHANGED <<acc, listVars, linkVars, workVars>> /\ cur' = cur - 1
  BY DEF CountDown
<1>2. cur \in Int /\ Cardinality(Listed) \in Nat
  BY FS_CardinalityType DEF IInv, CountOK
<1>3. CASE net.at = "count" /\ net' = At("epoll")
  BY <1>1, <1>2, <1>3, NetMoves DEF IInv, CountOK, One, At, Deleting, NetAt
<1>4. CASE net.at = "timerCount" /\ net' = Doing("timerUnlink", net.conn)
  <2>1. net.conn \in Conn /\ stage[net.conn] = "dead"
    BY <1>4 DEF IInv, ThreadsOK, Deleting
  <2> QED
    BY <1>1, <1>2, <1>4, <2>1, NetMoves DEF IInv, CountOK, One, Doing, Deleting, NetAt
<1> QED
  BY <1>3, <1>4 DEF CountDown

LEMMA TimerEndsStep ==
    ASSUME IInv, CheckTimeout \/ EndTimeout
    PROVE  IInv'
<1>1. /\ UNCHANGED <<acc, listVars, linkVars, workVars, cur>>
      /\ net.at \in {"epoll", "timer"} /\ net' \in {At("epoll"), At("timer")}
  BY DEF CheckTimeout, EndTimeout, At
<1>2. cur \in Int
  BY DEF IInv, CountOK
<1> QED
  BY <1>1, <1>2, NetMoves DEF IInv, CountOK, One, At, Deleting, NetAt

\* The queues when nothing moves in them.
LEMMA LateMoves ==
    ASSUME IInv, UNCHANGED <<recvq, busy, sbuffer>>, ahead' \in [Conn -> 0 .. Slots],
           \A x \in Context \cup Command : Fine(x) => Fine(x)'
    PROVE  LateOK'
<1>1. recvq \in Seq(Context) /\ busy \in [Handle -> Context \cup {None}] /\ sbuffer \in Seq(Command)
  BY DEF IInv, DataOK
<1>2. ASSUME NEW i \in DOMAIN recvq PROVE Fine(recvq[i])'
  <2>1. PICK y \in Context : y = recvq[i]
    BY <1>1
  <2>2. Fine(y)'
    BY <2>1 DEF IInv, LateOK
  <2> QED
    BY <2>1, <2>2 DEF Fine
<1>3. ASSUME NEW h \in Handle, busy[h] # None PROVE Fine(busy[h])'
  <2>1. PICK y \in Context : y = busy[h]
    BY <1>1, <1>3
  <2>2. Fine(y)'
    BY <1>3, <2>1 DEF IInv, LateOK
  <2> QED
    BY <2>1, <2>2 DEF Fine
<1>4. ASSUME NEW i \in DOMAIN sbuffer PROVE Fine(sbuffer[i])'
  <2>1. PICK y \in Command : y = sbuffer[i]
    BY <1>1
  <2>2. Fine(y)'
    BY <2>1 DEF IInv, LateOK
  <2> QED
    BY <2>1, <2>2 DEF Fine
<1> QED
  BY <1>2, <1>3, <1>4 DEF LateOK

LEMMA UnlinkStep ==
    ASSUME IInv, Unlink("unlink", "count") \/ Unlink("timerUnlink", "timer")
    PROVE  IInv'
<1> DEFINE m == Cardinality(Listed)
<1>1. PICK from \in Deleting, to \in NetAt :
        /\ Unlink(from, to) /\ from # "timerCount" /\ (from = "unlink" <=> to = "count")
        /\ to \in {"count", "timer"} /\ net.at = from
        /\ net' = IF to = "timer" THEN At("timer") ELSE Doing(to, net.conn)
  BY DEF Unlink, Deleting, NetAt
<1>2. PICK c : c = net.conn
  OBVIOUS
<1>3. /\ stage' = [stage EXCEPT ![c] = "gone"] /\ messages' = [messages EXCEPT ![c] = <<>>]
      /\ closing' = closing \ {c} /\ stale' = stale \ {c}
      /\ UNCHANGED <<acc, bye, sendbuf, out, workVars, cur>>
  BY <1>1, <1>2 DEF Unlink, DelNoLock
<1>4. c \in Conn /\ stage[c] = "dead"
  BY <1>1, <1>2 DEF IInv, ThreadsOK
<1>5. c \in Listed
  BY <1>4, SlotsFacts DEF IInv, Linked
<1>6. m \in Nat /\ m > 0 /\ Len(free) \in Nat
  BY <1>5, FS_CardinalityType, FS_EmptySet DEF IInv, CountOK, SlotsOK
<1>7. Len(free) < Slots
  BY <1>6, ConstantsOK DEF IInv, CountOK, One
<1>8. /\ Listed' = Listed \ {c} /\ SlotsOK' /\ Len(free') = Len(free) + 1
      /\ ahead' \in [Conn -> 0 .. Slots]
      /\ \A d \in Conn : stage'[d] = IF d = c THEN "gone" ELSE stage[d]
      /\ \A x \in Context \cup Command : Fine(x) => Fine(x)'
  BY <1>1, <1>2, <1>7, UnlinkSlots DEF IInv, LateOK
<1>9. /\ net' \in [at : NetAt, conn : Conn \cup {None}] /\ net'.at = to
      /\ to = "count" => net'.conn = c
  BY <1>1, <1>2, <1>4 DEF At, Doing
<1>10. ThreadsOK'
  <2>1. acc.at # "accept" => acc.conn \in Conn /\ acc.conn # c /\ stage[acc.conn] = "new"
    BY <1>4 DEF IInv, ThreadsOK
  <2> QED
    BY <1>1, <1>3, <1>4, <1>8, <1>9, <2>1 DEF IInv, ThreadsOK, Deleting
<1>11. CountOK'
  <2>1. IsFiniteSet(Listed') /\ Cardinality(Listed') = m - 1
    BY <1>5, <1>8, FS_RemoveElement DEF IInv, CountOK
  <2> HIDE DEF m
  <2>2. /\ cur \in Int /\ Len(free) + m + One(acc.at = "numbered") = Slots
        /\ cur = m + One(net.at = "count") - One(net.at = "timerUnlink")
        /\ cur <= MaxConns /\ (acc.at # "accept" => cur < MaxConns)
    BY DEF IInv, CountOK, m
  <2>3. cur = m - 1 + One(to = "count") - One(to = "timerUnlink")
    BY <1>1, <1>6, <2>2 DEF One, Deleting
  <2>4. Len(free') + Cardinality(Listed') + One(acc'.at = "numbered") = Slots
    BY <1>3, <1>6, <1>8, <2>1, <2>2 DEF One, m
  <2>5. cur' = Cardinality(Listed') + One(net'.at = "count") - One(net'.at = "timerUnlink")
    BY <1>3, <1>9, <2>1, <2>3
  <2> QED
    BY <1>3, <2>1, <2>2, <2>4, <2>5 DEF CountOK
<1>12. DataOK'
  <2>1. messages' \in [Conn -> Seq(Answer)]
    <3>1. messages \in [Conn -> Seq(Answer)] /\ <<>> \in Seq(Answer)
      BY DEF IInv, DataOK
    <3> QED
      BY <1>3, <1>4, <3>1
  <2> QED
    BY <1>3, <2>1 DEF IInv, DataOK, workVars
<1>13. ReportsOK'
  <2>1. \A d \in Conn : Reports(d)' = Reports(d) /\ InHand(d)' = InHand(d)
    BY <1>3 DEF Reports, InHand, workVars
  <2>2. \A d \in Conn : Ended(d)' <=> Ended(d)
    BY <1>1, <1>2, <1>8, <1>9 DEF Ended, Deleting
  <2>3. CloseReportedOnce' <=> \A d \in Conn : Reports(d)' = One(Ended(d)')
    BY DEF CloseReportedOnce, One, Ended, Deleting
  <2>4. \A d \in Conn : Reports(d) = One(Ended(d))
    BY ReportsFacts DEF IInv, ReportsOK, DataOK
  <2> QED
    BY <2>1, <2>2, <2>3, <2>4 DEF IInv, ReportsOK, One
<1>14. LateOK'
  BY <1>3, <1>8, LateMoves DEF workVars
<1>15. BuffersOK'
  <2>1. \A d \in Conn : d # c => messages'[d] = messages[d]
    BY <1>3 DEF IInv, DataOK
  <2> QED
    BY <1>3, <1>4, <1>8, <2>1 DEF IInv, BuffersOK, NothingBehindEmptyBuffer
<1>16. stale' \subseteq Listed'
  BY <1>3, <1>8 DEF IInv
<1> QED
  BY <1>8, <1>10, <1>11, <1>12, <1>13, <1>14, <1>15, <1>16 DEF IInv

\* A time stamp of a listed connection passes.
LEMMA AgeStep ==
    ASSUME IInv, NEW c \in Conn, Age(c)
    PROVE  IInv'
<1>1. /\ c \in Listed /\ stale' = stale \cup {c}
      /\ UNCHANGED <<acc, slot, vConn, free, ahead, linkVars, workVars, cur, net>>
  BY DEF Age
<1>2. Quiet
  BY <1>1 DEF Quiet, linkVars
<1>3. ThreadsOK' /\ SlotsOK' /\ Listed' = Listed /\ CountOK' /\ ReportsOK'
  BY <1>1, <1>2, Stays DEF IInv, DataOK, workVars
<1>4. DataOK' /\ BuffersOK' /\ LateOK'
  BY <1>1, <1>2, BuffersStay, LateStays DEF IInv, DataOK, LateOK, linkVars, workVars
<1> QED
  BY <1>1, <1>3, <1>4 DEF IInv

-----------------------------------------------------------------------------
(* The accept thread.                                                       *)

\* A step of the accept thread leaves what the others do alone.
LEMMA AcceptKeeps ==
    ASSUME IInv, NEW c \in Conn, Accept(c) \/ GetUniqId(c) \/ AddTcpConnection(c)
    PROVE  DataOK' /\ ReportsOK'
<1>1. /\ UNCHANGED <<bye, sendbuf, messages, closing, out, workVars, net>>
      /\ stage' = stage \/ (acc = Doing("numbered", c) /\ stage' = [stage EXCEPT ![c] = "open"])
  BY DEF Accept, GetUniqId, AddTcpConnection, linkVars
<1>2. DataOK'
  BY <1>1 DEF IInv, DataOK, workVars
<1>3. \A d \in Conn : stage'[d] = "gone" <=> stage[d] = "gone"
  <2>1. acc = Doing("numbered", c) => stage[c] = "new"
    BY DEF IInv, ThreadsOK, Doing
  <2> QED
    BY <1>1, <2>1 DEF IInv, SlotsOK
<1>4. ReportsOK'
  <2>1. \A d \in Conn : Reports(d)' = Reports(d) /\ InHand(d)' = InHand(d) /\ (Ended(d)' <=> Ended(d))
    BY <1>1, <1>3 DEF Reports, InHand, Ended, workVars
  <2>2. CloseReportedOnce' <=> \A d \in Conn : Reports(d)' = One(Ended(d)')
    BY DEF CloseReportedOnce, One, Ended, Deleting
  <2>3. \A d \in Conn : Reports(d) = One(Ended(d))
    BY ReportsFacts DEF IInv, ReportsOK, DataOK
  <2> QED
    BY <2>1, <2>2, <2>3 DEF IInv, ReportsOK, One
<1> QED
  BY <1>2, <1>4

LEMMA AcceptStepKept ==
    ASSUME IInv, NEW c \in Conn, Accept(c)
    PROVE  IInv'
<1>1. /\ acc = At("accept") /\ stage[c] = "new" /\ ~(cur + 1 > MaxConns) /\ acc' = Doing("accepted", c)
      /\ UNCHANGED <<listVars, linkVars, workVars, cur, net>>
  BY DEF Accept, isLimitMaxConnection
<1>2. acc.at = "accept" /\ acc'.at = "accepted" /\ acc'.conn = c /\ acc' \in [at : AccAt, conn : Conn \cup {None}]
  BY <1>1 DEF At, Doing, AccAt
<1>3. Listed' = Listed
  BY <1>1 DEF Listed, listVars
<1>4. ThreadsOK'
  BY <1>1, <1>2 DEF IInv, ThreadsOK, linkVars
<1>5. SlotsOK'
  <2>1. \A s : (Holding(s)' <=> Holding(s)) /\ (IsFree(s)' <=> IsFree(s))
    BY <1>1, <1>2 DEF Holding, IsFree, listVars
  <2>2. SlotsAgree'
    BY <1>1, <2>1 DEF IInv, SlotsOK, SlotsAgree, IsFree, listVars, linkVars
  <2> QED
    BY <1>1, <1>2, <2>2 DEF IInv, SlotsOK, Linked, listVars, linkVars
<1>6. CountOK'
  BY <1>1, <1>2, <1>3, ConstantsOK DEF IInv, CountOK, One, listVars
<1>7. DataOK' /\ ReportsOK'
  BY AcceptKeeps
<1>8. LateOK' /\ BuffersOK' /\ stale' \subseteq Listed'
  BY <1>1, <1>3 DEF IInv, LateOK, Fine, Linked, BuffersOK, NothingBehindEmptyBuffer, listVars, linkVars, workVars
<1> QED
  BY <1>4, <1>5, <1>6, <1>7, <1>8 DEF IInv

LEMMA GetUniqIdStep ==
    ASSUME IInv, NEW c \in Conn, GetUniqId(c)
    PROVE  IInv'
<1>1. /\ acc = Doing("accepted", c) /\ acc' = Doing("numbered", c)
      /\ UNCHANGED <<vConn, stale, linkVars, workVars, cur, net>>
  BY DEF GetUniqId
<1>2. /\ acc.at = "accepted" /\ acc.conn = c /\ acc'.at = "numbered" /\ acc'.conn = c
      /\ acc' \in [at : AccAt, conn : Conn \cup {None}]
  BY <1>1 DEF Doing, AccAt
<1>3. /\ SlotsOK' /\ Listed' = Listed /\ Len(free') = Len(free) - 1
      /\ ahead' \in [Conn -> 0 .. Slots]
      /\ \A x \in Context \cup Command : Fine(x) => Fine(x)'
  BY GetUniqIdSlots DEF IInv, LateOK
<1>4. ThreadsOK'
  BY <1>1, <1>2 DEF IInv, ThreadsOK, linkVars
<1>5. CountOK'
  <2>1. Cardinality(Listed) \in Nat /\ Len(free) \in Nat
    BY FS_CardinalityType DEF IInv, CountOK, SlotsOK
  <2>2. Len(free') + Cardinality(Listed') + One(acc'.at = "numbered") = Slots
    BY <1>2, <1>3, <2>1 DEF IInv, CountOK, One
  <2> QED
    BY <1>1, <1>2, <1>3, <2>2 DEF IInv, CountOK
<1>6. DataOK' /\ ReportsOK'
  BY AcceptKeeps
<1>7. LateOK'
  BY <1>1, <1>3, LateMoves DEF workVars
<1>8. BuffersOK' /\ stale' \subseteq Listed'
  BY <1>1, <1>3 DEF IInv, BuffersOK, NothingBehindEmptyBuffer, linkVars
<1> QED
  BY <1>3, <1>4, <1>5, <1>6, <1>7, <1>8 DEF IInv

LEMMA AddTcpConnectionStep ==
    ASSUME IInv, NEW c \in Conn, AddTcpConnection(c)
    PROVE  IInv'
<1>1. /\ acc = Doing("numbered", c) /\ acc' = At("accept") /\ ~Locked
      /\ stage' = [stage EXCEPT ![c] = "open"] /\ cur' = cur + 1
      /\ UNCHANGED <<slot, free, stale, ahead, bye, sendbuf, messages, closing, out, workVars, net>>
  BY DEF AddTcpConnection
<1>2. /\ acc.at = "numbered" /\ acc.conn = c /\ stage[c] = "new" /\ acc'.at = "accept"
      /\ acc' \in [at : AccAt, conn : Conn \cup {None}]
  BY <1>1 DEF IInv, ThreadsOK, At, Doing, AccAt
<1>3. /\ SlotsOK' /\ c \notin Listed /\ Listed' = Listed \cup {c}
      /\ \A x \in Context \cup Command : Fine(x) => Fine(x)'
  BY AddTcpConnectionSlots DEF IInv
<1>4. stage'[c] = "open" /\ \A d \in Conn : d # c => stage'[d] = stage[d]
  BY <1>1 DEF IInv, SlotsOK
<1>5. ThreadsOK'
  BY <1>1, <1>2, <1>4 DEF IInv, ThreadsOK
<1>6. CountOK'
  <2> DEFINE m == Cardinality(Listed)
  <2>1. IsFiniteSet(Listed') /\ Cardinality(Listed') = m + 1 /\ m \in Nat
    BY <1>3, FS_AddElement, FS_CardinalityType DEF IInv, CountOK
  <2>2. Len(free) \in Nat /\ Len(free) + m + 1 = Slots
    BY <1>2 DEF IInv, CountOK, SlotsOK, One
  <2>3. Len(free') + Cardinality(Listed') + One(acc'.at = "numbered") = Slots
    BY <1>1, <1>2, <2>1, <2>2, ConstantsOK DEF One
  <2>4. /\ cur \in Int /\ cur < MaxConns
        /\ cur = m + One(net.at = "count") - One(net.at = "timerUnlink")
    BY <1>2 DEF IInv, CountOK
  <2> HIDE DEF m
  <2>5. /\ cur' \in Int /\ cur' <= MaxConns
        /\ cur' = Cardinality(Listed') + One(net'.at = "count") - One(net'.at = "timerUnlink")
    BY <1>1, <2>1, <2>4, ConstantsOK DEF One
  <2> QED
    BY <1>2, <2>1, <2>3, <2>5 DEF CountOK
<1>7. DataOK' /\ ReportsOK'
  BY AcceptKeeps
<1>8. LateOK'
  BY <1>1, <1>3, LateMoves DEF IInv, LateOK, workVars
<1>9. BuffersOK' /\ stale' \subseteq Listed'
  BY <1>1, <1>2, <1>3, <1>4 DEF IInv, BuffersOK, NothingBehindEmptyBuffer
<1> QED
  BY <1>3, <1>5, <1>6, <1>7, <1>8, <1>9 DEF IInv

-----------------------------------------------------------------------------
(* The handle threads.                                                      *)

\* The context that a handle takes counts for the queue before and for the
\* handle afterwards.
LEMMA PopStep ==
    ASSUME IInv, NEW h \in Handle, Pop(h)
    PROVE  IInv'
<1> DEFINE x == Head(recvq)
<1>1. /\ busy[h] = None /\ recvq # <<>> /\ busy' = [busy EXCEPT ![h] = x] /\ recvq' = Tail(recvq)
      /\ UNCHANGED <<acc, listVars, linkVars, sbuffer, told, came, cur, net>>
  BY DEF Pop
<1>2. recvq \in Seq(Context) /\ recvq' \in Seq(Context) /\ x \in Context /\ x # None
  BY <1>1, ConstantsOK DEF IInv, DataOK
<1>3. busy'[h] = x /\ \A g \in Handle : g # h => busy'[g] = busy[g]
  BY <1>1 DEF IInv, DataOK
<1>4. /\ busy' \in [Handle -> Context \cup {None}]
      /\ 1 \in DOMAIN recvq /\ x = recvq[1]
      /\ \A i \in DOMAIN recvq' : i + 1 \in DOMAIN recvq /\ recvq'[i] = recvq[i + 1]
  BY <1>1, <1>2 DEF IInv, DataOK
<1> HIDE DEF x
<1>5. Quiet
  BY <1>1 DEF Quiet, listVars, linkVars
<1>6. SlotsOK' /\ Listed' = Listed
  BY <1>5, QuietSlots DEF IInv
<1>7. ThreadsOK' /\ CountOK' /\ BuffersOK'
  BY <1>1, <1>5, <1>6, BuffersStay DEF IInv, ThreadsOK, CountOK, listVars, linkVars
<1>8. DataOK'
  BY <1>1, <1>2, <1>4 DEF IInv, DataOK, linkVars
<1>9. LateOK'
  BY <1>1, <1>2, <1>3, <1>4, <1>5, LateStays DEF IInv, LateOK, DataOK
<1>10. ReportsOK'
  <2>1. ASSUME NEW c \in Conn
        PROVE  /\ IsFiniteSet(InHand(c)')
               /\ Cardinality(InHand(c)') = Cardinality(InHand(c)) + One(x.kind \in CloseType /\ x.of = c)
    <3>1. h \notin InHand(c) /\ IsFiniteSet(InHand(c)) /\ Cardinality(InHand(c)) \in Nat
      BY <1>1, FS_CardinalityType DEF InHand, IInv, ReportsOK
    <3>2. CASE x.kind \in CloseType /\ x.of = c
      <4>1. InHand(c)' = InHand(c) \cup {h}
        BY <1>2, <1>3, <3>2 DEF InHand
      <4> QED
        BY <3>1, <3>2, <4>1, FS_AddElement DEF One
    <3>3. CASE ~(x.kind \in CloseType /\ x.of = c)
      <4>1. InHand(c)' = InHand(c)
        BY <1>1, <1>3, <3>3 DEF InHand
      <4> QED
        BY <3>1, <3>3, <4>1 DEF One
    <3> QED
      BY <3>2, <3>3
  <2>2. \A c \in Conn : Cardinality(Hits(recvq, c)) =
          Cardinality(Hits(recvq, c)') + One(x.kind \in CloseType /\ x.of = c)
    <3>1. \A c \in Conn : Hits(recvq, c)' = Hits(Tail(recvq), c)
      BY <1>1 DEF Hits
    <3> QED
      BY <1>1, <1>2, <3>1, HitsTail DEF x
  <2>3. \A c \in Conn : Cardinality(Hits(recvq, c)') \in Nat
    BY <1>2, HitsFinite DEF Hits
  <2>4. \A c \in Conn : Reports(c)' = Cardinality(Hits(recvq, c)') + Cardinality(InHand(c)') + told'[c]
    BY DEF Reports, Hits, InHand
  <2>5. \A c \in Conn : /\ Reports(c) = Cardinality(Hits(recvq, c)) + Cardinality(InHand(c)) + told[c]
                        /\ Cardinality(Hits(recvq, c)) \in Nat /\ Cardinality(InHand(c)) \in Nat
                        /\ told[c] \in Nat /\ Reports(c) = One(Ended(c))
    BY ReportsFacts DEF IInv, ReportsOK, DataOK
  <2>6. \A c \in Conn : Reports(c)' = Reports(c)
    BY <1>1, <2>1, <2>2, <2>3, <2>4, <2>5 DEF One
  <2>7. \A c \in Conn : Ended(c)' <=> Ended(c)
    BY <1>1 DEF Ended, linkVars
  <2>8. CloseReportedOnce' <=> \A c \in Conn : Reports(c)' = One(Ended(c)')
    BY DEF CloseReportedOnce, One, Ended, Deleting
  <2> QED
    BY <2>1, <2>5, <2>6, <2>7, <2>8 DEF ReportsOK, One
<1> QED
  BY <1>1, <1>6, <1>7, <1>8, <1>9, <1>10 DEF IInv, listVars

\* The replies of a handle.
LEMMA FinishReplies ==
    ASSUME DataOK, LateOK, NEW h \in Handle, busy[h] # None, Finish(h)
    PROVE  sbuffer' \in Seq(Command) /\ \A i \in DOMAIN sbuffer' : Fine(sbuffer'[i])
<1> DEFINE x == busy[h]
           Reply(cmd) == [cmd |-> cmd, uid |-> x.uid, of |-> x.of, n |-> x.n]
<1>1. x \in Context /\ Fine(x) /\ sbuffer \in Seq(Command)
  BY DEF DataOK, LateOK
<1>2. \A cmd \in {"s", "c"} : Reply(cmd) \in Command /\ Reply(cmd).of = x.of /\ Reply(cmd).uid = x.uid
  BY <1>1 DEF Context, Command
<1>3. CASE sbuffer' = sbuffer
  BY <1>1, <1>3 DEF LateOK
<1>4. CASE \E replies \in {<<>>, <<Reply("s")>>, <<Reply("c")>>, <<Reply("s"), Reply("c")>>} :
             sbuffer' = sbuffer \o replies
  <2>1. PICK replies \in {<<>>, <<Reply("s")>>, <<Reply("c")>>, <<Reply("s"), Reply("c")>>} :
          sbuffer' = sbuffer \o replies
    BY <1>4
  <2>2. replies \in Seq(Command) /\ \A j \in DOMAIN replies : replies[j] \in {Reply("s"), Reply("c")}
    <3>1. Reply("s") \in Command /\ Reply("c") \in Command
      BY <1>2
    <3> HIDE DEF Reply
    <3>2. CASE replies = <<>>
      BY <3>2
    <3>3. CASE replies = <<Reply("s")>>
      BY <3>1, <3>3
    <3>4. CASE replies = <<Reply("c")>>
      BY <3>1, <3>4
    <3>5. CASE replies = <<Reply("s"), Reply("c")>>
      BY <3>1, <3>5
    <3> QED
      BY <3>2, <3>3, <3>4, <3>5
  <2>3. \A j \in DOMAIN replies : replies[j].of = x.of /\ replies[j].uid = x.uid
    BY <1>2, <2>2
  <2> HIDE DEF x, Reply
  <2>4. sbuffer' \in Seq(Command) /\ Len(sbuffer') = Len(sbuffer) + Len(replies)
    BY <1>1, <2>1, <2>2, ConcatProperties
  <2>5. \A i \in 1 .. Len(sbuffer) + Len(replies) :
          sbuffer'[i] = IF i <= Len(sbuffer) THEN sbuffer[i] ELSE replies[i - Len(sbuffer)]
    BY <1>1, <2>1, <2>2, ConcatProperties
  <2>6. /\ Len(sbuffer) \in Nat /\ DOMAIN sbuffer = 1 .. Len(sbuffer)
        /\ Len(replies) \in Nat /\ DOMAIN replies = 1 .. Len(replies)
    BY <1>1, <2>2
  <2>7. ASSUME NEW i \in 1 .. Len(sbuffer) + Len(replies) PROVE Fine(sbuffer'[i])
    <3>1. CASE i <= Len(sbuffer)
      BY <2>5, <2>6, <3>1 DEF LateOK
    <3>2. CASE ~(i <= Len(sbuffer))
      <4>1. i - Len(sbuffer) \in DOMAIN replies
        BY <2>6, <3>2
      <4> QED
        BY <1>1, <2>3, <2>5, <3>2, <4>1 DEF Fine
    <3> QED
      BY <3>1, <3>2
  <2> QED
    BY <2>4, <2>7, LenProperties
<1> QED
  BY <1>3, <1>4 DEF Finish

LEMMA FinishStep ==
    ASSUME IInv, NEW h \in Handle, Finish(h)
    PROVE  IInv'
<1> DEFINE x == busy[h]
           Close(c) == x.kind \in CloseType /\ x.of = c
<1>1. /\ x # None /\ busy' = [busy EXCEPT ![h] = None]
      /\ UNCHANGED <<acc, listVars, linkVars, recvq, came, cur, net>>
      /\ \/ x.kind \in CloseType /\ told' = [told EXCEPT ![x.of] = @ + 1]
         \/ x.kind \notin CloseType /\ told' = told
  BY DEF Finish
<1>2. sbuffer' \in Seq(Command) /\ \A i \in DOMAIN sbuffer' : Fine(sbuffer'[i])
  BY <1>1, FinishReplies DEF IInv
<1>3. /\ x \in Context /\ x.of \in Conn /\ told \in [Conn -> Nat]
      /\ busy' \in [Handle -> Context \cup {None}]
      /\ busy'[h] = None /\ \A g \in Handle : g # h => busy'[g] = busy[g]
  BY <1>1 DEF IInv, DataOK, Context
<1>4. told' \in [Conn -> Nat] /\ \A c \in Conn : told'[c] = told[c] + One(Close(c))
  BY <1>1, <1>3 DEF One
<1>5. \A c \in Conn : h \in InHand(c) <=> Close(c)
  BY <1>1 DEF InHand
<1> HIDE DEF x, Close
<1>6. Quiet
  BY <1>1 DEF Quiet, listVars, linkVars
<1>7. SlotsOK' /\ Listed' = Listed
  BY <1>6, QuietSlots DEF IInv
<1>8. ThreadsOK' /\ CountOK' /\ BuffersOK'
  BY <1>1, <1>6, <1>7, BuffersStay DEF IInv, ThreadsOK, CountOK, listVars, linkVars
<1>9. DataOK'
  BY <1>1, <1>2, <1>3, <1>4 DEF IInv, DataOK, linkVars
<1>10. LateOK'
  BY <1>1, <1>2, <1>3, <1>6, LateStays DEF IInv, LateOK, DataOK
<1>11. ReportsOK'
  <2>1. ASSUME NEW c \in Conn
        PROVE  /\ IsFiniteSet(InHand(c)')
               /\ Cardinality(InHand(c)) = Cardinality(InHand(c)') + One(Close(c))
    <3>1. InHand(c)' = InHand(c) \ {h}
      BY <1>3 DEF InHand
    <3>2. IsFiniteSet(InHand(c)) /\ Cardinality(InHand(c)) \in Nat
      BY FS_CardinalityType DEF IInv, ReportsOK
    <3>3. CASE Close(c)
      <4>1. IsFiniteSet(InHand(c)') /\ Cardinality(InHand(c)') = Cardinality(InHand(c)) - 1
        BY <1>5, <3>1, <3>2, <3>3, FS_RemoveElement
      <4>2. One(Close(c)) = 1
        BY <3>3 DEF One
      <4> QED
        BY <3>2, <4>1, <4>2
    <3>4. CASE ~Close(c)
      BY <1>5, <3>1, <3>2, <3>4, FS_RemoveElement DEF One
    <3> QED
      BY <3>3, <3>4
  <2>2. \A c \in Conn : Cardinality(InHand(c)') \in Nat
    BY <2>1, FS_CardinalityType
  <2>3. \A c \in Conn : Hits(recvq, c)' = Hits(recvq, c)
    BY <1>1 DEF Hits
  <2>4. \A c \in Conn : Reports(c)' = Cardinality(Hits(recvq, c)') + Cardinality(InHand(c)') + told'[c]
    BY DEF Reports, Hits, InHand
  <2>5. \A c \in Conn : /\ Reports(c) = Cardinality(Hits(recvq, c)) + Cardinality(InHand(c)) + told[c]
                        /\ Cardinality(Hits(recvq, c)) \in Nat /\ Cardinality(InHand(c)) \in Nat
                        /\ told[c] \in Nat /\ Reports(c) = One(Ended(c))
    BY ReportsFacts DEF IInv, ReportsOK, DataOK
  <2>6. \A c \in Conn : Reports(c)' = Reports(c)
    BY <1>4, <2>1, <2>2, <2>3, <2>4, <2>5 DEF One
  <2>7. \A c \in Conn : Ended(c)' <=> Ended(c)
    BY <1>1 DEF Ended, linkVars
  <2>8. CloseReportedOnce' <=> \A c \in Conn : Reports(c)' = One(Ended(c)')
    BY DEF CloseReportedOnce, One, Ended, Deleting
  <2> QED
    BY <2>1, <2>5, <2>6, <2>7, <2>8 DEF ReportsOK, One
<1> QED
  BY <1>1, <1>7, <1>8, <1>9, <1>10, <1>11 DEF IInv, listVars
-----------------------------------------------------------------------------
(* The invariant.                                                           *)

LEMMA InitIInv == Init => IInv
<1> SUFFICES ASSUME Init PROVE IInv
  OBVIOUS
<1>1. /\ acc.at = "accept" /\ net.at = "epoll"
      /\ acc \in [at : AccAt, conn : Conn \cup {None}]
      /\ net \in [at : NetAt, conn : Conn \cup {None}]
  BY DEF Init, At, AccAt, NetAt
<1>2. DataOK
  BY ConstantsOK DEF Init, DataOK
<1>3. ThreadsOK
  BY <1>1 DEF ThreadsOK, Deleting
<1>4. /\ free \in Seq(Slot) /\ DOMAIN free = Slot /\ Len(free) = Slots
      /\ \A i \in DOMAIN free : free[i] = i
  <2>1. free = [s \in 1 .. Slots |-> s] /\ Slots \in Nat
    BY ConstantsOK DEF Init, Slot
  <2>2. free \in [1 .. Slots -> Slot]
    BY <2>1 DEF Slot
  <2>3. free \in Seq(Slot) /\ Len(free) = Slots
    BY <2>1, <2>2
  <2> QED
    BY <2>1, <2>3 DEF Slot
<1>5. \A c \in Conn : stage[c] = "new" /\ ~Linked(c)
  BY DEF Init, Linked
<1>6. \A s \in Slot : vConn[s] = None /\ IsFree(s) /\ ~Holding(s)
  BY <1>1, <1>4 DEF Init, IsFree, Holding
<1>7. SlotsOK
  <2>1. SlotsAgree
    BY <1>4, <1>6 DEF SlotsAgree, IsFree
  <2> QED
    BY <1>1, <1>4, <1>5, <2>1, ConstantsOK DEF Init, SlotsOK, StageName
<1>8. Listed = {} /\ stale = {}
  BY <1>6, ConstantsOK DEF Listed, Init
<1>9. CountOK
  <2>1. IsFiniteSet(Listed) /\ Cardinality(Listed) = 0 /\ cur = 0
    BY <1>8, FS_EmptySet DEF Init
  <2> QED
    BY <1>1, <1>4, <2>1, ConstantsOK DEF CountOK, One
<1>10. ReportsOK
  <2>1. \A c \in Conn : Hits(recvq, c) = {} /\ InHand(c) = {} /\ told[c] = 0 /\ ~Ended(c)
    BY <1>1, <1>5 DEF Init, Hits, InHand, Ended, Deleting
  <2>2. recvq \in Seq(Context) /\ told \in [Conn -> Nat]
    BY <1>2 DEF DataOK
  <2>3. \A c \in Conn : IsFiniteSet(InHand(c)) /\ Cardinality(InHand(c)) = 0
    BY <2>1, FS_EmptySet
  <2>4. \A c \in Conn : Cardinality(Hits(recvq, c)) = 0
    BY <2>1, FS_EmptySet
  <2>5. \A c \in Conn : Reports(c) = One(Ended(c))
    BY <2>1, <2>2, <2>3, <2>4, ReportsFacts DEF One
  <2> QED
    BY <2>2, <2>3, <2>5, ReportsFacts DEF ReportsOK
<1>11. LateOK
  BY ConstantsOK DEF Init, LateOK
<1>12. BuffersOK
  BY DEF Init, BuffersOK, NothingBehindEmptyBuffer
<1> QED
  BY <1>2, <1>3, <1>7, <1>8, <1>9, <1>10, <1>11, <1>12 DEF IInv

LEMMA NextIInv == IInv /\ [Next]_vars => IInv'
<1> SUFFICES ASSUME IInv, [Next]_vars PROVE IInv'
  OBVIOUS
<1>1. CASE AcceptStep
  BY <1>1, AcceptStepKept, GetUniqIdStep, AddTcpConnectionStep DEF AcceptStep
<1>2. CASE SocketStep
  BY <1>2, HandleInputStep, PeerClosesStep, LinkDownStep, HandleOutputStep DEF SocketStep
<1>3. CASE ProcessPipe
  BY <1>3, ProcessPipeStep
<1>4. CASE EndDelete
  BY <1>4, UnlinkStep, CountDownStep DEF EndDelete
<1>5. CASE TimerStep
  BY <1>5, TimerEndsStep, TimeoutOneStep, UnlinkStep, CountDownStep DEF TimerStep
<1>6. CASE \E c \in Conn : Age(c)
  BY <1>6, AgeStep
<1>7. CASE \E h \in Handle : HandleStep(h)
  BY <1>7, PopStep, FinishStep DEF HandleStep
<1>8. CASE UNCHANGED vars
  <2>1. UNCHANGED <<acc, listVars, linkVars, workVars, cur, net>>
    BY <1>8 DEF vars
  <2>2. cur \in Int
    BY DEF IInv, CountOK
  <2> QED
    BY <2>1, <2>2, NetMoves DEF IInv, ThreadsOK, CountOK
<1> QED
  BY <1>1, <1>2, <1>3, <1>4, <1>5, <1>6, <1>7, <1>8 DEF Next

LEMMA Invariance == Spec => []IInv
BY InitIInv, NextIInv, PTL DEF Spec

\* The bounds that follow from the counts.
LEMMA Bounds ==
    ASSUME IInv
    PROVE  /\ Len(free) \in 0 .. Slots /\ cur \in 0 .. MaxConns
           /\ (acc.at = "accepted" /\ ~Locked) => free # <<>>
           /\ told \in [Conn -> 0 .. 1]
<1> DEFINE m == Cardinality(Listed)
<1>1. /\ m \in Nat /\ Len(free) \in Nat /\ Len(free) + m + One(acc.at = "numbered") = Slots
      /\ cur \in Int /\ cur = m + One(net.at = "count") - One(net.at = "timerUnlink")
      /\ cur <= MaxConns /\ (acc.at # "accept" => cur < MaxConns)
  BY FS_CardinalityType DEF IInv, CountOK, SlotsOK
<1>2. net.at = "timerUnlink" => m > 0
  <2> SUFFICES ASSUME net.at = "timerUnlink" PROVE m > 0
    OBVIOUS
  <2>1. net.conn \in Conn /\ Linked(net.conn)
    BY DEF IInv, ThreadsOK, Deleting, Linked
  <2>2. Listed # {}
    BY <2>1, SlotsFacts DEF IInv
  <2> QED
    BY <1>1, <2>2, FS_EmptySet DEF IInv, CountOK
<1> HIDE DEF m
<1>3. (acc.at = "accepted" /\ ~Locked) => Len(free) > 0
  BY <1>1, ConstantsOK DEF One, Locked
<1>4. \A c \in Conn : told[c] \in 0 .. 1
  <2>1. \A c \in Conn : /\ Reports(c) = Cardinality(Hits(recvq, c)) + Cardinality(InHand(c)) + told[c]
                        /\ Cardinality(Hits(recvq, c)) \in Nat /\ Cardinality(InHand(c)) \in Nat
                        /\ told[c] \in Nat /\ Reports(c) = One(Ended(c))
    BY ReportsFacts DEF IInv, ReportsOK, DataOK
  <2> QED
    BY <2>1 DEF One
<1>5. told \in [Conn -> 0 .. 1]
  BY <1>4 DEF IInv, DataOK
<1> QED
  BY <1>1, <1>2, <1>3, <1>5, ConstantsOK DEF One, IInv, SlotsOK

\* Every variable has its type; in particular the counter stays within the
\* limit of the adapter and the service is told of an end at most once.
THEOREM ServerTypes == Spec => []TypeOK
<1>1. IInv => TypeOK
  <2> SUFFICES ASSUME IInv PROVE TypeOK
    OBVIOUS
  <2>1. acc.at \in {"accept", "accepted", "numbered"} /\ net.at \in NetAt
    BY DEF IInv, ThreadsOK, AccAt
  <2>2. \A c \in Conn : came[c] \in 0 .. Asks[c]
    BY ConstantsOK DEF IInv, DataOK
  <2>3. /\ stage \in [Conn -> {"new", "open", "dead", "gone"}] /\ slot \in [Conn -> 0 .. Slots]
        /\ vConn \in [Slot -> Conn \cup {None}] /\ free \in Seq(Slot) /\ ahead \in [Conn -> 0 .. Slots]
    BY DEF IInv, SlotsOK, LateOK, StageName
  <2>4. /\ bye \subseteq Conn /\ closing \subseteq Conn /\ stale \subseteq Listed
        /\ recvq \in Seq(Context) /\ sbuffer \in Seq(Command)
        /\ busy \in [Handle -> Context \cup {None}] /\ sendbuf \in [Conn -> Answer \cup {None}]
        /\ messages \in [Conn -> Seq(Answer)] /\ out \in [Conn -> Seq(Answer)]
    BY DEF IInv, DataOK
  <2>5. Len(free) <= Slots /\ cur \in 0 .. MaxConns /\ told \in [Conn -> 0 .. 1]
    BY Bounds
  <2> QED
    BY <2>1, <2>2, <2>3, <2>4, <2>5 DEF TypeOK, NetAt
<1> QED
  BY <1>1, Invariance, PTL

\* getUniqId, add and delNoLock keep every slot in exactly one place: free,
\* with the connection listed there, or with the one being accepted.
THEOREM SlotsAlwaysAgree == Spec => []SlotsAgree
<1>1. IInv => SlotsAgree
  BY DEF IInv, SlotsOK
<1> QED
  BY <1>1, Invariance, PTL

\* The assertion of getUniqId holds, and _iCurConns differs from the number of
\* listed connections only between the two steps of a deletion.
THEOREM ConnectionsAlwaysCounted == Spec => []ConnectionsCounted
<1>1. IInv => ConnectionsCounted
  <2> SUFFICES ASSUME IInv PROVE ConnectionsCounted
    OBVIOUS
  <2>1. cur = Cardinality(Listed) + (IF net.at = "count" THEN 1 ELSE 0)
                                  - (IF net.at = "timerUnlink" THEN 1 ELSE 0)
    BY DEF IInv, CountOK, One
  <2> QED
    BY <2>1, Bounds DEF ConnectionsCounted
<1> QED
  BY <1>1, Invariance, PTL

\* handleClose is called once for every connection that ends, whichever of
\* the reasons to delete it came first and however full the queue was.
THEOREM ClosesReportedOnce == Spec => []CloseReportedOnce
<1>1. IInv => CloseReportedOnce
  BY DEF IInv, ReportsOK
<1> QED
  BY <1>1, Invariance, PTL

\* A command whose connection is gone finds the slot empty, unless all slots
\* free at its end have been handed out since.
THEOREM SlotsReusedLast == Spec => []ReuseComesLast
<1>1. IInv => ReuseComesLast
  <2> SUFFICES ASSUME IInv, NEW i \in DOMAIN sbuffer
               PROVE  LET c == Addressee(sbuffer[i])
                      IN  c = None \/ c = sbuffer[i].of \/ ahead[sbuffer[i].of] = 0
    BY DEF ReuseComesLast
  <2> DEFINE e == sbuffer[i]
  <2>1. e \in Command /\ Fine(e)
    BY DEF IInv, DataOK, LateOK
  <2>2. e.of \in Conn /\ e.uid \in Slot /\ ahead[e.of] \in Nat
    BY <2>1 DEF Command, IInv, LateOK
  <2> HIDE DEF e
  <2>3. CASE Linked(e.of) /\ slot[e.of] = e.uid
    BY <2>2, <2>3, SlotsFacts DEF IInv, Addressee, e
  <2>4. CASE ahead[e.of] > 0 => ahead[e.of] \in DOMAIN free /\ free[ahead[e.of]] = e.uid
    <3>1. ahead[e.of] > 0 => vConn[e.uid] = None
      BY <2>2, <2>4, SlotsFacts DEF IInv, IsFree
    <3> QED
      BY <2>2, <3>1 DEF Addressee, e
  <2> QED
    BY <2>1, <2>3, <2>4 DEF Fine
<1> QED
  BY <1>1, Invariance, PTL

\* Answers wait in _messages of an open connection only behind an answer that
\* is partly in its send buffer.
THEOREM NothingLeftBehind == Spec => []NothingBehindEmptyBuffer
<1>1. IInv => NothingBehindEmptyBuffer
  BY DEF IInv, BuffersOK
<1> QED
  BY <1>1, Invariance, PTL
-----------------------------------------------------------------------------
(* The order of the answers.  A request and its answer are in one place at  *)
(* a time: in the queue, with a handle, on the way back, or settled.        *)

Concerns(x, o, n) == x.kind \notin CloseType /\ x.of = o /\ x.n = n
Answers(e, o, n) == e.cmd = "s" /\ e.of = o /\ e.n = n
Holds(s, a) == \E i \in DOMAIN s : s[i] = a

InQueue(o, n) == \E i \in DOMAIN recvq : Concerns(recvq[i], o, n)
AtHandle(o, n) == \E h \in Handle : busy[h] # None /\ Concerns(busy[h], o, n)
InPipe(o, n) == \E i \in DOMAIN sbuffer : Answers(sbuffer[i], o, n)
Settled(o, n) == \E c \in Conn : Holds(messages[c], <<o, n>>) \/ Holds(out[c], <<o, n>>)

\* Request n of connection o is in one place, once, and has been read.
OnePlace(o, n) ==
    /\ InQueue(o, n) => ~AtHandle(o, n) /\ ~InPipe(o, n) /\ ~Settled(o, n)
    /\ AtHandle(o, n) => ~InPipe(o, n) /\ ~Settled(o, n)
    /\ InPipe(o, n) => ~Settled(o, n)
    /\ InQueue(o, n) \/ AtHandle(o, n) \/ InPipe(o, n) \/ Settled(o, n) => n <= came[o]

QueuedOnce(o, n) ==
    \A i, j \in DOMAIN recvq : Concerns(recvq[i], o, n) /\ Concerns(recvq[j], o, n) => i = j
HandledOnce(o, n) ==
    \A h, g \in Handle : busy[h] # None /\ Concerns(busy[h], o, n)
                           /\ busy[g] # None /\ Concerns(busy[g], o, n) => h = g
PipedOnce(o, n) ==
    \A i, j \in DOMAIN sbuffer : Answers(sbuffer[i], o, n) /\ Answers(sbuffer[j], o, n) => i = j

RequestsOK ==
    \A o \in Conn, n \in Nat :
        OnePlace(o, n) /\ QueuedOnce(o, n) /\ HandledOnce(o, n) /\ PipedOnce(o, n)

\* Of the messages of an open connection only the first may have been
\* written, and only because it is the one in the send buffer.
MessagesOK(c) ==
    /\ \A i, j \in DOMAIN messages[c] : messages[c][i] = messages[c][j] => i = j
    /\ stage[c] = "open" =>
         /\ sendbuf[c] # None => Written(c, sendbuf[c])
         /\ \A i \in DOMAIN messages[c] :
              Written(c, messages[c][i]) => i = 1 /\ messages[c][1] = sendbuf[c]

OrderInv == RequestsOK /\ \A c \in Conn : MessagesOK(c)

\* What a step writes to c is the first of what is due (AnswersInOrder).
InTurn(c) ==
    \E k \in 0 .. Len(Line(c)) :
        /\ Len(out'[c]) = Len(out[c]) + Cardinality(DueUpTo(c, k))
        /\ \A i \in DOMAIN out[c] : out'[c][i] = out[c][i]
        /\ \A i \in DueUpTo(c, k) :
              out'[c][Len(out[c]) + Cardinality(DueUpTo(c, i))] = Line(c)[i]

LEMMA LineFacts ==
    ASSUME DataOK, NEW c \in Conn
    PROVE  /\ messages[c] \in Seq(Answer) /\ out[c] \in Seq(Answer)
           /\ Len(messages[c]) \in Nat /\ Len(sbuffer) \in Nat /\ Len(out[c]) \in Nat
           /\ DOMAIN messages[c] = 1 .. Len(messages[c])
           /\ DOMAIN sbuffer = 1 .. Len(sbuffer)
           /\ DOMAIN out[c] = 1 .. Len(out[c])
           /\ Len(Line(c)) = Len(messages[c]) + Len(sbuffer)
           /\ \A i \in 1 .. Len(messages[c]) : Line(c)[i] = messages[c][i]
           /\ \A i \in DOMAIN sbuffer :
                Line(c)[Len(messages[c]) + i] = <<sbuffer[i].of, sbuffer[i].n>>
<1> DEFINE m == messages[c]
           b == [i \in DOMAIN sbuffer |-> <<sbuffer[i].of, sbuffer[i].n>>]
<1>1. m \in Seq(Answer) /\ out[c] \in Seq(Answer) /\ sbuffer \in Seq(Command)
  BY DEF DataOK
<1>2. /\ Len(m) \in Nat /\ Len(sbuffer) \in Nat /\ Len(out[c]) \in Nat
      /\ DOMAIN m = 1 .. Len(m) /\ DOMAIN sbuffer = 1 .. Len(sbuffer)
      /\ DOMAIN out[c] = 1 .. Len(out[c])
  BY <1>1
<1>3. b \in Seq(Answer) /\ Len(b) = Len(sbuffer)
  <2>1. \A i \in DOMAIN sbuffer : <<sbuffer[i].of, sbuffer[i].n>> \in Answer
    <3> SUFFICES ASSUME NEW i \in DOMAIN sbuffer
                 PROVE  <<sbuffer[i].of, sbuffer[i].n>> \in Answer
      OBVIOUS
    <3>1. sbuffer[i] \in Command
      BY <1>1
    <3> QED
      BY <3>1 DEF Answer, Command
  <2>2. b \in [1 .. Len(sbuffer) -> Answer]
    BY <1>2, <2>1
  <2> QED
    BY <1>2, <2>2
<1>4. \A i \in DOMAIN sbuffer : b[i] = <<sbuffer[i].of, sbuffer[i].n>>
  OBVIOUS
<1>5. Line(c) = m \o b
  BY DEF Line
<1> HIDE DEF m, b
<1>6. /\ Len(Line(c)) = Len(m) + Len(sbuffer)
      /\ \A i \in 1 .. Len(m) + Len(sbuffer) :
            Line(c)[i] = IF i <= Len(m) THEN m[i] ELSE b[i - Len(m)]
  <2>1. m \in Seq(Answer) /\ b \in Seq(Answer) /\ Len(b) = Len(sbuffer)
    BY <1>1, <1>3
  <2>2. /\ Len(m \o b) = Len(m) + Len(b)
        /\ \A i \in 1 .. Len(m) + Len(b) :
              (m \o b)[i] = IF i <= Len(m) THEN m[i] ELSE b[i - Len(m)]
    BY <2>1, ConcatProperties
  <2> QED
    BY <1>5, <2>1, <2>2
<1>7. \A i \in 1 .. Len(m) : Line(c)[i] = m[i]
  BY <1>2, <1>6
<1>8. ASSUME NEW i \in DOMAIN sbuffer
      PROVE  Line(c)[Len(m) + i] = <<sbuffer[i].of, sbuffer[i].n>>
  <2>1. /\ Len(m) + i \in 1 .. Len(m) + Len(sbuffer) /\ ~(Len(m) + i <= Len(m))
        /\ (Len(m) + i) - Len(m) = i
    BY <1>2
  <2>2. Line(c)[Len(m) + i] = b[i]
    BY <1>6, <2>1
  <2> QED
    BY <1>4, <2>2
<1> QED
  BY <1>1, <1>2, <1>6, <1>7, <1>8 DEF m

\* A step that writes nothing to c writes the first none.
LEMMA SilentInTurn ==
    ASSUME DataOK, NEW c \in Conn, out'[c] = out[c]
    PROVE  InTurn(c)
<1>1. /\ Len(messages[c]) \in Nat /\ Len(out[c]) \in Nat /\ 0 \in 0 .. Len(Line(c))
      /\ DOMAIN messages[c] = 1 .. Len(messages[c]) /\ DOMAIN sbuffer = 1 .. Len(sbuffer)
      /\ Len(sbuffer) \in Nat
  BY LineFacts
<1>2. DueUpTo(c, 0) = {}
  BY <1>1 DEF DueUpTo, Due
<1>3. Cardinality(DueUpTo(c, 0)) = 0
  BY <1>2, FS_EmptySet
<1>4. Len(out'[c]) = Len(out[c]) + Cardinality(DueUpTo(c, 0))
  BY <1>1, <1>3
<1> QED
  BY <1>1, <1>2, <1>4 DEF InTurn

\* Neither does a step in which every list keeps or loses requests.
LEMMA PlacesShrink ==
    ASSUME RequestsOK, NEW o \in Conn, NEW n \in Nat, came'[o] = came[o],
           InQueue(o, n)' => InQueue(o, n), AtHandle(o, n)' => AtHandle(o, n),
           InPipe(o, n)' => InPipe(o, n), Settled(o, n)' => Settled(o, n)
    PROVE  OnePlace(o, n)'
BY DEF RequestsOK, OnePlace

\* A report of a close is about no request.
LEMMA ReportIsNoRequest ==
    ASSUME DataOK, NEW c \in Conn, NEW type \in CloseType, Report(c, type),
           NEW o, NEW n
    PROVE  /\ InQueue(o, n)' => InQueue(o, n)
           /\ QueuedOnce(o, n) => QueuedOnce(o, n)'
<1> DEFINE x == CloseContext(c, type)
<1>1. recvq' = Append(recvq, x) /\ x.kind \in CloseType
  BY DEF Report, CloseContext
<1> HIDE DEF x
<1>2. /\ Len(recvq) \in Nat /\ DOMAIN recvq = 1 .. Len(recvq)
      /\ DOMAIN recvq' = 1 .. Len(recvq) + 1
      /\ recvq'[Len(recvq) + 1] = x /\ \A i \in 1 .. Len(recvq) : recvq'[i] = recvq[i]
  BY <1>1 DEF DataOK
<1>3. \A i \in DOMAIN recvq' : Concerns(recvq'[i], o, n) => i \in DOMAIN recvq /\ recvq'[i] = recvq[i]
  BY <1>1, <1>2 DEF Concerns
<1> QED
  BY <1>3 DEF InQueue, QueuedOnce

\* Steps that read nothing, hand nothing over and send nothing.
LEMMA RequestsStay ==
    ASSUME DataOK, RequestsOK, UNCHANGED <<busy, sbuffer, came>>,
           recvq' = recvq \/ \E c \in Conn, type \in CloseType : Report(c, type),
           \A o \in Conn, n \in Nat : Settled(o, n)' => Settled(o, n)
    PROVE  RequestsOK'
<1> SUFFICES ASSUME NEW o \in Conn, NEW n \in Nat
             PROVE  OnePlace(o, n)' /\ QueuedOnce(o, n)' /\ HandledOnce(o, n)' /\ PipedOnce(o, n)'
  BY DEF RequestsOK
<1>1. QueuedOnce(o, n) /\ HandledOnce(o, n) /\ PipedOnce(o, n)
  BY DEF RequestsOK
<1>2. (InQueue(o, n)' => InQueue(o, n)) /\ QueuedOnce(o, n)'
  <2>1. CASE recvq' = recvq
    BY <1>1, <2>1 DEF InQueue, QueuedOnce
  <2>2. CASE \E c \in Conn, type \in CloseType : Report(c, type)
    BY <1>1, <2>2, ReportIsNoRequest
  <2> QED
    BY <2>1, <2>2
<1>3. /\ AtHandle(o, n)' => AtHandle(o, n)
      /\ InPipe(o, n)' => InPipe(o, n)
      /\ HandledOnce(o, n)' /\ PipedOnce(o, n)'
  BY <1>1 DEF AtHandle, InPipe, HandledOnce, PipedOnce
<1>4. OnePlace(o, n)'
  BY <1>2, <1>3, PlacesShrink
<1> QED
  BY <1>2, <1>3, <1>4

\* Steps that leave what was written and what waits in the messages.
LEMMA SettledStays ==
    ASSUME out' = out, \A d \in Conn : messages'[d] = messages[d] \/ messages'[d] = <<>>
    PROVE  \A o \in Conn, n \in Nat : Settled(o, n)' => Settled(o, n)
BY DEF Settled, Holds

LEMMA MessagesStay ==
    ASSUME NEW c \in Conn, MessagesOK(c), out'[c] = out[c],
           messages'[c] = messages[c] \/ messages'[c] = <<>>,
           stage'[c] = "open" =>
             \/ stage[c] = "open" /\ sendbuf'[c] = sendbuf[c]
             \/ messages'[c] = <<>> /\ sendbuf'[c] = None
    PROVE  MessagesOK(c)'
BY DEF MessagesOK, Written
-----------------------------------------------------------------------------
(* The requests of a step: read, taken, answered.                           *)

\* New requests have numbers that no request had.
LEMMA HandleInputRequests ==
    ASSUME IInv, RequestsOK, NEW c \in Conn, HandleInput(c)
    PROVE  RequestsOK'
<1>1. /\ UNCHANGED <<busy, sbuffer>> /\ messages' = messages /\ out' = out
  BY DEF HandleInput, linkVars
<1>2. PICK k \in 1 .. (Asks[c] - came[c]) :
        LET batch == [j \in 1 .. k |->
                        [kind |-> Verdict, uid |-> slot[c], of |-> c, n |-> came[c] + j]]
        IN  /\ recvq' = IF Verdict = "discard" THEN recvq ELSE recvq \o batch
            /\ came' = [came EXCEPT ![c] = @ + k]
  BY DEF HandleInput
<1> DEFINE batch == [j \in 1 .. k |->
                       [kind |-> Verdict, uid |-> slot[c], of |-> c, n |-> came[c] + j]]
<1>3. /\ came \in [Conn -> Nat] /\ Asks[c] \in Nat /\ k \in Nat /\ came[c] \in Nat
      /\ recvq \in Seq(Context) /\ Len(recvq) \in Nat /\ DOMAIN recvq = 1 .. Len(recvq)
  BY ConstantsOK DEF IInv, DataOK
<1>4. came'[c] = came[c] + k /\ \A d \in Conn : d # c => came'[d] = came[d]
  BY <1>2, <1>3
<1>5. \A i \in DOMAIN recvq' :
        \/ i \in DOMAIN recvq /\ recvq'[i] = recvq[i]
        \/ /\ i \in Nat /\ i > Len(recvq)
           /\ i - Len(recvq) <= k
           /\ recvq'[i].of = c /\ recvq'[i].n = came[c] + (i - Len(recvq))
  <2>1. CASE Verdict = "discard"
    BY <1>2, <2>1
  <2>2. CASE Verdict # "discard"
    <3>1. /\ DOMAIN recvq' = 1 .. Len(recvq) + k
          /\ \A i \in 1 .. Len(recvq) + k :
               recvq'[i] = IF i <= Len(recvq) THEN recvq[i] ELSE batch[i - Len(recvq)]
      <4>1. DOMAIN batch = 1 .. k /\ Len(batch) = k
        BY <1>3
      <4>2. Verdict \in {"request", "overload"} /\ slot[c] \in Slot
        BY <2>2 DEF Verdict, HandleInput, IInv, SlotsOK, Linked
      <4>3. \A j \in 1 .. k :
              [kind |-> Verdict, uid |-> slot[c], of |-> c, n |-> came[c] + j] \in Context
        BY <1>3, <4>2 DEF Context
      <4>4. batch \in [1 .. k -> Context]
        BY <4>3
      <4>5. batch \in Seq(Context) /\ recvq' = recvq \o batch
        <5>1. recvq' = recvq \o batch
          BY <1>2, <2>2
        <5> HIDE DEF batch
        <5> QED
          BY <1>3, <4>4, <5>1
      <4> HIDE DEF batch
      <4>6. recvq \in Seq(Context)
        BY <1>3
      <4>7. /\ recvq \o batch \in Seq(Context) /\ Len(recvq \o batch) = Len(recvq) + k
            /\ \A i \in 1 .. Len(recvq) + k :
                 (recvq \o batch)[i] = IF i <= Len(recvq) THEN recvq[i] ELSE batch[i - Len(recvq)]
        BY <4>1, <4>5, <4>6, ConcatProperties
      <4>8. DOMAIN (recvq \o batch) = 1 .. Len(recvq) + k
        BY <4>7, LenProperties
      <4> QED
        BY <4>5, <4>7, <4>8
    <3>2. \A j \in 1 .. k : batch[j].of = c /\ batch[j].n = came[c] + j
      OBVIOUS
    <3> HIDE DEF batch
    <3> SUFFICES ASSUME NEW i \in DOMAIN recvq'
                 PROVE  \/ i \in DOMAIN recvq /\ recvq'[i] = recvq[i]
                        \/ /\ i \in Nat /\ i > Len(recvq) /\ i - Len(recvq) <= k
                           /\ recvq'[i].of = c /\ recvq'[i].n = came[c] + (i - Len(recvq))
      OBVIOUS
    <3>3. CASE i <= Len(recvq)
      BY <1>3, <3>1, <3>3
    <3>4. CASE ~(i <= Len(recvq))
      <4>1. i - Len(recvq) \in 1 .. k /\ recvq'[i] = batch[i - Len(recvq)]
        BY <1>3, <3>1, <3>4
      <4> QED
        BY <1>3, <3>1, <3>2, <3>4, <4>1
    <3> QED
      BY <3>3, <3>4
  <2> QED
    BY <2>1, <2>2
<1> HIDE DEF batch
<1> SUFFICES ASSUME NEW o \in Conn, NEW n \in Nat
             PROVE  OnePlace(o, n)' /\ QueuedOnce(o, n)' /\ HandledOnce(o, n)' /\ PipedOnce(o, n)'
  BY DEF RequestsOK
<1>6. OnePlace(o, n) /\ QueuedOnce(o, n) /\ HandledOnce(o, n) /\ PipedOnce(o, n)
  BY DEF RequestsOK
<1>7. /\ AtHandle(o, n)' <=> AtHandle(o, n)
      /\ InPipe(o, n)' <=> InPipe(o, n)
      /\ Settled(o, n)' <=> Settled(o, n)
      /\ HandledOnce(o, n)' /\ PipedOnce(o, n)'
  BY <1>1, <1>6 DEF AtHandle, InPipe, Settled, HandledOnce, PipedOnce
<1>8. CASE o = c /\ n > came[c]
  <2>1. ~InQueue(o, n) /\ ~AtHandle(o, n) /\ ~InPipe(o, n) /\ ~Settled(o, n)
    BY <1>3, <1>6, <1>8 DEF OnePlace
  <2>2. \A i \in DOMAIN recvq' : Concerns(recvq'[i], o, n) =>
           i \in Nat /\ n = came[c] + (i - Len(recvq)) /\ n <= came[c] + k
    BY <1>3, <1>5, <2>1 DEF InQueue, Concerns
  <2>3. QueuedOnce(o, n)'
    BY <1>3, <2>2 DEF QueuedOnce
  <2>4. InQueue(o, n)' => n <= came'[o]
    BY <1>4, <1>8, <2>2 DEF InQueue
  <2> QED
    BY <1>7, <2>1, <2>3, <2>4 DEF OnePlace
<1>9. CASE ~(o = c /\ n > came[c])
  <2>1. \A i \in DOMAIN recvq' : Concerns(recvq'[i], o, n) =>
           i \in DOMAIN recvq /\ recvq'[i] = recvq[i]
    BY <1>3, <1>5, <1>9 DEF Concerns
  <2>2. InQueue(o, n)' => InQueue(o, n)
    BY <2>1 DEF InQueue
  <2>3. QueuedOnce(o, n)'
    BY <1>6, <2>1 DEF QueuedOnce
  <2>4. n <= came[o] => n <= came'[o]
    BY <1>3, <1>4
  <2> QED
    BY <1>6, <1>7, <2>2, <2>3, <2>4 DEF OnePlace
<1> QED
  BY <1>8, <1>9

\* A request goes from the queue to a handle.
LEMMA PopRequests ==
    ASSUME IInv, RequestsOK, NEW h \in Handle, Pop(h)
    PROVE  RequestsOK'
<1> DEFINE x == Head(recvq)
<1>1. /\ busy[h] = None /\ recvq # <<>> /\ busy' = [busy EXCEPT ![h] = x] /\ recvq' = Tail(recvq)
      /\ UNCHANGED <<sbuffer, came, messages, out>>
  BY DEF Pop, linkVars
<1>2. /\ x \in Context /\ x # None /\ x = recvq[1] /\ 1 \in DOMAIN recvq
      /\ \A i \in DOMAIN recvq' :
           i \in Nat /\ i > 0 /\ i + 1 \in DOMAIN recvq /\ recvq'[i] = recvq[i + 1]
  <2>1. recvq \in Seq(Context) /\ recvq # <<>>
    BY <1>1 DEF IInv, DataOK
  <2> QED
    BY <1>1, <2>1, ConstantsOK
<1>3. busy'[h] = x /\ \A g \in Handle : g # h => busy'[g] = busy[g]
  BY <1>1 DEF IInv, DataOK
<1> HIDE DEF x
<1> SUFFICES ASSUME NEW o \in Conn, NEW n \in Nat
             PROVE  OnePlace(o, n)' /\ QueuedOnce(o, n)' /\ HandledOnce(o, n)' /\ PipedOnce(o, n)'
  BY DEF RequestsOK
<1>4. OnePlace(o, n) /\ QueuedOnce(o, n) /\ HandledOnce(o, n) /\ PipedOnce(o, n)
  BY DEF RequestsOK
<1>5. /\ InPipe(o, n)' <=> InPipe(o, n)
      /\ Settled(o, n)' <=> Settled(o, n)
      /\ PipedOnce(o, n)'
  BY <1>1, <1>4 DEF InPipe, Settled, PipedOnce
<1>6. QueuedOnce(o, n)' /\ (InQueue(o, n)' => InQueue(o, n))
  BY <1>2, <1>4 DEF QueuedOnce, InQueue
<1>7. CASE Concerns(x, o, n)
  <2>1. InQueue(o, n) /\ ~AtHandle(o, n)
    BY <1>2, <1>4, <1>7 DEF InQueue, OnePlace
  <2>2. ~InQueue(o, n)'
    BY <1>2, <1>4, <1>7 DEF InQueue, QueuedOnce
  <2>3. HandledOnce(o, n)'
    BY <1>3, <2>1 DEF HandledOnce, AtHandle
  <2> QED
    BY <1>1, <1>4, <1>5, <1>6, <2>1, <2>2, <2>3 DEF OnePlace
<1>8. CASE ~Concerns(x, o, n)
  <2>1. HandledOnce(o, n)' /\ (AtHandle(o, n)' => AtHandle(o, n))
    BY <1>3, <1>4, <1>8 DEF HandledOnce, AtHandle
  <2> QED
    BY <1>1, <1>4, <1>5, <1>6, <2>1 DEF OnePlace
<1> QED
  BY <1>7, <1>8

\* What a handle replies: at most one answer, and that first.
LEMMA RepliesOfOne ==
    ASSUME DataOK, NEW h \in Handle, Finish(h)
    PROVE  \A i \in DOMAIN sbuffer' :
             \/ i \in DOMAIN sbuffer /\ sbuffer'[i] = sbuffer[i]
             \/ /\ sbuffer'[i].cmd = "s" => i = Len(sbuffer) + 1
                /\ sbuffer'[i].of = busy[h].of /\ sbuffer'[i].n = busy[h].n
                /\ busy[h].kind \notin CloseType
<1> DEFINE x == busy[h]
           Reply(cmd) == [cmd |-> cmd, uid |-> x.uid, of |-> x.of, n |-> x.n]
<1>1. x \in Context /\ sbuffer \in Seq(Command)
  BY DEF DataOK, Finish
<1>2. CASE sbuffer' = sbuffer
  BY <1>2
<1>3. ASSUME NEW replies \in {<<>>, <<Reply("s")>>, <<Reply("c")>>, <<Reply("s"), Reply("c")>>},
             sbuffer' = sbuffer \o replies, x.kind \notin CloseType
      PROVE  \A i \in DOMAIN sbuffer' :
               \/ i \in DOMAIN sbuffer /\ sbuffer'[i] = sbuffer[i]
               \/ /\ sbuffer'[i].cmd = "s" => i = Len(sbuffer) + 1
                  /\ sbuffer'[i].of = x.of /\ sbuffer'[i].n = x.n
  <2>1. \A cmd \in {"s", "c"} : /\ Reply(cmd) \in Command /\ Reply(cmd).cmd = cmd
                                /\ Reply(cmd).of = x.of /\ Reply(cmd).n = x.n
    BY <1>1 DEF Context, Command
  <2> DEFINE rs == Reply("s")
             rc == Reply("c")
  <2>2. /\ rs \in Command /\ rs.of = x.of /\ rs.n = x.n
        /\ rc \in Command /\ rc.of = x.of /\ rc.n = x.n /\ rc.cmd # "s"
    BY <2>1
  <2>3. replies \in {<<>>, <<rs>>, <<rc>>, <<rs, rc>>}
    BY <1>3
  <2> HIDE DEF rs, rc, x
  <2>4. /\ replies \in Seq(Command)
        /\ \A j \in DOMAIN replies : /\ replies[j].of = x.of /\ replies[j].n = x.n
                                     /\ replies[j].cmd = "s" => j = 1
    <3>1. CASE replies = <<>>
      BY <3>1
    <3>2. CASE replies = <<rs>>
      BY <2>2, <3>2
    <3>3. CASE replies = <<rc>>
      BY <2>2, <3>3
    <3>4. CASE replies = <<rs, rc>>
      BY <2>2, <3>4
    <3> QED
      BY <2>3, <3>1, <3>2, <3>3, <3>4
  <2>5. /\ Len(sbuffer') = Len(sbuffer) + Len(replies) /\ sbuffer' \in Seq(Command)
        /\ \A i \in 1 .. Len(sbuffer) + Len(replies) :
             sbuffer'[i] = IF i <= Len(sbuffer) THEN sbuffer[i] ELSE replies[i - Len(sbuffer)]
    BY <1>1, <1>3, <2>4, ConcatProperties
  <2>6. /\ Len(sbuffer) \in Nat /\ DOMAIN sbuffer = 1 .. Len(sbuffer)
        /\ Len(replies) \in Nat /\ DOMAIN replies = 1 .. Len(replies)
        /\ DOMAIN sbuffer' = 1 .. Len(sbuffer) + Len(replies)
    BY <1>1, <2>4, <2>5
  <2> SUFFICES ASSUME NEW i \in DOMAIN sbuffer'
               PROVE  \/ i \in DOMAIN sbuffer /\ sbuffer'[i] = sbuffer[i]
                      \/ /\ sbuffer'[i].cmd = "s" => i = Len(sbuffer) + 1
                         /\ sbuffer'[i].of = x.of /\ sbuffer'[i].n = x.n
    OBVIOUS
  <2>7. CASE i <= Len(sbuffer)
    BY <2>5, <2>6, <2>7
  <2>8. CASE ~(i <= Len(sbuffer))
    <3>1. i - Len(sbuffer) \in DOMAIN replies /\ sbuffer'[i] = replies[i - Len(sbuffer)]
      BY <2>5, <2>6, <2>8
    <3>2. i - Len(sbuffer) = 1 => i = Len(sbuffer) + 1
      BY <2>6
    <3> QED
      BY <2>4, <3>1, <3>2
  <2> QED
    BY <2>7, <2>8
<1> QED
  BY <1>2, <1>3 DEF Finish

\* A request goes from its handle to the way back, if it is answered.
LEMMA FinishRequests ==
    ASSUME IInv, RequestsOK, NEW h \in Handle, Finish(h)
    PROVE  RequestsOK'
<1> DEFINE x == busy[h]
<1>1. /\ x # None /\ busy' = [busy EXCEPT ![h] = None]
      /\ UNCHANGED <<recvq, came, messages, out>>
  BY DEF Finish, linkVars
<1>2. busy'[h] = None /\ \A g \in Handle : g # h => busy'[g] = busy[g]
  BY <1>1 DEF IInv, DataOK
<1>3. \A i \in DOMAIN sbuffer' :
        \/ i \in DOMAIN sbuffer /\ sbuffer'[i] = sbuffer[i]
        \/ /\ sbuffer'[i].cmd = "s" => i = Len(sbuffer) + 1
           /\ sbuffer'[i].of = x.of /\ sbuffer'[i].n = x.n
           /\ x.kind \notin CloseType
  BY RepliesOfOne DEF IInv
<1> SUFFICES ASSUME NEW o \in Conn, NEW n \in Nat
             PROVE  OnePlace(o, n)' /\ QueuedOnce(o, n)' /\ HandledOnce(o, n)' /\ PipedOnce(o, n)'
  BY DEF RequestsOK
<1>4. OnePlace(o, n) /\ QueuedOnce(o, n) /\ HandledOnce(o, n) /\ PipedOnce(o, n)
  BY DEF RequestsOK
<1>5. /\ InQueue(o, n)' <=> InQueue(o, n)
      /\ Settled(o, n)' <=> Settled(o, n)
      /\ QueuedOnce(o, n)'
  BY <1>1, <1>4 DEF InQueue, Settled, QueuedOnce
<1>6. HandledOnce(o, n)' /\ (AtHandle(o, n)' => AtHandle(o, n))
  BY <1>2, <1>4 DEF HandledOnce, AtHandle
<1>7. CASE Concerns(x, o, n)
  <2>1. AtHandle(o, n) /\ ~InPipe(o, n)
    BY <1>1, <1>4, <1>7 DEF AtHandle, OnePlace
  <2>2. ~AtHandle(o, n)'
    BY <1>1, <1>2, <1>4, <1>7 DEF AtHandle, HandledOnce
  <2>3. PipedOnce(o, n)'
    BY <1>3, <2>1 DEF PipedOnce, InPipe, Answers
  <2> QED
    BY <1>1, <1>4, <1>5, <1>6, <2>1, <2>2, <2>3 DEF OnePlace
<1>8. CASE ~Concerns(x, o, n)
  <2>1. \A i \in DOMAIN sbuffer' : Answers(sbuffer'[i], o, n) =>
           i \in DOMAIN sbuffer /\ sbuffer'[i] = sbuffer[i]
    BY <1>3, <1>8 DEF Answers, Concerns
  <2>2. PipedOnce(o, n)' /\ (InPipe(o, n)' => InPipe(o, n))
    BY <1>4, <2>1 DEF PipedOnce, InPipe
  <2> QED
    BY <1>1, <1>4, <1>5, <1>6, <2>2 DEF OnePlace
<1> QED
  BY <1>7, <1>8
-----------------------------------------------------------------------------
(* What is written.                                                         *)

\* What waits for an open connection whose send buffer is not empty: the first
\* message has been written if it is the one in the buffer, no other has.
LEMMA LeftFacts ==
    ASSUME DataOK, NEW c \in Conn, MessagesOK(c), stage[c] = "open", sendbuf[c] # None
    PROVE  \E d \in {0, 1} :
             /\ Left(c) \in Seq(Answer) /\ d <= Len(messages[c])
             /\ Len(Left(c)) = Len(messages[c]) - d
             /\ \A i \in 1 .. Len(Left(c)) : Left(c)[i] = messages[c][i + d]
             /\ \A i \in 1 .. Len(messages[c]) : Written(c, messages[c][i]) <=> i <= d
<1> DEFINE m == messages[c]
<1>1. m \in Seq(Answer) /\ Len(m) \in Nat /\ DOMAIN m = 1 .. Len(m)
  BY LineFacts
<1>2. /\ Written(c, sendbuf[c])
      /\ \A i \in DOMAIN m : Written(c, m[i]) => i = 1 /\ m[1] = sendbuf[c]
  BY DEF MessagesOK
<1>3. CASE m # <<>> /\ Head(m) = sendbuf[c]
  <2>1. Left(c) = Tail(m)
    BY <1>3 DEF Left
  <2>2. /\ Left(c) \in Seq(Answer) /\ 1 <= Len(m) /\ Len(Left(c)) = Len(m) - 1
        /\ \A i \in 1 .. Len(Left(c)) : Left(c)[i] = m[i + 1]
    BY <1>1, <1>3, <2>1
  <2>3. Written(c, m[1])
    BY <1>1, <1>2, <1>3
  <2>4. \A i \in 1 .. Len(m) : Written(c, m[i]) <=> i <= 1
    BY <1>1, <1>2, <2>3
  <2> QED
    BY <2>2, <2>4
<1>4. CASE ~(m # <<>> /\ Head(m) = sendbuf[c])
  <2>1. Left(c) = m
    BY <1>4 DEF Left
  <2>2. \A i \in 1 .. Len(m) : ~Written(c, m[i])
    BY <1>1, <1>2, <1>4
  <2>3. \A i \in 1 .. Len(m) : ~(i <= 0)
    BY <1>1
  <2> QED
    BY <1>1, <2>1, <2>2, <2>3
<1> QED
  BY <1>3, <1>4

\* If what is written is the first of what is left, it is the first of what
\* is due.
LEMMA LeftIsDue ==
    ASSUME DataOK, NEW c \in Conn, NEW d \in {0, 1}, NEW j \in Nat, d + j <= Len(messages[c]),
           \A i \in 1 .. Len(messages[c]) : Written(c, messages[c][i]) <=> i <= d,
           Len(out'[c]) = Len(out[c]) + j,
           \A i \in DOMAIN out[c] : out'[c][i] = out[c][i],
           \A i \in 1 .. j : out'[c][Len(out[c]) + i] = messages[c][i + d]
    PROVE  InTurn(c)
<1> DEFINE m == messages[c]
<1>1. /\ Len(m) \in Nat /\ Len(sbuffer) \in Nat /\ Len(out[c]) \in Nat
      /\ DOMAIN m = 1 .. Len(m) /\ DOMAIN sbuffer = 1 .. Len(sbuffer)
      /\ Len(Line(c)) = Len(m) + Len(sbuffer)
      /\ \A i \in 1 .. Len(m) : Line(c)[i] = m[i]
  BY LineFacts
<1>2. ASSUME NEW k \in 0 .. Len(m)
      PROVE  DueUpTo(c, k) = (d + 1) .. k
  <2>1. ASSUME NEW i \in DueUpTo(c, k) PROVE i \in (d + 1) .. k
    <3>1. i <= k /\ i \in Due(c)
      BY <2>1 DEF DueUpTo
    <3>2. CASE i \in DOMAIN m /\ ~Written(c, m[i])
      BY <1>1, <3>1, <3>2
    <3>3. CASE \E l \in DOMAIN sbuffer : i = Len(m) + l
      BY <1>1, <3>1, <3>3
    <3> QED
      BY <3>1, <3>2, <3>3 DEF Due
  <2>2. ASSUME NEW i \in (d + 1) .. k PROVE i \in DueUpTo(c, k)
    <3>1. i \in DOMAIN m /\ ~(i <= d) /\ i <= k
      BY <1>1
    <3> QED
      BY <1>1, <3>1 DEF DueUpTo, Due
  <2> QED
    BY <2>1, <2>2
<1>3. \A k \in 0 .. Len(m) :
        Cardinality(DueUpTo(c, k)) = IF d + 1 > k THEN 0 ELSE k - (d + 1) + 1
  <2> SUFFICES ASSUME NEW k \in 0 .. Len(m)
               PROVE  Cardinality(DueUpTo(c, k)) = IF d + 1 > k THEN 0 ELSE k - (d + 1) + 1
    OBVIOUS
  <2>1. d + 1 \in Int /\ k \in Int
    OBVIOUS
  <2>2. Cardinality((d + 1) .. k) = IF d + 1 > k THEN 0 ELSE k - (d + 1) + 1
    BY <2>1, FS_Interval
  <2> QED
    BY <1>2, <2>2
<1>4. d + j \in 0 .. Len(m) /\ d + j \in 0 .. Len(Line(c))
  BY <1>1
<1>5. Len(out'[c]) = Len(out[c]) + Cardinality(DueUpTo(c, d + j))
  BY <1>1, <1>3, <1>4
<1>6. ASSUME NEW i \in DueUpTo(c, d + j)
      PROVE  out'[c][Len(out[c]) + Cardinality(DueUpTo(c, i))] = Line(c)[i]
  <2>1. i \in (d + 1) .. (d + j)
    BY <1>2, <1>4
  <2>2. i \in 1 .. Len(m) /\ i - d \in 1 .. j /\ (i - d) + d = i
    BY <1>1, <2>1
  <2>3. Cardinality(DueUpTo(c, i)) = i - d
    BY <1>1, <1>3, <2>1, <2>2
  <2>4. out'[c][Len(out[c]) + (i - d)] = m[i]
    BY <2>2
  <2> QED
    BY <1>1, <2>2, <2>3, <2>4
<1> QED
  BY <1>4, <1>5, <1>6 DEF InTurn

LEMMA Concatenated ==
    ASSUME NEW S, NEW s \in Seq(S), NEW t \in Seq(S)
    PROVE  /\ Len(s \o t) = Len(s) + Len(t) /\ DOMAIN (s \o t) = 1 .. Len(s) + Len(t)
           /\ \A i \in 1 .. Len(s) : (s \o t)[i] = s[i]
           /\ \A i \in 1 .. Len(t) : (s \o t)[Len(s) + i] = t[i]
<1>1. Len(s) \in Nat /\ Len(t) \in Nat
  OBVIOUS
<1>2. /\ s \o t \in Seq(S) /\ Len(s \o t) = Len(s) + Len(t)
      /\ \A i \in 1 .. Len(s) + Len(t) :
           (s \o t)[i] = IF i <= Len(s) THEN s[i] ELSE t[i - Len(s)]
  BY ConcatProperties
<1>3. DOMAIN (s \o t) = 1 .. Len(s) + Len(t)
  BY <1>2, LenProperties
<1>4. \A i \in 1 .. Len(s) : (s \o t)[i] = s[i]
  BY <1>1, <1>2
<1>5. ASSUME NEW i \in 1 .. Len(t) PROVE (s \o t)[Len(s) + i] = t[i]
  <2>1. /\ Len(s) + i \in 1 .. Len(s) + Len(t) /\ ~(Len(s) + i <= Len(s))
        /\ (Len(s) + i) - Len(s) = i
    BY <1>1
  <2> QED
    BY <1>2, <2>1
<1> QED
  BY <1>2, <1>3, <1>4, <1>5

\* What remains of a sequence without its first j elements.
LEMMA WithoutFirst ==
    ASSUME NEW S, NEW s \in Seq(S), NEW j \in 1 .. Len(s)
    PROVE  /\ DOMAIN SubSeq(s, j + 1, Len(s)) = 1 .. Len(s) - j
           /\ \A i \in 1 .. Len(s) - j : SubSeq(s, j + 1, Len(s))[i] = s[j + i]
<1>1. Len(s) \in Nat /\ j \in Nat /\ (Len(s) - (j + 1)) + 1 = Len(s) - j
  OBVIOUS
<1>2. SubSeq(s, j + 1, Len(s)) = [i \in 1 .. (1 + Len(s) - (j + 1)) |-> s[i + (j + 1) - 1]]
  OBVIOUS
<1>3. 1 + Len(s) - (j + 1) = Len(s) - j
  BY <1>1
<1>4. \A i \in 1 .. Len(s) - j : i + (j + 1) - 1 = j + i
  BY <1>1
<1> QED
  BY <1>2, <1>3, <1>4

\* Sending what is left, all of it or a part.
LEMMA FlushOrder ==
    ASSUME IInv, NEW c \in Conn, MessagesOK(c), stage[c] = "open", sendbuf[c] # None, Flush(c)
    PROVE  /\ InTurn(c) /\ MessagesOK(c)'
           /\ \A e \in Conn : e # c => /\ out'[e] = out[e] /\ messages'[e] = messages[e]
                                       /\ sendbuf'[e] = sendbuf[e]
           /\ \A o \in Conn, n \in Nat : Settled(o, n)' => Settled(o, n)
<1> DEFINE m == messages[c]
           left == Left(c)
<1>1. DataOK
  BY DEF IInv
<1>2. PICK d \in {0, 1} :
             /\ left \in Seq(Answer) /\ d <= Len(m)
             /\ Len(left) = Len(m) - d
             /\ \A i \in 1 .. Len(left) : left[i] = m[i + d]
             /\ \A i \in 1 .. Len(m) : Written(c, m[i]) <=> i <= d
  BY <1>1, LeftFacts
<1>3. /\ Len(m) \in Nat /\ Len(out[c]) \in Nat /\ DOMAIN m = 1 .. Len(m)
      /\ out[c] \in Seq(Answer) /\ DOMAIN out[c] = 1 .. Len(out[c])
      /\ \A i, j \in DOMAIN m : m[i] = m[j] => i = j
  BY <1>1, LineFacts DEF MessagesOK
<1>4. \/ /\ out' = [out EXCEPT ![c] = @ \o left]
         /\ sendbuf' = [sendbuf EXCEPT ![c] = None]
         /\ messages' = [messages EXCEPT ![c] = <<>>]
      \/ \E j \in DOMAIN left :
           /\ out' = [out EXCEPT ![c] = @ \o SubSeq(left, 1, j)]
           /\ sendbuf' = [sendbuf EXCEPT ![c] = left[j]]
           /\ messages' = [messages EXCEPT ![c] = SubSeq(left, j + 1, Len(left))]
  BY DEF Flush
<1> HIDE DEF left
<1>5. PICK j \in 0 .. Len(left) :
        /\ Len(out'[c]) = Len(out[c]) + j /\ DOMAIN out'[c] = 1 .. Len(out[c]) + j
        /\ \A i \in 1 .. Len(out[c]) : out'[c][i] = out[c][i]
        /\ \A i \in 1 .. j : out'[c][Len(out[c]) + i] = left[i]
        /\ \/ messages'[c] = <<>> /\ sendbuf'[c] = None
           \/ /\ j > 0 /\ sendbuf'[c] = left[j] /\ DOMAIN messages'[c] = 1 .. Len(left) - j
              /\ \A i \in 1 .. Len(left) - j : messages'[c][i] = left[j + i]
  <2>1. /\ out \in [Conn -> Seq(Answer)] /\ messages \in [Conn -> Seq(Answer)]
        /\ sendbuf \in [Conn -> Answer \cup {None}]
        /\ left \in Seq(Answer) /\ Len(left) \in Nat /\ DOMAIN left = 1 .. Len(left)
    BY <1>1, <1>2 DEF DataOK
  <2>2. CASE /\ out' = [out EXCEPT ![c] = @ \o left]
             /\ sendbuf' = [sendbuf EXCEPT ![c] = None]
             /\ messages' = [messages EXCEPT ![c] = <<>>]
    <3>1. out'[c] = out[c] \o left /\ sendbuf'[c] = None /\ messages'[c] = <<>>
      BY <2>1, <2>2
    <3>2. /\ Len(out'[c]) = Len(out[c]) + Len(left) /\ DOMAIN out'[c] = 1 .. Len(out[c]) + Len(left)
          /\ \A i \in 1 .. Len(out[c]) : out'[c][i] = out[c][i]
          /\ \A i \in 1 .. Len(left) : out'[c][Len(out[c]) + i] = left[i]
      BY <1>3, <2>1, <3>1, Concatenated
    <3>3. Len(left) \in 0 .. Len(left)
      BY <2>1
    <3> QED
      BY <3>1, <3>2, <3>3
  <2>3. ASSUME NEW j \in DOMAIN left,
               out' = [out EXCEPT ![c] = @ \o SubSeq(left, 1, j)],
               sendbuf' = [sendbuf EXCEPT ![c] = left[j]],
               messages' = [messages EXCEPT ![c] = SubSeq(left, j + 1, Len(left))]
        PROVE  /\ Len(out'[c]) = Len(out[c]) + j /\ DOMAIN out'[c] = 1 .. Len(out[c]) + j
               /\ \A i \in 1 .. Len(out[c]) : out'[c][i] = out[c][i]
               /\ \A i \in 1 .. j : out'[c][Len(out[c]) + i] = left[i]
               /\ j > 0 /\ sendbuf'[c] = left[j] /\ DOMAIN messages'[c] = 1 .. Len(left) - j
               /\ \A i \in 1 .. Len(left) - j : messages'[c][i] = left[j + i]
               /\ j \in 0 .. Len(left)
    <3> DEFINE p == SubSeq(left, 1, j)
    <3>1. /\ out'[c] = out[c] \o p /\ sendbuf'[c] = left[j]
          /\ messages'[c] = SubSeq(left, j + 1, Len(left))
      BY <2>1, <2>3
    <3>2. j \in 1 .. Len(left) /\ j \in Nat /\ j > 0
      BY <2>1
    <3>3. p \in Seq(Answer) /\ Len(p) = j /\ \A i \in 1 .. j : p[i] = left[i]
      BY <2>1, <3>2
    <3>4. /\ DOMAIN messages'[c] = 1 .. Len(left) - j
          /\ \A i \in 1 .. Len(left) - j : messages'[c][i] = left[j + i]
      <4>1. left \in Seq(Answer) /\ j \in 1 .. Len(left)
        BY <2>1, <3>2
      <4> QED
        BY <3>1, <4>1, WithoutFirst
    <3> HIDE DEF p
    <3>5. /\ Len(out'[c]) = Len(out[c]) + j /\ DOMAIN out'[c] = 1 .. Len(out[c]) + j
          /\ \A i \in 1 .. Len(out[c]) : out'[c][i] = out[c][i]
          /\ \A i \in 1 .. j : out'[c][Len(out[c]) + i] = p[i]
      <4>1. out[c] \in Seq(Answer) /\ p \in Seq(Answer)
        BY <1>3, <3>3
      <4>2. /\ Len(out[c] \o p) = Len(out[c]) + Len(p)
            /\ DOMAIN (out[c] \o p) = 1 .. Len(out[c]) + Len(p)
            /\ \A i \in 1 .. Len(out[c]) : (out[c] \o p)[i] = out[c][i]
            /\ \A i \in 1 .. Len(p) : (out[c] \o p)[Len(out[c]) + i] = p[i]
        BY <4>1, Concatenated
      <4> QED
        BY <3>1, <3>3, <4>2
    <3>6. \A i \in 1 .. j : out'[c][Len(out[c]) + i] = left[i]
      BY <3>3, <3>5
    <3>7. j \in 0 .. Len(left)
      BY <3>2
    <3> QED
      BY <3>1, <3>2, <3>4, <3>5, <3>6, <3>7
  <2>4. CASE \E j \in DOMAIN left :
               /\ out' = [out EXCEPT ![c] = @ \o SubSeq(left, 1, j)]
               /\ sendbuf' = [sendbuf EXCEPT ![c] = left[j]]
               /\ messages' = [messages EXCEPT ![c] = SubSeq(left, j + 1, Len(left))]
    <3>1. PICK j \in DOMAIN left :
               /\ out' = [out EXCEPT ![c] = @ \o SubSeq(left, 1, j)]
               /\ sendbuf' = [sendbuf EXCEPT ![c] = left[j]]
               /\ messages' = [messages EXCEPT ![c] = SubSeq(left, j + 1, Len(left))]
      BY <2>4
    <3> QED
      BY <2>3, <3>1
  <2> QED
    BY <1>4, <2>2, <2>4
<1>5a. /\ d \in Nat /\ j \in Nat /\ j <= Len(left) /\ Len(left) \in Nat
      /\ Len(left) = Len(m) - d
  BY <1>2, <1>3
<1>5b. \A i \in 1 .. Len(left) - j : j + i \in 1 .. Len(left)
  <2> SUFFICES ASSUME NEW i \in 1 .. Len(left) - j PROVE j + i \in 1 .. Len(left)
    OBVIOUS
  <2>1. i \in Nat /\ 1 <= i /\ i <= Len(left) - j
    BY <1>5a
  <2> QED
    BY <1>5a, <2>1
<1>5c. \A i \in 1 .. Len(left) : left[i] = m[i + d] /\ i + d \in DOMAIN m
  BY <1>2, <1>3
<1>6. /\ \A e \in Conn : e # c => /\ out'[e] = out[e] /\ messages'[e] = messages[e]
                                  /\ sendbuf'[e] = sendbuf[e]
  BY <1>1, <1>4 DEF DataOK
<1>7. \A i \in DOMAIN out[c] : out'[c][i] = out[c][i]
  BY <1>3, <1>5
<1>8. InTurn(c)
  <2>1. j \in Nat /\ d + j <= Len(m)
    BY <1>2, <1>3
  <2>2. \A i \in 1 .. j : out'[c][Len(out[c]) + i] = m[i + d]
    BY <1>5, <1>5a, <1>5c
  <2> QED
    BY <1>1, <1>2, <1>5, <1>7, <2>1, <2>2, LeftIsDue
<1>9. \A i, l \in 1 .. Len(left) : left[i] = left[l] => i = l
  <2> SUFFICES ASSUME NEW i \in 1 .. Len(left), NEW l \in 1 .. Len(left), left[i] = left[l]
               PROVE  i = l
    OBVIOUS
  <2>1. i + d \in DOMAIN m /\ l + d \in DOMAIN m /\ m[i + d] = m[l + d]
    BY <1>5c
  <2>2. i + d = l + d
    BY <1>3, <2>1
  <2> QED
    BY <1>5a, <2>2
<1>10. \A i \in DOMAIN out'[c] :
         \/ i \in DOMAIN out[c] /\ out'[c][i] = out[c][i]
         \/ \E l \in 1 .. j : i = Len(out[c]) + l /\ out'[c][i] = left[l]
  <2> SUFFICES ASSUME NEW i \in DOMAIN out'[c], ~(i <= Len(out[c]))
               PROVE  \E l \in 1 .. j : i = Len(out[c]) + l /\ out'[c][i] = left[l]
    BY <1>3, <1>5
  <2>1. i - Len(out[c]) \in 1 .. j /\ i = Len(out[c]) + (i - Len(out[c]))
    BY <1>3, <1>5
  <2> QED
    BY <1>5, <2>1
<1>11. MessagesOK(c)'
  <2>1. CASE messages'[c] = <<>> /\ sendbuf'[c] = None
    BY <2>1 DEF MessagesOK
  <2>2. CASE /\ j > 0 /\ sendbuf'[c] = left[j] /\ DOMAIN messages'[c] = 1 .. Len(left) - j
             /\ \A i \in 1 .. Len(left) - j : messages'[c][i] = left[j + i]
    <3>1. \A i, l \in DOMAIN messages'[c] : messages'[c][i] = messages'[c][l] => i = l
      <4> SUFFICES ASSUME NEW i \in DOMAIN messages'[c], NEW l \in DOMAIN messages'[c],
                          messages'[c][i] = messages'[c][l]
                   PROVE  i = l
        OBVIOUS
      <4>1. i \in 1 .. Len(left) - j /\ l \in 1 .. Len(left) - j
        BY <2>2
      <4>2. left[j + i] = left[j + l]
        BY <2>2, <4>1
      <4>3. j + i \in 1 .. Len(left) /\ j + l \in 1 .. Len(left)
        BY <1>5b, <4>1
      <4>4. j + i = j + l
        BY <1>9, <4>2, <4>3
      <4> QED
        BY <1>5a, <4>1, <4>4
    <3>2. \E i \in DOMAIN out'[c] : out'[c][i] = sendbuf'[c]
      <4>1. j \in 1 .. j
        BY <1>5a, <2>2
      <4>2. Len(out[c]) \in Nat
        BY <1>3
      <4>3. Len(out[c]) + j \in 1 .. Len(out[c]) + j
        BY <1>5a, <2>2, <4>2
      <4>4. Len(out[c]) + j \in DOMAIN out'[c]
        BY <1>5, <4>3
      <4>5. out'[c][Len(out[c]) + j] = left[j]
        BY <1>5, <4>1
      <4> QED
        BY <2>2, <4>4, <4>5
    <3>3. ASSUME NEW i \in DOMAIN messages'[c], NEW l \in DOMAIN out'[c],
                 out'[c][l] = messages'[c][i]
          PROVE  FALSE
      <4>1. j + i \in 1 .. Len(left) /\ messages'[c][i] = left[j + i]
        <5>1. i \in 1 .. Len(left) - j
          BY <2>2
        <5>2. j + i \in 1 .. Len(left)
          BY <1>5b, <5>1
        <5> QED
          BY <2>2, <5>1, <5>2
      <4>2. CASE l \in DOMAIN out[c] /\ out'[c][l] = out[c][l]
        <5>1. Written(c, left[j + i])
          BY <3>3, <4>1, <4>2 DEF Written
        <5>2. left[j + i] = m[(j + i) + d] /\ (j + i) + d \in 1 .. Len(m) /\ ~((j + i) + d <= d)
          BY <1>2, <1>3, <4>1
        <5> QED
          BY <1>2, <5>1, <5>2
      <4>3. CASE \E k \in 1 .. j : out'[c][l] = left[k]
        <5>1. PICK k \in 1 .. j : out'[c][l] = left[k]
          BY <4>3
        <5>2. k \in 1 .. Len(left) /\ k # j + i
          BY <1>5a, <2>2
        <5> QED
          BY <1>9, <3>3, <4>1, <5>1, <5>2
      <4> QED
        BY <1>10, <4>2, <4>3
    <3> QED
      BY <3>1, <3>2, <3>3 DEF MessagesOK, Written
  <2> QED
    BY <1>5, <2>1, <2>2
<1>12. ASSUME NEW a, Holds(messages'[c], a) \/ Holds(out'[c], a)
       PROVE  Holds(m, a) \/ Holds(out[c], a)
  <2>1. \A i \in 1 .. Len(left) : Holds(m, left[i])
    BY <1>5c DEF Holds
  <2>2. Holds(messages'[c], a) => Holds(m, a)
    <3> SUFFICES ASSUME NEW i \in DOMAIN messages'[c], messages'[c][i] = a
                 PROVE  Holds(m, a)
      BY DEF Holds
    <3>1. DOMAIN messages'[c] # {}
      OBVIOUS
    <3>2. /\ DOMAIN messages'[c] = 1 .. Len(left) - j
          /\ \A l \in 1 .. Len(left) - j : messages'[c][l] = left[j + l]
      BY <1>5, <3>1
    <3>3. j + i \in 1 .. Len(left) /\ messages'[c][i] = left[j + i]
      <4>1. i \in 1 .. Len(left) - j
        BY <3>2
      <4>2. j + i \in 1 .. Len(left)
        BY <1>5b, <4>1
      <4> QED
        BY <3>2, <4>1, <4>2
    <3> QED
      BY <2>1, <3>3
  <2>3. Holds(out'[c], a) => Holds(m, a) \/ Holds(out[c], a)
    <3> SUFFICES ASSUME NEW i \in DOMAIN out'[c], out'[c][i] = a
                 PROVE  Holds(m, a) \/ Holds(out[c], a)
      BY DEF Holds
    <3>1. CASE i \in DOMAIN out[c] /\ out'[c][i] = out[c][i]
      BY <3>1 DEF Holds
    <3>2. CASE \E l \in 1 .. j : out'[c][i] = left[l]
      <4>1. PICK l \in 1 .. j : out'[c][i] = left[l]
        BY <3>2
      <4>2. l \in 1 .. Len(left)
        BY <1>2, <1>3
      <4> QED
        BY <2>1, <4>1, <4>2
    <3> QED
      BY <1>10, <3>1, <3>2
  <2> QED
    BY <1>12, <2>2, <2>3
<1>13. \A o \in Conn, n \in Nat : Settled(o, n)' => Settled(o, n)
  <2> SUFFICES ASSUME NEW o \in Conn, NEW n \in Nat, NEW e \in Conn,
                      Holds(messages'[e], <<o, n>>) \/ Holds(out'[e], <<o, n>>)
               PROVE  Holds(messages[e], <<o, n>>) \/ Holds(out[e], <<o, n>>)
    BY DEF Settled
  <2>1. CASE e = c
    BY <1>12, <2>1
  <2>2. CASE e # c
    BY <1>6, <2>2
  <2> QED
    BY <2>1, <2>2
<1> QED
  BY <1>6, <1>8, <1>11, <1>13

\* Steps that write nothing and open no connection with something to write.
LEMMA LinesStay ==
    ASSUME IInv, \A c \in Conn : MessagesOK(c), out' = out,
           \A c \in Conn :
             /\ messages'[c] = messages[c] \/ messages'[c] = <<>>
             /\ stage'[c] = "open" =>
                  \/ stage[c] = "open" /\ sendbuf'[c] = sendbuf[c]
                  \/ messages'[c] = <<>> /\ sendbuf'[c] = None
    PROVE  /\ \A c \in Conn : InTurn(c) /\ MessagesOK(c)'
           /\ \A o \in Conn, n \in Nat : Settled(o, n)' => Settled(o, n)
<1>1. ASSUME NEW c \in Conn PROVE InTurn(c) /\ MessagesOK(c)'
  <2>1. InTurn(c)
    BY SilentInTurn DEF IInv
  <2>2. MessagesOK(c)'
    BY MessagesStay
  <2> QED
    BY <2>1, <2>2
<1>2. \A o \in Conn, n \in Nat : Settled(o, n)' => Settled(o, n)
  BY SettledStays
<1> QED
  BY <1>1, <1>2

\* When nothing waits for c, the head of the commands is the first due.
LEMMA HeadIsDue ==
    ASSUME DataOK, NEW c \in Conn, sbuffer # <<>>, NEW e, e = Head(sbuffer), e.cmd = "s",
           Addressee(e) = c, messages[c] = <<>>, out'[c] = Append(out[c], <<e.of, e.n>>)
    PROVE  InTurn(c)
<1>1. /\ Len(messages[c]) = 0 /\ DOMAIN messages[c] = {}
      /\ sbuffer \in Seq(Command) /\ Len(sbuffer) \in Nat /\ Len(sbuffer) > 0
      /\ DOMAIN sbuffer = 1 .. Len(sbuffer) /\ sbuffer[1] = e
      /\ out[c] \in Seq(Answer) /\ Len(out[c]) \in Nat /\ DOMAIN out[c] = 1 .. Len(out[c])
  BY DEF DataOK
<1>2. Len(Line(c)) = Len(sbuffer) /\ Line(c)[1] = <<e.of, e.n>>
  <2>1. /\ Len(Line(c)) = Len(messages[c]) + Len(sbuffer)
        /\ \A i \in DOMAIN sbuffer :
             Line(c)[Len(messages[c]) + i] = <<sbuffer[i].of, sbuffer[i].n>>
    BY LineFacts
  <2>2. 1 \in DOMAIN sbuffer /\ 0 + 1 = 1
    BY <1>1
  <2> QED
    BY <1>1, <2>1, <2>2
<1>3. DueUpTo(c, 1) = {1}
  <2>1. \A i : i \in Due(c) <=>
           \E j \in DOMAIN sbuffer : i = 0 + j /\ sbuffer[j].cmd = "s" /\ Addressee(sbuffer[j]) = c
    BY <1>1 DEF Due
  <2>2. 1 \in DOMAIN sbuffer /\ 1 = 0 + 1
    BY <1>1
  <2>3. 1 \in DueUpTo(c, 1)
    BY <1>1, <2>1, <2>2 DEF DueUpTo
  <2>4. ASSUME NEW i \in DueUpTo(c, 1) PROVE i = 1
    BY <1>1, <2>1 DEF DueUpTo
  <2> QED
    BY <2>3, <2>4
<1>4. Cardinality(DueUpTo(c, 1)) = 1
  BY <1>3, FS_Singleton
<1>5. /\ Len(out'[c]) = Len(out[c]) + 1 /\ out'[c][Len(out[c]) + 1] = <<e.of, e.n>>
      /\ \A i \in DOMAIN out[c] : out'[c][i] = out[c][i]
  BY <1>1
<1>6. 1 \in 0 .. Len(Line(c))
  BY <1>1, <1>2
<1>7. \A i \in DueUpTo(c, 1) :
        out'[c][Len(out[c]) + Cardinality(DueUpTo(c, i))] = Line(c)[i]
  <2> SUFFICES ASSUME NEW i \in {1}
               PROVE  out'[c][Len(out[c]) + Cardinality(DueUpTo(c, i))] = Line(c)[i]
    BY <1>3
  <2>1. i = 1
    OBVIOUS
  <2>2. Cardinality(DueUpTo(c, i)) = 1
    BY <1>4, <2>1
  <2> QED
    BY <1>2, <1>5, <2>1, <2>2
<1>8. Len(out'[c]) = Len(out[c]) + Cardinality(DueUpTo(c, 1))
  BY <1>4, <1>5
<1> QED
  BY <1>5, <1>6, <1>7, <1>8 DEF InTurn

LEMMA HoldsAppend ==
    ASSUME NEW S, NEW s \in Seq(S), NEW a \in S
    PROVE  /\ Append(s, a) \in Seq(S)
           /\ \A b : Holds(Append(s, a), b) <=> Holds(s, b) \/ b = a
<1>1. /\ Append(s, a) \in Seq(S) /\ Len(s) \in Nat /\ DOMAIN s = 1 .. Len(s)
      /\ DOMAIN Append(s, a) = 1 .. Len(s) + 1 /\ Append(s, a)[Len(s) + 1] = a
      /\ \A i \in 1 .. Len(s) : Append(s, a)[i] = s[i]
  OBVIOUS
<1> QED
  BY <1>1 DEF Holds

\* An answer is written, or waits behind the others.
LEMMA SendOrder ==
    ASSUME IInv, OrderInv, NEW c \in Conn, sbuffer # <<>>, NEW e, e = Head(sbuffer),
           e.cmd = "s", Addressee(e) = c, stage[c] = "open", SendTo(c, <<e.of, e.n>>)
    PROVE  /\ \A d \in Conn : InTurn(d) /\ MessagesOK(d)'
           /\ \A o \in Conn, n \in Nat : Settled(o, n)' => Settled(o, n) \/ Answers(e, o, n)
<1> DEFINE a == <<e.of, e.n>>
<1>1. /\ out \in [Conn -> Seq(Answer)] /\ messages \in [Conn -> Seq(Answer)]
      /\ sendbuf \in [Conn -> Answer \cup {None}] /\ stage \in [Conn -> StageName]
      /\ messages[c] \in Seq(Answer) /\ out[c] \in Seq(Answer)
      /\ \A d \in Conn : MessagesOK(d)
  BY DEF IInv, DataOK, SlotsOK, OrderInv
<1>2. e \in Command /\ e.of \in Conn /\ e.n \in Nat /\ 1 \in DOMAIN sbuffer /\ sbuffer[1] = e
  <2>1. e \in Command /\ 1 \in DOMAIN sbuffer /\ sbuffer[1] = e
    BY DEF IInv, DataOK
  <2> QED
    BY <2>1 DEF Command
<1>3. ~Settled(e.of, e.n)
  <2>1. InPipe(e.of, e.n)
    BY <1>2 DEF InPipe, Answers
  <2> QED
    BY <1>2, <2>1 DEF OrderInv, RequestsOK, OnePlace
<1>4. ~Holds(messages[c], a) /\ ~Holds(out[c], a)
  BY <1>3 DEF Settled
<1>5. a \in Answer /\ a # None
  BY <1>2, ConstantsOK DEF Answer
<1> HIDE DEF a

\* What the step does to c, it does to no other connection.
<1>6. ASSUME NEW o, NEW s, NEW m, o \in Seq(Answer), m \in Seq(Answer),
             out' = [out EXCEPT ![c] = o], sendbuf' = [sendbuf EXCEPT ![c] = s],
             messages' = [messages EXCEPT ![c] = m], stage' = stage,
             \A b : Holds(m, b) \/ Holds(o, b) =>
                      Holds(messages[c], b) \/ Holds(out[c], b) \/ b = a,
             InTurn(c), MessagesOK(c)'
      PROVE  /\ \A d \in Conn : InTurn(d) /\ MessagesOK(d)'
             /\ \A p \in Conn, n \in Nat : Settled(p, n)' => Settled(p, n) \/ Answers(e, p, n)
  <2>1. /\ out'[c] = o /\ messages'[c] = m
        /\ \A d \in Conn : d # c => /\ out'[d] = out[d] /\ messages'[d] = messages[d]
                                    /\ sendbuf'[d] = sendbuf[d]
    BY <1>1, <1>6
  <2>2. ASSUME NEW d \in Conn PROVE InTurn(d) /\ MessagesOK(d)'
    <3>1. CASE d = c
      BY <1>6, <3>1
    <3>2. CASE d # c
      <4>1. InTurn(d)
        BY <2>1, <3>2, SilentInTurn DEF IInv
      <4>2. MessagesOK(d)'
        BY <1>1, <1>6, <2>1, <3>2, MessagesStay
      <4> QED
        BY <4>1, <4>2
    <3> QED
      BY <3>1, <3>2
  <2>3. ASSUME NEW p \in Conn, NEW n \in Nat, Settled(p, n)'
        PROVE  Settled(p, n) \/ Answers(e, p, n)
    <3>1. PICK d \in Conn : Holds(messages'[d], <<p, n>>) \/ Holds(out'[d], <<p, n>>)
      BY <2>3 DEF Settled
    <3>2. \/ Holds(messages[d], <<p, n>>) \/ Holds(out[d], <<p, n>>)
          \/ <<p, n>> = a
      BY <1>6, <2>1, <3>1
    <3> QED
      BY <3>2 DEF Settled, Answers, a
  <2> QED
    BY <2>2, <2>3
<1>7. /\ Append(out[c], a) \in Seq(Answer)
      /\ \A b : Holds(Append(out[c], a), b) => Holds(out[c], b) \/ b = a
      /\ \A b : Holds(out[c], b) \/ b = a => Holds(Append(out[c], a), b)
  BY <1>1, <1>5, HoldsAppend
<1>8. CASE messages[c] = <<>> /\ sendbuf[c] = None
  <2>1. out'[c] = Append(out[c], a) => InTurn(c)
    BY <1>8, HeadIsDue DEF IInv, a
  <2>2. CASE out' = [out EXCEPT ![c] = Append(@, a)] /\ UNCHANGED <<stage, sendbuf, messages>>
    <3>1. /\ out' = [out EXCEPT ![c] = Append(out[c], a)]
          /\ sendbuf' = [sendbuf EXCEPT ![c] = None] /\ messages' = [messages EXCEPT ![c] = <<>>]
      BY <1>1, <1>8, <2>2
    <3>2. out'[c] = Append(out[c], a) /\ messages'[c] = <<>> /\ sendbuf'[c] = None
      BY <1>1, <3>1
    <3>3. MessagesOK(c)'
      BY <3>2 DEF MessagesOK
    <3>4. <<>> \in Seq(Answer) /\ \A b : ~Holds(<<>>, b)
      BY DEF Holds
    <3> QED
      BY <1>6, <1>7, <2>1, <2>2, <3>1, <3>2, <3>3, <3>4
  <2>3. CASE /\ out' = [out EXCEPT ![c] = Append(@, a)] /\ sendbuf' = [sendbuf EXCEPT ![c] = a]
             /\ messages' = [messages EXCEPT ![c] = <<a>>] /\ stage' = stage
    <3>1. out'[c] = Append(out[c], a) /\ messages'[c] = <<a>> /\ sendbuf'[c] = a
      BY <1>1, <2>3
    <3>2. Written(c, a)'
      BY <1>7, <3>1 DEF Written, Holds
    <3>3. MessagesOK(c)'
      BY <3>1, <3>2 DEF MessagesOK, Written
    <3>4. <<a>> \in Seq(Answer) /\ \A b : Holds(<<a>>, b) => b = a
      BY <1>5 DEF Holds
    <3> QED
      BY <1>6, <1>7, <2>1, <2>3, <3>1, <3>3, <3>4
  <2>4. CASE stage' = [stage EXCEPT ![c] = "dead"] /\ UNCHANGED <<sendbuf, messages, out>>
    <3>1. \A d \in Conn : stage'[d] = "open" => stage[d] = "open"
      BY <1>1, <2>4
    <3> QED
      <4>1. out' = out /\ messages' = messages /\ sendbuf' = sendbuf
        BY <2>4
      <4>2. /\ \A d \in Conn : InTurn(d) /\ MessagesOK(d)'
            /\ \A o \in Conn, n \in Nat : Settled(o, n)' => Settled(o, n)
        <5>1. \A d \in Conn :
                /\ messages'[d] = messages[d] \/ messages'[d] = <<>>
                /\ stage'[d] = "open" =>
                     \/ stage[d] = "open" /\ sendbuf'[d] = sendbuf[d]
                     \/ messages'[d] = <<>> /\ sendbuf'[d] = None
          BY <3>1, <4>1
        <5> QED
          BY <1>1, <4>1, <5>1, LinesStay
      <4> QED
        BY <4>2
  <2> QED
    BY <1>8, <2>2, <2>3, <2>4 DEF SendTo, a
<1>9. CASE ~(messages[c] = <<>> /\ sendbuf[c] = None)
  <2>1. messages' = [messages EXCEPT ![c] = Append(@, a)] /\ UNCHANGED <<stage, sendbuf, out>>
    BY <1>9 DEF SendTo, a
  <2>2. /\ out' = [out EXCEPT ![c] = out[c]] /\ sendbuf' = [sendbuf EXCEPT ![c] = sendbuf[c]]
        /\ messages' = [messages EXCEPT ![c] = Append(messages[c], a)]
        /\ messages'[c] = Append(messages[c], a)
    BY <1>1, <2>1
  <2>3. InTurn(c)
    BY <2>1, SilentInTurn DEF IInv
  <2>4. /\ Append(messages[c], a) \in Seq(Answer)
        /\ \A b : Holds(Append(messages[c], a), b) => Holds(messages[c], b) \/ b = a
    BY <1>1, <1>5, HoldsAppend
  <2>5. MessagesOK(c)'
    <3>1. /\ Len(messages[c]) \in Nat /\ DOMAIN messages[c] = 1 .. Len(messages[c])
          /\ DOMAIN messages'[c] = 1 .. Len(messages[c]) + 1
          /\ messages'[c][Len(messages[c]) + 1] = a
          /\ \A i \in 1 .. Len(messages[c]) : messages'[c][i] = messages[c][i]
      BY <1>1, <2>2
    <3>2. \A i \in DOMAIN messages[c] : messages[c][i] # a
      BY <1>4 DEF Holds
    <3>3. \A i, j \in DOMAIN messages'[c] : messages'[c][i] = messages'[c][j] => i = j
      <4>1. \A i, j \in DOMAIN messages[c] : messages[c][i] = messages[c][j] => i = j
        BY <1>1 DEF MessagesOK
      <4>2. \A i \in DOMAIN messages'[c] :
               \/ i \in DOMAIN messages[c] /\ messages'[c][i] = messages[c][i]
               \/ i = Len(messages[c]) + 1 /\ messages'[c][i] = a
        BY <3>1
      <4> QED
        BY <3>2, <4>1, <4>2
    <3>4. \A b : Written(c, b)' <=> Written(c, b)
      BY <2>1 DEF Written
    <3>5. ~Written(c, a)
      BY <1>4 DEF Written, Holds
    <3>6. /\ sendbuf[c] # None => Written(c, sendbuf[c])
          /\ \A i \in DOMAIN messages[c] :
               Written(c, messages[c][i]) => i = 1 /\ messages[c][1] = sendbuf[c]
      BY <1>1 DEF MessagesOK
    <3>7. \A i \in DOMAIN messages'[c] :
            Written(c, messages'[c][i]) => i = 1 /\ messages'[c][1] = sendbuf[c]
      BY <3>1, <3>5, <3>6
    <3> QED
      BY <2>1, <3>3, <3>6, <3>7 DEF MessagesOK, Written
  <2> QED
    BY <1>1, <1>6, <2>1, <2>2, <2>3, <2>4, <2>5
<1> QED
  BY <1>8, <1>9

\* An answer leaves the commands: it is written, waits or is dropped.
LEMMA PipeRequests ==
    ASSUME IInv, RequestsOK, sbuffer # <<>>, sbuffer' = Tail(sbuffer), UNCHANGED <<busy, came>>,
           recvq' = recvq \/ \E c \in Conn, type \in CloseType : Report(c, type),
           \A o \in Conn, n \in Nat :
              Settled(o, n)' => Settled(o, n) \/ Answers(Head(sbuffer), o, n)
    PROVE  RequestsOK'
<1> DEFINE e == Head(sbuffer)
<1>1. /\ e = sbuffer[1] /\ 1 \in DOMAIN sbuffer
      /\ \A i \in DOMAIN sbuffer' :
           i \in Nat /\ i > 0 /\ i + 1 \in DOMAIN sbuffer /\ sbuffer'[i] = sbuffer[i + 1]
  BY DEF IInv, DataOK
<1> SUFFICES ASSUME NEW o \in Conn, NEW n \in Nat
             PROVE  OnePlace(o, n)' /\ QueuedOnce(o, n)' /\ HandledOnce(o, n)' /\ PipedOnce(o, n)'
  BY DEF RequestsOK
<1>2. OnePlace(o, n) /\ QueuedOnce(o, n) /\ HandledOnce(o, n) /\ PipedOnce(o, n)
  BY DEF RequestsOK
<1>3. Settled(o, n)' => Settled(o, n) \/ Answers(e, o, n)
  OBVIOUS
<1> HIDE DEF e
<1>4. (InQueue(o, n)' => InQueue(o, n)) /\ QueuedOnce(o, n)'
  <2>1. CASE recvq' = recvq
    BY <1>2, <2>1 DEF InQueue, QueuedOnce
  <2>2. CASE \E c \in Conn, type \in CloseType : Report(c, type)
    BY <1>2, <2>2, ReportIsNoRequest DEF IInv
  <2> QED
    BY <2>1, <2>2
<1>5. (AtHandle(o, n)' <=> AtHandle(o, n)) /\ HandledOnce(o, n)'
  BY <1>2 DEF AtHandle, HandledOnce
<1>6. (InPipe(o, n)' => InPipe(o, n)) /\ PipedOnce(o, n)'
  BY <1>1, <1>2 DEF InPipe, PipedOnce
<1>7. CASE Answers(e, o, n)
  <2>1. InPipe(o, n)
    BY <1>1, <1>7 DEF InPipe
  <2>2. ~InPipe(o, n)'
    BY <1>1, <1>2, <1>7 DEF InPipe, PipedOnce
  <2> QED
    BY <1>2, <1>3, <1>4, <1>5, <1>6, <2>1, <2>2 DEF OnePlace
<1>8. CASE ~Answers(e, o, n)
  BY <1>2, <1>3, <1>4, <1>5, <1>6, <1>8 DEF OnePlace
<1> QED
  BY <1>7, <1>8

LEMMA ProcessPipeOrder ==
    ASSUME IInv, OrderInv, ProcessPipe
    PROVE  OrderInv' /\ \A c \in Conn : InTurn(c)
<1> DEFINE e == Head(sbuffer)
           c == Addressee(e)
<1>1. sbuffer # <<>> /\ sbuffer' = Tail(sbuffer) /\ UNCHANGED <<busy, came, vConn>>
  BY DEF ProcessPipe
<1>2. e \in Command /\ e.uid \in Slot /\ vConn \in [Slot -> Conn \cup {None}]
  <2>1. e \in Command
    BY <1>1 DEF IInv, DataOK
  <2> QED
    BY <2>1 DEF IInv, SlotsOK, Command
<1>3. c # None => c \in Conn /\ Linked(c)
  BY <1>2, SlotsFacts DEF IInv, Addressee
<1>4. /\ stage \in [Conn -> StageName] /\ sendbuf \in [Conn -> Answer \cup {None}]
      /\ RequestsOK /\ \A d \in Conn : MessagesOK(d)
  BY DEF IInv, SlotsOK, DataOK, OrderInv
<1> DEFINE Lines == /\ \A d \in Conn : InTurn(d) /\ MessagesOK(d)'
                    /\ \A o \in Conn, n \in Nat :
                          Settled(o, n)' => Settled(o, n) \/ Answers(e, o, n)
           Told == recvq' = recvq \/ \E d \in Conn, type \in CloseType : Report(d, type)
<1>5. ASSUME UNCHANGED <<stage, sendbuf, messages, out, recvq>>
      PROVE  Lines /\ Told
  <2>1. /\ out' = out /\ recvq' = recvq
        /\ \A d \in Conn : /\ messages'[d] = messages[d]
                            /\ stage'[d] = stage[d] /\ sendbuf'[d] = sendbuf[d]
    BY <1>5
  <2> QED
    BY <1>4, <2>1, LinesStay
<1>6. ASSUME c \in Conn, Delete(c, "ended"), UNCHANGED <<messages, out>>
      PROVE  Lines /\ Told
  <2>1. /\ stage' = [stage EXCEPT ![c] = "dead"] /\ sendbuf' = [sendbuf EXCEPT ![c] = None]
        /\ Report(c, "ended") /\ "ended" \in CloseType
    BY <1>6 DEF Delete, Shut, CloseType
  <2>2. \A d \in Conn : stage'[d] = "open" => stage[d] = "open" /\ sendbuf'[d] = sendbuf[d]
    BY <1>4, <1>6, <2>1
  <2>3. out' = out /\ messages' = messages
    BY <1>6
  <2>4. Lines
    BY <1>4, <2>2, <2>3, LinesStay
  <2> QED
    BY <1>6, <2>1, <2>4
<1>7. ASSUME c # None, ProcessClose(c)
      PROVE  Lines /\ Told
  <2>1. CASE sendbuf[c] = None
    <3>1. Delete(c, "ended") /\ UNCHANGED <<messages, out>>
      BY <1>7, <2>1 DEF ProcessClose
    <3> QED
      BY <1>3, <1>6, <1>7, <3>1
  <2>2. CASE sendbuf[c] # None
    <3>1. UNCHANGED <<recvq, stage, sendbuf, messages, out>>
      BY <1>7, <2>2 DEF ProcessClose
    <3> QED
      BY <1>5, <3>1
  <2> QED
    BY <2>1, <2>2
<1>8. ASSUME c # None, e.cmd = "s", ProcessSend(c, <<e.of, e.n>>)
      PROVE  Lines /\ Told
  <2>1. CASE stage[c] = "dead"
    <3>1. Delete(c, "ended") /\ UNCHANGED <<messages, out>>
      BY <1>8, <2>1 DEF ProcessSend
    <3> QED
      BY <1>3, <1>6, <1>8, <3>1
  <2>2. CASE stage[c] # "dead"
    <3>1. /\ SendTo(c, <<e.of, e.n>>) /\ recvq' = recvq
          /\ c \in Conn /\ stage[c] = "open"
      BY <1>3, <1>8, <2>2 DEF ProcessSend, Linked
    <3>2. Lines
      BY <1>1, <1>8, <3>1, SendOrder
    <3> QED
      BY <3>1, <3>2
  <2> QED
    BY <2>1, <2>2
<1>9. Lines /\ Told
  <2>1. \/ c = None /\ UNCHANGED <<stage, sendbuf, messages, out, recvq>>
        \/ c # None /\ ProcessClose(c)
        \/ c # None /\ e.cmd = "s" /\ ProcessSend(c, <<e.of, e.n>>)
    BY DEF ProcessPipe
  <2> HIDE DEF Lines, Told, c, e
  <2> QED
    BY <1>5, <1>7, <1>8, <2>1
<1>10. RequestsOK'
  BY <1>1, <1>4, <1>9, PipeRequests
<1> QED
  BY <1>9, <1>10 DEF OrderInv
-----------------------------------------------------------------------------
(* The other steps.                                                         *)

\* Steps that write nothing and hand nothing over.
LEMMA QuietOrder ==
    ASSUME IInv, OrderInv, UNCHANGED <<busy, sbuffer, came, out>>,
           recvq' = recvq \/ \E c \in Conn, type \in CloseType : Report(c, type),
           \A c \in Conn :
             /\ messages'[c] = messages[c] \/ messages'[c] = <<>>
             /\ stage'[c] = "open" =>
                  \/ stage[c] = "open" /\ sendbuf'[c] = sendbuf[c]
                  \/ messages'[c] = <<>> /\ sendbuf'[c] = None
    PROVE  OrderInv' /\ \A c \in Conn : InTurn(c)
<1>1. RequestsOK /\ DataOK /\ out' = out /\ \A c \in Conn : MessagesOK(c)
  BY DEF OrderInv, IInv
<1>2. /\ \A c \in Conn : InTurn(c) /\ MessagesOK(c)'
      /\ \A o \in Conn, n \in Nat : Settled(o, n)' => Settled(o, n)
  BY <1>1, LinesStay
<1>3. RequestsOK'
  BY <1>1, <1>2, RequestsStay
<1> QED
  BY <1>2, <1>3 DEF OrderInv

LEMMA SocketOrder ==
    ASSUME IInv, OrderInv, NEW c \in Conn,
           PeerCloses(c) \/ LinkDown(c) \/ TimeoutOne(c) \/ HandleOutput(c)
    PROVE  OrderInv' /\ \A d \in Conn : InTurn(d)
<1>1. /\ stage \in [Conn -> StageName] /\ sendbuf \in [Conn -> Answer \cup {None}]
      /\ RequestsOK /\ DataOK /\ \A d \in Conn : MessagesOK(d)
  BY DEF IInv, SlotsOK, DataOK, OrderInv
<1>2. CASE PeerCloses(c) \/ LinkDown(c) \/ TimeoutOne(c)
  <2>1. /\ stage' = [stage EXCEPT ![c] = "dead"] /\ sendbuf' = [sendbuf EXCEPT ![c] = None]
        /\ messages' = messages /\ UNCHANGED <<busy, sbuffer, came, out>>
        /\ recvq' = recvq \/ Report(c, "ended") \/ Report(c, "EM_SERVER_TIMEOUT_CLOSE")
    BY <1>2 DEF PeerCloses, LinkDown, TimeoutOne, Delete, Shut, workVars
  <2>2. \A d \in Conn : stage'[d] = "open" => stage[d] = "open" /\ sendbuf'[d] = sendbuf[d]
    BY <1>1, <2>1
  <2>3. recvq' = recvq \/ \E d \in Conn, type \in CloseType : Report(d, type)
    BY <2>1 DEF CloseType
  <2> QED
    BY <2>1, <2>2, <2>3, QuietOrder
<1>3. CASE HandleOutput(c)
  <2>1. /\ stage[c] = "open" /\ sendbuf[c] # None /\ Flush(c)
        /\ UNCHANGED <<busy, sbuffer, came>>
        /\ \/ stage' = [stage EXCEPT ![c] = "dead"] /\ Report(c, "ended")
           \/ stage' = stage /\ recvq' = recvq
    BY <1>3 DEF HandleOutput
  <2>2. /\ InTurn(c) /\ MessagesOK(c)'
        /\ \A d \in Conn : d # c => /\ out'[d] = out[d] /\ messages'[d] = messages[d]
                                    /\ sendbuf'[d] = sendbuf[d]
        /\ \A o \in Conn, n \in Nat : Settled(o, n)' => Settled(o, n)
    BY <1>1, <2>1, FlushOrder
  <2>3. ASSUME NEW d \in Conn PROVE InTurn(d) /\ MessagesOK(d)'
    <3>1. CASE d = c
      BY <2>2, <3>1
    <3>2. CASE d # c
      <4>1. stage'[d] = stage[d]
        BY <1>1, <2>1, <3>2
      <4>2. InTurn(d)
        BY <1>1, <2>2, <3>2, SilentInTurn
      <4>3. MessagesOK(d)'
        BY <1>1, <2>2, <3>2, <4>1, MessagesStay
      <4> QED
        BY <4>2, <4>3
    <3> QED
      BY <3>1, <3>2
  <2>4. recvq' = recvq \/ \E d \in Conn, type \in CloseType : Report(d, type)
    BY <2>1 DEF CloseType
  <2>5. RequestsOK'
    BY <1>1, <2>1, <2>2, <2>4, RequestsStay
  <2> QED
    BY <2>3, <2>5 DEF OrderInv
<1> QED
  BY <1>2, <1>3

\* Listing a connection and taking it off.
LEMMA ListOrder ==
    ASSUME IInv, OrderInv,
           \/ \E c \in Conn : AddTcpConnection(c)
           \/ Unlink("unlink", "count") \/ Unlink("timerUnlink", "timer")
    PROVE  OrderInv' /\ \A d \in Conn : InTurn(d)
<1>1. /\ stage \in [Conn -> StageName] /\ messages \in [Conn -> Seq(Answer)]
  BY DEF IInv, SlotsOK, DataOK
<1>2. ASSUME NEW c \in Conn, AddTcpConnection(c)
      PROVE  OrderInv' /\ \A d \in Conn : InTurn(d)
  <2>1. /\ stage' = [stage EXCEPT ![c] = "open"] /\ acc = Doing("numbered", c)
        /\ UNCHANGED <<recvq, busy, sbuffer, came, out>> /\ messages' = messages /\ sendbuf' = sendbuf
    BY <1>2 DEF AddTcpConnection, workVars
  <2>2. sendbuf[c] = None /\ messages[c] = <<>>
    BY <2>1 DEF IInv, ThreadsOK, BuffersOK, Doing
  <2>3. \A d \in Conn : stage'[d] = "open" =>
           stage[d] = "open" \/ (sendbuf[d] = None /\ messages[d] = <<>>)
    <3>1. \A d \in Conn : d # c => stage'[d] = stage[d]
      BY <1>1, <2>1
    <3> SUFFICES ASSUME NEW d \in Conn, stage'[d] = "open"
                 PROVE  stage[d] = "open" \/ (sendbuf[d] = None /\ messages[d] = <<>>)
      OBVIOUS
    <3>2. CASE d = c
      BY <2>2, <3>2
    <3>3. CASE d # c
      BY <3>1, <3>3
    <3> QED
      BY <3>2, <3>3
  <2> QED
    BY <2>1, <2>3, QuietOrder
<1>3. ASSUME NEW from \in {"unlink", "timerUnlink"}, NEW to \in {"count", "timer"}, Unlink(from, to)
      PROVE  OrderInv' /\ \A d \in Conn : InTurn(d)
  <2> DEFINE c == net.conn
  <2>1. c \in Conn /\ stage[c] = "dead"
    BY <1>3 DEF Unlink, IInv, ThreadsOK, Deleting
  <2>2. /\ stage' = [stage EXCEPT ![c] = "gone"] /\ messages' = [messages EXCEPT ![c] = <<>>]
        /\ UNCHANGED <<recvq, busy, sbuffer, came, out>> /\ sendbuf' = sendbuf
    BY <1>3 DEF Unlink, workVars
  <2>3. \A d \in Conn :
          /\ messages'[d] = messages[d] \/ messages'[d] = <<>>
          /\ stage'[d] = "open" => stage[d] = "open"
    BY <1>1, <2>1, <2>2
  <2> QED
    BY <2>2, <2>3, QuietOrder
<1> QED
  BY <1>2, <1>3

LEMMA StillOrder ==
    ASSUME IInv, OrderInv, UNCHANGED <<stage, sendbuf, messages, out, recvq, busy, sbuffer, came>>
    PROVE  OrderInv' /\ \A d \in Conn : InTurn(d)
<1>1. \A d \in Conn : /\ messages'[d] = messages[d]
                      /\ stage'[d] = stage[d] /\ sendbuf'[d] = sendbuf[d]
  OBVIOUS
<1> QED
  BY <1>1, QuietOrder

LEMMA HandleOrder ==
    ASSUME IInv, OrderInv,
           \/ \E c \in Conn : HandleInput(c)
           \/ \E h \in Handle : HandleStep(h)
    PROVE  OrderInv' /\ \A d \in Conn : InTurn(d)
<1>1. RequestsOK /\ \A c \in Conn : MessagesOK(c)
  BY DEF OrderInv
<1>2. RequestsOK'
  BY <1>1, HandleInputRequests, PopRequests, FinishRequests DEF HandleStep
<1>3. stage' = stage /\ sendbuf' = sendbuf /\ messages' = messages /\ out' = out
  BY DEF HandleInput, HandleStep, Pop, Finish, linkVars
<1>4. \A c \in Conn : InTurn(c) /\ MessagesOK(c)'
  BY <1>1, <1>3, LinesStay
<1> QED
  BY <1>2, <1>4 DEF OrderInv

LEMMA InitOrder == Init => OrderInv
<1> SUFFICES ASSUME Init PROVE OrderInv
  OBVIOUS
<1>1. /\ recvq = <<>> /\ sbuffer = <<>> /\ busy = [h \in Handle |-> None]
      /\ messages = [c \in Conn |-> <<>>] /\ out = [c \in Conn |-> <<>>]
      /\ sendbuf = [c \in Conn |-> None]
  BY DEF Init
<1>2. RequestsOK
  <2> SUFFICES ASSUME NEW o \in Conn, NEW n \in Nat
               PROVE  OnePlace(o, n) /\ QueuedOnce(o, n) /\ HandledOnce(o, n) /\ PipedOnce(o, n)
    BY DEF RequestsOK
  <2>1. /\ ~InQueue(o, n) /\ ~AtHandle(o, n) /\ ~InPipe(o, n)
        /\ QueuedOnce(o, n) /\ HandledOnce(o, n) /\ PipedOnce(o, n)
    BY <1>1 DEF InQueue, AtHandle, InPipe, QueuedOnce, HandledOnce, PipedOnce
  <2>2. ~Settled(o, n)
    BY <1>1 DEF Settled, Holds
  <2> QED
    BY <2>1, <2>2 DEF OnePlace
<1>3. \A c \in Conn : MessagesOK(c)
  BY <1>1 DEF MessagesOK
<1> QED
  BY <1>2, <1>3 DEF OrderInv

LEMMA NextOrder == IInv /\ OrderInv /\ [Next]_vars => OrderInv' /\ \A c \in Conn : InTurn(c)
<1> SUFFICES ASSUME IInv, OrderInv, [Next]_vars
             PROVE  OrderInv' /\ \A c \in Conn : InTurn(c)
  OBVIOUS
<1>1. CASE AcceptStep
  <2>1. ASSUME NEW c \in Conn, Accept(c) \/ GetUniqId(c)
        PROVE  UNCHANGED <<stage, sendbuf, messages, out, recvq, busy, sbuffer, came>>
    BY <2>1 DEF Accept, GetUniqId, linkVars, workVars
  <2> QED
    BY <1>1, <2>1, StillOrder, ListOrder DEF AcceptStep
<1>2. CASE SocketStep
  BY <1>2, HandleOrder, SocketOrder DEF SocketStep
<1>3. CASE ProcessPipe
  BY <1>3, ProcessPipeOrder
<1>4. CASE CountDown("count", "epoll") \/ CountDown("timerCount", "timerUnlink")
             \/ CheckTimeout \/ EndTimeout \/ (\E c \in Conn : Age(c)) \/ UNCHANGED vars
  <2>1. UNCHANGED <<stage, sendbuf, messages, out, recvq, busy, sbuffer, came>>
    BY <1>4 DEF CountDown, CheckTimeout, EndTimeout, Age, vars, linkVars, workVars
  <2> QED
    BY <2>1, StillOrder
<1>5. CASE EndDelete
  BY <1>4, <1>5, ListOrder DEF EndDelete
<1>6. CASE TimerStep
  BY <1>4, <1>6, ListOrder, SocketOrder DEF TimerStep
<1>7. CASE \E h \in Handle : HandleStep(h)
  BY <1>7, HandleOrder
<1> QED
  BY <1>1, <1>2, <1>3, <1>4, <1>5, <1>6, <1>7 DEF Next

\* On every connection answers go out in the order the handles gave them,
\* none twice and none skipped, however the writes were cut into pieces.
THEOREM AnswersKeepOrder == Spec => AnswersInOrder
<1>1. ASSUME IInv, OrderInv, [Next]_vars
      PROVE  [\A c \in Conn : \E k \in 0 .. Len(Line(c)) :
                /\ Len(out'[c]) = Len(out[c]) + Cardinality(DueUpTo(c, k))
                /\ \A i \in DOMAIN out[c] : out'[c][i] = out[c][i]
                /\ \A i \in DueUpTo(c, k) :
                      out'[c][Len(out[c]) + Cardinality(DueUpTo(c, i))] = Line(c)[i]]_vars
  <2>1. \A c \in Conn : InTurn(c)
    BY <1>1, NextOrder
  <2> QED
    BY <2>1 DEF InTurn
<1>2. OrderInv /\ IInv /\ [Next]_vars => OrderInv'
  BY NextOrder
<1> QED
  BY <1>1, <1>2, InitIInv, NextIInv, InitOrder, PTL DEF Spec, AnswersInOrder
=============================================================================
