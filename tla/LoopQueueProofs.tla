-------------------------- MODULE LoopQueueProofs --------------------------
(***************************************************************************)
(* The lock-free ring is a bounded FIFO queue, for every size, every set   *)
(* of elements and every way of pushing them in batches.  The argument:    *)
(* the consumer can only make room, so the room the producer found stays   *)
(* (RoomForTodo); therefore the slot it fills holds no element, and what   *)
(* the consumer has copied stays the oldest element (CopyIsOldest).        *)
(***************************************************************************)
EXTENDS LoopQueue, TLAPS

\* What the producer has stored and not yet published.
StoredIsHead == stored => todo # <<>> /\ p[iBegin] = Head(todo)

IInv == TypeOK /\ RoomForTodo /\ CopyIsOldest /\ StoredIsHead

LEMMA SizeFacts == Size \in Nat /\ Size > 0 /\ Capacity = Size + 1 /\ Slot = 0 .. Size
BY LoopQueueAssumption DEF Capacity, Slot

\* The number of elements is between 0 and Size, and an index that moves on
\* stays an index.
LEMMA IndexFacts ==
    ASSUME TypeOK
    PROVE  /\ Used \in 0 .. Size
           /\ After(iBegin) \in Slot /\ After(iEnd) \in Slot
           /\ iEnd = iBegin <=> Used = 0
           /\ \A k \in 1 .. Used : SlotOf(k) \in Slot
           /\ Used < Size => \A k \in 1 .. Used : SlotOf(k) # iBegin
           /\ SlotOf(1) = iEnd
BY SizeFacts DEF TypeOK, Used, After, SlotOf

\* The test of push_back is exact.
LEMMA NoRoomLemma ==
    ASSUME TypeOK, NEW n \in Nat
    PROVE  NoRoom(n) <=> Used + n > Size
BY SizeFacts DEF TypeOK, Used, NoRoom

LEMMA SeqFacts ==
    ASSUME NEW S, NEW s \in Seq(S), s # <<>>
    PROVE  /\ Head(s) \in S
           /\ Tail(s) \in Seq(S)
           /\ Len(s) \in Nat /\ Len(s) > 0
           /\ Len(Tail(s)) = Len(s) - 1
OBVIOUS

LEMMA InitIInv == Init => IInv
<1> SUFFICES ASSUME Init PROVE IInv
  OBVIOUS
<1>1. TypeOK
  <2>1. <<>> \in Seq(Val) /\ 0 \in Slot
    BY SizeFacts
  <2> QED
    BY <2>1 DEF Init, TypeOK
<1>2. RoomForTodo /\ CopyIsOldest /\ StoredIsHead
  BY DEF Init, RoomForTodo, CopyIsOldest, StoredIsHead
<1> QED
  BY <1>1, <1>2 DEF IInv

LEMMA NextIInv == IInv /\ [Next]_vars => IInv'
<1> SUFFICES ASSUME IInv, [Next]_vars
             PROVE  IInv'
  OBVIOUS
<1> USE SizeFacts DEF IInv
<1>0. /\ Used \in 0 .. Size
      /\ After(iBegin) \in Slot /\ After(iEnd) \in Slot
      /\ iEnd = iBegin <=> Used = 0
  BY IndexFacts
<1>1. ASSUME NEW vt \in Batches, PushBack(vt)
      PROVE  IInv'
  <2>1. vt \in Seq(Val) /\ Len(vt) \in Nat
    BY LoopQueueAssumption
  <2>2. Used + Len(vt) <= Size
    BY <1>1, <2>1, <1>0, NoRoomLemma DEF PushBack
  <2>3. Used' = Used
    BY <1>1 DEF PushBack, Used, consumer
  <2>4. TypeOK'
    BY <1>1, <2>1 DEF PushBack, TypeOK, consumer
  <2>5. RoomForTodo'
    BY <1>1, <2>2, <2>3 DEF PushBack, RoomForTodo
  <2>6. CopyIsOldest'
    BY <1>1, <2>3 DEF PushBack, CopyIsOldest, consumer
  <2>7. StoredIsHead'
    BY <1>1 DEF PushBack, StoredIsHead
  <2> QED
    BY <2>4, <2>5, <2>6, <2>7
<1>2. CASE Store
  <2>1. Head(todo) \in Val /\ Len(todo) \in Nat /\ Len(todo) > 0
    BY <1>2, SeqFacts DEF Store, TypeOK
  <2>2. Used < Size /\ Used' = Used
    BY <1>0, <1>2, <2>1 DEF Store, RoomForTodo, Used, consumer
  <2>3. TypeOK'
    BY <1>2, <2>1 DEF Store, TypeOK, consumer
  <2>4. RoomForTodo'
    BY <1>2, <2>2 DEF Store, RoomForTodo
  <2>5. CopyIsOldest'
    BY <1>0, <1>2, <2>2 DEF Store, CopyIsOldest, TypeOK, consumer
  <2>6. StoredIsHead'
    BY <1>2 DEF Store, StoredIsHead, TypeOK
  <2> QED
    BY <2>3, <2>4, <2>5, <2>6
<1>3. CASE Publish
  <2>1. todo # <<>>
    BY <1>3 DEF Publish, StoredIsHead
  <2>2. /\ Tail(todo) \in Seq(Val)
        /\ Len(todo) \in Nat /\ Len(todo) > 0
        /\ Len(Tail(todo)) = Len(todo) - 1
    BY <2>1, SeqFacts DEF TypeOK
  <2>3. Used' = Used + 1
    <3>1. Used < Size
      BY <1>0, <2>1, <2>2 DEF RoomForTodo
    <3> QED
      BY <1>3, <3>1 DEF Publish, Used, After, TypeOK, consumer
  <2>4. TypeOK'
    BY <1>0, <1>3, <2>2 DEF Publish, TypeOK, consumer
  <2>5. RoomForTodo'
    BY <1>0, <1>3, <2>1, <2>2, <2>3 DEF Publish, RoomForTodo
  <2>6. CopyIsOldest'
    BY <1>0, <1>3, <2>3 DEF Publish, CopyIsOldest, consumer
  <2>7. StoredIsHead'
    BY <1>3 DEF Publish, StoredIsHead
  <2> QED
    BY <2>4, <2>5, <2>6, <2>7
<1>4. CASE Copy
  <2>1. Used' = Used
    BY <1>4 DEF Copy, Used, producer
  <2>2. TypeOK'
    BY <1>4 DEF Copy, TypeOK, producer
  <2>3. RoomForTodo'
    BY <1>4, <2>1 DEF Copy, RoomForTodo, producer
  <2>4. CopyIsOldest'
    BY <1>0, <1>4, <2>1 DEF Copy, CopyIsOldest, producer
  <2>5. StoredIsHead'
    BY <1>4 DEF Copy, StoredIsHead, producer
  <2> QED
    BY <2>2, <2>3, <2>4, <2>5
<1>5. CASE Release
  <2>1. Used' = Used - 1
    <3>1. Used > 0
      BY <1>5 DEF Release, CopyIsOldest
    <3> QED
      BY <1>5, <3>1 DEF Release, Used, After, TypeOK, producer
  <2>2. TypeOK'
    BY <1>0, <1>5 DEF Release, TypeOK, producer
  <2>3. RoomForTodo'
    <3>1. todo # <<>> => Len(todo) \in Nat
      BY SeqFacts DEF TypeOK
    <3> QED
      BY <1>0, <1>5, <2>1, <3>1 DEF Release, RoomForTodo, producer
  <2>4. CopyIsOldest'
    BY <1>5 DEF Release, CopyIsOldest
  <2>5. StoredIsHead'
    BY <1>5 DEF Release, StoredIsHead, producer
  <2> QED
    BY <2>2, <2>3, <2>4, <2>5
<1>6. CASE UNCHANGED vars
  BY <1>6 DEF vars, producer, consumer, TypeOK, RoomForTodo, CopyIsOldest, StoredIsHead, Used
<1> QED
  BY <1>1, <1>2, <1>3, <1>4, <1>5, <1>6 DEF Next
-----------------------------------------------------------------------------
\* Every reachable state is well typed, so both indices stay within the ring.
THEOREM RingTypes == Spec => []TypeOK
<1>1. IInv => TypeOK
  BY DEF IInv
<1> QED
  BY InitIInv, NextIInv, <1>1, PTL DEF Spec

\* What a push still has to store fits: the producer never overwrites an
\* element the consumer has not given back (push_back's test of _iEnd stays
\* good however late it is acted upon).
THEOREM PushNeverOverwrites == Spec => []RoomForTodo
<1>1. IInv => RoomForTodo
  BY DEF IInv
<1> QED
  BY InitIInv, NextIInv, <1>1, PTL DEF Spec

\* What pop_front has copied is the oldest element until it gives back the
\* slot.
THEOREM PopTakesOldest == Spec => []CopyIsOldest
<1>1. IInv => CopyIsOldest
  BY DEF IInv
<1> QED
  BY InitIInv, NextIInv, <1>1, PTL DEF Spec

\* push_back refuses exactly when the elements do not fit.
THEOREM RefusesExactly == Spec => []RefusalIsExact
<1>1. IInv => RefusalIsExact
  <2> SUFFICES ASSUME IInv, NEW vt \in Batches
               PROVE  NoRoom(Len(vt)) <=> Used + Len(vt) > Size
    BY DEF RefusalIsExact
  <2>1. Len(vt) \in Nat
    BY LoopQueueAssumption
  <2> QED
    BY <2>1, NoRoomLemma DEF IInv
<1> QED
  BY InitIInv, NextIInv, <1>1, PTL DEF Spec
-----------------------------------------------------------------------------
(* The refinement.                                                          *)

LEMMA ContentFacts ==
    ASSUME TypeOK
    PROVE  /\ Content \in Seq(Val \cup {Junk})
           /\ Len(Content) = Used
           /\ \A k \in 1 .. Used : Content[k] = p[SlotOf(k)]
<1>1. Used \in Nat /\ \A k \in 1 .. Used : SlotOf(k) \in Slot
  BY SizeFacts, IndexFacts
<1>2. Content \in [1 .. Used -> Val \cup {Junk}]
  BY <1>1 DEF Content, TypeOK
<1> QED
  BY <1>1, <1>2 DEF Content

\* Two sequences with the same elements are equal.
LEMMA SeqEqual ==
    ASSUME NEW S, NEW s \in Seq(S), NEW t \in Seq(S), Len(s) = Len(t),
           \A k \in 1 .. Len(s) : s[k] = t[k]
    PROVE  s = t
OBVIOUS

\* Publishing appends the stored element.
LEMMA PublishPuts == IInv /\ IInv' /\ Publish => Fifo!Put
<1> SUFFICES ASSUME IInv, IInv', Publish
             PROVE  Fifo!Put
  OBVIOUS
<1> USE SizeFacts DEF IInv
<1> DEFINE v == Head(todo)
<1>1. todo # <<>> /\ p[iBegin] = v
  BY DEF Publish, StoredIsHead
<1>2. v \in Val /\ Len(todo) \in Nat /\ Len(todo) > 0
  BY <1>1, SeqFacts DEF TypeOK
<1>3. Used \in Nat /\ Used < Size
  BY <1>1, <1>2, IndexFacts DEF RoomForTodo
<1>4. /\ Used' = Used + 1
      /\ \A k \in 1 .. Used : SlotOf(k)' = SlotOf(k)
      /\ SlotOf(Used + 1) = iBegin
      /\ \A k \in 1 .. (Used + 1) : SlotOf(k)' = SlotOf(k)
  BY <1>3 DEF Publish, Used, SlotOf, After, TypeOK, consumer
<1>5. /\ Content \in Seq(Val \cup {Junk}) /\ Len(Content) = Used
      /\ \A k \in 1 .. Used : Content[k] = p[SlotOf(k)]
  BY ContentFacts
<1>6. Content' = [k \in 1 .. Used' |-> p'[SlotOf(k)']]
  BY DEF Content
<1>7. /\ Len(Content') = Used + 1
      /\ \A k \in 1 .. Used : Content'[k] = Content[k]
      /\ Content'[Used + 1] = v
      /\ Content' \in Seq(Val \cup {Junk})
  <2>1. p' = p
    BY DEF Publish
  <2>2. \A k \in 1 .. (Used + 1) : SlotOf(k) \in Slot
    BY <1>3 DEF SlotOf, TypeOK
  <2>3. Content' \in [1 .. (Used + 1) -> Val \cup {Junk}]
    BY <1>4, <1>6, <2>1, <2>2 DEF TypeOK
  <2> QED
    BY <1>1, <1>3, <1>4, <1>5, <1>6, <2>1, <2>3
<1>8. Content' = Append(Content, v)
  <2>1. /\ Append(Content, v) \in Seq(Val \cup {Junk})
        /\ Len(Append(Content, v)) = Used + 1
        /\ \A k \in 1 .. Used : Append(Content, v)[k] = Content[k]
        /\ Append(Content, v)[Used + 1] = v
    BY <1>2, <1>3, <1>5
  <2>2. \A k \in 1 .. (Used + 1) : Content'[k] = Append(Content, v)[k]
    <3> SUFFICES ASSUME NEW k \in 1 .. (Used + 1)
                 PROVE  Content'[k] = Append(Content, v)[k]
      OBVIOUS
    <3>1. CASE k = Used + 1
      BY <3>1, <1>7, <2>1
    <3>2. CASE k # Used + 1
      <4>1. k \in 1 .. Used
        BY <3>2, <1>3
      <4> QED
        BY <4>1, <1>7, <2>1
    <3> QED
      BY <3>1, <3>2
  <2> QED
    BY <1>7, <2>1, <2>2, SeqEqual
<1> QED
  BY <1>2, <1>3, <1>5, <1>8 DEF Fifo!Put, Publish, consumer

\* Releasing the slot takes the oldest element out.
LEMMA ReleaseGets == IInv /\ IInv' /\ Release => Fifo!Get
<1> SUFFICES ASSUME IInv, IInv', Release
             PROVE  Fifo!Get
  OBVIOUS
<1> USE SizeFacts DEF IInv
<1>1. Used \in Nat /\ Used > 0 /\ taken = p[iEnd]
  BY IndexFacts DEF Release, CopyIsOldest
<1>2. /\ Used' = Used - 1
      /\ SlotOf(1) = iEnd
      /\ \A k \in 1 .. (Used - 1) : SlotOf(k)' = SlotOf(k + 1)
  <2>1. Used' = Used - 1 /\ SlotOf(1) = iEnd
    BY <1>1 DEF Release, Used, SlotOf, After, TypeOK, producer
  <2>2. Used <= Size
    BY IndexFacts
  <2>3. ASSUME NEW k \in 1 .. (Used - 1)
        PROVE  SlotOf(k)' = SlotOf(k + 1)
    <3>1. CASE iEnd = Size
      <4>1. iEnd' = 0
        BY <3>1 DEF Release, After
      <4> QED
        BY <1>1, <2>2, <3>1, <4>1 DEF SlotOf
    <3>2. CASE iEnd # Size
      <4>1. iEnd' = iEnd + 1 /\ iEnd \in Nat
        BY <3>2 DEF Release, After, TypeOK
      <4> QED
        BY <1>1, <2>2, <3>2, <4>1 DEF SlotOf
    <3> QED
      BY <3>1, <3>2
  <2> QED
    BY <2>1, <2>3
<1>3. /\ Content \in Seq(Val \cup {Junk}) /\ Len(Content) = Used
      /\ \A k \in 1 .. Used : Content[k] = p[SlotOf(k)]
  BY ContentFacts
<1>4. Content' = [k \in 1 .. Used' |-> p'[SlotOf(k)']]
  BY DEF Content
<1>5. /\ Content' \in Seq(Val \cup {Junk})
      /\ Len(Content') = Used - 1
      /\ \A k \in 1 .. (Used - 1) : Content'[k] = Content[k + 1]
  <2>1. p' = p
    BY DEF Release
  <2>2. \A k \in 1 .. Used : SlotOf(k) \in Slot
    BY IndexFacts
  <2>3. Content' \in [1 .. (Used - 1) -> Val \cup {Junk}]
    BY <1>1, <1>2, <1>4, <2>1, <2>2 DEF TypeOK
  <2> QED
    BY <1>1, <1>2, <1>3, <1>4, <2>1, <2>3
<1>6. Content # <<>> /\ Head(Content) = taken
  BY <1>1, <1>2, <1>3
<1>7. Content' = Tail(Content)
  <2>1. /\ Tail(Content) \in Seq(Val \cup {Junk})
        /\ Len(Tail(Content)) = Used - 1
        /\ \A k \in 1 .. (Used - 1) : Tail(Content)[k] = Content[k + 1]
    BY <1>1, <1>3, <1>6
  <2> QED
    BY <1>5, <2>1, SeqEqual
<1> QED
  BY <1>6, <1>7 DEF Fifo!Get, Release

\* The other steps leave the content alone.
LEMMA OthersStutter ==
    ASSUME IInv, UNCHANGED <<iBegin, iEnd, out>>, p' = p \/ Store
    PROVE  UNCHANGED <<Content, out>>
<1>1. Used' = Used /\ \A k \in 1 .. Used : SlotOf(k)' = SlotOf(k)
  BY DEF Used, SlotOf
<1>2. \A k \in 1 .. Used : p'[SlotOf(k)] = p[SlotOf(k)]
  <2>1. CASE p' = p
    BY <2>1
  <2>2. CASE Store
    <3>1. Len(todo) \in Nat /\ Len(todo) > 0
      BY <2>2, SeqFacts DEF Store, IInv, TypeOK
    <3>2. Used < Size
      BY <2>2, <3>1, SizeFacts, IndexFacts DEF Store, IInv, RoomForTodo
    <3>3. \A k \in 1 .. Used : SlotOf(k) # iBegin
      BY <3>2, IndexFacts DEF IInv
    <3> QED
      BY <2>2, <3>3 DEF Store, IInv, TypeOK
  <2> QED
    BY <2>1, <2>2
<1> QED
  BY <1>1, <1>2 DEF Content

\* KT_LoopQueue implements a bounded FIFO queue: everything one thread pushes
\* reaches the other exactly once, whole and in order, and the queue never
\* holds more than Size elements.
THEOREM RingIsFifo == Spec => ImplementsFifo
<1>1. Init => Fifo!Init
  <2> SUFFICES ASSUME Init PROVE Fifo!Init
    OBVIOUS
  <2>1. Used = 0 /\ out = Junk
    BY DEF Init, Used
  <2>2. Content = <<>>
    BY <2>1 DEF Content
  <2> QED
    BY <2>1, <2>2, LoopQueueAssumption DEF Fifo!Init
<1>2. IInv /\ IInv' /\ [Next]_vars => [Fifo!Next]_<<Content, out>>
  <2> SUFFICES ASSUME IInv, IInv', [Next]_vars
               PROVE  Fifo!Next \/ UNCHANGED <<Content, out>>
    OBVIOUS
  <2>1. CASE Publish
    BY <2>1, PublishPuts DEF Fifo!Next
  <2>2. CASE Release
    BY <2>2, ReleaseGets DEF Fifo!Next
  <2>3. CASE Store
    BY <2>3, OthersStutter DEF Store, consumer
  <2>4. CASE Copy
    BY <2>4, OthersStutter DEF Copy, producer
  <2>5. ASSUME NEW vt \in Batches, PushBack(vt)
        PROVE  UNCHANGED <<Content, out>>
    BY <2>5, OthersStutter DEF PushBack, consumer
  <2>6. CASE UNCHANGED vars
    BY <2>6, OthersStutter DEF vars, producer, consumer
  <2> QED
    BY <2>1, <2>2, <2>3, <2>4, <2>5, <2>6 DEF Next
<1> QED
  BY <1>1, <1>2, InitIInv, NextIInv, PTL DEF Spec, ImplementsFifo, Fifo!Spec
=============================================================================
