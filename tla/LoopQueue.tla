----------------------------- MODULE LoopQueue -----------------------------
(***************************************************************************)
(* KT_LoopQueue<T> (util/kt_loop_queue.h): the ring through which a user   *)
(* thread hands its requests to a net thread.  One thread pushes, another  *)
(* pops, and there is no lock: each end owns one index and reads the       *)
(* other's.  A push or pop is therefore several steps, between which the   *)
(* other thread runs.  Each step is one access to shared memory; stores    *)
(* become visible in program order (x86-64: the fields are plain size_t,   *)
(* so on a machine with weaker ordering nothing of this is guaranteed).    *)
(***************************************************************************)
EXTENDS Integers, Sequences

CONSTANTS
    Val,        \* the elements
    Junk,       \* what malloc leaves in a slot
    Size,       \* the constructor's iSize
    Batches     \* the sequences that push_back is called with

ASSUME LoopQueueAssumption ==
    /\ Size \in Nat \ {0}
    /\ Junk \notin Val
    /\ Batches \subseteq Seq(Val)

Capacity == Size + 1
Slot == 0 .. Size

VARIABLES
    p,          \* the slots
    iBegin,     \* _iBegin, where the next element goes: written by push_back
    iEnd,       \* _iEnd, the oldest element: written by pop_front
    todo,       \* what a push_back in progress has still to store
    stored,     \* the slot p[iBegin] holds Head(todo), iBegin is not moved yet
    taken,      \* what a pop_front in progress has copied
    popping,    \* a pop_front has copied its element, iEnd is not moved yet
    out         \* what the last pop_front returned

producer == <<iBegin, todo, stored>>
consumer == <<iEnd, taken, popping, out>>
vars == <<p, producer, consumer>>

Init ==
    /\ p = [s \in Slot |-> Junk]
    /\ iBegin = 0
    /\ iEnd = 0
    /\ todo = <<>>
    /\ stored = FALSE
    /\ taken = Junk
    /\ popping = FALSE
    /\ out = Junk

\* The operators named Mut... are never used by the specification: each is a
\* definition with a plausible slip, which a property must detect.
MutAfterWrapsLate(i) == IF i > Size THEN 0 ELSE i + 1

\* An index moves on, from _iCapacitySub back to 0.
After(i) == IF i = Size THEN 0 ELSE i + 1

\* push_back(vt) refuses when these n elements may not fit.  With n = 1 the
\* test is that of push_back(t).
MutNoRoomOffByOne(n) ==
    \/ n > Capacity - 1
    \/ iEnd > iBegin /\ iEnd - iBegin < n
    \/ iBegin > iEnd /\ iBegin - iEnd > Capacity - n - 1

MutNoRoomTooStrict(n) ==
    \/ n > Capacity - 1
    \/ iEnd > iBegin /\ iEnd - iBegin < n + 1
    \/ iBegin > iEnd /\ iBegin - iEnd + n >= Capacity - 1

NoRoom(n) ==
    \/ n > Capacity - 1
    \/ iEnd > iBegin /\ iEnd - iBegin < n + 1
    \/ iBegin > iEnd /\ iBegin - iEnd > Capacity - n - 1

\* push_back reads _iEnd once; when there is no room it returns false.
PushBack(vt) ==
    /\ todo = <<>>
    /\ ~NoRoom(Len(vt))
    /\ todo' = vt
    /\ UNCHANGED <<p, iBegin, stored, consumer>>

\* memcpy into the slot.
Store ==
    /\ todo # <<>>
    /\ ~stored
    /\ p' = [p EXCEPT ![iBegin] = Head(todo)]
    /\ stored' = TRUE
    /\ UNCHANGED <<iBegin, todo, consumer>>

MutPublishUnstored ==
    /\ todo # <<>>
    /\ iBegin' = After(iBegin)
    /\ todo' = Tail(todo)
    /\ stored' = FALSE
    /\ UNCHANGED <<p, consumer>>

\* The index moves: the element is there for the consumer.
Publish ==
    /\ stored
    /\ iBegin' = After(iBegin)
    /\ todo' = Tail(todo)
    /\ stored' = FALSE
    /\ UNCHANGED <<p, consumer>>

\* pop_front of a queue that is not empty: the element is copied, then the
\* slot is given back.
Copy ==
    /\ ~popping
    /\ iEnd # iBegin
    /\ taken' = p[iEnd]
    /\ popping' = TRUE
    /\ UNCHANGED <<p, iEnd, out, producer>>

Release ==
    /\ popping
    /\ iEnd' = After(iEnd)
    /\ out' = taken
    /\ popping' = FALSE
    /\ UNCHANGED <<p, taken, producer>>

Next ==
    \/ \E vt \in Batches : PushBack(vt)
    \/ Store \/ Publish
    \/ Copy \/ Release

Spec == Init /\ [][Next]_vars
-----------------------------------------------------------------------------
\* size(), as one thread would see it if the other stood still.
Used == IF iBegin < iEnd THEN iBegin + Capacity - iEnd ELSE iBegin - iEnd

\* The slot of the k-th element in the queue.
SlotOf(k) == IF iEnd + k - 1 <= Size THEN iEnd + k - 1 ELSE iEnd + k - 1 - Capacity

Content == [k \in 1 .. Used |-> p[SlotOf(k)]]

\* Every variable holds a value of its type.
TypeOK ==
    /\ p \in [Slot -> Val \cup {Junk}]
    /\ iBegin \in Slot
    /\ iEnd \in Slot
    /\ todo \in Seq(Val)
    /\ stored \in BOOLEAN
    /\ taken \in Val \cup {Junk}
    /\ popping \in BOOLEAN
    /\ out \in Val \cup {Junk}

\* The two threads never touch one slot: the slot the producer fills is not
\* among those that hold an element, so not the one being copied either, and
\* what is still to be stored fits, however far the consumer has come since
\* push_back looked at _iEnd.
RoomForTodo == todo # <<>> => Used + Len(todo) <= Size

\* What has been copied is the oldest element until its slot is given back.
CopyIsOldest == popping => Used > 0 /\ taken = p[iEnd]

\* A push is refused only when the queue is too full for it: the test on the
\* two indices is exact.
RefusalIsExact == \A vt \in Batches : NoRoom(Len(vt)) <=> Used + Len(vt) > Size

\* The ring implements the bounded FIFO queue.
Fifo == INSTANCE BoundedFifo WITH queue <- Content

ImplementsFifo == Fifo!Spec
=============================================================================
