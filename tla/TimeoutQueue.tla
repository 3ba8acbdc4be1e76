---------------------------- MODULE TimeoutQueue ----------------------------
(***************************************************************************)
(* The queue with the thread that owns it.  The class has no lock: one     *)
(* thread calls it.  held records, from the return values alone, which     *)
(* pointers that thread believes the queue is keeping for it.              *)
(***************************************************************************)
EXTENDS TimeoutQueueOps

CONSTANT MaxNow     \* bound of the clock

VARIABLES
    q,      \* the queue
    now,    \* TNOWMS
    held    \* pointers handed over by a successful push and not returned yet

vars == <<q, now, held>>

Init ==
    /\ q = EmptyQueue
    /\ now = 0
    /\ held = {}

\* A request enters with a generated id (AdapterProxy::invoke).
PushNew(p, deadline, hasSend) ==
    /\ p \notin held
    /\ LET id == NextId(q)
           g  == GenerateId(q)
       IN  IF CanPush(g, id)
           THEN /\ q' = Push(g, p, id, deadline, hasSend)
                /\ held' = held \cup {p}
           ELSE q' = g /\ held' = held
    /\ UNCHANGED now

\* Erase one entry by id, as a response does; an unknown id changes nothing.
Erase(id) ==
    /\ id \in Ids(q)
    /\ q' = Remove(q, id)
    /\ held' = held \ {q.data[id].ptr}
    /\ UNCHANGED now

\* The head of the send list has been written to the socket.
SendHead(del) ==
    /\ HasUnsent(q)
    /\ q' = PopSend(q, del)
    /\ held' = IF del THEN held \ {q.data[NextSend(q)].ptr} ELSE held
    /\ UNCHANGED now

\* One round of the caller's `while (timeout(t))` loop.
TimeoutOne ==
    \E id \in Expired(q, now) :
        /\ q' = Remove(q, id)
        /\ held' = held \ {q.data[id].ptr}
        /\ UNCHANGED now

Tick ==
    /\ now < MaxNow
    /\ now' = now + 1
    /\ UNCHANGED <<q, held>>

Next ==
    \/ \E p \in Ptr, d \in Deadline, s \in BOOLEAN : PushNew(p, d, s)
    \/ \E id \in Id : Erase(id)
    \/ \E del \in BOOLEAN : SendHead(del)
    \/ TimeoutOne
    \/ Tick

Spec == Init /\ [][Next]_vars
-----------------------------------------------------------------------------
\* Every container holds values of its type.
TypeOK ==
    /\ q \in Queue
    /\ now \in Nat
    /\ held \subseteq Ptr

\* The three containers describe one set of requests, whichever way each
\* request entered and left.
IndexesAgree == WellFormed(q)

\* What the owner has been told is what the queue keeps: a pointer whose
\* push succeeded is in exactly one entry until some call returns it.  A
\* pointer missing here is a request nobody completes; one in two entries
\* is completed, and deleted, twice.
NothingLostOrDoubled ==
    /\ held = {q.data[i].ptr : i \in Ids(q)}
    /\ \A i, j \in Ids(q) : q.data[i].ptr = q.data[j].ptr => i = j

\* First come, first sent, whatever leaves the table: a request that waited
\* before a step and still waits after it has only requests before it that
\* were before it already, so nobody overtakes.
SendOrderKept ==
    [][\A i, j \in DOMAIN q.send' : i < j =>
         \A b \in DOMAIN q.send : q.send[b] = q.send'[j] =>
            \E a \in DOMAIN q.send : a < b /\ q.send[a] = q.send'[i]]_q
=============================================================================
