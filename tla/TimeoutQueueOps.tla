-------------------------- MODULE TimeoutQueueOps ---------------------------
(***************************************************************************)
(* KT_TimeoutQueueNew<T> (util/kt_timeout_queue_new.h): the table in which *)
(* an AdapterProxy keeps the requests it owns.  One entry is reachable in  *)
(* three ways that must agree at all times:                                *)
(*   data  unordered_map   id -> pointer, "already sent" flag, deadline    *)
(*   time  multimap        deadline -> id, expired from the front          *)
(*   send  list            ids not sent yet, in the order they go out      *)
(* The code holds iterators from each container into the others; here an   *)
(* iterator is the id it leads to.  The operators below are the methods,   *)
(* as functions of the queue value; TimeoutQueue makes a state machine of  *)
(* them and ClientInvoke keeps one such queue per connection.              *)
(***************************************************************************)
EXTENDS Naturals, Sequences, FiniteSets

CONSTANTS
    IdSpace,    \* number of values of the id counter (2^32 for uint32_t)
    Ptr,        \* the pointers the owner may store
    Deadline    \* the absolute deadlines push is called with

ASSUME IdSpaceAssumption == IdSpace \in Nat /\ IdSpace > 1
ASSUME DeadlineAssumption == Deadline \subseteq Nat

Id == 0 .. (IdSpace - 1)

Entry == [ptr : Ptr, hasSend : BOOLEAN, deadline : Deadline]

\* A queue value: data is a function on the ids in use.
Table == UNION {[S -> Entry] : S \in SUBSET Id}
Queue == [uniqId : Id, data : Table, time : SUBSET (Deadline \X Id), send : Seq(Id)]

EmptyQueue == [uniqId |-> 0, data |-> [i \in {} |-> {}], time |-> {}, send |-> <<>>]

\* The ids that have an entry, and the ids linked into the send list.
Ids(q) == DOMAIN q.data
Elements(s) == {s[k] : k \in DOMAIN s}
Unsent(q) == Elements(q.send)

\* The operators named Mut... are never used by the specification: each is a
\* definition with a plausible slip, which a property must detect.

\* generateId(): the next value of the wrapping counter, never 0, which the
\* client reserves for push messages of the server.
MutNextIdUnwrapped(q) == IF q.uniqId + 1 = IdSpace THEN IdSpace ELSE q.uniqId + 1

NextId(q) ==
    LET i == (q.uniqId + 1) % IdSpace
    IN  IF i = 0 THEN (i + 1) % IdSpace ELSE i

GenerateId(q) == [q EXCEPT !.uniqId = NextId(q)]

\* The entry at position k leaves the list, the others keep their order.
DeleteAt(s, k) ==
    [j \in 1 .. (Len(s) - 1) |-> IF j < k THEN s[j] ELSE s[j + 1]]

\* _send.erase(sendIter) for the entry of this id.
Unlink(s, id) == DeleteAt(s, CHOOSE k \in DOMAIN s : s[k] = id)

\* push(): refused when the id is taken, otherwise all three containers.
MutCanPushAlways(q, id) == TRUE

CanPush(q, id) == id \notin Ids(q)

MutPushNewestFirst(q, p, id, deadline, hasSend) ==
    [q EXCEPT !.data = [i \in Ids(q) \cup {id} |->
                           IF i = id
                           THEN [ptr |-> p, hasSend |-> hasSend, deadline |-> deadline]
                           ELSE q.data[i]],
              !.time = @ \cup {<<deadline, id>>},
              !.send = IF hasSend THEN @ ELSE <<id>> \o @]

Push(q, p, id, deadline, hasSend) ==
    [q EXCEPT !.data = [i \in Ids(q) \cup {id} |->
                           IF i = id
                           THEN [ptr |-> p, hasSend |-> hasSend, deadline |-> deadline]
                           ELSE q.data[i]],
              !.time = @ \cup {<<deadline, id>>},
              !.send = IF hasSend THEN @ ELSE Append(@, id)]

\* erase(), get(.., true) and the removal inside timeout(): the entry leaves
\* time and data, and send when it has not been sent.
MutRemoveKeepsLink(q, id) ==
    [q EXCEPT !.data = [i \in Ids(q) \ {id} |-> q.data[i]],
              !.time = @ \ {<<q.data[id].deadline, id>>}]

Remove(q, id) ==
    [q EXCEPT !.data = [i \in Ids(q) \ {id} |-> q.data[i]],
              !.time = @ \ {<<q.data[id].deadline, id>>},
              !.send = IF q.data[id].hasSend THEN @ ELSE Unlink(@, id)]

\* getSend(): the entry that must go out next (the back of the C++ list).
HasUnsent(q) == q.send # <<>>
NextSend(q) == Head(q.send)

\* popSend(del): the head of the send list is marked sent; with del (a
\* one-way request) the entry disappears altogether.
PopSend(q, del) ==
    LET id == Head(q.send)
    IN  [q EXCEPT !.data = IF del
                           THEN [i \in Ids(q) \ {id} |-> q.data[i]]
                           ELSE [@ EXCEPT ![id].hasSend = TRUE],
                  !.time = IF del THEN @ \ {<<q.data[id].deadline, id>>} ELSE @,
                  !.send = Tail(@)]

\* timeout(t): the ids of the earliest entries whose deadline has passed.
\* Entries with one deadline leave in the multimap's insertion order; which
\* of them is first makes no difference to any property and is left open.
Expired(q, now) ==
    {i \in Id : \E e \in q.time :
        /\ e[2] = i
        /\ e[1] <= now
        /\ \A f \in q.time : e[1] <= f[1]}
-----------------------------------------------------------------------------
\* The timer index and the table name the same entries with the same
\* deadlines: no timer entry leads to an erased request (a dangling
\* dataIter), and no request is without a timer (it could never time out).
TimeIndexAgrees(q) == q.time = {<<q.data[i].deadline, i>> : i \in Ids(q)}

\* The send list links exactly the entries whose hasSend flag is clear, each
\* once: timeout() and erase() trust the flag to decide whether sendIter is
\* an iterator that may be erased.
SendIndexAgrees(q) ==
    /\ Unsent(q) = {i \in Ids(q) : ~q.data[i].hasSend}
    /\ \A j, k \in DOMAIN q.send : q.send[j] = q.send[k] => j = k

\* The id 0 is never given to a request (finishInvoke_parallel treats a
\* response with id 0 as a message the server pushed).
ZeroIsReserved(q) == 0 \notin Ids(q)

\* The three containers describe one set of requests.
WellFormed(q) == TimeIndexAgrees(q) /\ SendIndexAgrees(q) /\ ZeroIsReserved(q)
=============================================================================
