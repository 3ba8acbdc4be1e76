---------------------------- MODULE BoundedFifo ----------------------------
(***************************************************************************)
(* What a thread's queue to the net thread promises its two ends: at most  *)
(* Size elements, each delivered once, in the order they were put in.      *)
(***************************************************************************)
EXTENDS Naturals, Sequences

CONSTANTS Val, Size

VARIABLES
    queue,      \* the elements put in and not taken out
    out         \* the element taken out last

Init ==
    /\ queue = <<>>
    /\ out \notin Val

Put ==
    /\ Len(queue) < Size
    /\ \E v \in Val : queue' = Append(queue, v)
    /\ UNCHANGED out

Get ==
    /\ queue # <<>>
    /\ out' = Head(queue)
    /\ queue' = Tail(queue)

Next == Put \/ Get

Spec == Init /\ [][Next]_<<queue, out>>
=============================================================================
