------------------------------- MODULE RpcCall -------------------------------
(***************************************************************************)
(* What the client promises about a set of calls, whatever queues, net     *)
(* threads and connections they pass through: a call is submitted once,    *)
(* its request reaches a connection before it can be answered, and it ends *)
(* at most once, either with the answer or with a failure, never with one  *)
(* after the other.  A one-way call ends when it has been written.         *)
(***************************************************************************)
CONSTANT Request        \* the calls

VARIABLES
    phase,      \* phase[c]: "new", "pending", "sent", "answered", "failed"
    oneWay      \* the calls made that expect no answer

vars == <<phase, oneWay>>

Init ==
    /\ phase = [c \in Request |-> "new"]
    /\ oneWay = {}

Move(c, from, to) ==
    /\ phase[c] = from
    /\ phase' = [phase EXCEPT ![c] = to]

\* The caller decides, when it makes the call, whether it wants an answer.
Begin(c, to) == Move(c, "new", to) /\ oneWay' \in {oneWay, oneWay \cup {c}}

Submit(c) == Begin(c, "pending")
Refuse(c) == Begin(c, "failed")
Transmit(c) == Move(c, "pending", "sent") /\ UNCHANGED oneWay
Answer(c) == c \notin oneWay /\ Move(c, "sent", "answered") /\ UNCHANGED oneWay
Fail(c) ==
    /\ Move(c, "pending", "failed") \/ (c \notin oneWay /\ Move(c, "sent", "failed"))
    /\ UNCHANGED oneWay

\* At most one call moves in a step.
Next == \E c \in {d \in Request : phase'[d] # phase[d]} :
            Submit(c) \/ Refuse(c) \/ Transmit(c) \/ Answer(c) \/ Fail(c)

Spec == Init /\ [][Next]_vars
=============================================================================
