--------------------------- MODULE MCClientInvoke ---------------------------
(* Instances of ClientInvoke for TLC.  The first thread makes a synchronous *)
(* call; the second, with room for one request, makes two: one with a       *)
(* callback and one either with a callback, for which the async queue may   *)
(* have no room, or one-way.  The hashed variant gives those calls homes.   *)
(* The registry lists both endpoints as active, or not that of a home.      *)
EXTENDS ClientInvoke

CONSTANTS u1, u2, a1, a2, m1, m2, m3

MCKinds == [m \in Ptr |-> CASE m = m1 -> {"SYNC"}
                            [] m = m2 -> {"ASYNC"}
                            [] m = m3 -> {"ASYNC", "ONEWAY"}]
MCCaller == [m \in Ptr |-> IF m = m1 THEN u1 ELSE u2]
MCOneCaller == [m \in Ptr |-> u1]
MCNoHome == [m \in Ptr |-> None]
MCHomes == [m \in Ptr |-> CASE m = m1 -> None [] m = m2 -> a1 [] m = m3 -> a2]
MCOneList == {Adapter}
MCLists == {Adapter, {a2}}
MCDeadline == 0 .. MaxNow + ReqTimeout
=============================================================================
