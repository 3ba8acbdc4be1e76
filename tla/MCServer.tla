------------------------------ MODULE MCServer ------------------------------
(* Instance of ServerConnections for TLC: three clients, of which two fit,  *)
(* so that slots are reused; the first sends two requests.  The two clients *)
(* that send nothing are interchangeable.                                   *)
EXTENDS ServerConnections, TLC

CONSTANTS c1, c2, c3, h1

MCAsks == [c \in Conn |-> IF c = c1 THEN 2 ELSE 0]
MCSymmetry == Permutations({c2, c3})
=============================================================================
