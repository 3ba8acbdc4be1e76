---------------------------- MODULE MCLoopQueue ----------------------------
(* A ring of three elements, pushed one, two or three at a time, so that    *)
(* both indices wrap at every offset and the queue is filled to the brim.   *)
EXTENDS LoopQueue

CONSTANTS v1, v2

MCBatches == {<<v1>>, <<v2>>, <<v1, v2>>, <<v2, v1, v1>>}
=============================================================================
