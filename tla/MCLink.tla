-------------------------------- MODULE MCLink --------------------------------
(* Packets of one and of two bytes, a queue of three; the ring of the pipe *)
(* begins with three records instead of sixteen.                           *)
EXTENDS Link, TLC

CONSTANTS p1, p2, p3

MCSize == (p1 :> 1) @@ (p2 :> 1) @@ (p3 :> 2)
==============================================================================
