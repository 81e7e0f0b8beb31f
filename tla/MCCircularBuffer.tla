--------------------------- MODULE MCCircularBuffer ---------------------------
(* Instances of CircularBuffer for TLC: three items are enough to tell any  *)
(* two orders apart while the array doubles twice.                          *)
EXTENDS CircularBuffer, TLC

Symmetry == Permutations(Item)
==============================================================================
