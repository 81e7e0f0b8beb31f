------------------------------- MODULE Training -------------------------------
(***************************************************************************)
(* What a workload promises: so many passes over its layers, one after the *)
(* other, and in each pass every piece of work once.  The forward pieces   *)
(* come first, in the order of the layers; the gradients follow, from the  *)
(* last layer to the first.                                                *)
(***************************************************************************)
EXTENDS Naturals

CONSTANT Size   \* the number of layers

Layer == 0 .. Size - 1
Piece == {"fwd", "ig", "wg"} \X Layer

VARIABLES
  work,        \* the pieces of a pass
  total_pass,
  pass,        \* the passes that are over
  todo         \* the pieces of this pass that have not begun

vars == <<work, total_pass, pass, todo>>

Init ==
  /\ work \in SUBSET Piece /\ total_pass \in Nat
  /\ pass = 0
  /\ todo = work

\* What has to begin before a piece may.
Before(x) ==
  IF x[1] = "fwd" THEN {"fwd"} \X {l \in Layer : l < x[2]}
  ELSE ({"fwd"} \X Layer) \cup ({x[1]} \X {l \in Layer : l > x[2]})

Begin(x) ==
  /\ pass < total_pass
  /\ x \in todo
  /\ todo \cap Before(x) = {}
  /\ IF todo = {x} THEN todo' = work /\ pass' = pass + 1
     ELSE todo' = todo \ {x} /\ pass' = pass
  /\ UNCHANGED <<work, total_pass>>

Next == \E x \in Piece : Begin(x)

Spec == Init /\ [][Next]_vars
==============================================================================
