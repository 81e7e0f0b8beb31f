------------------------------ MODULE MCTriggers ------------------------------
(* One trigger of each class, two sources, three instants.                 *)
EXTENDS Triggers, TLC

CONSTANTS single, multi, barrier, x1, x2, x3, x4, x5

MCTargets == (single :> <<x1>>) @@ (multi :> <<x2, x3>>) @@ (barrier :> <<x4, x5>>)
MCNeeded == barrier :> 2

Symmetry == Permutations(Source)
==============================================================================
