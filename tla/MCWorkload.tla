------------------------------ MODULE MCWorkload ------------------------------
(* Every policy, one or two passes over three layers, with at most one      *)
(* collective that is active; with DLRM the layers below the wait for the   *)
(* embeddings exchange all-to-all, or those above too, or none.             *)
EXTENDS Workload, TLC

\* No compute time, one everywhere, and two that vary with phase and layer.
Times == {[x \in Piece |-> 0], [x \in Piece |-> 1],
          [x \in Piece |-> (x[2] + (IF x[1] = "wg" THEN 1 ELSE 0)) % 3],
          [x \in Piece |-> IF x[1] = "fwd" THEN 2 ELSE x[2] % 2]}

Setups(policies, all_to_all) ==
  [policy : policies, id : {0, 1}, total_pass : {1, 2}, time : Times,
   active : {{}} \cup {{x} : x \in Piece}, all_to_all : all_to_all]

MCSetup == Setups(Policies, {{}}) \cup Setups({"DLRM"}, {0 .. LastBottom - 1, 0 .. LastBottom})
==============================================================================
