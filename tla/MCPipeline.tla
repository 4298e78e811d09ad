----------------------------- MODULE MCPipeline -----------------------------
(***************************************************************************)
(* An instance of Pipeline for TLC: the simulation has three rows, and the *)
(* baseline run starts and stops before, with, between or after them.      *)
(***************************************************************************)
EXTENDS Pipeline

Simulated == <<2, 3, 4>>
Baselines == {[k \in 1..(stop - start + 1) |-> start + k - 1] : start \in 1..5, stop \in 1..5}
=============================================================================
