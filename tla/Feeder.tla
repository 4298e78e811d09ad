------------------------------- MODULE Feeder -------------------------------
(***************************************************************************)
(* The feeder as the islanding code sees it: supernodes joined by switched *)
(* branches, the branches cut off when nodes are faulted (isolate_nodes of *)
(* julia/islanding.jl) and the islands the closed ones leave               *)
(* (process_islands of absorption.py).  The module has no state; module    *)
(* Islanding shows how the islands are computed.                           *)
(***************************************************************************)
EXTENDS Integers

CONSTANTS
  Node,     \* the supernodes
  Swing,    \* swing_sn, the one at the substation
  Branch    \* pairs of nodes joined by a switch

ASSUME FeederAssumption == Swing \in Node /\ Branch \subseteq SUBSET Node

\* (mutant) looks at one end of each branch only.
IsolatedOneEnd(nodes) == {b \in Branch : b \subseteq nodes}

\* isolate_nodes: the branches out of use while these nodes are faulted.
Isolated(nodes) == {b \in Branch : b \cap nodes # {}}

\* get_connected_group: the smallest set of nodes with n that no branch leaves.
Component(n, branches) ==
  {m \in Node : \A S \in SUBSET Node :
     n \in S /\ (\A b \in branches : b \cap S # {} => b \subseteq S) => m \in S}

\* process_islands: the components without the substation whose first node (any
\* of them, by the order of a Python set) is not faulted.
IslandSets(branches, faulted) ==
  LET islandable == {Component(n, branches) : n \in Node \ {Swing}} \ {Component(Swing, branches)}
  IN  {new \in SUBSET islandable :
         \A i \in islandable : /\ i \in new => i \ faulted # {}
                               /\ i \notin new => i \cap faulted # {}}
=============================================================================
