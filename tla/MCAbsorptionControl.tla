------------------------ MODULE MCAbsorptionControl -------------------------
(***************************************************************************)
(* Instances of AbsorptionControl for TLC: a substation, and three         *)
(* supernodes in a ring of switches behind it.                             *)
(***************************************************************************)
EXTENDS AbsorptionControl, TLC

CONSTANTS h1, h2

Nodes == {1, 101, 201, 301}
Ring == {{1, 101}, {101, 201}, {101, 301}, {201, 301}}
Round == {1, 101} :> 1 @@ {101, 201} :> 101 @@ {201, 301} :> 201 @@ {101, 301} :> 301
From100 == {n \in Nodes : n >= 100}

\* A house at two of the nodes in the ring; load, but no house, at the third.
Houses == {h1, h2}
AtNodes == h1 :> 201 @@ h2 :> 301

\* Each node listed is the lowest that a branch joins to one listed before: the
\* whole ring is listed in two ways.
LowestFirst(i, branches) ==
  CHOOSE list \in [1..Cardinality(i) -> i] :
    \A k \in 1..Cardinality(i) :
      LET seen == {list[j] : j \in 1..(k - 1)}
          next == IF k = 1 THEN i ELSE {n \in i \ seen : \E m \in seen : {m, n} \in branches}
      IN  list[k] \in next /\ \A n \in next : list[k] <= n

\* No fault, one at the substation, one at a node with a house and one at the node
\* without: switches the optimization may open do the rest.
Faults == {{}, {1}, {101}, {201}}
=============================================================================
