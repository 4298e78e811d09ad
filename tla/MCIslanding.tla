----------------------------- MODULE MCIslanding -----------------------------
(***************************************************************************)
(* An instance of Islanding for TLC: the substation, at bus 1, feeds two   *)
(* rings that share a branch.                                              *)
(***************************************************************************)
EXTENDS Islanding

Nodes == 1..5
TwoRings == <<{1, 2}, {2, 3}, {3, 4}, {2, 4}, {4, 5}, {3, 5}>>
Branches == {TwoRings[i] : i \in DOMAIN TwoRings}

\* No fault, one that opens both rings, one at the substation and one beyond.
Faults == {{}, {4}, {1, 5}}
=============================================================================
