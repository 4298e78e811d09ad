------------------------- MODULE MCIslandManagement -------------------------
(***************************************************************************)
(* An instance of IslandManagement for TLC: two batteries with different   *)
(* rates, and baselines that end after the simulation, end within it and   *)
(* wrap, or are too short for a horizon.                                   *)
(***************************************************************************)
EXTENDS IslandManagement, TLC

CONSTANTS Small, Large

Rates == (Small :> 1) @@ (Large :> 2)
Light == [nf |-> 1, flex |-> 1, solar |-> 2]
Heavy == [nf |-> 3, flex |-> 0, solar |-> 1]
Night == [nf |-> 2, flex |-> 1, solar |-> 0]
Days == {<<Light, Heavy, Night, Light, Heavy>>, <<Heavy, Night, Light>>, <<Night, Light>>}
=============================================================================
