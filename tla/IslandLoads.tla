----------------------------- MODULE IslandLoads -----------------------------
(***************************************************************************)
(* What a virtual battery promises about the loads of its island: which of *)
(* them it controls and what each was last told.  A load it has let go of  *)
(* stays off until it is taken in again.                                   *)
(***************************************************************************)
CONSTANT Load

VARIABLES
  members,   \* loads the battery controls
  told       \* what the simulator was last told to do with each load

vars == <<members, told>>

Words == {"free", "off", "on", "cool", "heat"}

Init == members = Load /\ told = [d \in Load |-> "free"]

\* A commit orders some of the members.
Command ==
  /\ told' \in [Load -> Words]
  /\ \A d \in Load : told'[d] # told[d] => d \in members /\ told'[d] # "free"
  /\ UNCHANGED members

\* Some of the members are told to stay off and let go.
Release ==
  /\ members' \subseteq members
  /\ told' = [d \in Load |-> IF d \in members \ members' THEN "off" ELSE told[d]]

\* A load that has been told to stay off is forgotten.
Forget ==
  /\ members' \subseteq members
  /\ \A d \in members \ members' : told[d] = "off"
  /\ UNCHANGED told

\* Loads are taken in, as they are.
Include ==
  /\ members' \subseteq Load /\ members \subseteq members'
  /\ UNCHANGED told

Next == Command \/ Release \/ Forget \/ Include

Spec == Init /\ [][Next]_vars
=============================================================================
