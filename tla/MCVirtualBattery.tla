-------------------------- MODULE MCVirtualBattery --------------------------
(***************************************************************************)
(* Instances of VirtualBattery for TLC.  Temperatures are degrees away     *)
(* from the lower set point, powers half kilowatts, times commits of 30 s. *)
(***************************************************************************)
EXTENDS VirtualBattery, TLC

CONSTANTS h1, w1, w2

\* A house and its heater; with a heater that belongs to no house.
Two == {h1, w1}
Three == {h1, w1, w2}
Houses == {h1}
Heaters == h1 :> w1

\* Temperatures on both sides of every limit of the two classes: a tank is
\* depleted, in range, full or beyond a limit with and without hysteresis; a
\* house also sits between its two ranges.
AllTemps == [waterheater |-> {-4, -2, 0, 2, 4}, house |-> {-4, -2, 0, 3, 5, 7, 9, 12}]

\* Temperatures that stay inside the request ranges: no device ever exits.
MildTemps == [waterheater |-> {0, 1}, house |-> {0, 1}]

Idle == [d \in Device |-> 0]
=============================================================================
