----------------------------- MODULE RemoteCall -----------------------------
(***************************************************************************)
(* What the simulation can rely on when it calls the Julia server: a call  *)
(* is executed once and then returns, and the next call is made only after *)
(* that.  The server may break down; what it has not executed by then      *)
(* never returns.                                                          *)
(***************************************************************************)
EXTENDS Naturals

VARIABLES
  called,     \* calls made so far
  executed,   \* calls whose answer has been computed
  returned,   \* calls that have returned
  broken      \* there is no server any more

vars == <<called, executed, returned, broken>>

Init == called = 0 /\ executed = 0 /\ returned = 0 /\ broken = FALSE

Call ==
  /\ returned = called
  /\ called' = called + 1
  /\ UNCHANGED <<executed, returned, broken>>

Execute ==
  /\ ~broken /\ executed < called
  /\ executed' = executed + 1
  /\ UNCHANGED <<called, returned, broken>>

Return ==
  /\ returned < executed
  /\ returned' = returned + 1
  /\ UNCHANGED <<called, executed, broken>>

Break ==
  /\ ~broken
  /\ broken' = TRUE
  /\ UNCHANGED <<called, executed, returned>>

Next == Call \/ Execute \/ Return \/ Break

Safe == Init /\ [][Next]_vars
Spec == Safe /\ WF_vars(Execute) /\ WF_vars(Return)
=============================================================================
