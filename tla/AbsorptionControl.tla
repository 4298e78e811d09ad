-------------------------- MODULE AbsorptionControl --------------------------
(***************************************************************************)
(* on_commit of absorption.py over a whole simulation: faults are detected, *)
(* the feeder is split into islands, each island gets a virtual battery,   *)
(* and at every third minute island management sheds customers and plans   *)
(* the island's generation.  That is with LOAD_CONTROL on and the Julia    *)
(* server started (JuliaLink shows when it is); without, faulted nodes and *)
(* all that is fed through them are switched off.                          *)
(*                                                                         *)
(* A water heater shares the fate of its house here: houses stand for both. *)
(* What a battery does with its devices is module VirtualBattery; here     *)
(* packetize_island keeps and switches any of them.  The two optimizations *)
(* may answer anything their constraints on switches and on shed load      *)
(* allow.  An exception in on_commit ends the simulation; those modelled   *)
(* are the look-ups by island, the random choices and the baseline files,  *)
(* not those a malformed model or a malformed answer would raise.          *)
(***************************************************************************)
EXTENDS Feeder, FiniteSetsExt, Functions

CONSTANTS
  House,        \* the houses, each with its water heater
  NodeOf,       \* the supernode of a house
  From,         \* the node a branch is declared to lead from
  Residential,  \* the nodes numbered 100 or more
  Recorded,     \* the nodes with columns in Loads_baseline.csv
  SearchOrder(_, _), \* how a search lists a group of nodes joined by branches
  FaultSets,    \* the sets of supernodes that may be faulted at a commit
  ManageEvery,  \* t_manage in commits
  MaxNeed,      \* houses one shedding may ask for (bounds the model)
  MaxTime       \* STOPTIME in commits (bounds the model)

ASSUME ControlAssumption ==
  /\ IsFiniteSet(House)
  /\ NodeOf \in [House -> Node \ {Swing}]
  /\ From \in [Branch -> Node] /\ \A b \in Branch : From[b] \in b
  /\ Recorded \subseteq Residential /\ Residential \subseteq Node
  /\ FaultSets \subseteq SUBSET Node
  /\ ManageEvery \in Nat \ {0}
  /\ MaxNeed \in Nat /\ MaxTime \in Nat

VARIABLES
  Absorption,       \* the global of that name
  clock,            \* number of the commit being run or coming next
  phase,            \* where on_commit is
  faulted_nodes,
  out_of_service,   \* supernodes whose loads shutoff_loads has cut off
  closed,           \* branches whose switch is closed
  baselines_fit,    \* the two baseline files can be read and are as long as each other
  islands,          \* the lists of nodes; None and [] behave alike: {}
  islanded,
  re_island,
  Virtual_Battery,  \* the battery's devices by island; None and {} behave alike
  islanded_devices,
  baselines,        \* sets of nodes with load_baseline-... and solar_baseline-... files
  powerbal,         \* keys of the dictionary
  houses_off,       \* how often a house is listed
  interrupted,      \* houses whose meter has customer_interrupted set
  thermostat,       \* houses on their own thermostat ("FULL")
  todo              \* islands the loop of the commit has still to visit

gridVars == <<Absorption, faulted_nodes, out_of_service, closed, baselines_fit, islands, islanded>>
houseVars == <<houses_off, interrupted, thermostat>>
vars == <<clock, phase, gridVars, re_island, Virtual_Battery, islanded_devices, baselines,
          powerbal, houseVars, todo>>

NoBattery == [i \in {} |-> {}]

Init ==
  /\ Absorption \in BOOLEAN   \* LOAD_CONTROL, and whether the server started
  /\ clock = 0
  /\ phase = "waiting"
  /\ faulted_nodes = {} /\ out_of_service = {}
  /\ closed \in SUBSET Branch
  /\ baselines_fit \in BOOLEAN   \* the baseline run is over, and its files written
  /\ islands = {} /\ islanded = FALSE /\ re_island = FALSE
  /\ Virtual_Battery = NoBattery
  /\ islanded_devices = {}
  /\ baselines = {} /\ powerbal = {}
  /\ houses_off = [h \in House |-> 0]
  /\ interrupted = {}
  /\ thermostat = House
  /\ todo = {}

-----------------------------------------------------------------------------
(* Islanding.                                                              *)

\* get_components: an island is a list of its nodes, in the order the search came
\* to them.  The same nodes are listed in another order when other branches join
\* them.  Islands are listed in an order that their nodes decide.
AsLists(new, branches) ==
  {[nodes |-> i, order |-> SearchOrder(i, {b \in branches : b \subseteq i})] : i \in new}

HousesIn(i) == {h \in House : NodeOf[h] \in i.nodes}
NodeSets(some) == {i.nodes : i \in some}

\* update_VB
BatteriesFor(new) == [i \in new |-> HousesIn(i)]
DevicesIn(new) == {h \in House : \E i \in new : NodeOf[h] \in i.nodes}

\* (mutant) set up once, for the first islands.
DetectFaultsOnce(faulted) ==
  /\ Absorption /\ phase = "waiting" /\ clock <= MaxTime
  /\ faulted # faulted_nodes
  /\ faulted_nodes' = faulted
  /\ out_of_service' = out_of_service \cup (faulted \ faulted_nodes)
  /\ closed' \in SUBSET (Branch \ Isolated(faulted))
  /\ \E new \in IslandSets(closed', faulted) : islands' = AsLists(new, closed')
  /\ islanded' = TRUE
  /\ re_island' = (islands = {} /\ islands' # {})
  /\ UNCHANGED <<Virtual_Battery, islanded_devices, thermostat>>
  /\ phase' = "rebuild"
  /\ UNCHANGED <<Absorption, clock, baselines_fit, baselines, powerbal, houses_off, interrupted, todo>>

\* A change of faults: new_fault_detected, islanding, process_islands, and the
\* houses that are in no island (as islanded_devices knows them) put back on
\* their thermostats.
DetectFaults(faulted) ==
  /\ Absorption /\ phase = "waiting" /\ clock <= MaxTime
  /\ faulted # faulted_nodes
  /\ faulted_nodes' = faulted
  /\ out_of_service' = out_of_service \cup (faulted \ faulted_nodes)
  /\ closed' \in SUBSET (Branch \ Isolated(faulted))
  /\ \E new \in IslandSets(closed', faulted) : islands' = AsLists(new, closed')
  /\ islanded' = TRUE
  /\ re_island' = (islands' # islands)
  /\ IF Virtual_Battery = NoBattery /\ re_island'
     THEN /\ Virtual_Battery' = BatteriesFor(islands')
          /\ islanded_devices' = DevicesIn(islands')
     ELSE UNCHANGED <<Virtual_Battery, islanded_devices>>
  /\ thermostat' = thermostat \cup (House \ islanded_devices')
  /\ phase' = "rebuild"
  /\ UNCHANGED <<Absorption, clock, baselines_fit, baselines, powerbal, houses_off, interrupted, todo>>

NoNewFaults ==
  /\ phase = "waiting" /\ clock <= MaxTime
  /\ faulted_nodes \in FaultSets
  /\ phase' = "rebuild"
  /\ UNCHANGED <<clock, gridVars, re_island, Virtual_Battery, islanded_devices, baselines,
                 powerbal, houseVars, todo>>

\* (mutant) no baseline data for islands that follow others.
RebuildWithoutData ==
  /\ phase = "rebuild" /\ re_island
  /\ baselines_fit \/ islands = {}
  /\ Virtual_Battery' = BatteriesFor(islands)
  /\ islanded_devices' = DevicesIn(islands)
  /\ baselines' = IF baselines = {} THEN NodeSets(islands) ELSE baselines
  /\ re_island' = FALSE
  /\ UNCHANGED <<clock, phase, gridVars, powerbal, houseVars, todo>>

\* update_VB and get_island_baseline_data for the new islands.
Rebuild ==
  /\ phase = "rebuild" /\ re_island
  /\ baselines_fit \/ islands = {}
  /\ Virtual_Battery' = BatteriesFor(islands)
  /\ islanded_devices' = DevicesIn(islands)
  /\ baselines' = baselines \cup NodeSets(islands)
  /\ re_island' = FALSE
  /\ UNCHANGED <<clock, phase, gridVars, powerbal, houseVars, todo>>

\* The batteries are there when read_csv raises, or the solar data gets as index
\* the timestamps of loads with more or fewer rows.
RebuildRaises ==
  /\ phase = "rebuild" /\ re_island
  /\ ~baselines_fit /\ islands # {}
  /\ Virtual_Battery' = BatteriesFor(islands)
  /\ islanded_devices' = DevicesIn(islands)
  /\ phase' = "failed"
  /\ UNCHANGED <<clock, gridVars, re_island, baselines, powerbal, houseVars, todo>>

\* The branch on_commit takes: island management, packets alone, or nothing.
Dispatch ==
  /\ phase = "rebuild" /\ ~re_island
  /\ IF islanded /\ islanded_devices # {}
     THEN /\ phase' = IF clock % ManageEvery = 0 /\ clock < MaxTime THEN "manage" ELSE "packetize"
          /\ todo' = islands
     ELSE phase' = "manage" /\ todo' = {}
  /\ UNCHANGED <<clock, gridVars, re_island, Virtual_Battery, islanded_devices, baselines,
                 powerbal, houseVars>>

-----------------------------------------------------------------------------
(* Faults without LOAD_CONTROL.                                            *)

\* (mutant) the nodes next to it only.
DownstreamOnce(n) == {n} \cup UNION {b \in closed : From[b] = n}

\* The nodes the search of shutoff_noislanding comes to from n: the smallest set
\* with n that no closed branch leads out of.
Downstream(n) ==
  {m \in Node : \A S \in SUBSET Node :
     n \in S /\ (\A b \in closed : From[b] \in S => b \subseteq S) => m \in S}

\* The search does not remember where it has been: it follows a ring forever.
Endless(n) ==
  \E b \in closed : From[b] \in Downstream(n) /\ \E m \in b \ {From[b]} : From[b] \in Downstream(m)

\* A change of faults: the loads at the faulted nodes and downstream are shut off
\* and the closed branches at the faulted ones opened.  Nothing is put back.
ShutOff(faulted) ==
  /\ ~Absorption /\ phase = "waiting" /\ clock <= MaxTime
  /\ faulted # faulted_nodes
  /\ \A n \in faulted : ~Endless(n)
  /\ faulted_nodes' = faulted
  /\ out_of_service' = out_of_service \cup UNION {Downstream(n) : n \in faulted}
  /\ closed' = closed \ Isolated(faulted)
  /\ phase' = "rebuild"
  /\ UNCHANGED <<Absorption, clock, baselines_fit, islands, islanded, re_island, Virtual_Battery,
                 islanded_devices, baselines, powerbal, houseVars, todo>>

\* Some of the others may have been shut off before.
ShutOffHangs(faulted) ==
  /\ ~Absorption /\ phase = "waiting" /\ clock <= MaxTime
  /\ faulted # faulted_nodes
  /\ \E n \in faulted : Endless(n)
  /\ faulted_nodes' = faulted
  /\ \E before \in SUBSET {n \in faulted : ~Endless(n)} :
       out_of_service' = out_of_service \cup (faulted \ faulted_nodes)
                           \cup UNION {Downstream(n) : n \in before}
  /\ phase' = "hung"
  /\ UNCHANGED <<Absorption, clock, closed, baselines_fit, islands, islanded, re_island,
                 Virtual_Battery, islanded_devices, baselines, powerbal, houseVars, todo>>

-----------------------------------------------------------------------------
(* Island management.                                                      *)

Listed(off) == {h \in House : off[h] > 0}
LenOff == SumFunction(houses_off)

\* (mutant) one reconnection too many.
ReconnectsOneMore(need) == IF need >= LenOff THEN 0 ELSE LenOff - need + 1

\* disconnect_houses and reconnect_houses for the houses the shed load amounts to.
Disconnects(need) == IF need >= LenOff THEN need - LenOff ELSE need
Reconnects(need) == IF need >= LenOff THEN 0 ELSE LenOff - need

WithOff(gone) == [h \in House |-> houses_off[h] + (IF h \in gone THEN 1 ELSE 0)]

\* The houses a shedding may amount to.  The optimization sheds no more than the
\* load that is not flexible, which is 0 at nodes the baseline has no columns of.
Needs(i) == IF i.nodes \cap Recorded = {} THEN {0} ELSE 0..MaxNeed

\* np.random.choice of an empty list raises: the island has no node numbered 100
\* or more, whether or not it has houses, or no house is left to reconnect.
NoHouseNode(i, need) == Disconnects(need) > 0 /\ i.nodes \cap Residential = {}

ShedFails(i, need, gone) ==
  \/ NoHouseNode(i, need)
  \/ Cardinality(Listed(WithOff(gone))) < Reconnects(need)

\* packetize_island: the battery keeps some of its devices and switches some of
\* those, houses by system_mode with their thermostat off.
Packetize(i, members, onThermostat) ==
  \E kept \in SUBSET members : \E told \in SUBSET kept :
    /\ Virtual_Battery' = [Virtual_Battery EXCEPT ![i] = kept]
    /\ thermostat' = onThermostat \ told

\* (mutant) removes one of the entries of a house listed twice.
ReconnectFirst(gone, back) ==
  /\ houses_off' = [h \in House |-> WithOff(gone)[h] - (IF h \in back THEN 1 ELSE 0)]
  /\ interrupted' = (interrupted \cup gone) \ back

\* (mutant) strikes a reconnected house from the list before the new entries.
ReconnectFromOldList(gone, back) ==
  /\ houses_off' = [h \in House |-> IF h \in back THEN houses_off[h] - 1 ELSE WithOff(gone)[h]]
  /\ interrupted' = (interrupted \cup gone) \ back

\* turn_off_house and turn_on_house for the chosen houses.
Switch(gone, back) ==
  /\ houses_off' = [h \in House |-> IF h \in back THEN 0 ELSE WithOff(gone)[h]]
  /\ interrupted' = (interrupted \cup gone) \ back

\* The random choices of houses to disconnect and to reconnect.
Gone(i, need) ==
  LET members == Virtual_Battery[i]
      count == Disconnects(need)
  IN  IF Cardinality(members) <= count THEN {members} ELSE kSubset(count, members)
Back(gone, need) == kSubset(Reconnects(need), Listed(WithOff(gone)))

\* One iteration of island_management without load to shed in the results, or
\* with shed load the battery's setpoint covers or that takes "need" houses.
ManageWithoutShed(i) ==
  /\ phase = "manage" /\ i \in todo
  /\ Packetize(i, Virtual_Battery[i], thermostat)
  /\ powerbal' = powerbal \cup {i}
  /\ todo' = todo \ {i}
  /\ UNCHANGED <<clock, phase, gridVars, re_island, islanded_devices, baselines, houses_off,
                 interrupted>>

Shed(i, need) ==
  /\ phase = "manage" /\ i \in todo
  /\ \E gone \in Gone(i, need) :
       /\ ~ShedFails(i, need, gone)
       /\ \E back \in Back(gone, need) :
            /\ Switch(gone, back)
            /\ Packetize(i, (Virtual_Battery[i] \ gone) \cup back, thermostat \ gone)
  /\ powerbal' = powerbal \cup {i}
  /\ todo' = todo \ {i}
  /\ UNCHANGED <<clock, phase, gridVars, re_island, islanded_devices, baselines>>

\* The exception comes before the first disconnection, or after all listed
\* houses are reconnected.
ShedRaises(i, need) ==
  /\ phase = "manage" /\ i \in todo
  /\ \E gone \in Gone(i, need) :
       /\ ShedFails(i, need, gone)
       /\ IF NoHouseNode(i, need)
          THEN UNCHANGED <<Virtual_Battery, houseVars>>
          ELSE LET back == Listed(WithOff(gone))
               IN  /\ Switch(gone, back)
                   /\ Virtual_Battery' = [Virtual_Battery EXCEPT ![i] = (@ \ gone) \cup back]
                   /\ thermostat' = thermostat \ gone
  /\ phase' = "failed"
  /\ UNCHANGED <<clock, gridVars, re_island, islanded_devices, baselines, powerbal, todo>>

\* Between two managements: packets, then the power balance of the last plan.
PacketizeIsland(i) ==
  /\ phase = "packetize" /\ i \in todo
  /\ Packetize(i, Virtual_Battery[i], thermostat)
  /\ phase' = IF i \in powerbal THEN phase ELSE "failed"
  /\ todo' = todo \ {i}
  /\ UNCHANGED <<clock, gridVars, re_island, islanded_devices, baselines, powerbal,
                 houses_off, interrupted>>

EndCommit ==
  /\ phase \in {"manage", "packetize"} /\ todo = {}
  /\ phase' = "waiting"
  /\ clock' = clock + 1
  /\ UNCHANGED <<gridVars, re_island, Virtual_Battery, islanded_devices, baselines, powerbal,
                 houseVars, todo>>

SimulationOver ==
  /\ \/ phase \in {"failed", "hung"}
     \/ phase = "waiting" /\ clock > MaxTime
  /\ UNCHANGED vars

Next ==
  \/ \E faulted \in FaultSets : DetectFaults(faulted) \/ ShutOff(faulted) \/ ShutOffHangs(faulted)
  \/ NoNewFaults
  \/ Rebuild
  \/ RebuildRaises
  \/ Dispatch
  \/ \E i \in todo :
       \/ ManageWithoutShed(i)
       \/ \E need \in Needs(i) : Shed(i, need) \/ ShedRaises(i, need)
       \/ PacketizeIsland(i)
  \/ EndCommit
  \/ SimulationOver

Spec == Init /\ [][Next]_vars

-----------------------------------------------------------------------------
(* Properties.                                                             *)

Phases == {"waiting", "rebuild", "manage", "packetize", "failed", "hung"}

\* Every variable has the type of the Python value it stands for.
TypeOK ==
  /\ Absorption \in BOOLEAN
  /\ clock \in Nat /\ phase \in Phases
  /\ faulted_nodes \subseteq Node /\ out_of_service \subseteq Node
  /\ closed \subseteq Branch /\ baselines_fit \in BOOLEAN
  /\ NodeSets(islands \cup powerbal) \subseteq SUBSET Node /\ todo \subseteq islands
  /\ islanded \in BOOLEAN /\ re_island \in BOOLEAN
  /\ Virtual_Battery \in [DOMAIN Virtual_Battery -> SUBSET House]
  /\ islanded_devices \subseteq House
  /\ baselines \subseteq SUBSET Node
  /\ houses_off \in [House -> Nat]
  /\ interrupted \subseteq House /\ thermostat \subseteq House

\* Outside of the reconfiguration itself, on_commit looks up batteries by the
\* islands there are: each has one, and no battery of an island that is no more
\* is left, whatever faults come and go (Virtual_Battery[tuple(island)] in
\* island_management and packetize_island).  An island whose nodes are listed in
\* another order is looked up by another tuple.
BatteryPerIsland == ~re_island => DOMAIN Virtual_Battery = islands

\* A customer is interrupted exactly while the house is in houses_off, although
\* a rebuilt battery can have a listed house disconnected and listed again.
InterruptedAreListed == interrupted = Listed(houses_off)

\* The islands are electrically what the batteries take them for: no closed
\* switch leads out of one, and neither the substation nor a faulted node is in
\* one, for any result of the islanding optimization.
IslandsAreIsolated ==
  \A i \in islands :
    /\ i.nodes \cap (faulted_nodes \cup {Swing}) = {}
    /\ \A b \in closed : b \cap i.nodes # {} => b \subseteq i.nodes

\* The server is only asked to manage an island whose baseline files have been
\* written: reading a missing one would end the server, and the simulation would
\* wait for its answer forever.
BaselineForManaged == phase = "manage" => NodeSets(todo) \subseteq baselines

\* Without LOAD_CONTROL what has been shut off stays shut off all the way down,
\* over any sequence of faults: no closed branch leads from a node out of service
\* to one in service, and none touches a node faulted now.
DeadEndsStayDead ==
  ~Absorption /\ phase = "waiting" =>
    \A b \in closed : /\ From[b] \in out_of_service => b \subseteq out_of_service
                      /\ b \cap faulted_nodes = {}

\* A house in houses_off is disconnected and in no battery, as long as no
\* battery is rebuilt meanwhile.
Relisted(h) ==
  houses_off[h] > (IF \E i \in islands : h \in Virtual_Battery[i] THEN 0 ELSE 1)

\* The look-ups by island, the random choices and the baseline files, of all that
\* can raise in on_commit, do so for three reasons only: the baseline files do not
\* fit when islands have formed, an island is balanced that no management has
\* planned, or a disconnected house is back in a battery.  While each house is
\* listed once there are as many to reconnect as the code counts, and where there
\* is load to shed there is a node numbered 100 or more.
FailsOnly ==
  [][phase # "failed" /\ phase' = "failed" =>
       \/ phase = "rebuild" /\ ~baselines_fit /\ islands # {}
       \/ phase = "packetize" /\ ~(islands \subseteq powerbal)
       \/ phase = "manage" /\ \E h \in House : Relisted(h)]_vars

\* absorption.py:707 has the power balance checked "after island management is
\* completed": the balance that follows packets alone is that of a managed island.
BalanceAfterManagement == phase = "packetize" => todo \subseteq powerbal

\* What it takes for that: islands only change at commits that manage them.
Manages == clock % ManageEvery = 0 /\ clock < MaxTime
ChangeAtManagement == [][islands' # islands => Manages]_vars

\* absorption.py:493 has a battery of the "HVAC systems and water heaters in the
\* model for a particular island": none of them is in another island.
BatteryServesIsland ==
  ~re_island => \A i \in islands : Virtual_Battery[i] \subseteq HousesIn(i)

\* absorption.py:428 turns on "basic GLD temperature control logic, responding to
\* air temp and heating and cooling set points for each household": once islands
\* have formed, a house that is in none of them, at a supernode that was never
\* faulted, is on its thermostat.
ThermostatOutsideIslands ==
  phase = "waiting" /\ islanded =>
    {h \in House : NodeOf[h] \notin out_of_service} \ DevicesIn(islands) \subseteq thermostat

\* What it takes for that: the first islands stay.
FirstIslandsStay == [][islands' # islands => islands = {}]_vars

-----------------------------------------------------------------------------
(* The inductive invariant behind the safety properties.                   *)

\* What on_commit has and has not done for the islands when.
Progress ==
  /\ re_island => phase \in {"rebuild", "failed"}
  /\ ~re_island => NodeSets(islands) \subseteq baselines
  /\ phase \in {"waiting", "rebuild", "hung"} => todo = {}

\* What DeadEndsStayDead rests on: without LOAD_CONTROL there never are islands.
WithoutControl ==
  ~Absorption =>
    /\ islands = {} /\ ~re_island
    /\ phase # "hung" => \A b \in closed : /\ From[b] \in out_of_service => b \subseteq out_of_service
                                          /\ b \cap faulted_nodes = {}

\* What is planned when islands only change at managements: all of them, or there
\* are no devices in them, and no branch for them is taken.
Planned ==
  LET settled == islands \subseteq powerbal \/ islanded_devices = {}
  IN  /\ ~islanded => islands = {}
      /\ re_island => Manages
      /\ phase = "waiting" => settled
      /\ phase = "rebuild" => settled \/ Manages
      /\ phase = "manage" => islands \ todo \subseteq powerbal \/ islanded_devices = {}
      /\ phase = "packetize" => islands \subseteq powerbal

\* What is kept together while the first islands stay: their houses are those of
\* islanded_devices, of the batteries and of houses_off, and no others have lost
\* their thermostat.
FirstIslands ==
  /\ islanded_devices = DevicesIn(islands)
  /\ \A i \in DOMAIN Virtual_Battery : Virtual_Battery[i] \subseteq DevicesIn(islands)
  /\ Listed(houses_off) \subseteq DevicesIn(islands)
  /\ House \ DevicesIn(islands) \subseteq thermostat

\* TypeOK, the order of the steps of a commit, and the properties above.
IInv ==
  /\ TypeOK /\ Progress /\ BatteryPerIsland /\ InterruptedAreListed
  /\ IslandsAreIsolated /\ WithoutControl
=============================================================================
