----------------------- MODULE AbsorptionControlProofs -----------------------
(***************************************************************************)
(* on_commit keeps batteries, islands, baseline files and the list of      *)
(* disconnected houses consistent, for any feeder, any houses, any faults  *)
(* and whatever the two optimizations answer (absorption.py).              *)
(***************************************************************************)
EXTENDS AbsorptionControl, FeederProofs, SumTheorems, TLAPS

-----------------------------------------------------------------------------
\* The invariant holds before the first commit.
LEMMA InitInv == Init => IInv
<1> SUFFICES ASSUME Init PROVE IInv
  OBVIOUS
<1>1. Virtual_Battery \in [{} -> SUBSET House] /\ DOMAIN Virtual_Battery = {}
  BY DEF Init, NoBattery
<1>2. TypeOK
  BY <1>1 DEF Init, TypeOK, Phases, NodeSets
<1>3. Progress /\ BatteryPerIsland /\ IslandsAreIsolated
  BY <1>1 DEF Init, Progress, BatteryPerIsland, IslandsAreIsolated, NodeSets
<1>4. InterruptedAreListed
  BY DEF Init, InterruptedAreListed, Listed
<1>5. WithoutControl
  BY FeederAssumption DEF Init, WithoutControl
<1> QED
  BY <1>2, <1>3, <1>4, <1>5 DEF IInv

\* update_VB gives each island the houses of its nodes.
LEMMA BatteriesType ==
  ASSUME NEW new
  PROVE  /\ DOMAIN BatteriesFor(new) = new
         /\ BatteriesFor(new) \in [new -> SUBSET House]
         /\ DevicesIn(new) \subseteq House
BY DEF BatteriesFor, HousesIn, DevicesIn

\* A list has the nodes of its group.
LEMMA ListsType ==
  ASSUME NEW new, NEW branches, NEW i \in AsLists(new, branches)
  PROVE  i.nodes \in new
<1>1. PICK group \in new :
        i = [nodes |-> group, order |-> SearchOrder(group, {b \in branches : b \subseteq group})]
  BY DEF AsLists
<1> DEFINE list == SearchOrder(group, {b \in branches : b \subseteq group})
<1>2. i = [nodes |-> group, order |-> list]
  BY <1>1
<1> HIDE DEF list
<1> QED
  BY <1>2

\* New faults: the islands change, and their batteries if there were none.
LEMMA DetectFaultsInv ==
  ASSUME IInv, NEW faulted \in FaultSets, DetectFaults(faulted)
  PROVE  IInv'
<1> USE DEF IInv, DetectFaults
<1>1. faulted \subseteq Node /\ closed' \in SUBSET (Branch \ Isolated(faulted))
  BY ControlAssumption
<1> PICK new \in IslandSets(closed', faulted) : islands' = AsLists(new, closed')
  OBVIOUS
<1>2. \A i \in islands' :
        /\ i.nodes \subseteq Node
        /\ i.nodes \cap (faulted \cup {Swing}) = {}
        /\ \A b \in closed' : b \cap i.nodes # {} => b \subseteq i.nodes
  <2>1. \A i \in islands' : i.nodes \in new
    BY ListsType
  <2> QED
    BY <1>1, <2>1, IslandsIsolated
<1>3. IslandsAreIsolated'
  BY <1>2 DEF IslandsAreIsolated
<1>4. /\ Virtual_Battery' \in [DOMAIN Virtual_Battery' -> SUBSET House]
      /\ islanded_devices' \subseteq House
  <2>1. CASE Virtual_Battery = NoBattery /\ re_island'
    BY <2>1, BatteriesType
  <2>2. CASE ~(Virtual_Battery = NoBattery /\ re_island')
    BY <2>2 DEF TypeOK
  <2> QED
    BY <2>1, <2>2
<1>5. todo' = {}
  BY DEF Progress
<1>6. TypeOK'
  BY <1>1, <1>2, <1>4, <1>5 DEF TypeOK, Phases, NodeSets
<1>7. ~re_island' => islands' = islands /\ ~re_island /\ Virtual_Battery' = Virtual_Battery
  BY DEF Progress, Phases
<1>8. Progress' /\ BatteryPerIsland'
  BY <1>5, <1>7 DEF Progress, BatteryPerIsland
<1>9. InterruptedAreListed' /\ WithoutControl'
  BY DEF InterruptedAreListed, Listed, WithoutControl
<1> QED
  BY <1>3, <1>6, <1>8, <1>9

\* The nodes downstream of one are fed by it and pass that on.
LEMMA DownstreamClosed ==
  ASSUME TypeOK, NEW n \in Node
  PROVE  /\ n \in Downstream(n) /\ Downstream(n) \subseteq Node
         /\ \A b \in closed : From[b] \in Downstream(n) => b \subseteq Downstream(n)
<1>1. ASSUME NEW b \in closed, From[b] \in Downstream(n), NEW m \in b
      PROVE  m \in Downstream(n)
  <2>1. m \in Node
    BY FeederAssumption DEF TypeOK
  <2>2. ASSUME NEW S \in SUBSET Node, n \in S, \A c \in closed : From[c] \in S => c \subseteq S
        PROVE  m \in S
    BY <1>1, <2>2 DEF Downstream
  <2> QED
    BY <2>1, <2>2 DEF Downstream
<1> QED
  BY <1>1 DEF Downstream

\* New faults without LOAD_CONTROL: whatever is shut off takes along what it feeds.
LEMMA ShutOffInv ==
  ASSUME IInv, NEW faulted \in FaultSets, ShutOff(faulted)
  PROVE  IInv'
<1>1. faulted \subseteq Node /\ closed' = closed \ Isolated(faulted)
  BY ControlAssumption DEF ShutOff
<1>2. out_of_service' = out_of_service \cup UNION {Downstream(n) : n \in faulted}
  BY DEF ShutOff
<1>3. out_of_service' \subseteq Node
  <2>1. TypeOK /\ out_of_service \subseteq Node
    BY DEF IInv, TypeOK
  <2> QED
    BY <1>1, <1>2, <2>1, DownstreamClosed
<1>4. ASSUME NEW b \in closed', From[b] \in out_of_service'
      PROVE  b \subseteq out_of_service'
  <2>1. b \in closed
    BY <1>1
  <2>2. CASE From[b] \in out_of_service
    BY <1>2, <2>1, <2>2 DEF IInv, WithoutControl, ShutOff
  <2>3. ASSUME NEW n \in faulted, From[b] \in Downstream(n)
        PROVE  b \subseteq out_of_service'
    BY <1>1, <1>2, <2>1, <2>3, DownstreamClosed DEF IInv
  <2> QED
    BY <1>2, <1>4, <2>2, <2>3
<1>5. \A b \in closed' : b \cap faulted = {}
  BY <1>1 DEF Isolated, IInv, TypeOK
<1>6. WithoutControl'
  BY <1>4, <1>5 DEF IInv, WithoutControl, ShutOff
<1>7. TypeOK'
  BY <1>1, <1>3 DEF IInv, TypeOK, ShutOff, Phases, houseVars
<1>8. Progress' /\ BatteryPerIsland' /\ IslandsAreIsolated'
  BY DEF IInv, WithoutControl, ShutOff, Progress, BatteryPerIsland, IslandsAreIsolated
<1>9. InterruptedAreListed'
  BY DEF IInv, ShutOff, houseVars, InterruptedAreListed, Listed
<1> QED
  BY <1>6, <1>7, <1>8, <1>9 DEF IInv

LEMMA ShutOffHangsInv ==
  ASSUME IInv, NEW faulted \in FaultSets, ShutOffHangs(faulted)
  PROVE  IInv'
<1>1. faulted \subseteq Node
  BY ControlAssumption
<1>2. out_of_service' \subseteq Node
  <2>1. PICK before \in SUBSET faulted :
          out_of_service' = out_of_service \cup (faulted \ faulted_nodes)
                              \cup UNION {Downstream(n) : n \in before}
    BY DEF ShutOffHangs
  <2>2. UNION {Downstream(n) : n \in before} \subseteq Node
    BY DEF Downstream
  <2> QED
    BY <1>1, <2>1, <2>2 DEF IInv, TypeOK
<1>3. TypeOK'
  BY <1>1, <1>2 DEF IInv, TypeOK, ShutOffHangs, Phases, houseVars
<1>4. Progress' /\ BatteryPerIsland' /\ IslandsAreIsolated' /\ WithoutControl'
  BY DEF IInv, WithoutControl, ShutOffHangs, Progress, BatteryPerIsland, IslandsAreIsolated
<1>5. InterruptedAreListed'
  BY DEF IInv, ShutOffHangs, houseVars, InterruptedAreListed, Listed
<1> QED
  BY <1>3, <1>4, <1>5 DEF IInv

\* Batteries and baseline files for the new islands, or the batteries only.
LEMMA RebuildInv == IInv /\ (Rebuild \/ RebuildRaises) => IInv'
<1> SUFFICES ASSUME IInv, Rebuild \/ RebuildRaises PROVE IInv'
  OBVIOUS
<1> USE DEF IInv, Rebuild, RebuildRaises, gridVars, houseVars
<1>1. TypeOK'
  <2>1. islands' = islands /\ powerbal' = powerbal
    OBVIOUS
  <2>2. /\ NodeSets(islands) \subseteq SUBSET Node
        /\ NodeSets(islands' \cup powerbal') = NodeSets(islands \cup powerbal)
    BY <2>1 DEF TypeOK, NodeSets
  <2>3. baselines' \subseteq SUBSET Node
    BY <2>2 DEF TypeOK
  <2>4. Virtual_Battery' \in [DOMAIN Virtual_Battery' -> SUBSET House] /\ islanded_devices' \subseteq House
    BY BatteriesType
  <2> QED
    BY <2>1, <2>2, <2>3, <2>4 DEF TypeOK, Phases
<1>2. Progress' /\ BatteryPerIsland'
  <2>1. islands' = islands /\ NodeSets(islands)' = NodeSets(islands)
    BY DEF NodeSets
  <2>2. BatteryPerIsland'
    BY <2>1, BatteriesType DEF BatteryPerIsland
  <2>3. phase = "rebuild" /\ todo' = {} /\ phase' \in {"rebuild", "failed"}
    BY DEF Progress
  <2>4. Progress'
    BY <2>1, <2>3 DEF Progress
  <2> QED
    BY <2>2, <2>4
<1>3. InterruptedAreListed' /\ IslandsAreIsolated' /\ WithoutControl'
  BY DEF InterruptedAreListed, Listed, IslandsAreIsolated, WithoutControl
<1> QED
  BY <1>1, <1>2, <1>3

\* The steps that only move the commit on.
LEMMA CommitInv == IInv /\ (NoNewFaults \/ Dispatch \/ EndCommit \/ UNCHANGED vars) => IInv'
<1> SUFFICES ASSUME IInv, NoNewFaults \/ Dispatch \/ EndCommit \/ UNCHANGED vars PROVE IInv'
  OBVIOUS
<1> USE DEF IInv, NoNewFaults, Dispatch, EndCommit, vars, gridVars, houseVars
<1>1. TypeOK'
  <2>1. NodeSets(islands' \cup powerbal') = NodeSets(islands \cup powerbal)
    BY DEF NodeSets
  <2> QED
    BY <2>1 DEF TypeOK, Phases
<1>2. Progress' /\ BatteryPerIsland'
  <2>1. islands' = islands /\ NodeSets(islands)' = NodeSets(islands)
    BY DEF NodeSets
  <2>2. phase # "rebuild" \/ ~re_island \/ phase' = phase
    OBVIOUS
  <2> QED
    BY <2>1, <2>2 DEF Progress, BatteryPerIsland, TypeOK
<1>3. InterruptedAreListed' /\ IslandsAreIsolated' /\ WithoutControl'
  BY DEF InterruptedAreListed, Listed, IslandsAreIsolated, WithoutControl
<1> QED
  BY <1>1, <1>2, <1>3

-----------------------------------------------------------------------------
\* Disconnecting and reconnecting keep the list and the meters in step: a house
\* reconnected is listed no more, however often it was.
LEMMA SwitchInv ==
  ASSUME TypeOK, InterruptedAreListed, NEW gone \in SUBSET House, NEW back \in SUBSET House,
         Switch(gone, back)
  PROVE  /\ houses_off' \in [House -> Nat]
         /\ interrupted' \subseteq House
         /\ InterruptedAreListed'
<1>1. WithOff(gone) \in [House -> Nat]
  BY DEF WithOff, TypeOK
<1>2. \A h \in House : WithOff(gone)[h] > 0 <=> h \in gone \/ houses_off[h] > 0
  BY DEF WithOff, TypeOK
<1>3. houses_off' = [h \in House |-> IF h \in back THEN 0 ELSE WithOff(gone)[h]]
  BY DEF Switch
<1>4. houses_off' \in [House -> Nat]
  BY <1>1, <1>3
<1>5. interrupted' = (interrupted \cup gone) \ back
  BY DEF Switch
<1>6. InterruptedAreListed'
  BY <1>2, <1>3, <1>5 DEF InterruptedAreListed, Listed
<1> QED
  BY <1>4, <1>5, <1>6 DEF TypeOK

\* An iteration over an island changes its battery and the list of houses only.
LEMMA IterationInv ==
  ASSUME IInv, NEW i \in todo, phase \in {"manage", "packetize"},
         NEW kept \in SUBSET House,
         Virtual_Battery' = [Virtual_Battery EXCEPT ![i] = kept],
         thermostat' \subseteq House,
         houses_off' \in [House -> Nat], interrupted' \subseteq House, InterruptedAreListed',
         powerbal' \in {powerbal, powerbal \cup {i}},
         phase' \in {phase, "failed"}, todo' \subseteq todo,
         UNCHANGED <<clock, gridVars, re_island, islanded_devices, baselines>>
  PROVE  IInv'
<1> USE DEF IInv, gridVars
<1>1. ~re_island /\ i \in DOMAIN Virtual_Battery /\ DOMAIN Virtual_Battery' = DOMAIN Virtual_Battery
  BY DEF Progress, TypeOK, BatteryPerIsland
<1>2. Virtual_Battery' \in [DOMAIN Virtual_Battery' -> SUBSET House]
  BY <1>1 DEF TypeOK
<1>3. NodeSets(islands' \cup powerbal') \subseteq SUBSET Node
  BY DEF TypeOK, NodeSets
<1>4. TypeOK'
  BY <1>1, <1>2, <1>3 DEF TypeOK, Phases
<1>5. Progress' /\ BatteryPerIsland' /\ IslandsAreIsolated' /\ WithoutControl'
  BY <1>1 DEF Progress, BatteryPerIsland, IslandsAreIsolated, WithoutControl
<1> QED
  BY <1>4, <1>5

\* The houses of a battery, and those chosen to go and to come back.
LEMMA ChosenHouses ==
  ASSUME IInv, NEW i \in todo, phase \in {"manage", "packetize"}, NEW need
  PROVE  /\ Virtual_Battery[i] \subseteq House
         /\ \A gone \in Gone(i, need) :
              /\ gone \subseteq House
              /\ Listed(WithOff(gone)) \subseteq House
              /\ \A back \in Back(gone, need) : back \subseteq House
<1>1. i \in DOMAIN Virtual_Battery
  BY DEF IInv, Progress, TypeOK, BatteryPerIsland
<1>2. Virtual_Battery[i] \subseteq House
  BY <1>1 DEF IInv, TypeOK
<1>3. \A gone \in Gone(i, need) : gone \subseteq Virtual_Battery[i]
  BY DEF Gone, kSubset
<1>4. \A gone \in Gone(i, need) : \A back \in Back(gone, need) : back \subseteq Listed(WithOff(gone))
  BY DEF Back, kSubset
<1> QED
  BY <1>2, <1>3, <1>4 DEF Listed

\* Packets alone, with or without a plan of the island.
LEMMA PacketizeInv ==
  ASSUME IInv, NEW i \in todo, ManageWithoutShed(i) \/ PacketizeIsland(i)
  PROVE  IInv'
<1>1. phase \in {"manage", "packetize"}
  BY DEF ManageWithoutShed, PacketizeIsland
<1>2. Virtual_Battery[i] \subseteq House
  BY <1>1, ChosenHouses
<1>3. PICK kept \in SUBSET Virtual_Battery[i], told \in SUBSET House :
        /\ Virtual_Battery' = [Virtual_Battery EXCEPT ![i] = kept]
        /\ thermostat' = thermostat \ told
  BY <1>2 DEF ManageWithoutShed, PacketizeIsland, Packetize
<1>4. thermostat' \subseteq House /\ houses_off' \in [House -> Nat] /\ interrupted' \subseteq House
      /\ InterruptedAreListed'
  BY <1>3 DEF ManageWithoutShed, PacketizeIsland, IInv, TypeOK, InterruptedAreListed, Listed
<1>5. /\ powerbal' \in {powerbal, powerbal \cup {i}}
      /\ phase' \in {phase, "failed"} /\ todo' \subseteq todo
      /\ UNCHANGED <<clock, gridVars, re_island, islanded_devices, baselines>>
  BY DEF ManageWithoutShed, PacketizeIsland
<1> QED
  BY <1>1, <1>2, <1>3, <1>4, <1>5, IterationInv

\* Load shedding, whether or not it runs out of houses to choose from.
LEMMA ShedInv ==
  ASSUME IInv, NEW i \in todo, NEW need, Shed(i, need) \/ ShedRaises(i, need)
  PROVE  IInv'
<1>1. phase \in {"manage", "packetize"}
  BY DEF Shed, ShedRaises
<1>2. /\ powerbal' \in {powerbal, powerbal \cup {i}}
      /\ phase' \in {phase, "failed"} /\ todo' \subseteq todo
      /\ UNCHANGED <<clock, gridVars, re_island, islanded_devices, baselines>>
  BY DEF Shed, ShedRaises
<1>3. CASE Shed(i, need)
  <2>1. PICK gone \in Gone(i, need) : \E back \in Back(gone, need) :
          /\ Switch(gone, back)
          /\ Packetize(i, (Virtual_Battery[i] \ gone) \cup back, thermostat \ gone)
    BY <1>3 DEF Shed
  <2>2. PICK back \in Back(gone, need) :
          /\ Switch(gone, back)
          /\ Packetize(i, (Virtual_Battery[i] \ gone) \cup back, thermostat \ gone)
    BY <2>1
  <2>3. gone \subseteq House /\ back \subseteq House /\ Virtual_Battery[i] \subseteq House
    BY <1>1, ChosenHouses
  <2>4. PICK kept \in SUBSET House, told \in SUBSET House :
          /\ Virtual_Battery' = [Virtual_Battery EXCEPT ![i] = kept]
          /\ thermostat' = (thermostat \ gone) \ told
    BY <2>2, <2>3 DEF Packetize
  <2>5. houses_off' \in [House -> Nat] /\ interrupted' \subseteq House /\ InterruptedAreListed'
    BY <2>2, <2>3, SwitchInv DEF IInv
  <2>6. thermostat' \subseteq House
    BY <2>4 DEF IInv, TypeOK
  <2> QED
    BY <1>1, <1>2, <2>4, <2>5, <2>6, IterationInv
<1>4. CASE ShedRaises(i, need)
  <2>1. CASE UNCHANGED <<Virtual_Battery, houseVars>>
    <3>1. Virtual_Battery' = [Virtual_Battery EXCEPT ![i] = Virtual_Battery[i]]
      BY <2>1 DEF IInv, TypeOK
    <3>2. Virtual_Battery[i] \subseteq House
      BY <1>1, ChosenHouses
    <3>3. thermostat' \subseteq House /\ houses_off' \in [House -> Nat] /\ interrupted' \subseteq House
          /\ InterruptedAreListed'
      BY <2>1 DEF houseVars, IInv, TypeOK, InterruptedAreListed, Listed
    <3> QED
      BY <1>1, <1>2, <3>1, <3>2, <3>3, IterationInv
  <2>2. CASE ~UNCHANGED <<Virtual_Battery, houseVars>>
    <3>1. PICK gone \in Gone(i, need) :
            LET back == Listed(WithOff(gone))
            IN  /\ Switch(gone, back)
                /\ Virtual_Battery' = [Virtual_Battery EXCEPT ![i] = (@ \ gone) \cup back]
                /\ thermostat' = thermostat \ gone
      BY <1>4, <2>2 DEF ShedRaises
    <3> DEFINE back == Listed(WithOff(gone))
    <3>2. gone \subseteq House /\ back \subseteq House /\ Virtual_Battery[i] \subseteq House
      BY <1>1, ChosenHouses
    <3>3. Virtual_Battery' = [Virtual_Battery EXCEPT ![i] = (Virtual_Battery[i] \ gone) \cup back]
      BY <3>1
    <3>4. houses_off' \in [House -> Nat] /\ interrupted' \subseteq House /\ InterruptedAreListed'
      BY <3>1, <3>2, SwitchInv DEF IInv
    <3>5. thermostat' \subseteq House /\ (Virtual_Battery[i] \ gone) \cup back \subseteq House
      BY <3>1, <3>2 DEF IInv, TypeOK
    <3> QED
      BY <1>1, <1>2, <3>3, <3>4, <3>5, IterationInv
  <2> QED
    BY <2>1, <2>2
<1> QED
  BY <1>3, <1>4

-----------------------------------------------------------------------------
\* Every step keeps the invariant.
LEMMA NextInv == IInv /\ [Next]_vars => IInv'
<1> SUFFICES ASSUME IInv, [Next]_vars PROVE IInv'
  OBVIOUS
<1>1. ASSUME NEW faulted \in FaultSets, DetectFaults(faulted) PROVE IInv'
  BY <1>1, DetectFaultsInv
<1>2. CASE Rebuild \/ RebuildRaises
  BY <1>2, RebuildInv
<1>7. ASSUME NEW faulted \in FaultSets, ShutOff(faulted) \/ ShutOffHangs(faulted) PROVE IInv'
  BY <1>7, ShutOffInv, ShutOffHangsInv
<1>3. CASE NoNewFaults \/ Dispatch \/ EndCommit \/ UNCHANGED vars
  BY <1>3, CommitInv
<1>4. ASSUME NEW i \in todo, ManageWithoutShed(i) \/ PacketizeIsland(i) PROVE IInv'
  BY <1>4, PacketizeInv
<1>5. ASSUME NEW i \in todo, NEW need \in Needs(i), Shed(i, need) \/ ShedRaises(i, need)
      PROVE  IInv'
  BY <1>5, ShedInv
<1>6. CASE SimulationOver
  BY <1>6, CommitInv DEF SimulationOver
<1> QED
  BY <1>1, <1>2, <1>3, <1>4, <1>5, <1>6, <1>7 DEF Next

\* The inductive invariant holds at every step of every commit.
THEOREM Invariance == Spec => []IInv
<1> QED
  BY InitInv, NextInv, PTL DEF Spec

\* Every variable keeps its type.
THEOREM TypeCorrect == Spec => []TypeOK
<1>1. IInv => TypeOK
  BY DEF IInv
<1> QED
  BY <1>1, Invariance, PTL

\* on_commit never looks up the battery of an island that has none.
THEOREM BatteriesMatch == Spec => []BatteryPerIsland
<1>1. IInv => BatteryPerIsland
  BY DEF IInv
<1> QED
  BY <1>1, Invariance, PTL

\* The list of disconnected houses agrees with the meters.
THEOREM ListMatchesMeters == Spec => []InterruptedAreListed
<1>1. IInv => InterruptedAreListed
  BY DEF IInv
<1> QED
  BY <1>1, Invariance, PTL

\* The islands batteries are built for are electrical islands of healthy nodes.
THEOREM IslandsSound == Spec => []IslandsAreIsolated
<1>1. IInv => IslandsAreIsolated
  BY DEF IInv
<1> QED
  BY <1>1, Invariance, PTL

\* Without LOAD_CONTROL, on any feeder and for any faults, nothing in service hangs
\* on something shut off, and faulted nodes are cut off.
THEOREM ShutOffReachesAll == Spec => []DeadEndsStayDead
<1>1. IInv => DeadEndsStayDead
  BY DEF IInv, WithoutControl, DeadEndsStayDead
<1> QED
  BY <1>1, Invariance, PTL

\* The server never has to manage an island it has no baseline of.
THEOREM BaselinesWritten == Spec => []BaselineForManaged
<1>1. IInv => BaselineForManaged
  BY DEF IInv, TypeOK, Progress, BaselineForManaged, NodeSets
<1> QED
  BY <1>1, Invariance, PTL

-----------------------------------------------------------------------------
(* When on_commit raises.                                                  *)

\* While no house is listed twice, houses_off is as long as there are houses in
\* it, and disconnecting more makes it no shorter.
LEMMA ListedOnce ==
  ASSUME TypeOK, \A h \in House : houses_off[h] <= 1, NEW gone \in SUBSET House
  PROVE  LenOff \in Nat /\ LenOff <= Cardinality(Listed(WithOff(gone)))
<1>1. IsFiniteSet(House) /\ DOMAIN houses_off = House
  BY ControlAssumption DEF TypeOK
<1>2. \A h \in House : houses_off[h] \in {0, 1}
  BY DEF TypeOK
<1>3. LenOff = SumFunctionOnSet(houses_off, House)
  BY <1>1 DEF LenOff, SumFunction
<1>4. LenOff = Cardinality({h \in House : houses_off[h] = 1})
  BY <1>1, <1>2, <1>3, SumOfOnes
<1> DEFINE listed == {h \in House : houses_off[h] = 1}
           after == Listed(WithOff(gone))
<1>5. listed \subseteq after
  BY <1>2 DEF Listed, WithOff
<1>6. IsFiniteSet(after) /\ IsFiniteSet(listed)
  <2>1. after \subseteq House /\ listed \subseteq House
    BY DEF Listed
  <2> HIDE DEF after, listed
  <2> QED
    BY <1>1, <2>1, FS_Subset
<1>7. LenOff = Cardinality(listed)
  BY <1>4
<1> HIDE DEF after, listed
<1>8. Cardinality(listed) \in Nat /\ Cardinality(listed) <= Cardinality(after)
  BY <1>5, <1>6, FS_Subset, FS_CardinalityType
<1> QED
  BY <1>7, <1>8 DEF after

\* Of the reasons to raise, the want of houses to reconnect needs one that is back
\* in a battery after it was disconnected, or listed twice.
LEMMA ShortListRelisted ==
  ASSUME IInv, NEW need \in Nat, NEW gone \in SUBSET House,
         Cardinality(Listed(WithOff(gone))) < Reconnects(need)
  PROVE  \E h \in House : Relisted(h)
<1> SUFFICES ASSUME \A h \in House : ~Relisted(h) PROVE FALSE
  OBVIOUS
<1>1. \A h \in House : houses_off[h] <= 1
  <2> SUFFICES ASSUME NEW h \in House PROVE houses_off[h] <= 1
    OBVIOUS
  <2>1. houses_off[h] \in Nat /\ ~Relisted(h)
    BY DEF IInv, TypeOK
  <2> QED
    BY <2>1 DEF Relisted
<1>2. LenOff \in Nat /\ LenOff <= Cardinality(Listed(WithOff(gone)))
  BY <1>1, ListedOnce DEF IInv
<1>3. Cardinality(Listed(WithOff(gone))) \in Nat
  <2>1. IsFiniteSet(Listed(WithOff(gone)))
    BY ControlAssumption, FS_Subset DEF Listed
  <2> QED
    BY <2>1, FS_CardinalityType
<1>4. Reconnects(need) <= LenOff
  BY <1>2 DEF Reconnects
<1>5. Reconnects(need) \in Int
  BY <1>2 DEF Reconnects
<1> QED
  BY <1>2, <1>3, <1>4, <1>5

\* An island with load to shed has a node numbered 100 or more to draw from.
LEMMA NodeToDraw ==
  ASSUME IInv, NEW i, NEW need \in Needs(i)
  PROVE  need \in Nat /\ (~(\E h \in House : Relisted(h)) => ~NoHouseNode(i, need))
<1>1. need \in Nat
  BY ControlAssumption DEF Needs
<1>2. CASE i.nodes \cap Recorded # {}
  BY <1>1, <1>2, ControlAssumption DEF NoHouseNode
<1>3. CASE i.nodes \cap Recorded = {}
  <2>1. need = 0
    BY <1>3 DEF Needs
  <2>2. ASSUME ~(\E h \in House : Relisted(h)) PROVE LenOff \in Nat
    <3>1. \A h \in House : houses_off[h] \in Nat
      BY DEF IInv, TypeOK
    <3>2. \A h \in House : houses_off[h] <= 1
      BY <2>2, <3>1 DEF Relisted
    <3> QED
      BY <3>2, ListedOnce DEF IInv
  <2>3. LenOff \in Nat => Disconnects(need) = 0
    BY <2>1 DEF Disconnects
  <2> QED
    BY <1>1, <2>2, <2>3 DEF NoHouseNode
<1> QED
  BY <1>2, <1>3

\* Over any feeder, houses and faults, and however the searches order the nodes,
\* the look-ups, choices and files of on_commit raise only when the baseline files
\* do not fit, for an island without a plan, or once a house listed as disconnected
\* is back in a battery: as long as each is listed once, the random choice finds as
\* many houses to reconnect as the code has counted, and where there is load to
\* shed it finds a node to draw from.
THEOREM RaisesOnly == Spec => FailsOnly
<1> DEFINE Reasons ==
      phase # "failed" /\ phase' = "failed" =>
        \/ phase = "rebuild" /\ ~baselines_fit /\ islands # {}
        \/ phase = "packetize" /\ ~(islands \subseteq powerbal)
        \/ phase = "manage" /\ \E h \in House : Relisted(h)
<1>1. IInv /\ [Next]_vars => [Reasons]_vars
  <2> SUFFICES ASSUME IInv, Next, phase # "failed", phase' = "failed"
               PROVE  \/ phase = "rebuild" /\ ~baselines_fit /\ islands # {}
                      \/ phase = "packetize" /\ ~(islands \subseteq powerbal)
                      \/ phase = "manage" /\ \E h \in House : Relisted(h)
    OBVIOUS
  <2>1. \/ RebuildRaises
        \/ \E i \in todo : PacketizeIsland(i)
        \/ \E i \in todo : \E need \in Needs(i) : ShedRaises(i, need)
    BY DEF Next, DetectFaults, ShutOff, ShutOffHangs, NoNewFaults, Rebuild, Dispatch,
           ManageWithoutShed, Shed, EndCommit, SimulationOver, vars
  <2>2. CASE RebuildRaises
    BY <2>2 DEF RebuildRaises
  <2>3. ASSUME NEW i \in todo, PacketizeIsland(i)
        PROVE  phase = "packetize" /\ ~(islands \subseteq powerbal)
    BY <2>3 DEF PacketizeIsland, IInv, TypeOK
  <2>4. ASSUME NEW i \in todo, NEW need \in Needs(i), ShedRaises(i, need)
        PROVE  phase = "manage" /\ \E h \in House : Relisted(h)
    <3>1. phase = "manage" /\ need \in Nat
      BY <2>4, NodeToDraw DEF ShedRaises
    <3>2. PICK gone \in Gone(i, need) : ShedFails(i, need, gone)
      BY <2>4 DEF ShedRaises
    <3>3. gone \in SUBSET House
      BY <3>1, ChosenHouses
    <3>4. CASE NoHouseNode(i, need)
      BY <3>1, <3>4, NodeToDraw
    <3>5. CASE Cardinality(Listed(WithOff(gone))) < Reconnects(need)
      BY <3>1, <3>3, <3>5, ShortListRelisted
    <3> QED
      BY <3>2, <3>4, <3>5 DEF ShedFails
  <2> QED
    BY <2>1, <2>2, <2>3, <2>4
<1> QED
  BY <1>1, Invariance, PTL DEF Spec, FailsOnly

-----------------------------------------------------------------------------
(* When islands are balanced without a plan.                               *)

\* As long as islands change at managements only, each step keeps them planned.
LEMMA PlannedInv ==
  IInv /\ Planned /\ [Next]_vars /\ [islands' # islands => Manages]_vars => Planned'
<1> SUFFICES ASSUME IInv, Planned, [Next]_vars, [islands' # islands => Manages]_vars
             PROVE  Planned'
  OBVIOUS
<1>1. ASSUME NEW faulted \in FaultSets, DetectFaults(faulted) PROVE Planned'
  <2>1. phase = "waiting" /\ phase' = "rebuild" /\ Manages' = Manages /\ islanded'
    BY <1>1 DEF DetectFaults, Manages
  <2>2. CASE islands' = islands
    <3>1. ~re_island' /\ islanded_devices' = islanded_devices /\ powerbal' = powerbal
      BY <1>1, <2>2 DEF DetectFaults
    <3> QED
      BY <2>1, <2>2, <3>1 DEF Planned
  <2>3. CASE islands' # islands
    BY <2>1, <2>3 DEF Planned, vars, gridVars
  <2> QED
    BY <2>2, <2>3
<1>2. ASSUME NEW faulted \in FaultSets, ShutOff(faulted) \/ ShutOffHangs(faulted) PROVE Planned'
  BY <1>2 DEF ShutOff, ShutOffHangs, Planned, Manages
<1>3. CASE NoNewFaults
  BY <1>3 DEF NoNewFaults, Planned, Manages, gridVars
<1>4. CASE Rebuild \/ RebuildRaises
  BY <1>4 DEF Rebuild, RebuildRaises, Planned, Manages, gridVars
<1>5. CASE Dispatch
  <2>1. Manages \/ islands \subseteq powerbal \/ islanded_devices = {}
    BY <1>5 DEF Dispatch, Planned
  <2>2. CASE islanded /\ islanded_devices # {}
    BY <1>5, <2>1, <2>2 DEF Dispatch, Planned, Manages, gridVars
  <2>3. CASE ~ (islanded /\ islanded_devices # {})
    BY <1>5, <2>3 DEF Dispatch, Planned, Manages, gridVars
  <2> QED
    BY <2>2, <2>3
<1>6. ASSUME NEW i \in todo, ManageWithoutShed(i) \/ PacketizeIsland(i) PROVE Planned'
  BY <1>6 DEF ManageWithoutShed, PacketizeIsland, Planned, Manages, gridVars
<1>7. ASSUME NEW i \in todo, NEW need \in Needs(i), Shed(i, need) \/ ShedRaises(i, need)
      PROVE  Planned'
  BY <1>7 DEF Shed, ShedRaises, Planned, Manages, gridVars
<1>8. CASE EndCommit
  <2>1. ~re_island
    BY <1>8 DEF EndCommit, IInv, Progress
  <2> QED
    BY <1>8, <2>1 DEF EndCommit, Planned, gridVars
<1>9. CASE SimulationOver \/ UNCHANGED vars
  BY <1>9 DEF SimulationOver, vars, gridVars, Planned, Manages
<1> QED
  BY <1>1, <1>2, <1>3, <1>4, <1>5, <1>6, <1>7, <1>8, <1>9 DEF Next

\* Only a change of the islands between two managements has on_commit balance an
\* island it has no plan for: the counterexample to BalanceAfterManagement is the
\* only kind there is.
THEOREM PlannedUnlessChanged == Spec /\ ChangeAtManagement => []BalanceAfterManagement
<1>1. Init => Planned
  BY DEF Init, Planned
<1>2. IInv /\ Planned => BalanceAfterManagement
  BY DEF IInv, TypeOK, Planned, BalanceAfterManagement
<1> QED
  BY <1>1, <1>2, Invariance, PlannedInv, PTL DEF Spec, ChangeAtManagement

-----------------------------------------------------------------------------
(* When houses get into a battery, or lose their thermostat, elsewhere.    *)

\* Batteries for islands have houses of these islands.
LEMMA BatteriesWithin ==
  ASSUME NEW new, NEW i \in new
  PROVE  BatteriesFor(new)[i] \subseteq DevicesIn(new)
BY DEF BatteriesFor, HousesIn, DevicesIn

\* An iteration that takes the houses of its battery, and those listed.
LEMMA IterationWithin ==
  ASSUME IInv, FirstIslands, NEW i \in todo, phase \in {"manage", "packetize"},
         UNCHANGED <<islands, islanded_devices>>,
         NEW kept \in SUBSET DevicesIn(islands), NEW told \in SUBSET DevicesIn(islands),
         Virtual_Battery' = [Virtual_Battery EXCEPT ![i] = kept],
         thermostat' = thermostat \ told,
         Listed(houses_off)' \subseteq DevicesIn(islands)
  PROVE  FirstIslands'
<1>1. DevicesIn(islands)' = DevicesIn(islands)
  BY DEF DevicesIn
<1>2. DOMAIN Virtual_Battery' = DOMAIN Virtual_Battery
  OBVIOUS
<1>3. \A j \in DOMAIN Virtual_Battery' : Virtual_Battery'[j] \subseteq DevicesIn(islands)
  BY <1>2 DEF FirstIslands
<1>4. House \ DevicesIn(islands) \subseteq thermostat'
  BY DEF FirstIslands
<1> QED
  BY <1>1, <1>3, <1>4 DEF FirstIslands

\* The houses an iteration chooses are houses of the islands.
LEMMA ChosenWithin ==
  ASSUME IInv, FirstIslands, NEW i \in todo, phase \in {"manage", "packetize"}, NEW need
  PROVE  /\ Virtual_Battery[i] \subseteq DevicesIn(islands)
         /\ \A gone \in Gone(i, need) :
              /\ gone \subseteq DevicesIn(islands) /\ gone \subseteq House
              /\ Listed(WithOff(gone)) \subseteq DevicesIn(islands)
              /\ \A back \in Back(gone, need) : back \subseteq Listed(WithOff(gone))
<1>1. i \in DOMAIN Virtual_Battery
  BY DEF IInv, Progress, TypeOK, BatteryPerIsland
<1>2. Virtual_Battery[i] \subseteq DevicesIn(islands)
  BY <1>1 DEF FirstIslands
<1>3. \A gone \in Gone(i, need) : gone \subseteq Virtual_Battery[i]
  BY DEF Gone, kSubset
<1>4. ASSUME NEW gone \in SUBSET DevicesIn(islands)
      PROVE  Listed(WithOff(gone)) \subseteq DevicesIn(islands)
  <2> SUFFICES ASSUME NEW h \in House, WithOff(gone)[h] > 0, h \notin gone
               PROVE  h \in DevicesIn(islands)
    BY DEF Listed
  <2>1. houses_off[h] > 0
    BY DEF WithOff, IInv, TypeOK
  <2> QED
    BY <2>1 DEF FirstIslands, Listed
<1>5. \A gone \in Gone(i, need) : \A back \in Back(gone, need) : back \subseteq Listed(WithOff(gone))
  BY DEF Back, kSubset
<1> QED
  BY <1>2, <1>3, <1>4, <1>5, ChosenHouses

\* After switching, what is listed is what was, without the houses reconnected.
LEMMA SwitchListed ==
  ASSUME TypeOK, NEW gone, NEW back, Switch(gone, back)
  PROVE  Listed(houses_off)' \subseteq Listed(WithOff(gone))
BY DEF Switch, Listed, WithOff

\* Every step keeps the houses of the first islands together.
LEMMA FirstIslandsInv ==
  IInv /\ FirstIslands /\ [Next]_vars /\ [islands' # islands => islands = {}]_vars => FirstIslands'
<1> SUFFICES ASSUME IInv, FirstIslands, [Next]_vars, [islands' # islands => islands = {}]_vars
             PROVE  FirstIslands'
  OBVIOUS
<1>1. ASSUME NEW faulted \in FaultSets, DetectFaults(faulted) PROVE FirstIslands'
  <2>1. /\ houses_off' = houses_off /\ re_island' = (islands' # islands)
        /\ thermostat' = thermostat \cup (House \ islanded_devices')
    BY <1>1 DEF DetectFaults
  <2>2. CASE islands' = islands
    BY <1>1, <2>1, <2>2 DEF DetectFaults, FirstIslands, DevicesIn, Listed
  <2>3. CASE islands' # islands
    <3>1. islands = {}
      BY <2>3 DEF vars, gridVars
    <3>2. Virtual_Battery = NoBattery
      BY <1>1, <3>1 DEF DetectFaults, IInv, Progress, BatteryPerIsland, TypeOK, NoBattery
    <3>3. /\ Virtual_Battery' = BatteriesFor(islands')
          /\ islanded_devices' = DevicesIn(islands')
      BY <1>1, <2>1, <2>3, <3>2 DEF DetectFaults
    <3>4. \A i \in DOMAIN Virtual_Battery' : Virtual_Battery'[i] \subseteq DevicesIn(islands')
      BY <3>3, BatteriesType, BatteriesWithin
    <3>5. Listed(houses_off) = {}
      BY <3>1 DEF FirstIslands, DevicesIn
    <3> QED
      BY <2>1, <3>3, <3>4, <3>5 DEF FirstIslands, DevicesIn, Listed
  <2> QED
    BY <2>2, <2>3
<1>2. CASE Rebuild \/ RebuildRaises
  <2>1. /\ Virtual_Battery' = BatteriesFor(islands) /\ islanded_devices' = DevicesIn(islands)
        /\ UNCHANGED <<islands, houses_off, thermostat>>
    BY <1>2 DEF Rebuild, RebuildRaises, gridVars, houseVars
  <2>2. \A i \in DOMAIN Virtual_Battery' : Virtual_Battery'[i] \subseteq DevicesIn(islands)
    BY <2>1, BatteriesType, BatteriesWithin
  <2> QED
    BY <2>1, <2>2 DEF FirstIslands, DevicesIn, Listed
<1>3. ASSUME NEW i \in todo, ManageWithoutShed(i) \/ PacketizeIsland(i) PROVE FirstIslands'
  <2>1. phase \in {"manage", "packetize"} /\ UNCHANGED <<islands, islanded_devices, houses_off>>
    BY <1>3 DEF ManageWithoutShed, PacketizeIsland, gridVars
  <2>2. PICK kept \in SUBSET Virtual_Battery[i] : \E told \in SUBSET kept :
          /\ Virtual_Battery' = [Virtual_Battery EXCEPT ![i] = kept]
          /\ thermostat' = thermostat \ told
    BY <1>3 DEF ManageWithoutShed, PacketizeIsland, Packetize
  <2>3. PICK told \in SUBSET kept : thermostat' = thermostat \ told
    BY <2>2
  <2>4. kept \subseteq DevicesIn(islands) /\ told \subseteq DevicesIn(islands)
    BY <2>1, <2>2, <2>3, ChosenWithin
  <2>5. Listed(houses_off)' \subseteq DevicesIn(islands)
    BY <2>1 DEF FirstIslands, Listed
  <2> QED
    BY <2>1, <2>2, <2>3, <2>4, <2>5, IterationWithin
<1>4. ASSUME NEW i \in todo, NEW need \in Needs(i), Shed(i, need) PROVE FirstIslands'
  <2>1. phase \in {"manage", "packetize"} /\ UNCHANGED <<islands, islanded_devices>>
    BY <1>4 DEF Shed, gridVars
  <2> PICK gone \in Gone(i, need) : \E back \in Back(gone, need) :
          /\ Switch(gone, back)
          /\ Packetize(i, (Virtual_Battery[i] \ gone) \cup back, thermostat \ gone)
    BY <1>4 DEF Shed
  <2>2. PICK back \in Back(gone, need) :
          /\ Switch(gone, back)
          /\ Packetize(i, (Virtual_Battery[i] \ gone) \cup back, thermostat \ gone)
    OBVIOUS
  <2>3. PICK kept \in SUBSET ((Virtual_Battery[i] \ gone) \cup back) : \E told \in SUBSET kept :
          /\ Virtual_Battery' = [Virtual_Battery EXCEPT ![i] = kept]
          /\ thermostat' = (thermostat \ gone) \ told
    BY <2>2 DEF Packetize
  <2>4. PICK told \in SUBSET kept : thermostat' = thermostat \ (gone \cup told)
    BY <2>3
  <2>5. /\ Virtual_Battery[i] \subseteq DevicesIn(islands) /\ gone \subseteq DevicesIn(islands)
        /\ back \subseteq DevicesIn(islands)
        /\ Listed(WithOff(gone)) \subseteq DevicesIn(islands)
    BY <2>1, ChosenWithin
  <2>6. Listed(houses_off)' \subseteq DevicesIn(islands)
    BY <2>2, <2>5, SwitchListed DEF IInv
  <2>7. kept \subseteq DevicesIn(islands) /\ gone \cup told \subseteq DevicesIn(islands)
    BY <2>3, <2>4, <2>5
  <2> QED
    BY <2>1, <2>3, <2>4, <2>6, <2>7, IterationWithin
<1>5. ASSUME NEW i \in todo, NEW need \in Needs(i), ShedRaises(i, need) PROVE FirstIslands'
  <2>1. phase \in {"manage", "packetize"} /\ UNCHANGED <<islands, islanded_devices>>
    BY <1>5 DEF ShedRaises, gridVars
  <2>2. CASE UNCHANGED <<Virtual_Battery, houseVars>>
    BY <2>1, <2>2 DEF houseVars, FirstIslands, DevicesIn, Listed
  <2>3. CASE ~UNCHANGED <<Virtual_Battery, houseVars>>
    <3>1. PICK gone \in Gone(i, need) :
            /\ Switch(gone, Listed(WithOff(gone)))
            /\ Virtual_Battery' = [Virtual_Battery EXCEPT ![i] = (@ \ gone) \cup Listed(WithOff(gone))]
            /\ thermostat' = thermostat \ gone
      BY <1>5, <2>3 DEF ShedRaises
    <3> DEFINE kept == (Virtual_Battery[i] \ gone) \cup Listed(WithOff(gone))
    <3>2. /\ Virtual_Battery[i] \subseteq DevicesIn(islands) /\ gone \subseteq DevicesIn(islands)
          /\ Listed(WithOff(gone)) \subseteq DevicesIn(islands)
      BY <2>1, ChosenWithin
    <3>3. Listed(houses_off)' \subseteq DevicesIn(islands)
      BY <3>1, <3>2, SwitchListed DEF IInv
    <3>4. kept \subseteq DevicesIn(islands)
          /\ Virtual_Battery' = [Virtual_Battery EXCEPT ![i] = kept]
      BY <3>1, <3>2
    <3> HIDE DEF kept
    <3> QED
      BY <2>1, <3>1, <3>2, <3>3, <3>4, IterationWithin
  <2> QED
    BY <2>2, <2>3
<1>6. CASE \/ NoNewFaults \/ Dispatch \/ EndCommit \/ SimulationOver \/ UNCHANGED vars
           \/ \E faulted \in FaultSets : ShutOff(faulted) \/ ShutOffHangs(faulted)
  <2>1. UNCHANGED <<islands, islanded_devices, Virtual_Battery, houses_off, thermostat>>
    BY <1>6 DEF NoNewFaults, Dispatch, EndCommit, SimulationOver, ShutOff, ShutOffHangs, vars,
                gridVars, houseVars
  <2> QED
    BY <2>1 DEF FirstIslands, DevicesIn, Listed
<1> QED
  BY <1>1, <1>2, <1>3, <1>4, <1>5, <1>6 DEF Next

\* It holds until the first islands change.
LEMMA FirstIslandsInvariance == Spec /\ FirstIslandsStay => [](IInv /\ FirstIslands)
<1>1. Init => FirstIslands
  BY DEF Init, FirstIslands, DevicesIn, NoBattery, Listed
<1> QED
  BY <1>1, Invariance, FirstIslandsInv, PTL DEF Spec, FirstIslandsStay

\* Until the islands change a second time, every house outside of them is on its
\* thermostat: only houses that leave an island are stranded.
THEOREM ThermostatsUntilChange == Spec /\ FirstIslandsStay => []ThermostatOutsideIslands
<1>1. FirstIslands => ThermostatOutsideIslands
  BY DEF FirstIslands, ThermostatOutsideIslands
<1> QED
  BY <1>1, FirstIslandsInvariance, PTL

\* And an island that is the only one gets no houses from elsewhere: it takes two
\* islands, or later ones, to share houses_off.
THEOREM LoneIslandServed ==
  Spec /\ FirstIslandsStay => []((\A i, j \in islands : i = j) => BatteryServesIsland)
<1>1. IInv /\ FirstIslands => ((\A i, j \in islands : i = j) => BatteryServesIsland)
  <2> SUFFICES ASSUME IInv, FirstIslands, \A i, j \in islands : i = j, ~re_island,
                      NEW i \in islands
               PROVE  Virtual_Battery[i] \subseteq HousesIn(i)
    BY DEF BatteryServesIsland
  <2>1. Virtual_Battery[i] \subseteq DevicesIn(islands)
    BY DEF IInv, BatteryPerIsland, FirstIslands
  <2>2. DevicesIn(islands) \subseteq HousesIn(i)
    BY DEF DevicesIn, HousesIn
  <2> QED
    BY <2>1, <2>2
<1> QED
  BY <1>1, FirstIslandsInvariance, PTL
=============================================================================
