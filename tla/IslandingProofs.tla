--------------------------- MODULE IslandingProofs ---------------------------
(***************************************************************************)
(* find_cycles finds cycles only and never runs into its error, and        *)
(* get_components and process_islands give the islands of the feeder: on   *)
(* any feeder, for any faults, walks and results of the optimization.      *)
(***************************************************************************)
EXTENDS Islanding, FeederProofs, FiniteSetTheorems

-----------------------------------------------------------------------------
(* The walk of find_cycles.                                                *)

\* The list of nodes a walk has come through.
LEMMA WayType ==
  ASSUME TypeOK, WalkInv
  PROVE  steps \in Nat /\ visited \in [1..steps -> Node] /\ DOMAIN visited = 1..steps
<1>1. visited \in Seq(Node) /\ Len(visited) = steps
  BY DEF TypeOK, WalkInv
<1> QED
  BY <1>1

\* The walk has been at as many nodes as it has made steps, and not at its origin
\* again: so there are more nodes than that.
LEMMA WayLength ==
  ASSUME TypeOK, WalkInv
  PROVE  /\ IsFiniteSet(Visited) /\ Cardinality(Visited) = steps
         /\ steps \in Nat /\ steps < Buses
<1>1. steps \in Nat /\ visited \in [1..steps -> Node] /\ DOMAIN visited = 1..steps
  BY WayType
<1>2. visited \in Bijection(1..steps, Visited)
  <2>1. visited \in [1..steps -> Visited]
    BY <1>1 DEF Visited
  <2>2. IsInjective(visited)
    BY <1>1 DEF WalkInv, IsInjective
  <2>3. \A n \in Visited : \E k \in 1..steps : visited[k] = n
    BY <1>1 DEF Visited
  <2> QED
    BY <2>1, <2>2, <2>3 DEF Bijection, Injection, Surjection
<1>3. IsFiniteSet(1..steps) /\ Cardinality(1..steps) = steps
  BY <1>1, FS_Interval
<1>4. IsFiniteSet(Visited) /\ Cardinality(Visited) = steps
  BY <1>2, <1>3, FS_Bijection DEF ExistsBijection
<1>5. IsFiniteSet(Node) /\ Cardinality(Node) = Buses
  BY FS_Interval, IslandingAssumption
<1>6. IsFiniteSet(Node \ {origin}) /\ Cardinality(Node \ {origin}) = Buses - 1
  BY <1>5, FS_RemoveElement DEF TypeOK
<1>7. Visited \subseteq Node \ {origin}
  BY <1>1 DEF WalkInv, Visited
<1>8. steps <= Buses - 1
  BY <1>4, <1>6, <1>7, FS_Subset
<1> QED
  BY <1>1, <1>4, <1>8, IslandingAssumption

\* A walk that is back at its origin has gone round a cycle.
LEMMA WalkIsCycle ==
  ASSUME TypeOK, WalkInv, origin \in NextNodes
  PROVE  IsCycle({origin} \cup Visited, Branch)
<1> DEFINE S == {origin} \cup Visited
           order == [k \in 1..steps + 1 |-> IF k = 1 THEN origin ELSE visited[k - 1]]
<1>1. steps \in Nat /\ visited \in [1..steps -> Node] /\ DOMAIN visited = 1..steps
  BY WayType
<1>2. steps >= 2
  <2>1. steps # 1
    BY DEF NextNodes
  <2>2. steps # 0
    <3> SUFFICES ASSUME steps = 0 PROVE FALSE
      OBVIOUS
    <3>1. {origin, origin} \in Branch
      BY DEF WalkInv, NextNodes, Linked
    <3>2. PICK m \in Node, n \in Node : m # n /\ {origin, origin} = {m, n}
      BY <3>1, IslandingAssumption
    <3> QED
      BY <3>2
  <2> QED
    BY <1>1, <2>1, <2>2
<1>3. Cardinality(S) = steps + 1
  <2>1. origin \notin Visited /\ S = Visited \cup {origin}
    BY DEF WalkInv
  <2> QED
    BY <2>1, WayLength, FS_AddElement
<1>4. order \in [1..steps + 1 -> S]
  <2>1. \A k \in 1..steps + 1 : k # 1 => k - 1 \in 1..steps
    BY <1>1
  <2>2. \A k \in 1..steps : visited[k] \in Visited
    BY <1>1 DEF Visited
  <2> QED
    BY <2>1, <2>2
<1>5. ASSUME NEW j \in 1..steps + 1, NEW k \in 1..steps + 1, order[j] = order[k]
      PROVE  j = k
  <2>1. \A l \in 1..steps : visited[l] \in Visited /\ visited[l] # origin
    BY <1>1 DEF Visited, WalkInv
  <2>2. CASE j = 1 \/ k = 1
    BY <1>1, <1>5, <2>1, <2>2
  <2>3. CASE j # 1 /\ k # 1
    <3>1. j - 1 \in 1..steps /\ k - 1 \in 1..steps /\ visited[j - 1] = visited[k - 1]
      BY <1>1, <1>5, <2>3
    <3>2. j - 1 = k - 1
      BY <3>1 DEF WalkInv
    <3> QED
      BY <3>2
  <2> QED
    BY <2>2, <2>3
<1>6. ASSUME NEW k \in 1..steps
      PROVE  {order[k], order[k + 1]} \in Branch
  <2>1. order[k + 1] = visited[k]
    BY <1>1
  <2>2. CASE k = 1
    <3>1. order[k] = origin /\ steps > 0
      BY <1>1, <1>2, <2>2
    <3> QED
      BY <2>1, <2>2, <3>1 DEF WalkInv
  <2>3. CASE k # 1
    <3>1. k - 1 \in 1..steps - 1 /\ order[k] = visited[k - 1] /\ (k - 1) + 1 = k
      BY <1>1, <2>3
    <3>2. {visited[k - 1], visited[(k - 1) + 1]} \in Branch
      BY <3>1 DEF WalkInv
    <3> QED
      BY <2>1, <3>1, <3>2
  <2> QED
    BY <2>2, <2>3
<1>7. {order[steps + 1], order[1]} \in Branch
  <2>1. order[steps + 1] = id /\ order[1] = origin
    BY <1>1, <1>2 DEF WalkInv
  <2>2. {origin, id} \in Branch
    BY DEF NextNodes, Linked
  <2>3. {origin, id} = {id, origin}
    OBVIOUS
  <2> QED
    BY <2>1, <2>2, <2>3
<1>8. Cardinality(S) >= 3
  BY <1>1, <1>2, <1>3
<1> HIDE DEF order, S
<1>9. /\ order \in [1..Cardinality(S) -> S]
      /\ \A j, k \in 1..Cardinality(S) : order[j] = order[k] => j = k
      /\ \A k \in 1..Cardinality(S) - 1 : {order[k], order[k + 1]} \in Branch
      /\ {order[Cardinality(S)], order[1]} \in Branch
  BY <1>1, <1>3, <1>4, <1>5, <1>6, <1>7
<1>10. IsCycle(S, Branch)
  BY <1>8, <1>9 DEF IsCycle
<1> QED
  BY <1>10 DEF S

-----------------------------------------------------------------------------
(* The search of get_connected_group.                                      *)

\* The closed branches are branches of the feeder, none of them at a fault.
LEMMA LinksType ==
  ASSUME TypeOK, st1 \subseteq InUse
  PROVE  Links \subseteq Branch \ Isolated(faulted) /\ Links \in SUBSET Branch
BY IslandingAssumption DEF Links, InUse

\* A branch at a node leads to a node it is linked with.
LEMMA LinkedAlong ==
  ASSUME TypeOK, st1 \subseteq InUse, NEW b \in Links, NEW n \in b, NEW m \in b
  PROVE  m = n \/ m \in Linked(n, Links)
<1>1. PICK p \in Node, q \in Node : b = {p, q}
  BY LinksType, IslandingAssumption
<1>2. m = n \/ b = {m, n}
  BY <1>1
<1>3. m \in Node
  BY <1>1
<1> QED
  BY <1>2, <1>3 DEF Linked

\* A set that holds what its nodes are linked with is closed.
LEMMA LinkedClosed ==
  ASSUME TypeOK, st1 \subseteq InUse, NEW S, \A n \in S : Linked(n, Links) \subseteq S
  PROVE  Closed(S, Links)
<1> SUFFICES ASSUME NEW b \in Links, NEW n \in b \cap S, NEW m \in b
             PROVE  m \in S
  BY DEF Closed
<1> QED
  BY LinkedAlong

\* A component holds what its nodes are linked with.
LEMMA ComponentLinked ==
  ASSUME TypeOK, st1 \subseteq InUse, NEW n \in Node, NEW m \in Component(n, Links)
  PROVE  Linked(m, Links) \subseteq Component(n, Links)
<1>1. Closed(Component(n, Links), Links)
  BY LinksType, ComponentClosed
<1> QED
  BY <1>1 DEF Closed, Linked

\* A node already seen and linked with the group at work is in that group:
\* finished groups are components.
LEMMA SeenInGroup ==
  ASSUME TypeOK, st1 \subseteq InUse, GroupsInv, RootInv,
         NEW n \in nodes, NEW m \in Linked(n, Links), m \in already_seen
  PROVE  m \in result
<1> SUFFICES ASSUME NEW g \in groups, m \in g.members
             PROVE  FALSE
  BY DEF GroupsInv
<1>1. g.first \in Node /\ g.members = Component(g.first, Links)
  BY DEF TypeOK, Group, GroupsInv
<1>2. root \in Node /\ n \in Component(root, Links) /\ Links \in SUBSET Branch
  BY LinksType DEF TypeOK, RootInv
<1>3. m \in Component(root, Links)
  BY <1>2, ComponentLinked
<1>4. Component(m, Links) = Component(root, Links) /\ Component(m, Links) = g.members
  BY <1>1, <1>2, <1>3, SameComponent
<1>5. root \in g.members
  BY <1>2, <1>4, ComponentClosed
<1> QED
  BY <1>5 DEF RootInv

\* A node is worked off: what it is linked with joins the set.
LEMMA PopNodeInv ==
  ASSUME IInv, NEW n \in nodes, PopNode(n)
  PROVE  IInv'
<1> USE DEF IInv, PopNode, requestVars, walkVars
<1>1. phase = "group" /\ phase' = "group" /\ Links' = Links /\ st1 \subseteq InUse
  BY DEF Links
<1>2. n \in Node /\ Linked(n, Links) \subseteq Node
  BY DEF TypeOK, Linked
<1>3. TypeOK'
  BY <1>1, <1>2 DEF TypeOK
<1>4. root \in Node /\ n \in Component(root, Links)
  BY <1>1 DEF TypeOK, RootInv
<1>5. Linked(n, Links) \subseteq Component(root, Links)
  BY <1>1, <1>4, ComponentLinked
<1>6. Linked(n, Links) \subseteq result' \cup nodes'
  BY <1>1, SeenInGroup
<1>7. RootInv'
  <2>1. root' = root /\ groups' = groups
    OBVIOUS
  <2>2. /\ root' \in result' \cup nodes' /\ result' \subseteq already_seen'
        /\ nodes' \cap already_seen' = {}
    BY <1>1 DEF RootInv
  <2>3. result' \cup nodes' \subseteq Component(root, Links)
    BY <1>1, <1>4, <1>5 DEF RootInv
  <2>4. \A m \in result' : Linked(m, Links) \subseteq result' \cup nodes'
    BY <1>1, <1>6 DEF RootInv
  <2> QED
    BY <1>1, <2>1, <2>2, <2>3, <2>4 DEF RootInv
<1>8. GroupsInv'
  BY <1>1 DEF GroupsInv
<1>9. CyclesAreCycles' /\ IslandsAsPromised' /\ st1' \subseteq InUse'
  BY <1>1 DEF CyclesAreCycles, IslandsAsPromised, InUse
<1> QED
  BY <1>1, <1>3, <1>7, <1>8, <1>9

\* A group without anything left to work off is a component.
LEMMA EndGroupInv == IInv /\ EndGroup => IInv'
<1> SUFFICES ASSUME IInv, EndGroup PROVE IInv'
  OBVIOUS
<1> USE DEF IInv, EndGroup, requestVars, walkVars
<1>1. phase = "group" /\ phase' = "search" /\ Links' = Links /\ st1 \subseteq InUse
  BY DEF Links
<1>2. root \in Node /\ result \subseteq Node /\ root \in result
  BY <1>1 DEF TypeOK, RootInv
<1>3. Closed(result, Links)
  BY <1>1, LinkedClosed DEF RootInv
<1>4. result = Component(root, Links)
  BY <1>1, <1>2, <1>3, ComponentLeast DEF RootInv
<1>5. TypeOK'
  BY <1>1, <1>2 DEF TypeOK, Group
<1>6. GroupsInv'
  <2>1. \A g \in groups' : g.members = Component(g.first, Links) /\ g.members \subseteq already_seen
    BY <1>1, <1>4 DEF GroupsInv, RootInv
  <2>2. ASSUME NEW m \in already_seen PROVE \E g \in groups' : m \in g.members
    <3> DEFINE new == [first |-> root, members |-> result]
    <3>1. new \in groups' /\ new.members = result /\ groups \subseteq groups'
      OBVIOUS
    <3>2. (\E g \in groups : m \in g.members) \/ m \in result
      BY <1>1 DEF GroupsInv
    <3> QED
      BY <3>1, <3>2
  <2> QED
    BY <1>1, <2>1, <2>2 DEF GroupsInv
<1>7. CyclesAreCycles' /\ IslandsAsPromised' /\ st1' \subseteq InUse'
  BY <1>1 DEF CyclesAreCycles, IslandsAsPromised, InUse
<1> QED
  BY <1>1, <1>5, <1>6, <1>7

\* A new group begins at a node no group holds.
LEMMA NextRootInv == IInv /\ NextRoot => IInv'
<1> SUFFICES ASSUME IInv, NextRoot PROVE IInv'
  OBVIOUS
<1> USE DEF IInv, NextRoot, requestVars, walkVars
<1>1. phase = "search" /\ phase' = "group" /\ Links' = Links /\ st1 \subseteq InUse
  BY DEF Links
<1>2. root' \in Node /\ root' \notin already_seen
  OBVIOUS
<1>3. TypeOK'
  BY <1>1, <1>2 DEF TypeOK
<1>4. GroupsInv'
  BY <1>1 DEF GroupsInv
<1>5. root' \in Component(root', Links)
  BY <1>1, <1>2, LinksType, ComponentClosed
<1>6. RootInv'
  BY <1>1, <1>2, <1>5 DEF RootInv, GroupsInv
<1>7. CyclesAreCycles' /\ IslandsAsPromised' /\ st1' \subseteq InUse'
  BY <1>1 DEF CyclesAreCycles, IslandsAsPromised, InUse
<1> QED
  BY <1>1, <1>3, <1>4, <1>6, <1>7

\* process_islands: the groups it keeps are the islands of the feeder.
LEMMA KeepIslandsInv == IInv /\ KeepIslands => IInv'
<1> SUFFICES ASSUME IInv, KeepIslands PROVE IInv'
  OBVIOUS
<1> USE DEF IInv, KeepIslands, requestVars, walkVars, searchVars
<1>1. phase = "search" /\ phase' = "done" /\ Links' = Links /\ st1 \subseteq InUse
  BY DEF Links
<1>2. \A g \in groups : /\ g.first \in Node /\ g.members = Component(g.first, Links)
                        /\ g.first \in g.members
  BY <1>1, LinksType, ComponentClosed DEF TypeOK, Group, GroupsInv
<1>3. \A n \in Node : \E g \in groups : n \in g.members
  BY <1>1 DEF GroupsInv
<1>4. Links \in SUBSET Branch
  BY <1>1, LinksType
<1>5. TypeOK'
  BY <1>1 DEF TypeOK, Group
<1> DEFINE islandable == {Component(n, Links) : n \in Node \ {Swing}} \ {Component(Swing, Links)}
<1>6. ASSUME NEW i \in islands' PROVE i \in islandable /\ i \ faulted # {}
  <2>1. PICK g \in groups : i = g.members /\ Swing \notin g.members /\ g.first \notin faulted
    OBVIOUS
  <2>2. Swing \in Component(Swing, Links)
    BY <1>4, FeederAssumption, ComponentClosed
  <2> QED
    BY <1>2, <2>1, <2>2
<1>7. ASSUME NEW i \in islandable, i \notin islands' PROVE i \cap faulted # {}
  <2>1. PICK n \in Node \ {Swing} : i = Component(n, Links) /\ i # Component(Swing, Links)
    OBVIOUS
  <2>2. PICK g \in groups : n \in g.members
    BY <1>3, <2>1
  <2>3. i = g.members
    BY <1>2, <1>4, <2>1, <2>2, SameComponent
  <2>4. Swing \notin i
    BY <1>4, <2>1, SameComponent
  <2>5. g.first \in faulted
    BY <1>7, <2>3, <2>4
  <2> QED
    BY <1>2, <2>3, <2>5
<1>8. islands' \in IslandSets(Links, faulted)
  BY <1>6, <1>7 DEF IslandSets
<1>9. IslandsAsPromised'
  BY <1>1, <1>8, LinksType DEF IslandsAsPromised
<1>10. CyclesAreCycles' /\ st1' \subseteq InUse'
  BY <1>1 DEF CyclesAreCycles, InUse
<1> QED
  BY <1>1, <1>5, <1>9, <1>10

-----------------------------------------------------------------------------
(* The other steps.                                                        *)

\* The invariant holds when a request arrives.
LEMMA InitInv == Init => IInv
<1> SUFFICES ASSUME Init PROVE IInv
  OBVIOUS
<1> USE DEF Init
<1>1. 1 \in Node /\ Buses \in Nat
  BY FeederAssumption, IslandingAssumption
<1>2. TypeOK
  BY <1>1, IslandingAssumption DEF TypeOK
<1> QED
  BY <1>2 DEF IInv, CyclesAreCycles, IslandsAsPromised

\* A walk begins without any way behind it.
LEMMA StartWalkInv == IInv /\ StartWalk => IInv'
<1> SUFFICES ASSUME IInv, StartWalk PROVE IInv'
  OBVIOUS
<1> USE DEF IInv, StartWalk, requestVars, searchVars
<1>1. TypeOK'
  BY IslandingAssumption DEF TypeOK
<1>2. Visited' = {}
  BY DEF Visited
<1>3. WalkInv'
  BY <1>2 DEF WalkInv
<1>4. CyclesAreCycles' /\ IslandsAsPromised'
  BY DEF CyclesAreCycles, IslandsAsPromised
<1> QED
  BY <1>1, <1>3, <1>4

\* A walk goes on to a node it has not been at.
LEMMA GoOnInv ==
  ASSUME TypeOK, WalkInv, GoOn, steps' = steps + 1, origin' = origin
  PROVE  WalkInv' /\ visited' \in Seq(Node)
<1>1. steps \in Nat /\ visited \in [1..steps -> Node] /\ DOMAIN visited = 1..steps
  BY WayType
<1>2. visited \in Seq(Node) /\ Len(visited) = steps
  BY DEF TypeOK, WalkInv
<1>3. id' \in Node /\ id' \notin Visited /\ id' # origin /\ {id', id} \in Branch
  BY DEF GoOn, NextNodes, Linked
<1>4. visited' = Append(visited, id')
  BY <1>3 DEF GoOn
<1>5. /\ visited' \in Seq(Node) /\ Len(visited') = steps + 1
      /\ DOMAIN visited' = 1..steps + 1
      /\ visited'[steps + 1] = id' /\ \A k \in 1..steps : visited'[k] = visited[k]
  BY <1>2, <1>3, <1>4
<1>6. \A k \in 1..steps : visited[k] \in Visited
  BY <1>1 DEF Visited
<1>7. \A k \in 1..steps + 1 : k \in 1..steps \/ k = steps + 1
  BY <1>1
<1>8. origin \notin Visited'
  BY <1>3, <1>5, <1>6, <1>7 DEF Visited, WalkInv
<1>9. \A j, k \in 1..steps + 1 : visited'[j] = visited'[k] => j = k
  BY <1>3, <1>5, <1>6, <1>7 DEF WalkInv
<1>10. {origin, visited'[1]} \in Branch
  <2>1. CASE steps = 0
    <3>1. id = origin
      BY <2>1 DEF WalkInv
    <3>2. visited'[1] = id'
      BY <1>5, <2>1
    <3>3. {origin, id'} = {id', id}
      BY <3>1
    <3> QED
      BY <1>3, <3>2, <3>3
  <2>2. CASE steps # 0
    <3>1. 1 \in 1..steps /\ steps > 0
      BY <1>1, <2>2
    <3> QED
      BY <1>5, <3>1 DEF WalkInv
  <2> QED
    BY <2>1, <2>2
<1>11. ASSUME NEW k \in 1..steps PROVE {visited'[k], visited'[k + 1]} \in Branch
  <2>1. CASE k = steps
    <3>1. id = visited[k] /\ {id', id} = {id, id'}
      BY <1>1, <2>1 DEF WalkInv
    <3> QED
      BY <1>3, <1>5, <2>1, <3>1
  <2>2. CASE k # steps
    <3>1. k \in 1..steps - 1 /\ k + 1 \in 1..steps
      BY <1>1, <2>2
    <3> QED
      BY <1>5, <3>1 DEF WalkInv
  <2> QED
    BY <2>1, <2>2
<1>12. steps' - 1 = steps /\ id' = (IF steps' = 0 THEN origin' ELSE visited'[steps'])
  BY <1>1, <1>5
<1> QED
  BY <1>5, <1>8, <1>9, <1>10, <1>11, <1>12 DEF WalkInv

\* A turn of the walk: its error is out of reach.
LEMMA WalkStepInv == IInv /\ Walk => IInv'
<1> SUFFICES ASSUME IInv, Walk PROVE IInv'
  OBVIOUS
<1> USE DEF IInv, Walk, requestVars, searchVars
<1>1. WalkInv /\ steps \in Nat /\ steps < Buses /\ steps' = steps + 1
  BY WayLength
<1>2. DeadEnd \/ CloseCycle \/ GoOn
  BY <1>1
<1>3. Buses \in Nat /\ steps' \in 0..Buses + 1
  BY <1>1, IslandingAssumption
<1>4. st1' = st1 /\ already_seen' = {} /\ groups' = {}
  OBVIOUS
<1>5. CASE DeadEnd
  <2>1. TypeOK' /\ phase' = "start"
    BY <1>3, <1>5 DEF DeadEnd, TypeOK
  <2>2. CyclesAreCycles' /\ IslandsAsPromised'
    BY <1>5, <2>1 DEF DeadEnd, CyclesAreCycles, IslandsAsPromised
  <2> QED
    BY <1>4, <2>1, <2>2
<1>6. CASE CloseCycle
  <2>1. {origin} \cup Visited \subseteq Node
    BY <1>1, WayType DEF TypeOK, Visited
  <2>2. TypeOK' /\ phase' = "start"
    BY <1>3, <1>6, <2>1 DEF CloseCycle, TypeOK
  <2>3. IsCycle({origin} \cup Visited, Branch)
    BY <1>1, <1>6, WalkIsCycle DEF CloseCycle
  <2>4. CyclesAreCycles' /\ IslandsAsPromised'
    BY <1>6, <2>2, <2>3 DEF CloseCycle, CyclesAreCycles, IslandsAsPromised
  <2> QED
    BY <1>4, <2>2, <2>4
<1>7. CASE GoOn
  <2>1. WalkInv' /\ visited' \in Seq(Node)
    BY <1>1, <1>7, GoOnInv
  <2>2. phase' = "walk" /\ cycles' = cycles /\ id' \in Node
    BY <1>7 DEF GoOn, NextNodes, Linked
  <2>3. TypeOK'
    BY <1>3, <2>1, <2>2 DEF TypeOK
  <2>4. CyclesAreCycles' /\ IslandsAsPromised'
    BY <2>2 DEF CyclesAreCycles, IslandsAsPromised
  <2> QED
    BY <1>4, <2>1, <2>2, <2>3, <2>4
<1> QED
  BY <1>2, <1>5, <1>6, <1>7

\* The optimization closes branches that are in use; no group is found yet.
LEMMA OptimizeInv == IInv /\ Optimize => IInv'
<1> SUFFICES ASSUME IInv, Optimize PROVE IInv'
  OBVIOUS
<1> USE DEF IInv, Optimize, requestVars, searchVars
<1>1. 1 \in Node /\ Buses \in Nat /\ <<>> \in Seq(Node)
  BY FeederAssumption, IslandingAssumption
<1>2. phase' \in {"search", "unsolved", "failed"}
  OBVIOUS
<1>3. st1' \subseteq DOMAIN Ends /\ (phase' = "search" => st1' \subseteq InUse')
  BY DEF TypeOK, InUse
<1>4. TypeOK'
  BY <1>1, <1>2, <1>3 DEF TypeOK
<1>5. CyclesAreCycles' /\ IslandsAsPromised' /\ GroupsInv'
  BY <1>2 DEF CyclesAreCycles, IslandsAsPromised, GroupsInv
<1> QED
  BY <1>2, <1>3, <1>4, <1>5

\* Every step keeps the invariant.
LEMMA NextInv == IInv /\ [Next]_vars => IInv'
<1> SUFFICES ASSUME IInv, [Next]_vars PROVE IInv'
  OBVIOUS
<1>1. CASE \E n \in nodes : PopNode(n)
  BY <1>1, PopNodeInv
<1>2. CASE UNCHANGED vars
  BY <1>2 DEF IInv, vars, requestVars, walkVars, searchVars, TypeOK, CyclesAreCycles, WalkInv,
              Visited, InUse, GroupsInv, RootInv, Links, IslandsAsPromised
<1> QED
  BY <1>1, <1>2, StartWalkInv, WalkStepInv, OptimizeInv, NextRootInv, EndGroupInv,
     KeepIslandsInv DEF Next, Done

\* The invariant holds throughout a request.
THEOREM Invariance == Spec => []IInv
BY InitInv, NextInv, PTL DEF Spec

\* Types: every variable holds what its Julia or Python counterpart may hold.
THEOREM TypeCorrect == Spec => []TypeOK
<1>1. IInv => TypeOK
  BY DEF IInv
<1> QED
  BY <1>1, Invariance, PTL

\* What find_cycles records is a cycle of the feeder.
THEOREM CyclesSound == Spec => []CyclesAreCycles
<1>1. IInv => CyclesAreCycles
  BY DEF IInv
<1> QED
  BY <1>1, Invariance, PTL

\* The error of find_cycles is never raised.
THEOREM NoWalkTooLong == Spec => []WalkEnds
<1>1. IInv => WalkEnds
  BY WayLength DEF IInv, WalkEnds
<1> QED
  BY <1>1, Invariance, PTL

\* The islands are those AbsorptionControl assumes.
THEOREM IslandsSound == Spec => []IslandsAsPromised
<1>1. IInv => IslandsAsPromised
  BY DEF IInv
<1> QED
  BY <1>1, Invariance, PTL

-----------------------------------------------------------------------------
(* Everything ends.                                                        *)

\* A node that has been seen is one less to see.
LEMMA Unseen ==
  ASSUME NEW seen \in SUBSET Node
  PROVE  /\ Cardinality(Node \ seen) \in Nat
         /\ Cardinality(Node \ seen) <= Buses
         /\ \A n \in Node \ seen : Cardinality(Node \ (seen \cup {n})) = Cardinality(Node \ seen) - 1
<1>1. IsFiniteSet(Node) /\ Cardinality(Node) = Buses
  BY FS_Interval, IslandingAssumption
<1>2. IsFiniteSet(Node \ seen) /\ Cardinality(Node \ seen) <= Buses
  BY <1>1, FS_Subset
<1>3. ASSUME NEW n \in Node \ seen
      PROVE  Cardinality(Node \ (seen \cup {n})) = Cardinality(Node \ seen) - 1
  <2>1. Node \ (seen \cup {n}) = (Node \ seen) \ {n}
    OBVIOUS
  <2> QED
    BY <1>2, <2>1, FS_RemoveElement
<1> QED
  BY <1>2, <1>3, FS_CardinalityType

\* What is left is a number of turns.
LEMMA WorkLeftType == TypeOK => WorkLeft \in Nat
<1> SUFFICES ASSUME TypeOK PROVE WorkLeft \in Nat
  OBVIOUS
<1>1. Buses \in Nat /\ iter \in 0..2 * Buses /\ steps \in 0..Buses + 1
  BY IslandingAssumption DEF TypeOK
<1>2. TurnsLeft \in Nat
  <2>1. 2 * Buses - iter \in Nat /\ Buses + 2 \in Nat
    BY <1>1
  <2>2. (2 * Buses - iter) * (Buses + 2) \in Nat
    BY <2>1
  <2> QED
    BY <1>1, <2>2 DEF TurnsLeft
<1>3. SearchLeft \in Nat
  <2>1. Cardinality(Node \ already_seen) \in Nat
    BY Unseen DEF TypeOK
  <2> QED
    BY <2>1 DEF SearchLeft
<1> QED
  BY <1>1, <1>2, <1>3 DEF WorkLeft

\* A walk begun is one less, and takes fewer turns than that counted for.
LEMMA StartWalkCounts == IInv /\ StartWalk => WorkLeft' < WorkLeft
<1> SUFFICES ASSUME IInv, StartWalk PROVE WorkLeft' < WorkLeft
  OBVIOUS
<1>1. /\ Buses \in Nat /\ iter \in Nat /\ iter < 2 * Buses /\ iter' = iter + 1
      /\ steps' = 0 /\ phase = "start" /\ phase' = "walk"
  BY IslandingAssumption DEF IInv, TypeOK, StartWalk
<1> DEFINE a == 2 * Buses - (iter + 1)
           c == Buses + 2
<1>2. a \in Nat /\ c \in Nat /\ 2 * Buses - iter = a + 1
  BY <1>1
<1>3. (a + 1) * c = a * c + c /\ a * c \in Nat
  <2> HIDE DEF a, c
  <2> QED
    BY <1>2
<1>4. TurnsLeft = a * c + c /\ TurnsLeft' = a * c + Buses + 1
  BY <1>1, <1>2, <1>3 DEF TurnsLeft
<1>5. WorkLeft = TurnsLeft + 3 * Buses + 2 /\ WorkLeft' = TurnsLeft' + 3 * Buses + 2
  BY <1>1 DEF WorkLeft
<1> HIDE DEF a
<1> QED
  BY <1>1, <1>2, <1>3, <1>4, <1>5

\* A turn of a walk is one less.
LEMMA WalkCounts == IInv /\ Walk => WorkLeft' < WorkLeft
<1> SUFFICES ASSUME IInv, Walk PROVE WorkLeft' < WorkLeft
  OBVIOUS
<1>1. /\ Buses \in Nat /\ steps \in Nat /\ steps < Buses /\ steps' = steps + 1
      /\ iter \in 0..2 * Buses /\ iter' = iter
      /\ phase = "walk"
  BY IslandingAssumption, WayLength DEF IInv, TypeOK, Walk
<1>2. phase' \in {"start", "walk"}
  BY <1>1 DEF Walk, DeadEnd, CloseCycle, GoOn
<1> DEFINE rest == (2 * Buses - iter) * (Buses + 2)
<1>3. rest \in Nat /\ rest' = rest
  BY <1>1
<1>4. /\ TurnsLeft = rest + (Buses + 1 - steps)
      /\ TurnsLeft' = rest + (IF phase' = "walk" THEN Buses + 1 - steps' ELSE 0)
  BY <1>1, <1>3 DEF TurnsLeft
<1>5. WorkLeft = TurnsLeft + 3 * Buses + 2 /\ WorkLeft' = TurnsLeft' + 3 * Buses + 2
  BY <1>1, <1>2 DEF WorkLeft
<1> HIDE DEF rest
<1> QED
  BY <1>1, <1>3, <1>4, <1>5

\* The search begins with no more than was set aside for it.
LEMMA OptimizeCounts == IInv /\ Optimize => WorkLeft' < WorkLeft
<1> SUFFICES ASSUME IInv, Optimize PROVE WorkLeft' < WorkLeft
  OBVIOUS
<1>1. /\ Buses \in Nat /\ iter = 2 * Buses /\ phase = "start" /\ phase' \in {"search", "unsolved", "failed"}
      /\ already_seen \subseteq Node /\ already_seen' = already_seen
  BY IslandingAssumption DEF IInv, TypeOK, Optimize, searchVars
<1>2. TurnsLeft = 0
  <2>1. 2 * Buses - iter = 0 /\ 0 * (Buses + 2) = 0
    BY <1>1
  <2> QED
    BY <1>1, <2>1 DEF TurnsLeft
<1>3. WorkLeft = 3 * Buses + 2
  BY <1>1, <1>2 DEF WorkLeft
<1>4. WorkLeft' \in {0, 3 * Cardinality(Node \ already_seen) + 1}
  BY <1>1 DEF WorkLeft, SearchLeft
<1> QED
  BY <1>1, <1>3, <1>4, Unseen

\* So are the steps of the search, each of which takes up a node or ends a group
\* that has taken up one.
LEMMA SearchCounts ==
  IInv /\ (NextRoot \/ EndGroup \/ \E n \in nodes : PopNode(n)) => WorkLeft' < WorkLeft
<1> SUFFICES ASSUME IInv, NextRoot \/ EndGroup \/ \E n \in nodes : PopNode(n)
             PROVE  WorkLeft' < WorkLeft
  OBVIOUS
<1>1. already_seen \in SUBSET Node /\ nodes \subseteq Node
  BY DEF IInv, TypeOK
<1>2. Cardinality(Node \ already_seen) \in Nat
  BY <1>1, Unseen
<1>3. CASE NextRoot
  <2>1. /\ phase = "search" /\ phase' = "group" /\ already_seen' = already_seen
        /\ root' \notin already_seen
    BY <1>3 DEF NextRoot
  <2> QED
    BY <1>2, <2>1 DEF WorkLeft, SearchLeft
<1>4. CASE EndGroup
  <2>1. /\ phase = "group" /\ phase' = "search" /\ already_seen' = already_seen
        /\ root \in already_seen
    BY <1>4 DEF EndGroup, IInv, RootInv
  <2> QED
    BY <1>2, <2>1 DEF WorkLeft, SearchLeft
<1>5. ASSUME NEW n \in nodes, PopNode(n) PROVE WorkLeft' < WorkLeft
  <2>1. /\ phase = "group" /\ phase' = "group" /\ root' = root
        /\ already_seen' = already_seen \cup {n}
    BY <1>5 DEF PopNode
  <2>2. n \in Node \ already_seen
    BY <1>1, <2>1 DEF IInv, RootInv
  <2>3. Cardinality(Node \ already_seen') = Cardinality(Node \ already_seen) - 1
    BY <1>1, <2>1, <2>2, Unseen
  <2>4. Cardinality(Node \ already_seen') \in Nat
    BY <1>1, <2>1, <2>2, Unseen
  <2> QED
    BY <1>2, <2>1, <2>3, <2>4 DEF WorkLeft, SearchLeft
<1> QED
  BY <1>3, <1>4, <1>5

\* On any feeder, every turn of find_cycles, of the optimization's request and of
\* the search for islands leaves less to do, down from a number of turns that is
\* known when the request arrives.
THEOREM WorkEnds == Spec => [](WorkLeft \in Nat) /\ EveryTurnCounts
<1>1. IInv => WorkLeft \in Nat
  BY WorkLeftType DEF IInv
<1>2. IInv /\ [Next]_vars => [WorkLeft' < WorkLeft]_vars
  <2> SUFFICES ASSUME IInv, Next, vars' # vars PROVE WorkLeft' < WorkLeft
    OBVIOUS
  <2>1. CASE KeepIslands
    <3>1. phase = "search" /\ phase' = "done" /\ already_seen \in SUBSET Node
      BY <2>1 DEF KeepIslands, IInv, TypeOK
    <3>2. Cardinality(Node \ already_seen) \in Nat
      BY <3>1, Unseen
    <3> QED
      BY <3>1, <3>2 DEF WorkLeft, SearchLeft
  <2> QED
    BY <2>1, StartWalkCounts, WalkCounts, OptimizeCounts, SearchCounts DEF Next, Done
<1> QED
  BY <1>1, <1>2, Invariance, PTL DEF Spec, EveryTurnCounts

\* On a feeder with no fewer branches than nodes, as any connected one with a cycle
\* is, the nodes of a cycle are indices of branches and no walk reaches its limit: the
\* one error a request can end in is that the optimization has no optimal solution.
THEOREM FailsForSolverOnly ==
  ASSUME Buses <= Len(Ends)
  PROVE  Spec => [](phase # "failed")
<1>1. Node \subseteq DOMAIN Ends
  BY IslandingAssumption
<1>2. Init => phase # "failed"
  BY DEF Init
<1>3. IInv /\ phase # "failed" /\ [Next]_vars => (phase # "failed")'
  <2> SUFFICES ASSUME IInv, phase # "failed", [Next]_vars PROVE phase' # "failed"
    OBVIOUS
  <2>1. CASE Walk
    <3>1. steps # Buses
      BY <2>1, WayLength DEF Walk, IInv
    <3> QED
      BY <2>1, <3>1 DEF Walk, DeadEnd, CloseCycle, GoOn
  <2>2. CASE Optimize
    <3>1. UNION cycles \subseteq DOMAIN Ends
      BY <1>1 DEF IInv, TypeOK
    <3> QED
      BY <2>2, <3>1 DEF Optimize
  <2> QED
    BY <2>1, <2>2 DEF Next, StartWalk, NextRoot, EndGroup, PopNode, KeepIslands, Done, vars
<1> QED
  BY <1>2, <1>3, Invariance, PTL DEF Spec
=============================================================================
