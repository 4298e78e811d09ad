------------------------------ MODULE Islanding ------------------------------
(***************************************************************************)
(* How the feeder is split when the faults have changed, from the server's *)
(* "islanding" operation to the islands absorption.py works with:          *)
(* find_cycles (julia/graph_tools.jl) walks the graph at random,           *)
(* islanding_core (julia/islanding.jl) chooses the branches to close, and  *)
(* get_components collects the connected groups of what is left.           *)
(*                                                                         *)
(* The optimization may close any branches its constraints on switches     *)
(* admit, or have no optimal solution: that depends on loads and           *)
(* generation, which are not modelled.  Every error here is an "error" of  *)
(* module JuliaLink.  isolate_nodes assumes that every branch can be       *)
(* switched, and so does this module.                                      *)
(***************************************************************************)
EXTENDS Feeder, Sequences, FiniteSets

CONSTANTS
  Buses,      \* nbus
  Ends,       \* the ends of each branch, in the order of the request
  FaultSets   \* faulted nodes a request may name

\* get_islanding_data: the supernodes at branches, numbered from 1, and the
\* branches between different ones.
ASSUME IslandingAssumption ==
  /\ Buses \in Nat
  /\ Node = 1..Buses
  /\ Ends \in Seq(Branch)
  /\ Branch = {Ends[i] : i \in DOMAIN Ends}
  /\ \A b \in Branch : \E m, n \in Node : m # n /\ b = {m, n}
  /\ FaultSets \subseteq SUBSET Node

VARIABLES
  phase,          \* what is being done
  faulted,        \* faulted_nodes of the request
  iter,           \* walks begun
  origin, id,     \* where the walk began and where it is
  visited,        \* nodes it has come through, in order, without the origin
  steps,          \* its counter i
  cycles,         \* node sets found
  st1,            \* branches the result has closed
  already_seen,
  nodes,          \* the set get_connected_group works off
  result,         \* the group it builds
  root,           \* the node it began with, first of that list
  groups,         \* the list of get_components
  islands         \* virtual_islands

requestVars == <<faulted>>
walkVars == <<iter, origin, id, visited, steps, cycles>>
searchVars == <<already_seen, nodes, result, root, groups>>
vars == <<phase, requestVars, walkVars, st1, searchVars, islands>>

Group == [first : Node, members : SUBSET Node]

Init ==
  /\ phase = "start"
  /\ faulted \in FaultSets
  /\ iter = 0 /\ steps = 0
  /\ origin = 1 /\ id = 1 /\ root = 1
  /\ visited = <<>> /\ cycles = {}
  /\ st1 = {}
  /\ already_seen = {} /\ nodes = {} /\ result = {} /\ groups = {}
  /\ islands = {}

-----------------------------------------------------------------------------
(* find_cycles.                                                            *)

Linked(n, links) == {m \in Node : {m, n} \in links}
Visited == {visited[k] : k \in DOMAIN visited}

\* (mutant) one walk too many.
StartWalkOnceMore ==
  /\ phase = "start" /\ iter <= 2 * Buses
  /\ iter' = iter + 1
  /\ origin' \in Node /\ id' = origin'
  /\ visited' = <<>> /\ steps' = 0
  /\ phase' = "walk"
  /\ UNCHANGED <<requestVars, cycles, st1, searchVars, islands>>

\* n_iter is twice the number of nodes.
StartWalk ==
  /\ phase = "start" /\ iter < 2 * Buses
  /\ iter' = iter + 1
  /\ origin' \in Node /\ id' = origin'
  /\ visited' = <<>> /\ steps' = 0
  /\ phase' = "walk"
  /\ UNCHANGED <<requestVars, cycles, st1, searchVars, islands>>

\* (mutants) may turn back to the origin at once; may cross its own way.
NextNodesTurnBack == Linked(id, Branch) \ Visited
NextNodesCross == Linked(id, Branch) \ (IF steps = 1 THEN {origin} ELSE {})

\* not_visited_neighbors: the second step does not go back to the origin.
NextNodes == Linked(id, Branch) \ (IF steps = 1 THEN Visited \cup {origin} ELSE Visited)

DeadEnd ==
  /\ NextNodes = {}
  /\ phase' = "start"
  /\ UNCHANGED <<id, visited, cycles>>

CloseCycle ==
  /\ origin \in NextNodes
  /\ cycles' = cycles \cup {{origin} \cup Visited}
  /\ phase' = "start"
  /\ UNCHANGED <<id, visited>>

GoOn ==
  /\ id' \in NextNodes \ {origin}
  /\ visited' = IF id' \in Visited THEN visited ELSE Append(visited, id')
  /\ UNCHANGED <<phase, cycles>>

\* One turn of the while loop.  Its error ends the server, as all do.
Walk ==
  /\ phase = "walk"
  /\ steps' = steps + 1
  /\ IF steps = Buses
     THEN phase' = "failed" /\ UNCHANGED <<id, visited, cycles>>
     ELSE DeadEnd \/ CloseCycle \/ GoOn
  /\ UNCHANGED <<requestVars, iter, origin, st1, searchVars, islands>>

-----------------------------------------------------------------------------
(* islanding_core: br_failures are out of use, every other branch may be    *)
(* switched, and the members of a cycle index the branches of its           *)
(* constraint.  The local variables of find_cycles are gone.                *)

InUse == {i \in DOMAIN Ends : Ends[i] \notin Isolated(faulted)}
LoopConstraint(loop, closed) == Cardinality(loop \cap closed) <= Cardinality(loop) - 1

\* An index out of range, a solution, or error() because there is none.
Optimize ==
  /\ phase = "start" /\ iter = 2 * Buses
  /\ IF UNION cycles \subseteq DOMAIN Ends
     THEN \/ /\ st1' \in SUBSET InUse
             /\ \A loop \in cycles : LoopConstraint(loop, st1')
             /\ phase' = "search"
          \/ phase' = "unsolved" /\ UNCHANGED st1
     ELSE phase' = "failed" /\ UNCHANGED st1
  /\ steps' = 0 /\ origin' = 1 /\ id' = 1 /\ visited' = <<>>
  /\ UNCHANGED <<requestVars, iter, cycles, searchVars, islands>>

-----------------------------------------------------------------------------
(* get_components and get_connected_group over the closed branches.        *)

Links == {Ends[i] : i \in st1}

NextRoot ==
  /\ phase = "search"
  /\ root' \in Node \ already_seen
  /\ nodes' = {root'} /\ result' = {}
  /\ phase' = "group"
  /\ UNCHANGED <<requestVars, walkVars, st1, already_seen, groups, islands>>

\* (mutants) looks no further than the first node's neighbours; takes up nodes
\* it has already seen.
PopNodeShallow(n) ==
  /\ phase = "group" /\ n \in nodes
  /\ already_seen' = already_seen \cup {n}
  /\ nodes' = (nodes \ {n}) \cup (IF n = root THEN Linked(n, Links) \ already_seen' ELSE {})
  /\ result' = result \cup {n}
  /\ UNCHANGED <<phase, requestVars, walkVars, st1, root, groups, islands>>
PopNodeAgain(n) ==
  /\ phase = "group" /\ n \in nodes
  /\ already_seen' = already_seen \cup {n}
  /\ nodes' = (nodes \ {n}) \cup Linked(n, Links)
  /\ result' = result \cup {n}
  /\ UNCHANGED <<phase, requestVars, walkVars, st1, root, groups, islands>>

PopNode(n) ==
  /\ phase = "group" /\ n \in nodes
  /\ already_seen' = already_seen \cup {n}
  /\ nodes' = (nodes \ {n}) \cup (Linked(n, Links) \ already_seen')
  /\ result' = result \cup {n}
  /\ UNCHANGED <<phase, requestVars, walkVars, st1, root, groups, islands>>

EndGroup ==
  /\ phase = "group" /\ nodes = {}
  /\ groups' = groups \cup {[first |-> root, members |-> result]}
  /\ phase' = "search"
  /\ UNCHANGED <<requestVars, walkVars, st1, already_seen, nodes, result, root, islands>>

\* The last loop of process_islands.
KeepIslands ==
  /\ phase = "search" /\ already_seen = Node
  /\ islands' = {g.members : g \in {g \in groups : Swing \notin g.members /\ g.first \notin faulted}}
  /\ phase' = "done"
  /\ UNCHANGED <<requestVars, walkVars, st1, searchVars>>

Done ==
  /\ phase \in {"done", "unsolved", "failed"}
  /\ UNCHANGED vars

Next ==
  \/ StartWalk \/ Walk
  \/ Optimize
  \/ NextRoot \/ EndGroup \/ \E n \in nodes : PopNode(n)
  \/ KeepIslands
  \/ Done

Spec == Init /\ [][Next]_vars

-----------------------------------------------------------------------------
(* Properties.                                                             *)

\* A cycle: an order of at least three nodes, each linked to the next one and
\* the last to the first.
IsCycle(S, links) ==
  /\ Cardinality(S) >= 3
  /\ \E order \in [1..Cardinality(S) -> S] :
       /\ \A j, k \in 1..Cardinality(S) : order[j] = order[k] => j = k
       /\ \A k \in 1..Cardinality(S) - 1 : {order[k], order[k + 1]} \in links
       /\ {order[Cardinality(S)], order[1]} \in links

\* Every variable has the type of the value it stands for, and no walk or search
\* exceeds what find_cycles and get_components are given to do.
TypeOK ==
  /\ phase \in {"start", "walk", "search", "group", "done", "unsolved", "failed"}
  /\ faulted \subseteq Node
  /\ iter \in 0..2 * Buses /\ steps \in 0..Buses + 1
  /\ origin \in Node /\ id \in Node /\ root \in Node
  /\ visited \in Seq(Node)
  /\ cycles \subseteq SUBSET Node
  /\ st1 \subseteq DOMAIN Ends
  /\ already_seen \subseteq Node /\ nodes \subseteq Node /\ result \subseteq Node
  /\ groups \subseteq Group
  /\ islands \subseteq SUBSET Node

\* find_cycles has no false positives: what a walk records when it is back at its
\* origin is a cycle of the feeder, whatever way it took and though it only
\* avoids the origin in its second step.
CyclesAreCycles == \A c \in cycles : IsCycle(c, Branch)

\* "Traversed the whole graph???" (graph_tools.jl:109) never ends the server: a
\* walk that has been everywhere is at a dead end or back at its origin first.
WalkEnds == phase = "walk" => steps < Buses

\* The search over closed branches and the test of each group's first node give
\* exactly the islands AbsorptionControl takes for granted: all components
\* without the substation and without a faulted node.
IslandsAsPromised ==
  phase = "done" =>
    Links \subseteq Branch \ Isolated(faulted) /\ islands \in IslandSets(Links, faulted)

\* The turns left at most: of the walks not begun and of this one, then of the search,
\* which takes up each node once.
TurnsLeft == (2 * Buses - iter) * (Buses + 2) + (IF phase = "walk" THEN Buses + 1 - steps ELSE 0)
SearchLeft ==
  3 * Cardinality(Node \ already_seen)
    + (IF phase = "search" THEN 1 ELSE IF root \in already_seen THEN 2 ELSE 0)
WorkLeft ==
  CASE phase \in {"start", "walk"} -> TurnsLeft + 3 * Buses + 2
    [] phase \in {"search", "group"} -> SearchLeft
    [] OTHER -> 0

\* What a request takes is bounded before it begins, whatever the walks happen upon
\* and in whatever order the sets give their nodes: no turn of find_cycles or of
\* get_connected_group is one that could be made again and again.  So each ends,
\* with islands or with an error.
EveryTurnCounts == [][WorkLeft' < WorkLeft]_vars

\* server.jl:61 passes loops to islanding_core as "data about branches", for its
\* "loop constraint" (islanding.jl:195): no cycle that was found is closed.
LoopsStayOpen == phase = "search" => \A c \in cycles : ~IsCycle(c, Links)

-----------------------------------------------------------------------------
(* The inductive invariant behind the safety properties.                   *)

\* The way of a walk: from the origin along branches, through no node twice.
WalkInv ==
  /\ Len(visited) = steps
  /\ origin \notin Visited
  /\ \A j, k \in 1..steps : visited[j] = visited[k] => j = k
  /\ id = IF steps = 0 THEN origin ELSE visited[steps]
  /\ steps > 0 => {origin, visited[1]} \in Branch
  /\ \A k \in 1..steps - 1 : {visited[k], visited[k + 1]} \in Branch

\* What the search has seen is in a finished group, each a component, or in the
\* one it works on, whose nodes are all linked to its root.
GroupsInv ==
  /\ \A g \in groups : g.members = Component(g.first, Links) /\ g.members \subseteq already_seen
  /\ \A n \in already_seen :
       \/ \E g \in groups : n \in g.members
       \/ phase = "group" /\ n \in result

RootInv ==
  /\ root \in result \cup nodes
  /\ \A g \in groups : root \notin g.members
  /\ result \subseteq already_seen /\ nodes \cap already_seen = {}
  /\ result \cup nodes \subseteq Component(root, Links)
  /\ \A n \in result : Linked(n, Links) \subseteq result \cup nodes

IInv ==
  /\ TypeOK /\ CyclesAreCycles
  /\ phase = "walk" => WalkInv
  /\ phase \in {"start", "walk"} => already_seen = {} /\ groups = {}
  /\ phase \in {"search", "group", "done"} => st1 \subseteq InUse
  /\ phase \in {"search", "group"} => GroupsInv
  /\ phase = "group" => RootInv
  /\ IslandsAsPromised
=============================================================================
