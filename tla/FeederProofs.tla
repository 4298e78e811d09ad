---------------------------- MODULE FeederProofs ----------------------------
(***************************************************************************)
(* Components and islands of any feeder: the lemmas Islanding and          *)
(* AbsorptionControl rest on.                                              *)
(***************************************************************************)
EXTENDS Feeder, TLAPS

\* No branch joins a node of S with one outside.
Closed(S, branches) == \A b \in branches : b \cap S # {} => b \subseteq S

\* No branch leaves a component.
LEMMA ComponentClosed ==
  ASSUME NEW branches \in SUBSET Branch, NEW n \in Node
  PROVE  /\ n \in Component(n, branches)
         /\ Component(n, branches) \subseteq Node
         /\ Closed(Component(n, branches), branches)
<1>1. ASSUME NEW b \in branches, b \cap Component(n, branches) # {}
      PROVE  b \subseteq Component(n, branches)
  <2>1. b \subseteq Node
    BY FeederAssumption
  <2>2. PICK m \in b : m \in Component(n, branches)
    BY <1>1
  <2>3. ASSUME NEW k \in b, NEW S \in SUBSET Node, n \in S,
               \A c \in branches : c \cap S # {} => c \subseteq S
        PROVE  k \in S
    <3>1. m \in S
      BY <2>2, <2>3 DEF Component
    <3> QED
      BY <3>1, <2>3
  <2> QED
    BY <2>1, <2>3 DEF Component
<1> QED
  BY <1>1 DEF Component, Closed

\* A closed set with a node contains the node's component.
LEMMA ComponentLeast ==
  ASSUME NEW branches, NEW n \in Node, NEW S \in SUBSET Node, n \in S, Closed(S, branches)
  PROVE  Component(n, branches) \subseteq S
BY DEF Component, Closed

\* The nodes of a component have the same component.
LEMMA SameComponent ==
  ASSUME NEW branches \in SUBSET Branch, NEW n \in Node, NEW m \in Component(n, branches)
  PROVE  Component(m, branches) = Component(n, branches)
<1>1. m \in Node
  BY DEF Component
<1>2. Component(m, branches) \subseteq Component(n, branches)
  BY <1>1, ComponentClosed, ComponentLeast
<1>3. n \in Component(m, branches)
  <2> SUFFICES ASSUME n \notin Component(m, branches) PROVE FALSE
    OBVIOUS
  <2> DEFINE S == Node \ Component(m, branches)
  <2>1. Closed(Component(m, branches), branches) /\ m \in Component(m, branches)
    BY <1>1, ComponentClosed
  <2>2. \A b \in branches : b \subseteq Node
    BY FeederAssumption
  <2>3. Closed(S, branches)
    BY <2>1, <2>2 DEF Closed
  <2>4. Component(n, branches) \subseteq S
    BY <2>3, ComponentLeast
  <2> QED
    BY <2>1, <2>4
<1>4. Component(n, branches) \subseteq Component(m, branches)
  BY <1>1, <1>3, ComponentClosed, ComponentLeast
<1> QED
  BY <1>2, <1>4

\* process_islands: whatever switches the optimization leaves closed among those
\* isolate_nodes allows, an island has no way out and no faulted node.
LEMMA IslandsIsolated ==
  ASSUME NEW faulted \in SUBSET Node,
         NEW branches \in SUBSET (Branch \ Isolated(faulted)),
         NEW new \in IslandSets(branches, faulted), NEW i \in new
  PROVE  /\ i \subseteq Node
         /\ i \cap (faulted \cup {Swing}) = {}
         /\ \A b \in branches : b \cap i # {} => b \subseteq i
<1>1. PICK n \in Node : i = Component(n, branches)
  BY DEF IslandSets
<1>2. i # Component(Swing, branches) /\ i \ faulted # {}
  BY DEF IslandSets
<1>3. branches \in SUBSET Branch /\ \A b \in branches : b \cap faulted = {}
  BY DEF Isolated
<1>4. n \in i /\ i \subseteq Node /\ Closed(i, branches)
  BY <1>1, <1>3, ComponentClosed
<1>5. Swing \notin i
  BY <1>1, <1>2, <1>3, SameComponent
<1>6. i \cap faulted = {}
  <2>1. n \notin faulted
    <3> SUFFICES ASSUME n \in faulted PROVE FALSE
      OBVIOUS
    <3>1. Closed({n}, branches)
      BY <1>3 DEF Closed
    <3>2. i \subseteq {n}
      BY <1>1, <3>1, ComponentLeast
    <3> QED
      BY <1>2, <3>2
  <2>2. Closed(Node \ faulted, branches)
    <3>1. \A b \in branches : b \subseteq Node
      BY <1>3, FeederAssumption
    <3> QED
      BY <1>3, <3>1 DEF Closed
  <2>3. i \subseteq Node \ faulted
    BY <1>1, <2>1, <2>2, ComponentLeast
  <2> QED
    BY <2>3
<1> QED
  BY <1>4, <1>5, <1>6 DEF Closed
=============================================================================
