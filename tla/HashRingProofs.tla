--------------------------- MODULE HashRingProofs ---------------------------
(***************************************************************************)
(* Theorems about a ring whose nodes join and leave, for every ring size   *)
(* and every non-empty set of nodes.                                       *)
(***************************************************************************)
EXTENDS RingMembership, HashRingLemmas

\* The nodes of the ring are always a non-empty set of positions.
LEMMA NodesOnRing == Spec => [](nodes \in SUBSET Positions /\ nodes # {})
<1> DEFINE I == nodes \in SUBSET Positions /\ nodes # {}
<1>1. Init => I
  BY DEF Init
<1>2. I /\ [Next]_nodes => I'
  BY DEF Next, Join, Leave
<1> QED BY <1>1, <1>2, PTL DEF Spec

\* calc_metadata gives every node a range of the right type.
THEOREM RangesTyped == Spec => []TypeOK
<1>1. nodes \in SUBSET Positions /\ nodes # {} => TypeOK
  <2>1. calc_metadata(nodes) = [n \in nodes |-> calc_metadata(nodes)[n]]
    BY DEF calc_metadata
  <2> QED BY <2>1, RangeTypes DEF TypeOK
<1> QED BY <1>1, NodesOnRing, PTL

\* Whatever the ring size and whichever nodes join and leave, every position is
\* in the range of the server consistent hashing assigns it to.
THEOREM Coverage == Spec => []SuccessorOwns
<1>1. nodes \in SUBSET Positions /\ nodes # {} => SuccessorOwns
  BY SuccessorCovers, RingSizeAssumption DEF SuccessorOwns, Ring
<1> QED BY <1>1, NodesOnRing, PTL

\* Off the seam positions exactly one server is responsible.
THEOREM UniqueOwnership == Spec => []UniqueOffSeam
<1>1. nodes \in SUBSET Positions /\ nodes # {} => UniqueOffSeam
  BY OneOwnerOffSeam, RingSizeAssumption DEF UniqueOffSeam, Ring
<1> QED BY <1>1, NodesOnRing, PTL

\* addNode's two lookups name the joiner's successor and the joiner.
THEOREM JoinLookupCorrect == Spec => []JoinLookup
<1>1. ASSUME nodes \in SUBSET Positions, nodes # {}
      PROVE  JoinLookup
  <2> SUFFICES ASSUME NEW n \in Positions \ nodes, Spaced(nodes \cup {n})
               PROVE  /\ getNodeByKey(n, nodes) = {Successor(n, nodes)}
                      /\ getNodeByKey(n, nodes \cup {n}) = {n}
    BY DEF JoinLookup
  <2>1. getNodeByKey(n, nodes) = {Successor(n, nodes)}
    BY <1>1, LookupNamesSuccessor
  <2> DEFINE N == nodes \cup {n}
  <2>2. N \in SUBSET Positions /\ N # {} /\ n \in N /\ Spaced(N \cup {n})
    <3>1. N \cup {n} = N
      OBVIOUS
    <3> QED BY <1>1, <3>1
  <2>3. getNodeByKey(n, N) = {Successor(n, N)} /\ Successor(n, N) = n
    <3> HIDE DEF N
    <3> QED BY <2>2, LookupNamesSuccessor, SuccessorOfNode
  <2> QED BY <2>1, <2>3
<1> QED BY <1>1, NodesOnRing, PTL

\* removeNode's two lookups name the leaver and its heir.
THEOREM LeaveLookupCorrect == Spec => []LeaveLookup
<1>1. ASSUME nodes \in SUBSET Positions, nodes # {}
      PROVE  LeaveLookup
  <2> SUFFICES ASSUME NEW n \in nodes, Spaced(nodes), nodes # {n}
               PROVE  /\ getNodeByKey(n, nodes) = {n}
                      /\ getNodeByKey(n, nodes \ {n}) = {Successor(n, nodes \ {n})}
    BY DEF LeaveLookup
  <2>1. nodes \cup {n} = nodes /\ (nodes \ {n}) \cup {n} = nodes
    OBVIOUS
  <2>2. getNodeByKey(n, nodes) = {n}
    BY <1>1, <2>1, LookupNamesSuccessor, SuccessorOfNode
  <2> DEFINE N == nodes \ {n}
  <2>3. N \in SUBSET Positions /\ N # {} /\ Spaced(N \cup {n}) /\ n \in Positions
    BY <1>1, <2>1
  <2>4. getNodeByKey(n, N) = {Successor(n, N)}
    <3> HIDE DEF N
    <3> QED BY <2>3, LookupNamesSuccessor
  <2> QED BY <2>2, <2>4
<1> QED BY <1>1, NodesOnRing, PTL

\* A reconfiguration changes the owner of no position outside the range the
\* ECS tells a server to move.
THEOREM OnlyMovedRange == Spec => OnlyMovedRangeChangesOwner
<1> DEFINE A == \A n \in Positions, h \in Ring :
         /\ Join(n)  => HandedOver(h, Successor(n, nodes), n, calc_metadata(nodes')[n])
         /\ Leave(n) => HandedOver(h, n, Successor(n, nodes'), calc_metadata(nodes)[n])
<1>1. ASSUME nodes \in SUBSET Positions, nodes # {},
             NEW n \in Positions, NEW h \in Ring
      PROVE  /\ Join(n)  => HandedOver(h, Successor(n, nodes), n, calc_metadata(nodes')[n])
             /\ Leave(n) => HandedOver(h, n, Successor(n, nodes'), calc_metadata(nodes)[n])
  <2>1. h \in Int
    BY RingSizeAssumption DEF Ring
  <2>2. ASSUME Join(n), Successor(h, nodes') # Successor(h, nodes)
        PROVE  /\ Successor(h, nodes') = n
               /\ Successor(h, nodes) = Successor(n, nodes)
               /\ inRange(h, calc_metadata(nodes')[n])
    <3>1. nodes' = nodes \cup {n}
      BY <2>2 DEF Join
    <3> QED BY <1>1, <2>1, <2>2, <3>1, JoinMovesOnlyItsRange
  <2>3. ASSUME Leave(n), Successor(h, nodes') # Successor(h, nodes)
        PROVE  /\ Successor(h, nodes) = n
               /\ Successor(h, nodes') = Successor(n, nodes')
               /\ inRange(h, calc_metadata(nodes)[n])
    <3>1. nodes = nodes' \cup {n} /\ nodes' # {} /\ nodes' \in SUBSET Positions
      BY <1>1, <2>3 DEF Leave
    <3> DEFINE S == nodes'
    <3>2. S # {} /\ S \in SUBSET Positions /\ Successor(h, S \cup {n}) # Successor(h, S)
      BY <2>3, <3>1
    <3> HIDE DEF S
    <3>3. /\ Successor(h, S \cup {n}) = n
          /\ Successor(h, S) = Successor(n, S)
          /\ inRange(h, calc_metadata(S \cup {n})[n])
      BY <2>1, <3>2, JoinMovesOnlyItsRange
    <3> QED BY <3>1, <3>3 DEF S
  <2> QED BY <2>2, <2>3 DEF HandedOver
<1>2. nodes \in SUBSET Positions /\ nodes # {} => [A]_nodes
  BY <1>1
<1> HIDE DEF A
<1>3. Spec => [][A]_nodes
  BY <1>2, NodesOnRing, PTL
<1> QED BY <1>3 DEF OnlyMovedRangeChangesOwner, A
=============================================================================
