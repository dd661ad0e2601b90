-------------------------- MODULE RingMembership --------------------------
(***************************************************************************)
(* Walks through every set of nodes of a small ring, one node joining or   *)
(* leaving at a time as addNode and removeNode do, and evaluates the ring  *)
(* arithmetic in every one of them.                                        *)
(***************************************************************************)
EXTENDS HashRing

VARIABLE nodes

Init == \E n \in Positions : nodes = {n}
Join(n) == n \notin nodes /\ nodes' = nodes \cup {n}
Leave(n) == n \in nodes /\ nodes # {n} /\ nodes' = nodes \ {n}
Next == \E n \in Positions : Join(n) \/ Leave(n)
Spec == Init /\ [][Next]_nodes

\* calc_metadata computes ranges over ring positions, except that the first
\* node's range starts one past the last node, possibly just off the ring.
TypeOK == /\ nodes \subseteq Positions
          /\ calc_metadata(nodes) \in [nodes -> [start : 0 .. RingSize, end : Positions]]

\* Coverage: every position, keys included, falls in the range of the node
\* consistent hashing assigns it to, so no request finds every server "not
\* responsible" and no key is unroutable (ECSClient.calc_metadata with
\* KVServer.inRange).
SuccessorOwns == \A h \in Ring : Successor(h, nodes) \in Owners(h, nodes)

\* Away from the seam positions the owner is unique: two servers never both
\* accept writes of such a key under the same metadata.
UniqueOffSeam == \A h \in Ring \ Seam(nodes) : Owners(h, nodes) = {Successor(h, nodes)}

\* The ECS finds the right two servers when a node joins (ECSClient.addNode):
\* before the join the lookup names the joining node's successor, and after it
\* the lookup names the joining node, whose range is the one to be moved.
JoinLookup ==
    \A n \in Positions \ nodes :
        Spaced(nodes \cup {n}) =>
            /\ getNodeByKey(n, nodes) = {Successor(n, nodes)}
            /\ getNodeByKey(n, nodes \cup {n}) = {n}

\* The ECS finds the right two servers when a node leaves
\* (ECSClient.removeNode): its own range first, then its heir.
LeaveLookup ==
    \A n \in nodes :
        Spaced(nodes) /\ nodes # {n} =>
            /\ getNodeByKey(n, nodes) = {n}
            /\ getNodeByKey(n, nodes \ {n}) = {Successor(n, nodes \ {n})}

\* h goes from giver's range to taker, within the given range.
HandedOver(h, giver, taker, range) ==
    Successor(h, nodes') # Successor(h, nodes) =>
        /\ Successor(h, nodes) = giver
        /\ Successor(h, nodes') = taker
        /\ inRange(h, range)

\* A join or a leave changes the owner only of positions in the range the ECS
\* tells the source to move (addNode: the joiner's new range, out of its
\* successor; removeNode: the leaver's old range, to its heir), so the move
\* strands no key.
OnlyMovedRangeChangesOwner ==
    [][\A n \in Positions, h \in Ring :
         /\ Join(n)  => HandedOver(h, Successor(n, nodes), n, calc_metadata(nodes')[n])
         /\ Leave(n) => HandedOver(h, n, Successor(n, nodes'), calc_metadata(nodes)[n])]_nodes
=============================================================================
