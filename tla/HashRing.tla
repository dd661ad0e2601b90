------------------------------ MODULE HashRing ------------------------------
(***************************************************************************)
(* The consistent-hashing arithmetic shared by the ECS, the servers and    *)
(* the client library: which node is responsible for which part of the     *)
(* ring.  The code compares MD5 digests read as BigIntegers; here a        *)
(* position is an integer and the ring is 0 .. RingSize - 1 (RingSize      *)
(* stands for 2^128).  A node is identified with the hash of its           *)
(* "host:port" and a key with the hash of its string (MD5 collisions are   *)
(* not modelled).                                                          *)
(***************************************************************************)
EXTENDS Integers

CONSTANT RingSize
ASSUME RingSizeAssumption == RingSize \in Nat /\ RingSize >= 2

\* Hash values of keys.
Ring == 0 .. RingSize - 1

\* Hash values of servers.  Position 0 is left out: a server there would give
\* its successor the range start -1, which is written as "-1" and read back as
\* the malformed number "0-1".
Positions == 1 .. RingSize - 1

FirstNode(nodes) == CHOOSE n \in nodes : \A m \in nodes : n <= m
LastNode(nodes) == CHOOSE n \in nodes : \A m \in nodes : m <= n

\* The element before n in the sorted list of hashes.
Predecessor(n, nodes) == LastNode({m \in nodes : m < n})

\* Faults seeded in calc_metadata: the wrap-around range starts one too late, or
\* the others start two too early.
calc_metadata_Gap(nodes) ==
    [n \in nodes |->
        [start |-> IF n = FirstNode(nodes) THEN LastNode(nodes) + 2
                                           ELSE Predecessor(n, nodes) - 1,
         end   |-> n]]
calc_metadata_Wide(nodes) ==
    [n \in nodes |->
        [start |-> IF n = FirstNode(nodes) THEN LastNode(nodes) + 1
                                           ELSE Predecessor(n, nodes) - 3,
         end   |-> n]]

\* The metadata map computed from a list of nodes: node -> hash range.  The
\* first node of the sorted list wraps around from just after the last one;
\* every other node starts one position BEFORE its predecessor.
calc_metadata(nodes) ==
    [n \in nodes |->
        [start |-> IF n = FirstNode(nodes) THEN LastNode(nodes) + 1
                                           ELSE Predecessor(n, nodes) - 1,
         end   |-> n]]

\* Fault seeded in inRange: a range is never taken to wrap around.
inRange_NoWrap(h, range) == h >= range.start /\ h <= range.end

\* The range test used by server, client library, move and ECS lookup alike.
inRange(h, range) ==
    IF range.start < range.end
    THEN h >= range.start /\ h <= range.end
    ELSE h >= range.start \/ h <= range.end

\* The nodes whose range contains h.  A lookup iterates over a HashMap and
\* takes the first match, so it may return any of them.
Owners(h, nodes) == {n \in nodes : inRange(h, calc_metadata(nodes)[n])}

\* Faults seeded in getNodeByKey: the lookup stands on the hash itself, or two
\* positions after it.
getNodeByKey_AtHash(h, nodes) == Owners(h, nodes)
getNodeByKey_After(h, nodes) == Owners(h + 2, nodes)

\* The ECS's lookup of a server's own address: two positions before its hash.
getNodeByKey(h, nodes) == Owners(h - 2, nodes)

-----------------------------------------------------------------------------
(* What the ring is meant to compute.                                      *)

\* The node consistent hashing assigns h to: the first one at or after h,
\* going around the ring.
Successor(h, nodes) ==
    IF \E n \in nodes : n >= h
    THEN FirstNode({n \in nodes : n >= h})
    ELSE FirstNode(nodes)

\* The two positions where the range of n overlaps its predecessor's.
Seam(nodes) ==
    UNION {{Predecessor(n, nodes) - 1, Predecessor(n, nodes)}
             : n \in nodes \ {FirstNode(nodes)}}

\* No two nodes are closer than three positions, which MD5 makes near certain.
Spaced(nodes) == \A m, n \in nodes : m < n => m + 3 <= n
=============================================================================
