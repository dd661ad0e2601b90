--------------------------- MODULE HashRingLemmas ---------------------------
(***************************************************************************)
(* Facts about the ring arithmetic, for every ring size and every          *)
(* non-empty set of nodes.                                                 *)
(***************************************************************************)
EXTENDS HashRing, WellFoundedInduction, TLAPS

\* A non-empty set of naturals has a least element.
LEMMA LeastNatural ==
    ASSUME NEW T \in SUBSET Nat, T # {}
    PROVE  \E n \in T : \A m \in T : n <= m
<1> DEFINE R == OpToRel(<, Nat)
<1>1. \E x \in T : \A y \in T : ~(<<y, x>> \in R)
  <2>1. IsWellFoundedOn(R, Nat)
    BY NatLessThanWellFounded
  <2> HIDE DEF R
  <2> QED BY <2>1, WFMin
<1>2. PICK x \in T : \A y \in T : ~(<<y, x>> \in R)
  BY <1>1
<1>3. \A y \in T : ~(y < x)
  BY <1>2 DEF OpToRel
<1> QED BY <1>3

\* Positions are integers.
LEMMA PositionsInt == Positions \subseteq Int
BY RingSizeAssumption DEF Positions

\* FirstNode is the least node.
LEMMA FirstNodeLeast ==
    ASSUME NEW S \in SUBSET Positions, S # {}
    PROVE  FirstNode(S) \in S /\ \A m \in S : FirstNode(S) <= m
<1>1. S \in SUBSET Nat
  BY RingSizeAssumption DEF Positions
<1>2. \E n \in S : \A m \in S : n <= m
  BY <1>1, LeastNatural
<1> QED BY <1>2 DEF FirstNode

\* LastNode is the greatest node: reflect the set and take its least element.
LEMMA LastNodeGreatest ==
    ASSUME NEW S \in SUBSET Positions, S # {}
    PROVE  LastNode(S) \in S /\ \A m \in S : m <= LastNode(S)
<1> DEFINE T == {RingSize - n : n \in S}
<1>0. \A n \in S : RingSize - n \in Nat
  BY RingSizeAssumption DEF Positions
<1>1. T \in SUBSET Nat /\ T # {}
  BY <1>0
<1>2. PICK t \in T : \A u \in T : t <= u
  BY <1>1, LeastNatural
<1>3. PICK n \in S : t = RingSize - n
  BY <1>2
<1>4. \A m \in S : m <= n
  <2> TAKE m \in S
  <2>1. RingSize - m \in T
    OBVIOUS
  <2>2. RingSize - n <= RingSize - m
    BY <1>2, <1>3, <2>1
  <2> QED BY <2>2, RingSizeAssumption DEF Positions
<1> QED BY <1>4 DEF LastNode

\* Every node but the first has a predecessor: the greatest node below it.
LEMMA PredecessorBefore ==
    ASSUME NEW S \in SUBSET Positions, NEW n \in S, n # FirstNode(S)
    PROVE  /\ Predecessor(n, S) \in S
           /\ Predecessor(n, S) < n
           /\ \A m \in S : m < n => m <= Predecessor(n, S)
<1> DEFINE B == {m \in S : m < n}
<1>1. FirstNode(S) \in S /\ FirstNode(S) <= n
  BY FirstNodeLeast
<1>2. FirstNode(S) < n
  <2>1. FirstNode(S) \in Int /\ n \in Int
    BY <1>1, PositionsInt
  <2> QED BY <1>1, <2>1
<1>3. B \in SUBSET Positions /\ B # {}
  BY <1>1, <1>2
<1>4. LastNode(B) \in B /\ \A m \in B : m <= LastNode(B)
  BY <1>3, LastNodeGreatest
<1> QED BY <1>4 DEF Predecessor

\* The first node's range is everything up to it and everything past the last.
LEMMA FirstRange ==
    ASSUME NEW S \in SUBSET Positions, S # {}, NEW h \in Int
    PROVE  inRange(h, calc_metadata(S)[FirstNode(S)])
              <=> (h > LastNode(S) \/ h <= FirstNode(S))
<1>1. FirstNode(S) \in S /\ LastNode(S) \in S /\ FirstNode(S) <= LastNode(S)
  BY FirstNodeLeast, LastNodeGreatest
<1>2. FirstNode(S) \in Int /\ LastNode(S) \in Int
  BY <1>1, PositionsInt
<1>3. calc_metadata(S)[FirstNode(S)]
        = [start |-> LastNode(S) + 1, end |-> FirstNode(S)]
  BY <1>1 DEF calc_metadata
<1> QED BY <1>1, <1>2, <1>3 DEF inRange

\* Any other node's range runs from one before its predecessor up to it.
LEMMA OtherRange ==
    ASSUME NEW S \in SUBSET Positions, NEW n \in S, n # FirstNode(S), NEW h \in Int
    PROVE  inRange(h, calc_metadata(S)[n])
              <=> (h >= Predecessor(n, S) - 1 /\ h <= n)
<1>1. Predecessor(n, S) \in S /\ Predecessor(n, S) < n
  BY PredecessorBefore
<1>2. Predecessor(n, S) \in Int /\ n \in Int
  BY <1>1, PositionsInt
<1>3. calc_metadata(S)[n] = [start |-> Predecessor(n, S) - 1, end |-> n]
  BY DEF calc_metadata
<1> QED BY <1>1, <1>2, <1>3 DEF inRange

\* The successor of h is the first node at or after h if there is one, and the
\* first node of all otherwise.
LEMMA SuccessorIs ==
    ASSUME NEW S \in SUBSET Positions, S # {}, NEW h \in Int
    PROVE  /\ Successor(h, S) \in S
           /\ \/ Successor(h, S) >= h /\ \A m \in S : m >= h => Successor(h, S) <= m
              \/ Successor(h, S) = FirstNode(S) /\ \A m \in S : m < h
<1> DEFINE A == {n \in S : n >= h}
<1>1. CASE \E n \in S : n >= h
  <2>1. A \in SUBSET Positions /\ A # {}
    BY <1>1
  <2>2. FirstNode(A) \in A /\ \A m \in A : FirstNode(A) <= m
    BY <2>1, FirstNodeLeast
  <2>3. Successor(h, S) = FirstNode(A)
    BY <1>1 DEF Successor
  <2> QED BY <2>2, <2>3
<1>2. CASE ~ \E n \in S : n >= h
  <2>1. Successor(h, S) = FirstNode(S)
    BY <1>2 DEF Successor
  <2>2. \A m \in S : m < h
    BY <1>2, PositionsInt
  <2> QED BY <2>1, <2>2, FirstNodeLeast
<1> QED BY <1>1, <1>2

\* Every position lies in its successor's range.
LEMMA SuccessorCovers ==
    ASSUME NEW S \in SUBSET Positions, S # {}, NEW h \in Int
    PROVE  Successor(h, S) \in Owners(h, S)
<1> DEFINE s == Successor(h, S)
<1>1. s \in S
  BY SuccessorIs
<1>2. inRange(h, calc_metadata(S)[s])
  <2>1. CASE s = FirstNode(S)
    <3>1. LastNode(S) \in S /\ LastNode(S) \in Int /\ s \in Int
      BY <1>1, LastNodeGreatest, PositionsInt
    <3>2. h <= s \/ h > LastNode(S)
      BY <3>1, SuccessorIs
    <3> QED BY <2>1, <3>2, FirstRange
  <2>2. CASE s # FirstNode(S)
    <3> DEFINE p == Predecessor(s, S)
    <3>1. p \in S /\ p < s /\ p \in Int /\ s \in Int
      BY <1>1, <2>2, PredecessorBefore, PositionsInt
    <3>2. s >= h /\ \A m \in S : m >= h => s <= m
      BY <2>2, SuccessorIs
    <3>3. p < h
      BY <3>1, <3>2
    <3> QED BY <1>1, <2>2, <3>1, <3>2, <3>3, OtherRange
  <2> QED BY <2>1, <2>2
<1> QED BY <1>1, <1>2 DEF Owners

\* Off the seam no other node's range reaches a position.
LEMMA OneOwnerOffSeam ==
    ASSUME NEW S \in SUBSET Positions, S # {}, NEW h \in Int, h \notin Seam(S)
    PROVE  Owners(h, S) = {Successor(h, S)}
<1> DEFINE s == Successor(h, S)
<1>1. s \in S /\ s \in Owners(h, S)
  BY SuccessorIs, SuccessorCovers
<1>2. ASSUME NEW n \in Owners(h, S) PROVE n = s
  <2>1. n \in S /\ inRange(h, calc_metadata(S)[n])
    BY <1>2 DEF Owners
  <2>2. n \in Int /\ s \in Int
    BY <1>1, <2>1, PositionsInt
  <2>3. CASE n = FirstNode(S)
    <3>1. h > LastNode(S) \/ h <= n
      BY <2>1, <2>3, FirstRange
    <3>2. \A m \in S : m <= LastNode(S) /\ n <= m
      BY <2>3, FirstNodeLeast, LastNodeGreatest
    <3>3. LastNode(S) \in Int
      BY LastNodeGreatest, PositionsInt
    <3>4. CASE s = FirstNode(S)
      BY <2>3, <3>4
    <3>5. CASE s >= h /\ \A m \in S : m >= h => s <= m
      <4>1. s <= LastNode(S) /\ n <= s
        BY <1>1, <3>2
      <4>2. h <= n
        BY <2>2, <3>1, <3>3, <3>5, <4>1
      <4>3. s <= n
        BY <2>1, <2>2, <3>5, <4>2
      <4> QED BY <2>2, <4>1, <4>3
    <3> QED BY <3>4, <3>5, SuccessorIs
  <2>4. CASE n # FirstNode(S)
    <3> DEFINE p == Predecessor(n, S)
    <3>1. p \in S /\ p \in Int /\ p < n /\ \A m \in S : m < n => m <= p
      BY <2>1, <2>4, PredecessorBefore, PositionsInt
    <3>2. h >= p - 1 /\ h <= n
      BY <2>1, <2>4, OtherRange
    <3>3. h # p /\ h # p - 1
      BY <2>1, <2>4 DEF Seam
    <3>4. h > p
      BY <3>1, <3>2, <3>3
    <3>5. s >= h /\ s <= n
      BY <2>1, <2>2, <3>2, SuccessorIs
    <3>6. s > p
      BY <2>2, <3>1, <3>4, <3>5
    <3>7. ~(s < n)
      BY <1>1, <2>2, <3>1, <3>6
    <3> QED BY <2>2, <3>5, <3>7
  <2> QED BY <2>3, <2>4
<1> QED BY <1>1, <1>2

\* With nodes at least three apart, looking two positions before a node's hash
\* names the node itself if it is on the ring, and its successor otherwise.
LEMMA LookupNamesSuccessor ==
    ASSUME NEW S \in SUBSET Positions, S # {}, NEW n \in Positions,
           Spaced(S \cup {n})
    PROVE  getNodeByKey(n, S) = {Successor(n, S)}
<1>1. n \in Int /\ n - 2 \in Int
  BY PositionsInt
<1>2. \A m \in S : m \in Int /\ (m < n => m + 3 <= n)
  BY PositionsInt DEF Spaced
<1>3. n - 2 \notin Seam(S)
  <2>1. ASSUME NEW m \in S \ {FirstNode(S)}
        PROVE  n - 2 # Predecessor(m, S) - 1 /\ n - 2 # Predecessor(m, S)
    <3> DEFINE p == Predecessor(m, S)
    <3>1. p \in Int /\ (p < n => p + 3 <= n)
      BY <1>2, PredecessorBefore
    <3> HIDE DEF p
    <3>2. n - 2 # p - 1 /\ n - 2 # p
      BY <1>1, <3>1
    <3> QED BY <3>2 DEF p
  <2> QED BY <2>1 DEF Seam
<1>4. Successor(n - 2, S) = Successor(n, S)
  <2> DEFINE a == Successor(n - 2, S)
             b == Successor(n, S)
  <2>1. a \in S /\ b \in S /\ a \in Int /\ b \in Int
    BY <1>1, SuccessorIs, PositionsInt
  <2>2. \A m \in S : m >= n - 2 <=> m >= n
    BY <1>1, <1>2
  <2>3. \/ a >= n - 2 /\ \A m \in S : m >= n - 2 => a <= m
        \/ a = FirstNode(S) /\ \A m \in S : m < n - 2
    BY <1>1, SuccessorIs
  <2>4. \/ b >= n /\ \A m \in S : m >= n => b <= m
        \/ b = FirstNode(S) /\ \A m \in S : m < n
    BY <1>1, SuccessorIs
  <2> HIDE DEF a, b
  <2>6. CASE \E m \in S : m >= n
    <3>1. a >= n /\ \A m \in S : m >= n => a <= m
      BY <1>1, <2>1, <2>2, <2>3, <2>6
    <3>2. b >= n /\ \A m \in S : m >= n => b <= m
      BY <1>1, <1>2, <2>1, <2>4, <2>6
    <3>3. a <= b /\ b <= a
      BY <2>1, <3>1, <3>2
    <3> QED BY <2>1, <3>3 DEF a, b
  <2>7. CASE ~ \E m \in S : m >= n
    <3>1. a = FirstNode(S) /\ b = FirstNode(S)
      BY <1>1, <2>1, <2>2, <2>3, <2>4, <2>7
    <3> QED BY <3>1 DEF a, b
  <2> QED BY <2>6, <2>7
<1> QED BY <1>1, <1>3, <1>4, OneOwnerOffSeam DEF getNodeByKey

\* A node on the ring is its own successor.
LEMMA SuccessorOfNode ==
    ASSUME NEW S \in SUBSET Positions, NEW n \in S
    PROVE  Successor(n, S) = n
<1>1. n \in Int /\ Successor(n, S) \in Int
  BY SuccessorIs, PositionsInt
<1>2. Successor(n, S) >= n /\ Successor(n, S) <= n
  BY <1>1, SuccessorIs
<1> QED BY <1>1, <1>2

\* The ranges are over ring positions, except that the first one may start just off
\* the ring.
LEMMA RangeTypes ==
    ASSUME NEW S \in SUBSET Positions, NEW n \in S
    PROVE  calc_metadata(S)[n] \in [start : 0 .. RingSize, end : Positions]
<1>1. calc_metadata(S)[n].end = n /\ n \in Positions
  BY DEF calc_metadata
<1>2. CASE n = FirstNode(S)
  <2>1. LastNode(S) \in Positions
    BY LastNodeGreatest
  <2>2. LastNode(S) + 1 \in 0 .. RingSize
    BY <2>1, RingSizeAssumption DEF Positions
  <2>3. calc_metadata(S)[n] = [start |-> LastNode(S) + 1, end |-> n]
    BY <1>2 DEF calc_metadata
  <2> QED BY <1>1, <2>2, <2>3
<1>3. CASE n # FirstNode(S)
  <2>1. Predecessor(n, S) \in Positions
    BY <1>3, PredecessorBefore
  <2>2. Predecessor(n, S) - 1 \in 0 .. RingSize
    BY <2>1, RingSizeAssumption DEF Positions
  <2>3. calc_metadata(S)[n] = [start |-> Predecessor(n, S) - 1, end |-> n]
    BY <1>3 DEF calc_metadata
  <2> QED BY <1>1, <2>2, <2>3
<1> QED BY <1>2, <1>3

\* A lookup names a node.
LEMMA LookupNamesNode ==
    ASSUME NEW h, NEW S, NEW n \in getNodeByKey(h, S)
    PROVE  n \in S
BY DEF getNodeByKey, Owners
\* A join takes from the ring only positions of the joiner's new range, all of
\* them from its successor.
LEMMA JoinMovesOnlyItsRange ==
    ASSUME NEW S \in SUBSET Positions, S # {}, NEW n \in Positions, NEW h \in Int,
           Successor(h, S \cup {n}) # Successor(h, S)
    PROVE  /\ Successor(h, S \cup {n}) = n
           /\ Successor(h, S) = Successor(n, S)
           /\ inRange(h, calc_metadata(S \cup {n})[n])
<1> DEFINE N == S \cup {n}
           a == Successor(h, N)
           b == Successor(h, S)
           c == Successor(n, S)
<1>1. N \in SUBSET Positions /\ N # {} /\ S \subseteq N /\ n \in N
  OBVIOUS
<1>2. \A m \in N : m \in Int
  BY PositionsInt
<1>3. a \in N /\ b \in S /\ c \in S
  BY <1>1, <1>2, SuccessorIs
<1>4. \/ a >= h /\ \A m \in N : m >= h => a <= m
      \/ a = FirstNode(N) /\ \A m \in N : m < h
  BY <1>1, SuccessorIs
<1>5. \/ b >= h /\ \A m \in S : m >= h => b <= m
      \/ b = FirstNode(S) /\ \A m \in S : m < h
  BY SuccessorIs
<1>6. \/ c >= n /\ \A m \in S : m >= n => c <= m
      \/ c = FirstNode(S) /\ \A m \in S : m < n
  BY <1>1, <1>2, SuccessorIs
<1>7. FirstNode(N) \in N /\ \A m \in N : FirstNode(N) <= m
  BY <1>1, FirstNodeLeast
<1>8. FirstNode(S) \in S /\ \A m \in S : FirstNode(S) <= m
  BY FirstNodeLeast
<1>9. N = S \cup {n} /\ a # b
  OBVIOUS
<1>10. a \in Owners(h, N)
  BY <1>1, SuccessorCovers
<1> HIDE DEF N, a, b, c
<1>11. a = n
  <2>1. CASE a >= h /\ \A m \in N : m >= h => a <= m
    <3>1. SUFFICES ASSUME a \in S PROVE FALSE
      BY <1>3, <1>9
    <3>2. b >= h /\ b <= a
      BY <1>2, <1>5, <1>9, <2>1, <3>1
    <3>3. a <= b
      BY <1>1, <1>3, <2>1, <3>2
    <3> QED BY <1>2, <1>3, <1>1, <1>9, <3>2, <3>3
  <2>2. CASE a = FirstNode(N) /\ \A m \in N : m < h
    <3>1. SUFFICES ASSUME a \in S PROVE FALSE
      BY <1>3, <1>9
    <3>2. b = FirstNode(S)
      BY <1>1, <1>2, <1>3, <1>5, <2>2
    <3>3. a <= b /\ b <= a
      BY <1>1, <1>3, <1>7, <1>8, <2>2, <3>1, <3>2
    <3> QED BY <1>1, <1>2, <1>3, <1>9, <3>3
  <2> QED BY <1>4, <2>1, <2>2
<1>12. b = c
  <2>1. CASE n >= h
    <3>1. \A m \in S : m >= h => n <= m
      BY <1>1, <1>2, <1>4, <1>11, <2>1
    <3>2. \A m \in S : m >= h <=> m >= n
      BY <1>1, <1>2, <2>1, <3>1
    <3>3. CASE \E m \in S : m >= n
      <4>1. b >= n /\ c >= n /\ b <= c /\ c <= b
        BY <1>1, <1>2, <1>3, <1>5, <1>6, <3>2, <3>3
      <4> QED BY <1>1, <1>2, <1>3, <4>1
    <3>4. CASE ~ \E m \in S : m >= n
      BY <1>1, <1>2, <1>3, <1>5, <1>6, <3>2, <3>4
    <3> QED BY <3>3, <3>4
  <2>2. CASE ~(n >= h)
    <3>1. n = FirstNode(N) /\ \A m \in N : m < h
      BY <1>4, <1>11, <2>2
    <3>2. b = FirstNode(S)
      BY <1>1, <1>2, <1>3, <1>5, <3>1
    <3>3. \A m \in S : m >= n
      BY <1>1, <1>2, <1>7, <3>1
    <3>4. c <= b /\ b <= c
      BY <1>1, <1>2, <1>3, <1>6, <1>8, <3>2, <3>3
    <3> QED BY <1>1, <1>2, <1>3, <3>4
  <2> QED BY <2>1, <2>2
<1>13. inRange(h, calc_metadata(N)[n])
  BY <1>10, <1>11 DEF Owners
<1> QED BY <1>11, <1>12, <1>13 DEF N, a, b, c

\* So the joiner's range is exactly what changes hands, away from the seams.
LEMMA JoinHandsOver ==
    ASSUME NEW S \in SUBSET Positions, S # {}, NEW n \in Positions \ S, NEW h \in Int,
           h \notin Seam(S), h \notin Seam(S \cup {n})
    PROVE  IF inRange(h, calc_metadata(S \cup {n})[n])
           THEN Owners(h, S \cup {n}) = {n} /\ Owners(h, S) = {Successor(n, S)}
           ELSE Owners(h, S \cup {n}) = Owners(h, S)
<1> DEFINE N == S \cup {n}
<1>1. N \in SUBSET Positions /\ N # {} /\ n \in N
  OBVIOUS
<1>2. Owners(h, N) = {Successor(h, N)} /\ Owners(h, S) = {Successor(h, S)}
  BY <1>1, OneOwnerOffSeam
<1>3. Successor(h, S) \in S
  BY SuccessorIs
<1>4. Successor(h, N) # Successor(h, S) =>
         Successor(h, N) = n /\ Successor(h, S) = Successor(n, S)
  BY JoinMovesOnlyItsRange
<1>5. inRange(h, calc_metadata(N)[n]) <=> n \in Owners(h, N)
  BY <1>1 DEF Owners
<1> HIDE DEF N
<1>6. (IF inRange(h, calc_metadata(N)[n])
       THEN Owners(h, N) = {n} /\ Owners(h, S) = {Successor(n, S)}
       ELSE Owners(h, N) = Owners(h, S))
  BY <1>2, <1>3, <1>4, <1>5
<1> QED BY <1>6 DEF N

\* The seams of a set of nodes lie at its nodes and one position before them.
LEMMA SeamNearNode ==
    ASSUME NEW S \in SUBSET Positions, NEW h \in Seam(S)
    PROVE  \E n \in S : h \in {n - 1, n}
<1>1. PICK n \in S \ {FirstNode(S)} : h \in {Predecessor(n, S) - 1, Predecessor(n, S)}
  BY DEF Seam
<1>2. Predecessor(n, S) \in S
  BY <1>1, PredecessorBefore
<1> QED BY <1>1, <1>2
=============================================================================
