--------------------------- MODULE HandshakeProofs ---------------------------
(***************************************************************************)
(* Proofs about the key exchange.  The first part is arithmetic: for every *)
(* modulus, base and exponent the code's loop computes the power, and the  *)
(* two ends' powers of powers are the same.  The second part is the        *)
(* exchange itself, for any number of peers and any backlog.               *)
(*                                                                         *)
(* Induction is over sets of naturals: a property of n is a set that n     *)
(* belongs to.                                                             *)
(***************************************************************************)
EXTENDS Handshake, WellFoundedInduction, TLAPS

-----------------------------------------------------------------------------
(* Induction over the naturals.                                            *)

\* A set that has n whenever it has all that is smaller has every natural: if not,
\* there is a least one it does not have.
LEMMA Induction ==
    ASSUME NEW S,
           \A n \in Nat : (\A m \in Nat : m < n => m \in S) => n \in S
    PROVE  Nat \subseteq S
<1> SUFFICES ASSUME Nat \ S # {} PROVE FALSE
  OBVIOUS
<1> DEFINE R == OpToRel(<, Nat)
           T == Nat \ S
<1>1. \E n \in T : \A m \in T : ~(<<m, n>> \in R)
  <2>1. IsWellFoundedOn(R, Nat)
    BY NatLessThanWellFounded
  <2>2. T \subseteq Nat /\ T # {}
    OBVIOUS
  <2> HIDE DEF R, T
  <2> QED BY <2>1, <2>2, WFMin
<1>2. PICK n \in T : \A m \in T : ~(<<m, n>> \in R)
  BY <1>1
<1>3. \A m \in Nat : m < n => m \in S
  BY <1>2 DEF OpToRel
<1> QED BY <1>2, <1>3

\* The same, from n to n + 1.
LEMMA StepInduction ==
    ASSUME NEW S, 0 \in S, \A n \in Nat : n \in S => n + 1 \in S
    PROVE  Nat \subseteq S
<1>1. ASSUME NEW n \in Nat, \A m \in Nat : m < n => m \in S
      PROVE  n \in S
  <2>1. CASE n = 0
    BY <2>1
  <2>2. CASE n # 0
    <3>1. n - 1 \in Nat /\ n - 1 < n /\ (n - 1) + 1 = n
      BY <2>2
    <3> QED BY <3>1, <1>1
  <2> QED BY <2>1, <2>2
<1> QED BY <1>1, Induction

-----------------------------------------------------------------------------
(* Remainders.                                                             *)

\* There is an element other than 0 modulo the prime.
LEMMA PrimeType == Prime \in Nat /\ Prime > 1
BY PrimeAssumption

\* Quotient and remainder.
LEMMA Divide ==
    ASSUME NEW a \in Nat, NEW p \in Nat, p > 0
    PROVE  /\ a \div p \in Nat
           /\ a % p \in 0 .. p - 1
           /\ a = p * (a \div p) + (a % p)
OBVIOUS

\* The remainder is unique.
LEMMA Remainder ==
    ASSUME NEW p \in Nat, p > 0, NEW q \in Nat, NEW r \in 0 .. p - 1
    PROVE  (p * q + r) % p = r
<1> DEFINE a == p * q + r
<1>1. a \in Nat /\ a = p * q + r
  OBVIOUS
<1> HIDE DEF a
<1>2. a % p = r
  BY <1>1
<1> QED BY <1>2 DEF a

\* Multiplication modulo the prime, with the laws of a commutative monoid.
Times(a, b) == (a * b) % Prime

LEMMA TimesType ==
    ASSUME NEW a \in Nat, NEW b \in Nat
    PROVE  Times(a, b) \in 0 .. Prime - 1 /\ Times(a, b) \in Nat
<1> DEFINE d == a * b
<1>1. d \in Nat
  OBVIOUS
<1> HIDE DEF d
<1>2. d % Prime \in 0 .. Prime - 1
  BY <1>1, PrimeType, Divide
<1> QED BY <1>2, PrimeType DEF Times, d

LEMMA TimesCommutes ==
    ASSUME NEW a \in Nat, NEW b \in Nat
    PROVE  Times(a, b) = Times(b, a)
<1>1. a * b = b * a
  OBVIOUS
<1> QED BY <1>1 DEF Times

\* A factor may be reduced before it is multiplied.
LEMMA TimesReduces ==
    ASSUME NEW a \in Nat, NEW b \in Nat
    PROVE  Times(a % Prime, b) = Times(a, b)
<1> DEFINE q == a \div Prime
           r == a % Prime
           t == (r * b) \div Prime
           u == (r * b) % Prime
           d == q * b + t
<1>1. q \in Nat /\ r \in Nat /\ a = Prime * q + r
  BY PrimeType, Divide
<1>2. r * b \in Nat
  BY <1>1
<1>3. t \in Nat /\ u \in 0 .. Prime - 1 /\ r * b = Prime * t + u
  BY <1>2, PrimeType, Divide
<1> HIDE DEF q, r, t, u
<1>4. d \in Nat
  BY <1>1, <1>3
<1>5. a * b = Prime * d + u
  BY <1>1, <1>3, PrimeType
<1> HIDE DEF d
<1>6. (a * b) % Prime = u
  BY <1>3, <1>4, <1>5, PrimeType, Remainder
<1> QED BY <1>6 DEF u, r, Times

LEMMA TimesAssociates ==
    ASSUME NEW a \in Nat, NEW b \in Nat, NEW c \in Nat
    PROVE  Times(Times(a, b), c) = Times(a, Times(b, c))
<1> DEFINE d == a * b
           e == b * c
<1>1. d \in Nat /\ e \in Nat /\ d * c = e * a
  OBVIOUS
<1> HIDE DEF d, e
<1>2. Times(d % Prime, c) = Times(d, c) /\ Times(e % Prime, a) = Times(e, a)
  BY <1>1, TimesReduces
<1>3. Times(d, c) = Times(e, a)
  BY <1>1 DEF Times
<1>4. d % Prime = Times(a, b) /\ e % Prime = Times(b, c)
  BY DEF d, e, Times
<1>5. Times(Times(b, c), a) = Times(a, Times(b, c))
  BY TimesType, TimesCommutes
<1> QED BY <1>2, <1>3, <1>4, <1>5

\* A reduced number is its own remainder, and 1 is neutral for it.
LEMMA TimesOne ==
    ASSUME NEW a \in 0 .. Prime - 1
    PROVE  Times(a, 1) = a /\ Times(1, a) = a
<1>1. a % Prime = a
  BY PrimeType
<1>2. a * 1 = a /\ 1 * a = a
  BY PrimeType
<1> QED BY <1>1, <1>2 DEF Times

-----------------------------------------------------------------------------
(* Power is well defined.                                                  *)

\* The functions that satisfy its equations up to n.
PowersTo(g, n) ==
    {f \in [0 .. n -> Nat] :
        f[0] = 1 /\ \A i \in 1 .. n : f[i] = (g * f[i - 1]) % Prime}

\* There is one for every n.
LEMMA PowersExist ==
    ASSUME NEW g \in Nat
    PROVE  \A n \in Nat : \E f : f \in PowersTo(g, n)
<1> DEFINE S == {n \in Nat : \E f : f \in PowersTo(g, n)}
<1>1. 0 \in S
  <2>1. [i \in 0 .. 0 |-> 1] \in PowersTo(g, 0)
    BY DEF PowersTo
  <2> QED BY <2>1
<1>2. ASSUME NEW n \in Nat, n \in S
      PROVE  n + 1 \in S
  <2>1. PICK f : f \in PowersTo(g, n)
    BY <1>2
  <2> DEFINE h == [i \in 0 .. n + 1 |-> IF i = n + 1 THEN (g * f[n]) % Prime ELSE f[i]]
  <2>2. f \in [0 .. n -> Nat] /\ f[0] = 1
        /\ \A i \in 1 .. n : f[i] = (g * f[i - 1]) % Prime
    BY <2>1 DEF PowersTo
  <2>3. (g * f[n]) % Prime \in Nat
    BY <2>2, PrimeType
  <2>4. h \in [0 .. n + 1 -> Nat] /\ h[0] = 1
    BY <2>2, <2>3
  <2>5. ASSUME NEW i \in 1 .. n + 1
        PROVE  h[i] = (g * h[i - 1]) % Prime
    <3>1. CASE i = n + 1
      BY <3>1
    <3>2. CASE i \in 1 .. n
      BY <2>2, <3>2
    <3> QED BY <3>1, <3>2
  <2> HIDE DEF h
  <2>6. h \in PowersTo(g, n + 1)
    BY <2>4, <2>5 DEF PowersTo
  <2> QED BY <2>6
<1> HIDE DEF S
<1>3. Nat \subseteq S
  BY <1>1, <1>2, StepInduction
<1> QED BY <1>3 DEF S

\* Two of them agree where both are defined.
LEMMA PowersAgree ==
    ASSUME NEW g \in Nat, NEW m \in Nat, NEW n \in Nat,
           NEW f \in PowersTo(g, m), NEW h \in PowersTo(g, n)
    PROVE  \A i \in Nat : i <= m /\ i <= n => f[i] = h[i]
<1> DEFINE S == {i \in Nat : i <= m /\ i <= n => f[i] = h[i]}
<1>1. 0 \in S
  BY DEF PowersTo
<1>2. ASSUME NEW i \in Nat, i \in S
      PROVE  i + 1 \in S
  <2> SUFFICES ASSUME i + 1 <= m, i + 1 <= n PROVE f[i + 1] = h[i + 1]
    OBVIOUS
  <2>1. f[i] = h[i]
    BY <1>2
  <2>2. i + 1 \in 1 .. m /\ i + 1 \in 1 .. n /\ (i + 1) - 1 = i
    OBVIOUS
  <2>3. f[i + 1] = (g * f[(i + 1) - 1]) % Prime
    BY <2>2 DEF PowersTo
  <2>4. h[i + 1] = (g * h[(i + 1) - 1]) % Prime
    BY <2>2 DEF PowersTo
  <2> QED BY <2>1, <2>2, <2>3, <2>4
<1> HIDE DEF S
<1>3. Nat \subseteq S
  BY <1>1, <1>2, StepInduction
<1> QED BY <1>3 DEF S

\* What Power computes, from one exponent to the next.
LEMMA PowerDef ==
    ASSUME NEW g \in Nat
    PROVE  /\ Power(g, 0) = 1
           /\ \A n \in Nat : /\ Power(g, n) \in Nat
                             /\ Power(g, n + 1) = (g * Power(g, n)) % Prime
<1> DEFINE to(n) == CHOOSE f : f \in PowersTo(g, n)
           W == [n \in Nat |-> to(n)[n]]
           Equation(f) == f = [n \in Nat |-> IF n = 0 THEN 1 ELSE (g * f[n - 1]) % Prime]
<1>1. \A n \in Nat : to(n) \in PowersTo(g, n)
  BY PowersExist
<1> HIDE DEF to
<1>2. W[0] = 1
  BY <1>1 DEF PowersTo
<1>3. ASSUME NEW n \in Nat, n # 0
      PROVE  W[n] = (g * W[n - 1]) % Prime
  <2>1. n - 1 \in Nat /\ n \in 1 .. n /\ n - 1 <= n
    BY <1>3
  <2>2. to(n)[n] = (g * to(n)[n - 1]) % Prime
    BY <1>1, <2>1 DEF PowersTo
  <2>3. to(n)[n - 1] = to(n - 1)[n - 1]
    BY <1>1, <2>1, PowersAgree
  <2> QED BY <2>1, <2>2, <2>3
<1>4. W \in [Nat -> Nat]
  BY <1>1 DEF PowersTo
<1>5. Equation(W)
  <2> DEFINE V == [n \in Nat |-> IF n = 0 THEN 1 ELSE (g * W[n - 1]) % Prime]
  <2>1. \A n \in Nat : W[n] = V[n]
    BY <1>2, <1>3
  <2>2. W = [n \in Nat |-> W[n]] /\ V = [n \in Nat |-> V[n]]
    OBVIOUS
  <2> HIDE DEF W, V
  <2>3. W = V
    BY <2>1, <2>2
  <2> QED BY <2>3 DEF V
<1> HIDE DEF W
<1> DEFINE pow == CHOOSE f : Equation(f)
<1>6. Equation(pow)
  BY <1>5
<1>7. \A n : Power(g, n) = pow[n]
  BY DEF Power
<1> HIDE DEF pow
<1>8. /\ pow[0] = 1
      /\ \A n \in Nat : pow[n + 1] = (g * pow[n]) % Prime
  <2>1. \A n \in Nat : pow[n] = IF n = 0 THEN 1 ELSE (g * pow[n - 1]) % Prime
    BY <1>6
  <2>2. \A n \in Nat : n + 1 \in Nat /\ n + 1 # 0 /\ (n + 1) - 1 = n
    OBVIOUS
  <2> HIDE DEF Equation
  <2> QED BY <2>1, <2>2
<1>9. \A n \in Nat : pow[n] \in Nat
  <2> DEFINE S == {n \in Nat : pow[n] \in Nat}
  <2>1. 0 \in S
    BY <1>8
  <2>2. ASSUME NEW n \in Nat, n \in S PROVE n + 1 \in S
    BY <1>8, <2>2, PrimeType
  <2> HIDE DEF S
  <2>3. Nat \subseteq S
    BY <2>1, <2>2, StepInduction
  <2> QED BY <2>3 DEF S
<1> QED BY <1>7, <1>8, <1>9

-----------------------------------------------------------------------------
(* The algebra of powers.                                                  *)

\* PowerDef with Times; powers are reduced.
LEMMA PowerStep ==
    ASSUME NEW g \in Nat, NEW n \in Nat
    PROVE  /\ Power(g, n) \in Nat /\ Power(g, n) \in 0 .. Prime - 1
           /\ Power(g, n + 1) = Times(g, Power(g, n))
<1>1. Power(g, n) \in Nat /\ Power(g, n + 1) = Times(g, Power(g, n))
  BY PowerDef DEF Times
<1>2. CASE n = 0
  BY <1>1, <1>2, PowerDef, PrimeType
<1>3. CASE n # 0
  <2>1. n - 1 \in Nat /\ (n - 1) + 1 = n
    BY <1>3
  <2>2. Power(g, n) = Times(g, Power(g, n - 1)) /\ Power(g, n - 1) \in Nat
    BY <2>1, PowerDef DEF Times
  <2> QED BY <1>1, <2>2, TimesType
<1> QED BY <1>2, <1>3

\* The exponents of a product add up.
LEMMA PowerSum ==
    ASSUME NEW g \in Nat, NEW m \in Nat
    PROVE  \A n \in Nat : Power(g, m + n) = Times(Power(g, m), Power(g, n))
<1> DEFINE S == {n \in Nat : Power(g, m + n) = Times(Power(g, m), Power(g, n))}
<1>1. 0 \in S
  <2>1. m + 0 = m
    OBVIOUS
  <2> QED BY <2>1, PowerDef, PowerStep, TimesOne
<1>2. ASSUME NEW n \in Nat, n \in S
      PROVE  n + 1 \in S
  <2> DEFINE a == Power(g, m)
             b == Power(g, n)
  <2>1. m + n \in Nat /\ m + (n + 1) = (m + n) + 1
    OBVIOUS
  <2>2. a \in Nat /\ b \in Nat /\ Power(g, n + 1) = Times(g, b)
    BY PowerStep
  <2>3. Power(g, m + (n + 1)) = Times(g, Times(a, b))
    BY <1>2, <2>1, PowerStep
  <2> HIDE DEF a, b
  <2>4. Times(g, Times(a, b)) = Times(Times(g, a), b)
    BY <2>2, TimesAssociates
  <2>5. Times(g, a) = Times(a, g)
    BY <2>2, TimesCommutes
  <2>6. Times(Times(a, g), b) = Times(a, Times(g, b))
    BY <2>2, TimesAssociates
  <2>7. Power(g, m + (n + 1)) = Times(a, Power(g, n + 1))
    BY <2>2, <2>3, <2>4, <2>5, <2>6
  <2> QED BY <2>7 DEF a
<1> HIDE DEF S
<1>3. Nat \subseteq S
  BY <1>1, <1>2, StepInduction
<1> QED BY <1>3 DEF S

\* The exponents of a power of a power multiply: (g^m)^n = g^(m n).
LEMMA PowerProduct ==
    ASSUME NEW g \in Nat, NEW m \in Nat
    PROVE  \A n \in Nat : Power(Power(g, m), n) = Power(g, m * n)
<1> DEFINE a == Power(g, m)
           S == {n \in Nat : Power(a, n) = Power(g, m * n)}
<1>0. a \in Nat
  BY PowerStep
<1> HIDE DEF a
<1>1. 0 \in S
  <2>1. m * 0 = 0
    OBVIOUS
  <2> QED BY <2>1, <1>0, PowerDef
<1>2. ASSUME NEW n \in Nat, n \in S
      PROVE  n + 1 \in S
  <2> DEFINE k == m * n
  <2>1. k \in Nat /\ m * (n + 1) = m + k
    OBVIOUS
  <2>2. Power(a, n + 1) = Times(a, Power(a, n))
    BY <1>0, PowerStep
  <2>3. Power(a, n) = Power(g, k)
    BY <1>2
  <2> HIDE DEF k
  <2>4. Power(g, m + k) = Times(a, Power(g, k))
    BY <2>1, PowerSum DEF a
  <2> QED BY <2>1, <2>2, <2>3, <2>4
<1> HIDE DEF S
<1>3. Nat \subseteq S
  BY <1>1, <1>2, StepInduction
<1> QED BY <1>3 DEF S, a

\* Squaring the base doubles the exponent.
LEMMA PowerSquare ==
    ASSUME NEW g \in Nat, NEW n \in Nat
    PROVE  Power(Times(g, g), n) = Power(g, 2 * n)
<1>1. Power(g, 1) = Times(g, 1)
  <2>1. 0 + 1 = 1
    OBVIOUS
  <2> QED BY <2>1, PowerDef, PowerStep
<1>2. Power(g, 2) = Times(g, Times(g, 1))
  <2>1. 1 + 1 = 2
    OBVIOUS
  <2> QED BY <2>1, <1>1, PowerStep
<1>3. Times(g, Times(g, 1)) = Times(Times(g, g), 1)
  BY TimesAssociates
<1>4. Times(g, g) \in 0 .. Prime - 1
  BY TimesType
<1>5. Power(g, 2) = Times(g, g)
  BY <1>2, <1>3, <1>4, TimesOne
<1> QED BY <1>5, PowerProduct

-----------------------------------------------------------------------------
(* fastModExp computes the power.                                          *)

\* What the loop returns from a state on.  Left with x = 0 it multiplies as for 1.
Result(s) == Times(Power(s.G, IF s.x = 0 THEN 1 ELSE s.x), s.Y)

\* A turn is a state of the loop with a smaller exponent and the same result.
LEMMA TurnKeepsResult ==
    ASSUME NEW s \in LoopState, s.x > 1
    PROVE  /\ turn(s) \in LoopState
           /\ turn(s).x < s.x
           /\ Result(turn(s)) = Result(s)
<1> DEFINE G == s.G
           Y == s.Y
           m == s.x \div 2
           t == turn(s)
<1>1. G \in Nat /\ Y \in Nat /\ s.x \in Nat
  BY DEF LoopState
<1>2. m \in Nat /\ m # 0 /\ m < s.x /\ s.x = IF s.x % 2 = 0 THEN 2 * m ELSE 2 * m + 1
  BY <1>1
<1>3. Times(G, G) \in Nat /\ Times(G, Y) \in Nat
  BY <1>1, TimesType
<1>4. t = [G |-> Times(G, G), x |-> m, Y |-> IF s.x % 2 = 0 THEN Y ELSE Times(G, Y)]
  BY DEF turn, Times
<1>5. t.G = Times(G, G) /\ t.x = m /\ t.Y = IF s.x % 2 = 0 THEN Y ELSE Times(G, Y)
  BY <1>4
<1>6. t \in LoopState
  BY <1>2, <1>3, <1>4, <1>1 DEF LoopState
<1> HIDE DEF t
<1> DEFINE d == 2 * m
           q == Power(G, d)
<1>7. d \in Nat
  BY <1>2
<1>8. q \in Nat /\ Power(G, d + 1) = Times(G, q)
  BY <1>1, <1>7, PowerStep
<1>9. Power(Times(G, G), m) = q
  BY <1>1, <1>2, PowerSquare
<1>10. Result(t) = Times(q, t.Y)
  BY <1>2, <1>5, <1>9 DEF Result
<1> HIDE DEF q
<1>11. CASE s.x % 2 = 0
  <2>1. t.Y = Y /\ s.x = d /\ s.x # 0
    BY <1>2, <1>5, <1>11
  <2>2. Result(s) = Times(q, Y)
    BY <2>1 DEF Result, q
  <2> QED BY <1>2, <1>5, <1>6, <1>10, <2>1, <2>2 DEF t
<1>12. CASE s.x % 2 # 0
  <2>1. t.Y = Times(G, Y) /\ s.x = d + 1 /\ s.x # 0
    BY <1>2, <1>5, <1>12
  <2>2. Result(s) = Times(Times(G, q), Y)
    BY <2>1, <1>8 DEF Result
  <2> HIDE DEF G, Y
  <2>3. Times(G, q) = Times(q, G)
    BY <1>1, <1>8, TimesCommutes
  <2>4. Times(Times(q, G), Y) = Times(q, Times(G, Y))
    BY <1>1, <1>8, TimesAssociates
  <2> QED BY <1>2, <1>5, <1>6, <1>10, <2>1, <2>2, <2>3, <2>4 DEF t
<1> QED BY <1>11, <1>12

\* The loop ends with that result: Result satisfies loop's equation, so loop is a
\* function that does, and by induction on x it is the only one.
LEMMA LoopResult == \A s \in LoopState : loop[s] = Result(s)
<1> DEFINE W == [s \in LoopState |-> Result(s)]
           Body(f, s) == IF s.x > 1 THEN f[turn(s)] ELSE (s.G * s.Y) % Prime
           Equation(f) == f = [s \in LoopState |-> Body(f, s)]
<1>1. ASSUME NEW s \in LoopState, ~(s.x > 1)
      PROVE  Result(s) = (s.G * s.Y) % Prime
  <2>1. s.G \in Nat /\ s.Y \in Nat /\ (s.x = 0 \/ s.x = 1)
    BY <1>1 DEF LoopState
  <2>2. Power(s.G, 1) = Times(s.G, 1)
    <3>1. 0 + 1 = 1
      OBVIOUS
    <3> QED BY <2>1, <3>1, PowerDef, PowerStep
  <2>3. Result(s) = Times(Times(s.G, 1), s.Y)
    BY <2>1, <2>2 DEF Result
  <2>4. Times(Times(s.G, 1), s.Y) = Times(s.G % Prime, s.Y)
    BY <2>1 DEF Times
  <2>5. Times(s.G % Prime, s.Y) = Times(s.G, s.Y)
    BY <2>1, TimesReduces
  <2> QED BY <2>3, <2>4, <2>5 DEF Times
<1>2. Equation(W)
  <2>1. ASSUME NEW s \in LoopState
        PROVE  Result(s) = Body(W, s)
    <3>1. CASE s.x > 1
      <4>1. turn(s) \in LoopState /\ Result(turn(s)) = Result(s)
        BY <3>1, TurnKeepsResult
      <4> QED BY <3>1, <4>1
    <3>2. CASE ~(s.x > 1)
      BY <3>2, <1>1
    <3> QED BY <3>1, <3>2
  <2> HIDE DEF Body
  <2> QED BY <2>1
<1>3. Equation(loop)
  <2> HIDE DEF W
  <2> QED BY <1>2 DEF loop
<1>4. \A s \in LoopState : loop[s] = Body(loop, s)
  BY <1>3
<1> HIDE DEF W
<1> DEFINE S == {n \in Nat : \A s \in LoopState : s.x = n => loop[s] = Result(s)}
<1>5. ASSUME NEW n \in Nat, \A m \in Nat : m < n => m \in S
      PROVE  n \in S
  <2> SUFFICES ASSUME NEW s \in LoopState, s.x = n
               PROVE  loop[s] = Result(s)
    OBVIOUS
  <2>1. CASE s.x > 1
    <3>1. turn(s) \in LoopState /\ turn(s).x < n /\ Result(turn(s)) = Result(s)
      BY <2>1, TurnKeepsResult
    <3>2. turn(s).x \in Nat
      BY <3>1 DEF LoopState
    <3>3. loop[turn(s)] = Result(turn(s))
      BY <1>5, <3>1, <3>2
    <3> QED BY <1>4, <2>1, <3>1, <3>3
  <2>2. CASE ~(s.x > 1)
    BY <1>1, <1>4, <2>2
  <2> QED BY <2>1, <2>2
<1> HIDE DEF S
<1>6. Nat \subseteq S
  BY <1>5, Induction
<1>7. \A s \in LoopState : s.x \in Nat
  BY DEF LoopState
<1> QED BY <1>6, <1>7 DEF S

\* CommModule.fastModExp returns g^e modulo the prime, for every base and exponent.
THEOREM FastModExpIsPower ==
    \A g \in Nat, e \in Nat : fastModExp(g, e) = Power(g, e)
<1> SUFFICES ASSUME NEW g \in Nat, NEW e \in Nat
             PROVE  fastModExp(g, e) = Power(g, e)
  OBVIOUS
<1>1. CASE e = 0
  BY <1>1, PowerDef DEF fastModExp
<1>2. CASE e # 0
  <2> DEFINE s == [G |-> g, x |-> e, Y |-> 1]
  <2>1. s \in LoopState /\ s.G = g /\ s.x = e /\ s.Y = 1
    BY DEF LoopState
  <2>2. fastModExp(g, e) = loop[s]
    BY <1>2 DEF fastModExp
  <2> HIDE DEF s
  <2>3. loop[s] = Times(Power(g, e), 1)
    BY <1>2, <2>1, LoopResult DEF Result
  <2>4. Times(Power(g, e), 1) = Power(g, e)
    BY PowerStep, TimesOne
  <2> QED BY <2>2, <2>3, <2>4
<1> QED BY <1>1, <1>2

\* setKey: what an end with secret y makes of the value of an end with secret x is
\* g^(x y), whichever of the two it is.
LEMMA SharedKey ==
    ASSUME NEW x \in Nat, NEW y \in Nat
    PROVE  /\ fastModExp(fastModExp(Generator, x), y) = Power(Generator, x * y)
           /\ Power(Generator, x * y) \in 0 .. Prime - 1
           /\ x * y = y * x
<1>1. Generator \in Nat /\ x * y \in Nat /\ x * y = y * x
  BY PrimeAssumption
<1>2. fastModExp(Generator, x) = Power(Generator, x)
  BY <1>1, FastModExpIsPower
<1>3. Power(Generator, x) \in Nat
  BY <1>1, PowerStep
<1>4. fastModExp(Power(Generator, x), y) = Power(Power(Generator, x), y)
  BY <1>3, FastModExpIsPower
<1>5. Power(Power(Generator, x), y) = Power(Generator, x * y)
  BY <1>1, PowerProduct
<1>6. Power(Generator, x * y) \in 0 .. Prime - 1
  BY <1>1, PowerStep
<1> QED BY <1>1, <1>2, <1>4, <1>5, <1>6

-----------------------------------------------------------------------------
(* The invariant of the exchange.                                          *)

\* A connection waits once, at an open socket, and its server's end is not begun.
WaitingOK ==
    /\ \A p \in Peers : Waiting(p) => listening /\ pt[ServerEnd(p)] = "none"
    /\ \A i, j \in DOMAIN backlog : backlog[i] = backlog[j] => i = j

\* The accepting thread is in a constructor exactly while there is one server's end
\* that is not finished.
MainOK ==
    /\ main = "construct" => \E p \in Peers : pt[ServerEnd(p)] \in Constructing
    /\ \A p \in Peers : pt[ServerEnd(p)] \in Constructing => main = "construct"
    /\ \A p, q \in Peers :
          pt[ServerEnd(p)] \in Constructing /\ pt[ServerEnd(q)] \in Constructing => p = q

\* What an end that is not closed has written is determined by where it is.
SentOK ==
    \A p \in Peers :
        /\ pt[ServerEnd(p)] \in {"none", "streams"} => sent[ServerEnd(p)] = 0
        /\ pt[PeerEnd(p)] = "streams" => sent[PeerEnd(p)] = 0
        /\ pt[ServerEnd(p)] = "header" => sent[ServerEnd(p)] = 1
        /\ pt[PeerEnd(p)] = "header" => sent[PeerEnd(p)] = 1
        /\ pt[ServerEnd(p)] \in {"receive", "open"} => sent[ServerEnd(p)] = 2
        /\ pt[PeerEnd(p)] \in {"receive", "open"} => sent[PeerEnd(p)] = 2

\* How the two ends of a connection are related.  A peer that has not connected has
\* no server's end; one that is in its exchange is in the backlog, served, or has
\* been reset; one that is open was accepted.
PairOK ==
    \A p \in Peers :
        /\ pt[PeerEnd(p)] = "none" => pt[ServerEnd(p)] \in {"none", "closed"} /\ ~Waiting(p)
        /\ pt[PeerEnd(p)] \in Constructing =>
              \/ Waiting(p) \/ ~listening
              \/ pt[ServerEnd(p)] \in Constructing \cup {"open"}
        /\ pt[PeerEnd(p)] = "open" => pt[ServerEnd(p)] # "none"

\* g^(x y) for the secrets of p's connection.
KeyOf(p) == Power(Generator, secret[PeerEnd(p)] * secret[ServerEnd(p)])

\* An open end has this key.
KeyOK ==
    \A p \in Peers :
        /\ pt[PeerEnd(p)] = "open" => key[PeerEnd(p)] = KeyOf(p)
        /\ pt[ServerEnd(p)] = "open" => key[ServerEnd(p)] = KeyOf(p)

\* A request was sent on a connection that was open, under its key.
MailOK ==
    \A p \in Peers :
        mail[p] # NoKey =>
            /\ pt[PeerEnd(p)] \in {"open", "closed"} /\ pt[ServerEnd(p)] # "none"
            /\ mail[p] = KeyOf(p)

HandshakeInv ==
    TypeOK /\ WaitingOK /\ MainOK /\ SentOK /\ PairOK /\ KeyOK /\ MailOK

\* The ends as names: all that is used of their being pairs.
LEMMA EndFacts ==
    /\ \A p \in Peers : PeerEnd(p) \in Ends /\ ServerEnd(p) \in Ends
    /\ \A p : Other(PeerEnd(p)) = ServerEnd(p) /\ Other(ServerEnd(p)) = PeerEnd(p)
    /\ \A p : PeerEnd(p)[1] = p /\ ServerEnd(p)[1] = p
    /\ \A p : PeerEnd(p)[2] = "peer" /\ ServerEnd(p)[2] = "server"
    /\ \A p, q : /\ PeerEnd(p) # ServerEnd(q)
                 /\ PeerEnd(p) = PeerEnd(q) => p = q
                 /\ ServerEnd(p) = ServerEnd(q) => p = q
    /\ \A e \in Ends : \E p \in Peers : e = PeerEnd(p) \/ e = ServerEnd(p)
BY DEF Ends, PeerEnd, ServerEnd, Other

\* Secrets are naturals and a key is one of Keys that is not null.
LEMMA KeyFacts ==
    ASSUME TypeOK
    PROVE  \A p \in Peers :
              /\ secret[PeerEnd(p)] \in Nat /\ secret[ServerEnd(p)] \in Nat
              /\ KeyOf(p) \in Keys /\ KeyOf(p) # NoKey
              /\ fastModExp(fastModExp(Generator, secret[PeerEnd(p)]), secret[ServerEnd(p)]) = KeyOf(p)
              /\ fastModExp(fastModExp(Generator, secret[ServerEnd(p)]), secret[PeerEnd(p)]) = KeyOf(p)
<1> TAKE p \in Peers
<1> DEFINE x == secret[PeerEnd(p)]
           y == secret[ServerEnd(p)]
<1>1. x \in Nat /\ y \in Nat
  BY EndFacts, SecretsAssumption DEF TypeOK
<1>2. KeyOf(p) = Power(Generator, x * y)
  BY DEF KeyOf
<1> HIDE DEF x, y
<1>3. /\ fastModExp(fastModExp(Generator, x), y) = Power(Generator, x * y)
      /\ Power(Generator, x * y) \in 0 .. Prime - 1
      /\ x * y = y * x
      /\ fastModExp(fastModExp(Generator, y), x) = Power(Generator, y * x)
  BY <1>1, SharedKey
<1>4. \A k \in 0 .. Prime - 1 : k \in Keys /\ k # NoKey
  BY PrimeType DEF Keys, NoKey
<1>5. x \in Nat /\ y \in Nat /\ KeyOf(p) \in Keys /\ KeyOf(p) # NoKey
      /\ fastModExp(fastModExp(Generator, x), y) = KeyOf(p)
      /\ fastModExp(fastModExp(Generator, y), x) = KeyOf(p)
  BY <1>1, <1>2, <1>3, <1>4
<1> QED BY <1>5 DEF x, y

LEMMA InitKeeps == Init => HandshakeInv
<1> SUFFICES ASSUME Init PROVE HandshakeInv
  OBVIOUS
<1>1. NoSecret \in Secrets
  BY SecretsAssumption DEF NoSecret
<1>2. NoKey \in Keys
  BY PrimeType DEF NoKey, Keys
<1>3. TypeOK
  BY <1>1, <1>2, BacklogAssumption DEF Init, TypeOK
<1>4. \A p \in Peers : /\ pt[PeerEnd(p)] = "none" /\ pt[ServerEnd(p)] = "none"
                       /\ sent[ServerEnd(p)] = 0 /\ mail[p] = NoKey
  BY EndFacts DEF Init
<1>5. ~\E p : Waiting(p)
  BY DEF Waiting, Init
<1>6. WaitingOK
  BY <1>5 DEF WaitingOK, Init
<1> QED BY <1>3, <1>4, <1>5, <1>6
      DEF HandshakeInv, MainOK, SentOK, PairOK, KeyOK, MailOK, Constructing, Init

\* A connection joins the backlog.
LEMMA JoinsBacklog ==
    ASSUME TypeOK, WaitingOK, NEW p \in Peers, ~Waiting(p), backlog' = Append(backlog, p)
    PROVE  /\ \A q : Waiting(q)' <=> Waiting(q) \/ q = p
           /\ \A i, j \in DOMAIN backlog' : backlog'[i] = backlog'[j] => i = j
           /\ backlog' \in Seq(Peers) /\ Len(backlog') = Len(backlog) + 1
<1>1. backlog \in Seq(Peers)
  BY DEF TypeOK
<1>2. /\ backlog' \in Seq(Peers) /\ Len(backlog') = Len(backlog) + 1
      /\ DOMAIN backlog = 1 .. Len(backlog) /\ DOMAIN backlog' = 1 .. Len(backlog) + 1
      /\ backlog'[Len(backlog) + 1] = p
      /\ \A i \in 1 .. Len(backlog) : backlog'[i] = backlog[i]
      /\ Len(backlog) \in Nat
  BY <1>1
<1>3. \A q : Waiting(q)' <=> Waiting(q) \/ q = p
  BY <1>2 DEF Waiting
<1>4. \A i \in DOMAIN backlog' : i = Len(backlog) + 1 \/ i \in DOMAIN backlog
  BY <1>2
<1>5. \A i \in DOMAIN backlog : backlog[i] # p
  BY DEF Waiting
<1> QED BY <1>2, <1>3, <1>4, <1>5 DEF WaitingOK

\* A connection is taken from the backlog.
LEMMA LeavesBacklog ==
    ASSUME TypeOK, WaitingOK, backlog # <<>>, backlog' = Tail(backlog)
    PROVE  /\ Head(backlog) \in Peers /\ Waiting(Head(backlog))
           /\ \A q : Waiting(q)' <=> Waiting(q) /\ q # Head(backlog)
           /\ \A i, j \in DOMAIN backlog' : backlog'[i] = backlog'[j] => i = j
           /\ backlog' \in Seq(Peers) /\ Len(backlog') <= Len(backlog)
<1>1. backlog \in Seq(Peers)
  BY DEF TypeOK
<1>2. /\ Len(backlog) \in Nat /\ Len(backlog) # 0
      /\ Head(backlog) = backlog[1] /\ Head(backlog) \in Peers
      /\ DOMAIN backlog = 1 .. Len(backlog)
  BY <1>1
<1>3. /\ backlog' \in Seq(Peers) /\ Len(backlog') = Len(backlog) - 1
      /\ DOMAIN backlog' = 1 .. Len(backlog) - 1
      /\ \A i \in 1 .. Len(backlog) - 1 : backlog'[i] = backlog[i + 1]
  BY <1>1, <1>2
<1>4. \A i, j \in DOMAIN backlog : backlog[i] = backlog[j] => i = j
  BY DEF WaitingOK
<1>5. ASSUME NEW q PROVE Waiting(q)' <=> Waiting(q) /\ q # Head(backlog)
  <2>1. ASSUME Waiting(q)' PROVE Waiting(q) /\ q # Head(backlog)
    <3>1. PICK i \in DOMAIN backlog' : backlog'[i] = q
      BY <2>1 DEF Waiting
    <3>2. i + 1 \in DOMAIN backlog /\ backlog[i + 1] = q /\ i + 1 # 1 /\ 1 \in DOMAIN backlog
      BY <1>2, <1>3, <3>1
    <3> QED BY <1>2, <1>4, <3>2 DEF Waiting
  <2>2. ASSUME Waiting(q), q # Head(backlog) PROVE Waiting(q)'
    <3>1. PICK i \in DOMAIN backlog : backlog[i] = q
      BY <2>2 DEF Waiting
    <3>2. i # 1
      BY <1>2, <2>2, <3>1
    <3>3. i - 1 \in DOMAIN backlog' /\ backlog'[i - 1] = q
      BY <1>2, <1>3, <3>1, <3>2
    <3> QED BY <3>3 DEF Waiting
  <2> QED BY <2>1, <2>2
<1>6. ASSUME NEW i \in DOMAIN backlog', NEW j \in DOMAIN backlog', backlog'[i] = backlog'[j]
      PROVE  i = j
  <2>1. i + 1 \in DOMAIN backlog /\ j + 1 \in DOMAIN backlog /\ backlog[i + 1] = backlog[j + 1]
    BY <1>2, <1>3, <1>6
  <2>2. i + 1 = j + 1
    BY <1>4, <2>1
  <2> QED BY <1>2, <1>3, <2>2
<1>7. Waiting(Head(backlog))
  BY <1>2 DEF Waiting
<1> QED BY <1>2, <1>3, <1>5, <1>6, <1>7

-----------------------------------------------------------------------------
(* Each action keeps the invariant.                                        *)

\* Nobody else's connection is touched by connect.
LEMMA ConnectKeeps ==
    ASSUME HandshakeInv, NEW p \in Peers, connect(p)
    PROVE  HandshakeInv'
<1> USE DEF HandshakeInv
<1>1. /\ backlog' = Append(backlog, p) /\ ~Waiting(p) /\ listening
      /\ Len(backlog) < Backlog /\ UNCHANGED <<running, listening, main>>
      /\ pt' = [pt EXCEPT ![PeerEnd(p)] = "streams", ![ServerEnd(p)] = "none"]
      /\ sent' = [sent EXCEPT ![PeerEnd(p)] = 0, ![ServerEnd(p)] = 0]
      /\ key' = [key EXCEPT ![PeerEnd(p)] = NoKey, ![ServerEnd(p)] = NoKey]
      /\ mail' = [mail EXCEPT ![p] = NoKey]
      /\ pt[ServerEnd(p)] \notin Constructing
  BY DEF connect, Closed, Constructing
<1>2. PICK x \in Secrets : secret' = [secret EXCEPT ![PeerEnd(p)] = x]
  BY DEF connect
<1>3. /\ \A q : Waiting(q)' <=> Waiting(q) \/ q = p
      /\ \A i, j \in DOMAIN backlog' : backlog'[i] = backlog'[j] => i = j
      /\ backlog' \in Seq(Peers) /\ Len(backlog') = Len(backlog) + 1
  BY <1>1, JoinsBacklog
<1>4. TypeOK'
  <2>1. NoKey \in Keys
    BY PrimeType DEF NoKey, Keys
  <2>2. Len(backlog') <= Backlog
    BY <1>1, <1>3, BacklogAssumption DEF TypeOK
  <2>3. pt' \in [Ends -> Constructing \cup {"none", "open", "closed"}]
    BY <1>1 DEF TypeOK, Constructing
  <2>4. sent' \in [Ends -> 0 .. 2]
    <3>1. 0 \in 0 .. 2 /\ sent \in [Ends -> 0 .. 2]
      BY DEF TypeOK
    <3> QED BY <1>1, <3>1
  <2>5. key' \in [Ends -> Keys] /\ mail' \in [Peers -> Keys]
    BY <1>1, <2>1 DEF TypeOK
  <2>6. secret' \in [Ends -> Secrets]
    BY <1>2 DEF TypeOK
  <2> QED BY <1>1, <1>3, <2>2, <2>3, <2>4, <2>5, <2>6 DEF TypeOK
<1>5. /\ pt'[PeerEnd(p)] = "streams" /\ pt'[ServerEnd(p)] = "none"
      /\ sent'[PeerEnd(p)] = 0 /\ sent'[ServerEnd(p)] = 0
      /\ mail'[p] = NoKey
  BY <1>1, EndFacts DEF TypeOK
<1>6. \A q \in Peers \ {p} :
         /\ pt'[PeerEnd(q)] = pt[PeerEnd(q)] /\ pt'[ServerEnd(q)] = pt[ServerEnd(q)]
         /\ sent'[PeerEnd(q)] = sent[PeerEnd(q)] /\ sent'[ServerEnd(q)] = sent[ServerEnd(q)]
         /\ key'[PeerEnd(q)] = key[PeerEnd(q)] /\ key'[ServerEnd(q)] = key[ServerEnd(q)]
         /\ mail'[q] = mail[q]
         /\ KeyOf(q)' = KeyOf(q)
  BY <1>1, <1>2, EndFacts DEF TypeOK, KeyOf
<1>7. WaitingOK'
  BY <1>1, <1>3, <1>5, <1>6 DEF WaitingOK
<1>8. MainOK'
  BY <1>1, <1>5, <1>6 DEF MainOK, Constructing
<1>9. SentOK'
  BY <1>5, <1>6 DEF SentOK
<1>10. PairOK'
  BY <1>1, <1>3, <1>5, <1>6 DEF PairOK, Constructing
<1>11. KeyOK' /\ MailOK'
  BY <1>5, <1>6, NoKey' = NoKey DEF KeyOK, MailOK
<1> QED BY <1>4, <1>7, <1>8, <1>9, <1>10, <1>11

\* accept begins the server's end of the first connection in the backlog, whose peer
\* cannot be open yet.
LEMMA AcceptKeeps ==
    ASSUME HandshakeInv, accept
    PROVE  HandshakeInv'
<1> USE DEF HandshakeInv
<1> DEFINE p == Head(backlog)
<1>1. /\ main = "accept" /\ listening /\ backlog # <<>> /\ main' = "construct"
      /\ backlog' = Tail(backlog) /\ UNCHANGED <<running, listening, sent, key, mail>>
      /\ pt' = [pt EXCEPT ![ServerEnd(p)] = "streams"]
  BY DEF accept
<1>2. PICK x \in Secrets : secret' = [secret EXCEPT ![ServerEnd(p)] = x]
  BY DEF accept
<1>3. /\ p \in Peers /\ Waiting(p)
      /\ \A q : Waiting(q)' <=> Waiting(q) /\ q # p
      /\ \A i, j \in DOMAIN backlog' : backlog'[i] = backlog'[j] => i = j
      /\ backlog' \in Seq(Peers) /\ Len(backlog') <= Len(backlog)
  BY <1>1, LeavesBacklog
<1> HIDE DEF p
<1>4. TypeOK'
  <2>1. Len(backlog') <= Backlog
    <3>1. Len(backlog) \in Nat /\ Len(backlog') \in Nat /\ Len(backlog) <= Backlog
      BY <1>3 DEF TypeOK
    <3> QED BY <1>3, <3>1, BacklogAssumption
  <2> QED BY <1>1, <1>2, <1>3, <2>1 DEF TypeOK, Constructing
<1>5. /\ pt[ServerEnd(p)] = "none" /\ pt'[ServerEnd(p)] = "streams"
      /\ pt'[PeerEnd(p)] = pt[PeerEnd(p)] /\ pt[PeerEnd(p)] \notin {"none", "open"}
      /\ sent[ServerEnd(p)] = 0 /\ mail[p] = NoKey
  BY <1>1, <1>3, EndFacts DEF TypeOK, WaitingOK, PairOK, SentOK, MailOK
<1>6. \A q \in Peers \ {p} :
         /\ pt'[PeerEnd(q)] = pt[PeerEnd(q)] /\ pt'[ServerEnd(q)] = pt[ServerEnd(q)]
         /\ KeyOf(q)' = KeyOf(q)
  BY <1>1, <1>2, <1>3, EndFacts DEF TypeOK, KeyOf
<1>7. WaitingOK'
  BY <1>1, <1>3, <1>6 DEF WaitingOK
<1>8. MainOK'
  BY <1>1, <1>3, <1>5, <1>6 DEF MainOK, Constructing
<1>9. SentOK'
  BY <1>1, <1>5, <1>6 DEF SentOK
<1>10. PairOK'
  BY <1>1, <1>3, <1>5, <1>6 DEF PairOK, Constructing
<1>11. KeyOK' /\ MailOK'
  BY <1>1, <1>5, <1>6, NoKey' = NoKey DEF KeyOK, MailOK
<1> QED BY <1>4, <1>7, <1>8, <1>9, <1>10, <1>11

\* A step of the constructor at one end of p's connection, which is neither the
\* first nor the last: pt and sent advance together.
LEMMA ConstructorKeeps ==
    ASSUME HandshakeInv, NEW p \in Peers, NEW e \in {PeerEnd(p), ServerEnd(p)},
           openStreams(e) \/ sendSecret(e)
    PROVE  HandshakeInv'
<1> USE DEF HandshakeInv
<1>1. /\ UNCHANGED <<running, listening, main, backlog, secret, key, mail>>
      /\ \/ /\ pt[e] = "streams" /\ pt' = [pt EXCEPT ![e] = "header"]
            /\ sent' = [sent EXCEPT ![e] = 1]
         \/ /\ pt[e] = "header" /\ pt' = [pt EXCEPT ![e] = "receive"]
            /\ sent' = [sent EXCEPT ![e] = 2]
  BY DEF openStreams, sendSecret
<1>2. TypeOK'
  <2>1. 1 \in 0 .. 2 /\ 2 \in 0 .. 2
    OBVIOUS
  <2>2. pt' \in [Ends -> Constructing \cup {"none", "open", "closed"}]
    BY <1>1, EndFacts DEF TypeOK, Constructing
  <2>3. sent' \in [Ends -> 0 .. 2]
    BY <1>1, <2>1, EndFacts DEF TypeOK
  <2> QED BY <1>1, <2>2, <2>3 DEF TypeOK
<1>3. \A d \in Ends \ {e} : pt'[d] = pt[d] /\ sent'[d] = sent[d]
  BY <1>1, EndFacts DEF TypeOK
<1>4. /\ pt[e] \in Constructing /\ pt'[e] \in {"header", "receive"}
      /\ pt'[e] = "header" => sent'[e] = 1
      /\ pt'[e] = "receive" => sent'[e] = 2
  BY <1>1, EndFacts DEF TypeOK, Constructing
<1>5. \A q \in Peers : (Waiting(q)' <=> Waiting(q)) /\ KeyOf(q)' = KeyOf(q)
  BY <1>1 DEF Waiting, KeyOf
<1>6. \A q \in Peers : /\ PeerEnd(q) # e => pt'[PeerEnd(q)] = pt[PeerEnd(q)]
                                            /\ sent'[PeerEnd(q)] = sent[PeerEnd(q)]
                       /\ ServerEnd(q) # e => pt'[ServerEnd(q)] = pt[ServerEnd(q)]
                                              /\ sent'[ServerEnd(q)] = sent[ServerEnd(q)]
  BY <1>3, EndFacts
<1>7. WaitingOK'
  <2>1. \A q \in Peers : Waiting(q) => ServerEnd(q) # e
    BY <1>4 DEF WaitingOK, Constructing
  <2> QED BY <1>1, <1>5, <1>6, <2>1 DEF WaitingOK
<1>8. \A q \in Peers : /\ pt'[PeerEnd(q)] \in Constructing <=> pt[PeerEnd(q)] \in Constructing
                       /\ pt'[ServerEnd(q)] \in Constructing <=> pt[ServerEnd(q)] \in Constructing
                       /\ \A v \in {"none", "open", "closed"} :
                             /\ pt'[PeerEnd(q)] = v <=> pt[PeerEnd(q)] = v
                             /\ pt'[ServerEnd(q)] = v <=> pt[ServerEnd(q)] = v
  BY <1>4, <1>6 DEF Constructing
<1>9. MainOK'
  BY <1>1, <1>8 DEF MainOK
<1>10. SentOK'
  BY <1>4, <1>6 DEF SentOK, Constructing
<1>11. PairOK'
  BY <1>1, <1>5, <1>8 DEF PairOK
<1>12. KeyOK' /\ MailOK'
  BY <1>1, <1>5, <1>8, NoKey' = NoKey DEF KeyOK, MailOK
<1> QED BY <1>2, <1>7, <1>9, <1>10, <1>11, <1>12

\* The last step of the constructor: the key is that of the two secrets.  The
\* server's was the only one being constructed.
LEMMA ReceiveSecretKeeps ==
    ASSUME HandshakeInv, NEW p \in Peers, NEW e \in {PeerEnd(p), ServerEnd(p)},
           receiveSecret(e)
    PROVE  HandshakeInv'
<1> USE DEF HandshakeInv
<1>1. /\ UNCHANGED <<running, listening, backlog, sent, secret, mail>>
      /\ pt[e] = "receive" /\ sent[Other(e)] = 2
      /\ pt' = [pt EXCEPT ![e] = "open"]
      /\ main' = IF e[2] = "peer" THEN main ELSE IF running THEN "accept" ELSE "exit"
  BY DEF receiveSecret
<1>2. key' = [key EXCEPT ![e] = KeyOf(p)]
  BY KeyFacts, EndFacts DEF receiveSecret
<1>3. TypeOK'
  BY <1>1, <1>2, KeyFacts, EndFacts DEF TypeOK, Constructing
<1>4. \A q \in Peers : /\ PeerEnd(q) # e => pt'[PeerEnd(q)] = pt[PeerEnd(q)]
                                            /\ key'[PeerEnd(q)] = key[PeerEnd(q)]
                       /\ ServerEnd(q) # e => pt'[ServerEnd(q)] = pt[ServerEnd(q)]
                                              /\ key'[ServerEnd(q)] = key[ServerEnd(q)]
  BY <1>1, <1>2, EndFacts DEF TypeOK
<1>5. pt'[e] = "open" /\ key'[e] = KeyOf(p) /\ sent'[e] = 2
  <2>1. sent[e] = 2
    BY <1>1 DEF SentOK
  <2> QED BY <1>1, <1>2, <2>1, EndFacts DEF TypeOK
<1>6. \A q \in Peers : (Waiting(q)' <=> Waiting(q)) /\ KeyOf(q)' = KeyOf(q)
  BY <1>1 DEF Waiting, KeyOf
<1>7. WaitingOK'
  <2>1. \A q \in Peers : Waiting(q) => ServerEnd(q) # e
    BY <1>1 DEF WaitingOK
  <2> QED BY <1>1, <1>4, <1>6, <2>1 DEF WaitingOK
<1>8. SentOK'
  BY <1>1, <1>4, <1>5 DEF SentOK
<1>9. \A q \in Peers : /\ PeerEnd(q) = e => q = p
                       /\ ServerEnd(q) = e => q = p
  BY EndFacts
<1>10. KeyOK'
  BY <1>4, <1>5, <1>6, <1>9 DEF KeyOK
<1>11. MailOK'
  BY <1>1, <1>4, <1>5, <1>6, NoKey' = NoKey DEF MailOK
<1>12. CASE e = PeerEnd(p)
  <2>1. \A q \in Peers : pt'[ServerEnd(q)] = pt[ServerEnd(q)]
    BY <1>4, <1>12, EndFacts
  <2>2. main' = main
    BY <1>1, <1>12, EndFacts
  <2>3. MainOK'
    BY <2>1, <2>2 DEF MainOK
  <2>4. pt[ServerEnd(p)] # "none"
    BY <1>1, <1>12, EndFacts DEF SentOK
  <2>5. PairOK'
    BY <1>1, <1>4, <1>5, <1>6, <1>9, <1>12, <2>1, <2>4 DEF PairOK, Constructing
  <2> QED BY <1>3, <1>7, <1>8, <1>10, <1>11, <2>3, <2>5
<1>13. CASE e = ServerEnd(p)
  <2>1. \A q \in Peers : pt'[PeerEnd(q)] = pt[PeerEnd(q)]
    BY <1>4, <1>13, EndFacts
  <2>2. main' # "construct"
    BY <1>1, <1>13, EndFacts
  <2>3. \A q \in Peers : pt'[ServerEnd(q)] \notin Constructing
    BY <1>1, <1>4, <1>5, <1>13 DEF MainOK, Constructing
  <2>4. MainOK'
    BY <2>2, <2>3 DEF MainOK
  <2>5. PairOK'
    BY <1>1, <1>4, <1>5, <1>6, <1>9, <1>13, <2>1 DEF PairOK, Constructing
  <2> QED BY <1>3, <1>7, <1>8, <1>10, <1>11, <2>4, <2>5
<1> QED BY <1>12, <1>13

\* A constructor that fails because the other end is closed: of the server's only one
\* is constructed.
LEMMA OpenFailsKeeps ==
    ASSUME HandshakeInv, NEW p \in Peers, NEW e \in {PeerEnd(p), ServerEnd(p)}, openFails(e)
    PROVE  HandshakeInv'
<1> USE DEF HandshakeInv
<1>1. /\ UNCHANGED <<running, listening, backlog, sent, secret, key, mail>>
      /\ pt[e] = "streams" /\ pt[Other(e)] = "closed"
      /\ pt' = [pt EXCEPT ![e] = "closed"]
      /\ main' = IF e[2] = "peer" THEN main ELSE "died"
  BY DEF openFails
<1>2. TypeOK'
  BY <1>1, EndFacts DEF TypeOK
<1>3. /\ pt'[e] = "closed" /\ pt'[Other(e)] = "closed"
      /\ \A q \in Peers : /\ PeerEnd(q) # e => pt'[PeerEnd(q)] = pt[PeerEnd(q)]
                          /\ ServerEnd(q) # e => pt'[ServerEnd(q)] = pt[ServerEnd(q)]
                          /\ PeerEnd(q) = e => q = p
                          /\ ServerEnd(q) = e => q = p
  BY <1>1, EndFacts DEF TypeOK
<1>4. \A q \in Peers : (Waiting(q)' <=> Waiting(q)) /\ KeyOf(q)' = KeyOf(q)
  BY <1>1 DEF Waiting, KeyOf
<1>5. WaitingOK'
  <2>1. \A q \in Peers : Waiting(q) => ServerEnd(q) # e
    BY <1>1 DEF WaitingOK
  <2> QED BY <1>1, <1>3, <1>4, <2>1 DEF WaitingOK
<1>6. MainOK'
  <2>1. CASE e = PeerEnd(p)
    <3>1. main' = main /\ \A q \in Peers : pt'[ServerEnd(q)] = pt[ServerEnd(q)]
      BY <1>1, <1>3, <2>1, EndFacts
    <3> QED BY <3>1 DEF MainOK
  <2>2. CASE e = ServerEnd(p)
    <3>1. main' = "died" /\ \A q \in Peers : pt'[ServerEnd(q)] \notin Constructing
      BY <1>1, <1>3, <2>2, EndFacts DEF MainOK, Constructing
    <3> QED BY <3>1 DEF MainOK
  <2> QED BY <2>1, <2>2
<1>7. SentOK'
  BY <1>1, <1>3 DEF SentOK
<1>8. PairOK'
  <2>1. pt'[PeerEnd(p)] = "closed" /\ pt'[ServerEnd(p)] = "closed"
    BY <1>3, EndFacts
  <2>2. \A q \in Peers \ {p} : /\ pt'[PeerEnd(q)] = pt[PeerEnd(q)]
                               /\ pt'[ServerEnd(q)] = pt[ServerEnd(q)]
    BY <1>3, EndFacts
  <2> QED BY <1>1, <1>4, <2>1, <2>2 DEF PairOK, Constructing
<1>9. KeyOK' /\ MailOK'
  BY <1>1, <1>3, <1>4, NoKey' = NoKey DEF KeyOK, MailOK
<1> QED BY <1>2, <1>5, <1>6, <1>7, <1>8, <1>9

\* Steps that leave the connections as they are: a request is sent, or the accepting
\* thread finds the socket closed.
LEMMA SendKeeps ==
    ASSUME HandshakeInv, NEW p \in Peers, sendAdminMsg(p)
    PROVE  HandshakeInv'
<1> USE DEF HandshakeInv
<1>1. /\ UNCHANGED <<running, listening, main, backlog, pt, sent, secret, key>>
      /\ pt[PeerEnd(p)] = "open" /\ mail' = [mail EXCEPT ![p] = key[PeerEnd(p)]]
  BY DEF sendAdminMsg
<1>2. TypeOK'
  BY <1>1, EndFacts DEF TypeOK
<1>3. \A q \in Peers : (Waiting(q)' <=> Waiting(q)) /\ KeyOf(q)' = KeyOf(q)
  BY <1>1 DEF Waiting, KeyOf
<1>4. WaitingOK' /\ MainOK' /\ SentOK' /\ PairOK' /\ KeyOK'
  BY <1>1, <1>3 DEF WaitingOK, MainOK, SentOK, PairOK, KeyOK
<1>5. mail'[p] = KeyOf(p) /\ \A q \in Peers \ {p} : mail'[q] = mail[q]
  BY <1>1, EndFacts DEF TypeOK, KeyOK
<1>6. MailOK'
  BY <1>1, <1>3, <1>5, NoKey' = NoKey DEF MailOK, PairOK
<1> QED BY <1>2, <1>4, <1>6

LEMMA AcceptFailsKeeps ==
    ASSUME HandshakeInv, acceptFails
    PROVE  HandshakeInv'
<1> USE DEF HandshakeInv
<1>1. /\ UNCHANGED <<running, listening, backlog, pt, sent, secret, key, mail>>
      /\ main = "accept" /\ main' = "exit"
  BY DEF acceptFails
<1>2. TypeOK'
  BY <1>1 DEF TypeOK
<1>3. \A q \in Peers : (Waiting(q)' <=> Waiting(q)) /\ KeyOf(q)' = KeyOf(q)
  BY <1>1 DEF Waiting, KeyOf
<1>4. MainOK'
  BY <1>1 DEF MainOK
<1> QED BY <1>1, <1>2, <1>3, <1>4, NoKey' = NoKey
      DEF WaitingOK, SentOK, PairOK, KeyOK, MailOK

\* The end of a thread of the server whose connection is open, or the receipt of a
\* request by it.
LEMMA ThreadKeeps ==
    ASSUME HandshakeInv, NEW p \in Peers, receiveMsg(p) \/ threadEnds(p)
    PROVE  HandshakeInv'
<1> USE DEF HandshakeInv
<1>1. /\ UNCHANGED <<listening, main, backlog, sent, secret, key>>
      /\ running' \in BOOLEAN
      /\ pt[ServerEnd(p)] = "open" /\ mail' = [mail EXCEPT ![p] = NoKey]
      /\ pt' = pt \/ pt' = [pt EXCEPT ![ServerEnd(p)] = "closed"]
      /\ pt' # pt => pt[PeerEnd(p)] \in {"open", "closed"}
  BY DEF receiveMsg, threadEnds, TypeOK, MailOK
<1>2. TypeOK'
  <2>1. NoKey \in Keys
    BY PrimeType DEF NoKey, Keys
  <2> QED BY <1>1, <2>1, EndFacts DEF TypeOK
<1>3. /\ \A q \in Peers : pt'[PeerEnd(q)] = pt[PeerEnd(q)]
      /\ \A q \in Peers \ {p} : pt'[ServerEnd(q)] = pt[ServerEnd(q)] /\ mail'[q] = mail[q]
      /\ pt'[ServerEnd(p)] \in {"open", "closed"} /\ mail'[p] = NoKey
      /\ pt'[ServerEnd(p)] = "closed" => pt[PeerEnd(p)] \in {"open", "closed"}
  BY <1>1, EndFacts DEF TypeOK
<1>4. \A q \in Peers : (Waiting(q)' <=> Waiting(q)) /\ KeyOf(q)' = KeyOf(q)
  BY <1>1 DEF Waiting, KeyOf
<1>5. WaitingOK'
  BY <1>1, <1>3, <1>4 DEF WaitingOK
<1>6. MainOK'
  BY <1>1, <1>3 DEF MainOK, Constructing
<1>7. SentOK'
  BY <1>1, <1>3 DEF SentOK
<1>8. PairOK'
  BY <1>1, <1>3, <1>4 DEF PairOK, Constructing
<1>9. KeyOK' /\ MailOK'
  BY <1>1, <1>3, <1>4, NoKey' = NoKey DEF KeyOK, MailOK
<1> QED BY <1>2, <1>5, <1>6, <1>7, <1>8, <1>9

\* close resets what waits in the backlog.
LEMMA CloseKeeps ==
    ASSUME HandshakeInv, close
    PROVE  HandshakeInv'
<1> USE DEF HandshakeInv
<1>1. /\ UNCHANGED <<running, main, sent, secret, key, mail>>
      /\ listening' = FALSE /\ backlog' = <<>>
      /\ pt' = [e \in Ends |-> IF e[2] = "server" /\ Waiting(e[1]) THEN "closed" ELSE pt[e]]
  BY DEF close
<1>2. TypeOK'
  <2>1. backlog' \in Seq(Peers) /\ Len(backlog') = 0
    BY <1>1
  <2>2. pt' \in [Ends -> Constructing \cup {"none", "open", "closed"}]
    BY <1>1 DEF TypeOK
  <2>3. listening' \in BOOLEAN
    BY <1>1
  <2>4. Len(backlog') <= Backlog
    BY <2>1, BacklogAssumption
  <2> QED BY <1>1, <2>1, <2>2, <2>3, <2>4 DEF TypeOK
<1>3. \A q \in Peers :
         /\ pt'[PeerEnd(q)] = pt[PeerEnd(q)]
         /\ pt'[ServerEnd(q)] = IF Waiting(q) THEN "closed" ELSE pt[ServerEnd(q)]
  BY <1>1, EndFacts
<1>4. \A q \in Peers : ~Waiting(q)' /\ KeyOf(q)' = KeyOf(q)
  BY <1>1 DEF Waiting, KeyOf
<1>5. WaitingOK'
  BY <1>1, <1>4 DEF WaitingOK
<1>6. \A q \in Peers : pt'[ServerEnd(q)] \in Constructing <=> pt[ServerEnd(q)] \in Constructing
  BY <1>3 DEF Constructing, WaitingOK
<1>7. MainOK'
  BY <1>1, <1>6 DEF MainOK
<1>8. SentOK'
  BY <1>1, <1>3 DEF SentOK
<1>9. PairOK'
  BY <1>1, <1>3, <1>4 DEF PairOK
<1>10. KeyOK' /\ MailOK'
  BY <1>1, <1>3, <1>4, NoKey' = NoKey DEF KeyOK, MailOK
<1> QED BY <1>2, <1>5, <1>7, <1>8, <1>9, <1>10

\* After exit every server's end is closed, and nothing is asked of what those have
\* sent.
LEMMA ExitKeeps ==
    ASSUME HandshakeInv, exit
    PROVE  HandshakeInv'
<1> USE DEF HandshakeInv
<1>1. /\ UNCHANGED <<running, secret, key, mail>>
      /\ main' = "ended" /\ listening' = FALSE /\ backlog' = <<>>
      /\ pt' = [e \in Ends |-> IF e[2] = "server" THEN "closed" ELSE pt[e]]
  BY DEF exit
<1>2. PICK lost : sent' = [e \in Ends |-> IF e[2] = "server" /\ e[1] \in lost THEN 0 ELSE sent[e]]
  BY DEF exit
<1>3. TypeOK'
  <2>1. backlog' \in Seq(Peers) /\ Len(backlog') = 0
    BY <1>1
  <2>2. pt' \in [Ends -> Constructing \cup {"none", "open", "closed"}]
    BY <1>1 DEF TypeOK
  <2>3. sent' \in [Ends -> 0 .. 2]
    BY <1>2 DEF TypeOK
  <2>4. listening' \in BOOLEAN
    BY <1>1
  <2>5. Len(backlog') <= Backlog
    BY <2>1, BacklogAssumption
  <2> QED BY <1>1, <2>1, <2>2, <2>3, <2>4, <2>5 DEF TypeOK
<1>4. \A q \in Peers :
         /\ pt'[PeerEnd(q)] = pt[PeerEnd(q)] /\ sent'[PeerEnd(q)] = sent[PeerEnd(q)]
         /\ pt'[ServerEnd(q)] = "closed"
         /\ ~Waiting(q)' /\ KeyOf(q)' = KeyOf(q)
  BY <1>1, <1>2, EndFacts DEF Waiting, KeyOf
<1>5. WaitingOK' /\ MainOK'
  BY <1>1, <1>4 DEF WaitingOK, MainOK, Constructing
<1>6. SentOK'
  BY <1>4 DEF SentOK
<1>7. PairOK'
  BY <1>1, <1>4 DEF PairOK
<1>8. KeyOK' /\ MailOK'
  BY <1>1, <1>4, NoKey' = NoKey DEF KeyOK, MailOK
<1> QED BY <1>3, <1>5, <1>6, <1>7, <1>8

\* A peer leaves an open connection, or dies in its exchange and takes back what it
\* has sent.
LEMMA PeerLeavesKeeps ==
    ASSUME HandshakeInv, NEW p \in Peers, closeConnection(p) \/ peerDies(p)
    PROVE  HandshakeInv'
<1> USE DEF HandshakeInv
<1>1. /\ UNCHANGED <<running, listening, main, backlog, secret, key, mail>>
      /\ pt[PeerEnd(p)] \in Constructing \cup {"open"}
      /\ pt' = [pt EXCEPT ![PeerEnd(p)] = "closed"]
  BY DEF closeConnection, peerDies
<1>2. PICK n \in 0 .. 2 : sent' = [sent EXCEPT ![PeerEnd(p)] = n]
  <2>1. sent[PeerEnd(p)] \in 0 .. 2 /\ sent = [sent EXCEPT ![PeerEnd(p)] = sent[PeerEnd(p)]]
    BY EndFacts DEF TypeOK
  <2>2. CASE closeConnection(p)
    BY <2>1, <2>2 DEF closeConnection
  <2>3. CASE peerDies(p)
    <3>1. PICK n \in 0 .. sent[PeerEnd(p)] : sent' = [sent EXCEPT ![PeerEnd(p)] = n]
      BY <2>3 DEF peerDies
    <3>2. n \in 0 .. 2
      BY <2>1, <3>1
    <3> QED BY <3>1, <3>2
  <2> QED BY <2>2, <2>3
<1>3. TypeOK'
  BY <1>1, <1>2, EndFacts DEF TypeOK
<1>4. /\ \A q \in Peers : /\ pt'[ServerEnd(q)] = pt[ServerEnd(q)]
                          /\ sent'[ServerEnd(q)] = sent[ServerEnd(q)]
      /\ \A q \in Peers \ {p} : /\ pt'[PeerEnd(q)] = pt[PeerEnd(q)]
                                /\ sent'[PeerEnd(q)] = sent[PeerEnd(q)]
      /\ pt'[PeerEnd(p)] = "closed"
  BY <1>1, <1>2, EndFacts DEF TypeOK
<1>5. \A q \in Peers : (Waiting(q)' <=> Waiting(q)) /\ KeyOf(q)' = KeyOf(q)
  BY <1>1 DEF Waiting, KeyOf
<1>6. WaitingOK' /\ MainOK'
  BY <1>1, <1>4, <1>5 DEF WaitingOK, MainOK
<1>7. SentOK'
  BY <1>4 DEF SentOK
<1>8. PairOK'
  BY <1>1, <1>4, <1>5 DEF PairOK, Constructing
<1>9. KeyOK' /\ MailOK'
  BY <1>1, <1>4, <1>5, NoKey' = NoKey DEF KeyOK, MailOK
<1> QED BY <1>3, <1>6, <1>7, <1>8, <1>9

-----------------------------------------------------------------------------
(* The theorems.                                                           *)

\* HandshakeInv is inductive, for any number of peers, whatever they, a shutdown and
\* their deaths do to one another's exchanges.
THEOREM HandshakeInvariant == Spec => []HandshakeInv
<1>1. HandshakeInv /\ [Next]_vars => HandshakeInv'
  <2> SUFFICES ASSUME HandshakeInv, [Next]_vars PROVE HandshakeInv'
    OBVIOUS
  <2>1. CASE UNCHANGED vars
    <3>1. \A q \in Peers : (Waiting(q)' <=> Waiting(q)) /\ KeyOf(q)' = KeyOf(q)
      BY <2>1 DEF vars, Waiting, KeyOf
    <3> QED BY <2>1, <3>1, NoKey' = NoKey
          DEF vars, HandshakeInv, TypeOK, WaitingOK, MainOK, SentOK, PairOK, KeyOK, MailOK
  <2>2. ASSUME NEW p \in Peers, NEW e \in {PeerEnd(p), ServerEnd(p)}, ConstructorStep(e)
        PROVE  HandshakeInv'
    BY <2>2, ConstructorKeeps, ReceiveSecretKeeps, OpenFailsKeeps DEF ConstructorStep
  <2>3. CASE MainStep
    <3>1. CASE \E p \in Peers : ConstructorStep(ServerEnd(p))
      BY <2>2, <3>1
    <3> QED BY <2>3, <3>1, AcceptKeeps, AcceptFailsKeeps, ExitKeeps DEF MainStep
  <2>4. CASE close
    BY <2>4, CloseKeeps
  <2>5. ASSUME NEW p \in Peers,
               \/ connect(p) \/ PeerStep(p) \/ ThreadStep(p)
               \/ sendAdminMsg(p) \/ closeConnection(p) \/ peerDies(p)
        PROVE  HandshakeInv'
    <3>1. CASE PeerStep(p)
      BY <2>2, <3>1 DEF PeerStep
    <3> QED BY <2>5, <3>1, ConnectKeeps, ThreadKeeps, SendKeeps, PeerLeavesKeeps DEF ThreadStep
  <2> QED BY <2>1, <2>3, <2>4, <2>5 DEF Next
<1> QED BY <1>1, InitKeeps, PTL DEF Spec

\* Type correctness; in particular every key derived is a reduced number and so is
\* never taken for null.
THEOREM TypeCorrect == Spec => []TypeOK
<1>1. HandshakeInv => TypeOK
  BY DEF HandshakeInv
<1> QED BY <1>1, HandshakeInvariant, PTL

\* The two ends of a usable connection have the same key g^(x y), for every modulus,
\* generator and pair of secrets (setKey, fastModExp).
THEOREM KeysAreShared == Spec => []KeysAgree
<1>1. HandshakeInv => KeysAgree
  BY DEF HandshakeInv, KeyOK, KeyOf, KeysAgree
<1> QED BY <1>1, HandshakeInvariant, PTL

\* No SHUTDOWN is taken for garbage by receiveMsg, whether or not its sender still
\* has the connection open.
THEOREM RequestsAreReadable == Spec => []RequestReadable
<1>1. HandshakeInv => RequestReadable
  BY DEF HandshakeInv, KeyOK, MailOK, RequestReadable
<1> QED BY <1>1, HandshakeInvariant, PTL

\* The two ends of an exchange never wait for one another: a thread stays in the
\* constructor only because its peer disappeared, or the server did (receiveSecret).
THEOREM NobodyWaitsMutually == Spec => []NoMutualWait
<1>1. ASSUME HandshakeInv PROVE NoMutualWait
  <2> USE <1>1 DEF HandshakeInv
  <2>1. ASSUME NEW p \in Peers, pt[ServerEnd(p)] \in Constructing
        PROVE  \/ CanStep(ServerEnd(p)) \/ CanStep(PeerEnd(p))
               \/ pt[PeerEnd(p)] = "closed" /\ sent[PeerEnd(p)] < 2
    <3>1. pt[PeerEnd(p)] \in Constructing \cup {"open", "closed"}
      BY <2>1, EndFacts DEF TypeOK, PairOK, Constructing
    <3>2. sent[PeerEnd(p)] \in 0 .. 2 /\ sent[ServerEnd(p)] \in 0 .. 2
      BY EndFacts DEF TypeOK
    <3>3. CASE pt[ServerEnd(p)] = "streams"
      BY <3>3 DEF CanStep
    <3>4. CASE pt[ServerEnd(p)] = "header"
      BY <3>1, <3>2, <3>4, EndFacts DEF CanStep, Constructing, SentOK
    <3>5. CASE pt[ServerEnd(p)] = "receive"
      BY <3>1, <3>2, <3>5, EndFacts DEF CanStep, Constructing, SentOK
    <3> QED BY <2>1, <3>3, <3>4, <3>5 DEF Constructing
  <2>2. ASSUME NEW p \in Peers, pt[PeerEnd(p)] \in Constructing
        PROVE  \/ CanStep(PeerEnd(p)) \/ CanStep(ServerEnd(p))
               \/ Waiting(p) \/ ~listening
    <3>1. CASE pt[ServerEnd(p)] = "open"
      BY <2>2, <3>1, EndFacts DEF CanStep, Constructing, SentOK
    <3>2. CASE pt[ServerEnd(p)] \in Constructing
      BY <2>1, <2>2, <3>2 DEF Constructing
    <3> QED BY <2>2, <3>1, <3>2 DEF PairOK
  <2> QED BY <2>1, <2>2 DEF NoMutualWait, MainOK
<1> QED BY <1>1, HandshakeInvariant, PTL
=============================================================================
