------------------------ MODULE NotificationsProofs ------------------------
(***************************************************************************)
(* Proofs about the notifications, for any number of servers, requests,    *)
(* clients and subscriptions, with a broker that comes and goes.           *)
(***************************************************************************)
EXTENDS Notifications, SequenceTheorems, TLAPS

-----------------------------------------------------------------------------
(* Types.                                                                  *)

\* What the broker does with a message keeps the types of topic and queues.
LEMMA BroadcastTypes ==
    ASSUME topic \in Seq(Requests), queue \in [Subscribers -> Seq(Requests)],
           NEW r \in Requests, Broadcast(r)
    PROVE  topic' \in Seq(Requests) /\ queue' \in [Subscribers -> Seq(Requests)]
  BY DEF Broadcast

LEMMA StepTypes == TypeOK /\ [Next]_vars => TypeOK'
  <1> SUFFICES ASSUME TypeOK, [Next]_vars
               PROVE  TypeOK'
    OBVIOUS
  <1> USE BoundsAssumption DEF TypeOK, serverVars, clientVars, threadVars
  <1>1. CASE BrokerStops
    <2>1. /\ publisher' \in [Servers -> {"none", "connected", "null", "lost"}]
          /\ broker' \in BOOLEAN
      BY <1>1 DEF BrokerStops
    <2>2. link' \in [Subscribers -> BOOLEAN]
      BY <1>1 DEF BrokerStops
    <2>3. queue' \in [Subscribers -> Seq(Requests)]
      BY <1>1 DEF BrokerStops
    <2> QED
      BY <1>1, <2>1, <2>2, <2>3 DEF BrokerStops
  <1>2. CASE BrokerStarts
    BY <1>2 DEF BrokerStarts
  <1>3. ASSUME NEW s \in Servers, Publisher(s)
        PROVE  TypeOK'
    BY <1>3 DEF Publisher
  <1>4. ASSUME NEW r \in Requests, pub(r)
        PROVE  TypeOK'
    <2>1. request' \in [Requests -> {"pub", "put", "stored", "failed"}]
      BY <1>4 DEF pub
    <2>2. Broadcast(r) \/ UNCHANGED <<topic, queue>>
      BY <1>4 DEF pub
    <2>3. topic' \in Seq(Requests) /\ queue' \in [Subscribers -> Seq(Requests)]
      BY <1>4, <2>2, BroadcastTypes
    <2> QED
      BY <1>4, <2>1, <2>3 DEF pub
  <1>5. ASSUME NEW r \in Requests, put(r)
        PROVE  TypeOK'
    BY <1>5 DEF put
  <1>6. ASSUME NEW c \in Clients, subscribe(c)
        PROVE  TypeOK'
    <2>1. subbed' \in [Clients -> BOOLEAN]
      BY <1>6 DEF subscribe
    <2>2. sub' \in [Clients -> 0 .. Subscriptions]
      BY <1>6 DEF subscribe
    <2>3. at' \in [Subscribers -> {"none", "start", "test", "receive", "ended"}]
      BY <1>6 DEF subscribe
    <2> QED
      BY <1>6, <2>1, <2>2, <2>3 DEF subscribe
  <1>7. ASSUME NEW c \in Clients, unsubscribe(c)
        PROVE  TypeOK'
    <2>1. subbed' \in [Clients -> BOOLEAN]
      BY <1>7 DEF unsubscribe
    <2>2. running' \in [Subscribers -> BOOLEAN]
      BY <1>7 DEF unsubscribe
    <2> DEFINE x == <<c, sub[c]>>
    <2>3. x \in Subscribers => Len(printed[x]) \in Nat
      OBVIOUS
    <2>4. told' = [told EXCEPT ![x] = Len(printed[x])]
      BY <1>7 DEF unsubscribe
    <2> HIDE DEF x
    <2>5. told' \in [Subscribers -> Nat]
      BY <2>3, <2>4
    <2> QED
      BY <1>7, <2>1, <2>2, <2>5 DEF unsubscribe
  <1>8. ASSUME NEW c \in Clients, quit(c)
        PROVE  TypeOK'
    BY <1>8 DEF quit
  <1>9. ASSUME NEW x \in Subscribers, createConsumer(x)
        PROVE  TypeOK'
    BY <1>9 DEF createConsumer
  <1>10. ASSUME NEW x \in Subscribers, testRunning(x)
         PROVE  TypeOK'
    BY <1>10 DEF testRunning
  <1>11. ASSUME NEW x \in Subscribers, receive(x)
         PROVE  TypeOK'
    BY <1>11 DEF receive
  <1>12. ASSUME NEW x \in Subscribers, receiveFails(x)
         PROVE  TypeOK'
    BY <1>12 DEF receiveFails
  <1>13. CASE UNCHANGED vars
    BY <1>13 DEF vars
  <1> QED
    BY <1>1, <1>2, <1>3, <1>4, <1>5, <1>6, <1>7, <1>8, <1>9, <1>10, <1>11, <1>12, <1>13
       DEF Next, SubscriberStep

LEMMA InitOK == Init => TypeOK
  <1> SUFFICES ASSUME Init PROVE TypeOK
    OBVIOUS
  <1>1. broker \in BOOLEAN
    BY BrokerAssumption DEF Init
  <1>2. topic \in Seq(Requests) /\ sub \in [Clients -> 0 .. Subscriptions]
    BY BoundsAssumption DEF Init
  <1>3. /\ subbed \in [Clients -> BOOLEAN]
        /\ stop \in [Clients -> BOOLEAN]
        /\ running \in [Subscribers -> BOOLEAN]
        /\ link \in [Subscribers -> BOOLEAN]
    BY DEF Init
  <1>4. /\ queue \in [Subscribers -> Seq(Requests)]
        /\ printed \in [Subscribers -> Seq(Requests)]
    BY DEF Init
  <1> QED
    BY <1>1, <1>2, <1>3, <1>4 DEF Init, TypeOK

\* The variables of the notifications have their types.
THEOREM TypeCorrect == Spec => []TypeOK
  BY InitOK, StepTypes, PTL DEF Spec

-----------------------------------------------------------------------------
(* What a Subscriber hears.                                                *)

\* The sequence p followed by q is what t has after its first n elements.
Stretch(t, n, p, q) ==
    /\ n + Len(p) + Len(q) <= Len(t)
    /\ \A i \in 1 .. Len(p) : p[i] = t[n + i]
    /\ \A i \in 1 .. Len(q) : q[i] = t[n + Len(p) + i]

\* Stretch is HearsSegment's equation.
LEMMA StretchIsSubSeq ==
    ASSUME NEW R, NEW t \in Seq(R), NEW p \in Seq(R), NEW q \in Seq(R), NEW n \in Nat,
           Stretch(t, n, p, q)
    PROVE  /\ p \o q = SubSeq(t, n + 1, n + Len(p \o q))
           /\ n + Len(p \o q) = n + Len(p) + Len(q)
  <1> DEFINE h == p \o q
             u == SubSeq(t, n + 1, n + Len(h))
  <1>1. /\ h \in Seq(R)
        /\ Len(h) = Len(p) + Len(q)
        /\ \A i \in 1 .. Len(h) : h[i] = IF i <= Len(p) THEN p[i] ELSE q[i - Len(p)]
    BY ConcatProperties
  <1>2. Len(p) \in Nat /\ Len(q) \in Nat /\ Len(t) \in Nat /\ Len(h) \in Nat
    BY <1>1, LenProperties
  <1> HIDE DEF h
  <1>3. n + Len(h) <= Len(t)
    BY <1>1, <1>2 DEF Stretch
  <1>4. \A i \in 1 .. Len(h) : h[i] = t[n + i]
    <2> SUFFICES ASSUME NEW i \in 1 .. Len(h)
                 PROVE  h[i] = t[n + i]
      OBVIOUS
    <2>1. CASE i <= Len(p)
      <3>1. i \in 1 .. Len(p) /\ h[i] = p[i]
        BY <1>1, <1>2, <2>1
      <3> QED
        BY <3>1 DEF Stretch
    <2>2. CASE i > Len(p)
      <3>1. i - Len(p) \in 1 .. Len(q) /\ h[i] = q[i - Len(p)]
        BY <1>1, <1>2, <2>2
      <3>2. n + Len(p) + (i - Len(p)) = n + i
        BY <1>2
      <3>3. q[i - Len(p)] = t[n + Len(p) + (i - Len(p))]
        BY <3>1 DEF Stretch
      <3> QED
        BY <3>1, <3>2, <3>3
    <2> QED
      BY <1>2, <2>1, <2>2
  <1>5. u \in Seq(R) /\ Len(u) = Len(h) /\ \A i \in 1 .. Len(h) : u[i] = t[n + i]
    <2> DEFINE k == n + Len(h)
    <2>1. k \in Nat /\ k <= Len(t) /\ k = n + Len(h)
      BY <1>2, <1>3
    <2> HIDE DEF k
    <2>2. \A i \in n + 1 .. k : t[i] \in R
      BY <1>2, <2>1, ElementOfSeq
    <2>3. /\ SubSeq(t, n + 1, k) \in Seq(R)
          /\ Len(SubSeq(t, n + 1, k)) = IF n + 1 <= k THEN k - (n + 1) + 1 ELSE 0
          /\ \A i \in 1 .. k - (n + 1) + 1 : SubSeq(t, n + 1, k)[i] = t[n + 1 + i - 1]
      BY <2>1, <2>2, SubSeqProperties
    <2>4. k - (n + 1) + 1 = Len(h) /\ \A i \in 1 .. Len(h) : n + 1 + i - 1 = n + i
      BY <1>2, <2>1
    <2>5. (IF n + 1 <= k THEN k - (n + 1) + 1 ELSE 0) = Len(h)
      BY <1>2, <2>1
    <2> QED
      BY <2>1, <2>3, <2>4, <2>5
  <1> HIDE DEF u
  <1>6. h = u
    BY <1>1, <1>4, <1>5, SeqEqual
  <1>7. n + Len(h) = n + Len(p) + Len(q)
    BY <1>1, <1>2
  <1> QED
    BY <1>6, <1>7 DEF h, u

\* What waits is dropped.
LEMMA StretchDropped ==
    ASSUME NEW R, NEW t \in Seq(R), NEW p \in Seq(R), NEW q \in Seq(R), NEW n \in Nat,
           Stretch(t, n, p, q)
    PROVE  Stretch(t, n, p, <<>>)
  <1>1. Len(p) \in Nat /\ Len(q) \in Nat /\ Len(t) \in Nat /\ Len(<<>>) = 0
    BY LenProperties
  <1>2. n + Len(p) + Len(<<>>) <= Len(t)
    BY <1>1 DEF Stretch
  <1> QED
    BY <1>1, <1>2 DEF Stretch

\* A message is printed.
LEMMA StretchReceive ==
    ASSUME NEW R, NEW t \in Seq(R), NEW p \in Seq(R), NEW q \in Seq(R), NEW n \in Nat,
           Stretch(t, n, p, q), Len(q) > 0,
           NEW a \in Seq(R), a = Append(p, Head(q)), NEW b \in Seq(R), b = Tail(q)
    PROVE  Stretch(t, n, a, b)
  <1>1. /\ Len(p) \in Nat /\ Len(q) \in Nat /\ Len(t) \in Nat /\ q # <<>>
        /\ Head(q) \in R /\ Head(q) = q[1]
    BY LenProperties, EmptySeq, HeadTailProperties
  <1>2. /\ Len(a) = Len(p) + 1
        /\ \A i \in 1 .. Len(p) : a[i] = p[i]
        /\ a[Len(p) + 1] = q[1]
    BY <1>1
  <1>3. /\ Len(b) = Len(q) - 1
        /\ \A i \in 1 .. Len(b) : b[i] = q[i + 1]
    BY <1>1, HeadTailProperties
  <1>4. \A i \in 1 .. Len(a) : a[i] = t[n + i]
    <2> SUFFICES ASSUME NEW i \in 1 .. Len(a)
                 PROVE  a[i] = t[n + i]
      OBVIOUS
    <2>1. CASE i <= Len(p)
      BY <1>1, <1>2, <2>1 DEF Stretch
    <2>2. CASE i = Len(p) + 1
      <3>1. q[1] = t[n + Len(p) + 1]
        BY <1>1 DEF Stretch
      <3>2. n + Len(p) + 1 = n + i
        BY <1>1, <2>2
      <3> QED
        BY <1>2, <2>2, <3>1, <3>2
    <2> QED
      BY <1>1, <1>2, <2>1, <2>2
  <1>5. \A i \in 1 .. Len(b) : b[i] = t[n + Len(a) + i]
    <2> SUFFICES ASSUME NEW i \in 1 .. Len(b)
                 PROVE  b[i] = t[n + Len(a) + i]
      OBVIOUS
    <2>1. i + 1 \in 1 .. Len(q) /\ n + Len(p) + (i + 1) = n + Len(a) + i
      BY <1>1, <1>2, <1>3
    <2> QED
      BY <1>3, <2>1 DEF Stretch
  <1>6. n + Len(a) + Len(b) <= Len(t)
    BY <1>1, <1>2, <1>3 DEF Stretch
  <1> QED
    BY <1>4, <1>5, <1>6 DEF Stretch

\* A message is sent over the topic, to a consumer that is not connected and to
\* one that is.
LEMMA StretchMissed ==
    ASSUME NEW R, NEW t \in Seq(R), NEW p \in Seq(R), NEW q \in Seq(R), NEW n \in Nat,
           NEW r \in R, Stretch(t, n, p, q)
    PROVE  Stretch(Append(t, r), n, p, q)
  <1>1. Len(p) \in Nat /\ Len(q) \in Nat /\ Len(t) \in Nat
    BY LenProperties
  <1>2. Len(Append(t, r)) = Len(t) + 1 /\ \A i \in 1 .. Len(t) : Append(t, r)[i] = t[i]
    OBVIOUS
  <1>3. /\ \A i \in 1 .. Len(p) : n + i \in 1 .. Len(t)
        /\ \A i \in 1 .. Len(q) : n + Len(p) + i \in 1 .. Len(t)
    BY <1>1 DEF Stretch
  <1> QED
    BY <1>1, <1>2, <1>3 DEF Stretch

LEMMA StretchBroadcast ==
    ASSUME NEW R, NEW t \in Seq(R), NEW p \in Seq(R), NEW q \in Seq(R), NEW n \in Nat,
           NEW r \in R, Stretch(t, n, p, q), n + Len(p) + Len(q) = Len(t)
    PROVE  /\ Stretch(Append(t, r), n, p, Append(q, r))
           /\ n + Len(p) + Len(Append(q, r)) = Len(Append(t, r))
  <1> DEFINE u == Append(t, r)
             a == Append(q, r)
  <1>1. Len(p) \in Nat /\ Len(q) \in Nat /\ Len(t) \in Nat
    BY LenProperties
  <1>2. /\ Len(u) = Len(t) + 1 /\ \A i \in 1 .. Len(t) : u[i] = t[i]
        /\ u[Len(t) + 1] = r
    OBVIOUS
  <1>3. /\ Len(a) = Len(q) + 1 /\ \A i \in 1 .. Len(q) : a[i] = q[i]
        /\ a[Len(q) + 1] = r
    OBVIOUS
  <1> HIDE DEF u, a
  <1>4. \A i \in 1 .. Len(p) : p[i] = u[n + i]
    <2>1. \A i \in 1 .. Len(p) : n + i \in 1 .. Len(t)
      BY <1>1 DEF Stretch
    <2> QED
      BY <1>2, <2>1 DEF Stretch
  <1>5. \A i \in 1 .. Len(a) : a[i] = u[n + Len(p) + i]
    <2> SUFFICES ASSUME NEW i \in 1 .. Len(a)
                 PROVE  a[i] = u[n + Len(p) + i]
      OBVIOUS
    <2>1. CASE i <= Len(q)
      <3>1. n + Len(p) + i \in 1 .. Len(t) /\ i \in 1 .. Len(q)
        BY <1>1, <2>1
      <3> QED
        BY <1>2, <1>3, <3>1 DEF Stretch
    <2>2. CASE i = Len(q) + 1
      <3>1. n + Len(p) + i = Len(t) + 1
        BY <1>1, <2>2
      <3> QED
        BY <1>2, <1>3, <2>2, <3>1
    <2> QED
      BY <1>1, <1>3, <2>1, <2>2
  <1>6. n + Len(p) + Len(a) = Len(u) /\ Len(u) <= Len(u)
    BY <1>1, <1>2, <1>3
  <1> QED
    BY <1>4, <1>5, <1>6 DEF Stretch, u, a

-----------------------------------------------------------------------------
(* The inductive invariant.                                                *)

\* What a Subscriber has printed and what waits for it is a stretch of the topic
\* that begins where its consumer was created; there is none before that.
Hears(x) ==
    /\ Stretch(topic, since[x], printed[x], queue[x])
    /\ link[x] => since[x] + Len(printed[x]) + Len(queue[x]) = Len(topic)
    /\ at[x] \in {"none", "start"} => printed[x] = <<>> /\ queue[x] = <<>> /\ ~link[x]

\* A Subscriber that was told to stop and waits for a message has printed nothing
\* since; when it has, it looks at the flag and ends.
Stops(x) ==
    ~running[x] => /\ Len(printed[x]) <= told[x] + 1
                   /\ at[x] = "receive" => Len(printed[x]) <= told[x]

\* The Subscribers a client has not created yet.
Unborn == \A x \in Subscribers : x[2] > sub[x[1]] => running[x] /\ at[x] = "none"

\* The announcement comes before the store.
Announced ==
    \A r \in Requests :
        request[r] \in {"put", "stored"} => publisher[r[1]] = "lost" \/ Contains(topic, r)

NotifInv ==
    /\ TypeOK /\ Unborn /\ OneListener /\ Announced
    /\ \A x \in Subscribers : Hears(x) /\ Stops(x)

LEMMA HearsStep ==
    ASSUME TypeOK, TypeOK', Unborn, \A y \in Subscribers : Hears(y), [Next]_vars,
           NEW x \in Subscribers
    PROVE  Hears(x)'
  <1> USE DEF serverVars, clientVars, threadVars
  <1>1. /\ topic \in Seq(Requests) /\ queue[x] \in Seq(Requests)
        /\ printed[x] \in Seq(Requests) /\ since[x] \in Nat /\ link[x] \in BOOLEAN
    BY DEF TypeOK
  <1>2. Hears(x)
    OBVIOUS
  <1>3. ASSUME UNCHANGED <<topic, since, printed, queue, link>>,
               at'[x] = at[x] \/ at'[x] \notin {"none", "start"}
        PROVE  Hears(x)'
    BY <1>2, <1>3 DEF Hears, Stretch
  <1>4. CASE BrokerStops
    <2>1. ~link'[x] /\ queue'[x] = <<>> /\ UNCHANGED <<topic, since, printed, at>>
      BY <1>4 DEF BrokerStops
    <2>2. Stretch(topic, since[x], printed[x], <<>>)
      BY <1>1, <1>2, StretchDropped DEF Hears
    <2>3. Stretch(topic, since[x], printed[x], queue[x])'
      BY <2>1, <2>2
    <2> QED
      BY <1>2, <2>1, <2>3 DEF Hears
  <1>5. CASE BrokerStarts
    BY <1>3, <1>5 DEF BrokerStarts
  <1>6. ASSUME NEW s \in Servers, Publisher(s)
        PROVE  Hears(x)'
    BY <1>3, <1>6 DEF Publisher
  <1>7. ASSUME NEW r \in Requests, pub(r)
        PROVE  Hears(x)'
    <2>1. UNCHANGED <<link, at, printed, since>> /\ (Broadcast(r) \/ UNCHANGED <<topic, queue>>)
      BY <1>7 DEF pub
    <2>2. CASE UNCHANGED <<topic, queue>>
      BY <1>3, <2>1, <2>2
    <2>3. CASE Broadcast(r) /\ link[x]
      <3>1. topic' = Append(topic, r) /\ queue'[x] = Append(queue[x], r)
        BY <2>3 DEF Broadcast
      <3>2. /\ Stretch(Append(topic, r), since[x], printed[x], Append(queue[x], r))
            /\ since[x] + Len(printed[x]) + Len(Append(queue[x], r)) = Len(Append(topic, r))
        BY <1>1, <1>2, <1>7, <2>3, StretchBroadcast DEF Hears
      <3>3. at[x] \notin {"none", "start"}
        BY <1>2, <2>3 DEF Hears
      <3> QED
        BY <2>1, <3>1, <3>2, <3>3 DEF Hears
    <2>4. CASE Broadcast(r) /\ ~link[x]
      <3>1. topic' = Append(topic, r) /\ queue'[x] = queue[x]
        BY <2>4 DEF Broadcast
      <3>2. Stretch(topic, since[x], printed[x], queue[x])'
        BY <1>1, <1>2, <1>7, <2>1, <3>1, StretchMissed DEF Hears
      <3> QED
        BY <1>2, <2>1, <2>4, <3>1, <3>2 DEF Hears
    <2> QED
      BY <2>1, <2>2, <2>3, <2>4
  <1>8. ASSUME NEW r \in Requests, put(r)
        PROVE  Hears(x)'
    BY <1>3, <1>8 DEF put
  <1>9. ASSUME NEW c \in Clients, subscribe(c)
        PROVE  Hears(x)'
    <2> DEFINE y == <<c, sub'[c]>>
    <2>1. /\ UNCHANGED <<topic, since, printed, queue, link>>
          /\ at' = [at EXCEPT ![y] = "start"]
          /\ sub'[c] = sub[c] + 1
      BY <1>9 DEF subscribe, TypeOK
    <2>2. CASE x = y
      <3>1. at[x] = "none"
        BY <1>9, <2>1, <2>2 DEF Unborn, TypeOK
      <3> QED
        BY <1>2, <2>1, <3>1 DEF Hears, Stretch
    <2>3. CASE x # y
      <3>1. at'[x] = at[x]
        BY <2>1, <2>3 DEF TypeOK
      <3> QED
        BY <1>3, <2>1, <3>1
    <2> QED
      BY <2>2, <2>3
  <1>10. ASSUME NEW c \in Clients, unsubscribe(c)
         PROVE  Hears(x)'
    BY <1>3, <1>10 DEF unsubscribe
  <1>11. ASSUME NEW c \in Clients, quit(c)
         PROVE  Hears(x)'
    BY <1>3, <1>11 DEF quit
  <1>12. ASSUME NEW y \in Subscribers, createConsumer(y)
         PROVE  Hears(x)'
    <2>1. UNCHANGED <<topic, printed, queue>>
      BY <1>12 DEF createConsumer
    <2>2. CASE x = y
      <3>1. /\ printed[x] = <<>> /\ queue[x] = <<>>
            /\ since'[x] = Len(topic) /\ at'[x] \in {"test", "ended"}
        BY <1>2, <1>12, <2>2 DEF Hears, createConsumer, TypeOK
      <3>2. since'[x] + Len(printed'[x]) + Len(queue'[x]) = Len(topic')
        BY <1>1, <2>1, <3>1, LenProperties, EmptySeq
      <3>3. Stretch(topic, since[x], printed[x], queue[x])'
        BY <1>1, <2>1, <3>1, LenProperties, EmptySeq DEF Stretch
      <3> QED
        BY <3>1, <3>2, <3>3 DEF Hears
    <2>3. CASE x # y
      <3>1. since'[x] = since[x] /\ link'[x] = link[x] /\ at'[x] = at[x]
        BY <1>12, <2>3 DEF createConsumer, TypeOK
      <3> QED
        BY <1>2, <2>1, <3>1 DEF Hears, Stretch
    <2> QED
      BY <2>2, <2>3
  <1>13. ASSUME NEW y \in Subscribers, testRunning(y)
         PROVE  Hears(x)'
    <2>1. UNCHANGED <<topic, printed, since>>
      BY <1>13 DEF testRunning
    <2>2. CASE x = y
      <3>1. at'[x] \in {"receive", "ended"}
        BY <1>13, <2>2 DEF testRunning, TypeOK
      <3>2. CASE running[x]
        <4>1. link'[x] = link[x] /\ queue'[x] = queue[x]
          BY <1>13, <2>2, <3>2 DEF testRunning, TypeOK
        <4> QED
          BY <1>2, <2>1, <3>1, <4>1 DEF Hears, Stretch
      <3>3. CASE ~running[x]
        <4>1. ~link'[x] /\ queue'[x] = <<>>
          BY <1>13, <2>2, <3>3 DEF testRunning, TypeOK
        <4>2. Stretch(topic, since[x], printed[x], <<>>)
          BY <1>1, <1>2, StretchDropped DEF Hears
        <4>3. Stretch(topic, since[x], printed[x], queue[x])'
          BY <2>1, <4>1, <4>2
        <4> QED
          BY <3>1, <4>1, <4>3 DEF Hears
      <3> QED
        BY <3>2, <3>3
    <2>3. CASE x # y
      <3>1. queue'[x] = queue[x] /\ link'[x] = link[x] /\ at'[x] = at[x]
        BY <1>13, <2>3 DEF testRunning, TypeOK
      <3> QED
        BY <1>2, <2>1, <3>1 DEF Hears, Stretch
    <2> QED
      BY <2>2, <2>3
  <1>14. ASSUME NEW y \in Subscribers, receive(y)
         PROVE  Hears(x)'
    <2>1. UNCHANGED <<topic, link, since>>
      BY <1>14 DEF receive
    <2>2. CASE x = y
      <3>1. /\ queue[x] # <<>> /\ at'[x] = "test"
            /\ printed'[x] = Append(printed[x], Head(queue[x])) /\ queue'[x] = Tail(queue[x])
        BY <1>14, <2>2 DEF receive, TypeOK
      <3>2. Stretch(topic, since[x], printed[x], queue[x])
        BY <1>2 DEF Hears
      <3>3. /\ Stretch(topic, since[x], printed'[x], queue'[x])
            /\ since[x] + Len(printed'[x]) + Len(queue'[x])
                 = since[x] + Len(printed[x]) + Len(queue[x])
        <4>1. Len(queue[x]) > 0
          BY <1>1, <3>1, EmptySeq, LenProperties
        <4>2. printed'[x] \in Seq(Requests) /\ queue'[x] \in Seq(Requests)
          BY DEF TypeOK
        <4>3. Stretch(topic, since[x], printed'[x], queue'[x])
          BY <1>1, <3>1, <3>2, <4>1, <4>2, StretchReceive
        <4>4. since[x] + Len(printed'[x]) + Len(queue'[x])
                 = since[x] + Len(printed[x]) + Len(queue[x])
          <5>1. Len(printed'[x]) = Len(printed[x]) + 1
            BY <1>1, <3>1, HeadTailProperties
          <5>2. Len(queue'[x]) = Len(queue[x]) - 1
            BY <1>1, <3>1, HeadTailProperties
          <5>3. Len(printed[x]) \in Nat /\ Len(queue[x]) \in Nat /\ since[x] \in Nat
            BY <1>1, LenProperties
          <5> DEFINE n == since[x]
                     a == Len(printed[x])
                     b == Len(queue[x])
                     c == Len(printed'[x])
                     d == Len(queue'[x])
          <5> HIDE DEF n, a, b, c, d
          <5>5. c = a + 1 /\ d = b - 1 /\ n \in Nat /\ a \in Nat /\ b \in Nat
            BY <5>1, <5>2, <5>3 DEF n, a, b, c, d
          <5>6. n + c + d = n + a + b
            BY <5>5
          <5> QED
            BY <5>6 DEF n, a, b, c, d
        <4> QED
          BY <4>3, <4>4
      <3> QED
        BY <1>2, <2>1, <3>1, <3>3 DEF Hears
    <2>3. CASE x # y
      <3>1. queue'[x] = queue[x] /\ printed'[x] = printed[x] /\ at'[x] = at[x]
        BY <1>14, <2>3 DEF receive, TypeOK
      <3> QED
        BY <1>2, <2>1, <3>1 DEF Hears, Stretch
    <2> QED
      BY <2>2, <2>3
  <1>15. ASSUME NEW y \in Subscribers, receiveFails(y)
         PROVE  Hears(x)'
    BY <1>3, <1>15 DEF receiveFails, TypeOK
  <1>16. CASE UNCHANGED vars
    BY <1>3, <1>16 DEF vars
  <1> QED
    BY <1>4, <1>5, <1>6, <1>7, <1>8, <1>9, <1>10, <1>11, <1>12, <1>13, <1>14, <1>15, <1>16
       DEF Next, SubscriberStep

LEMMA StopsStep ==
    ASSUME TypeOK, NEW x \in Subscribers, Stops(x), [Next]_vars
    PROVE  Stops(x)'
  <1> USE DEF serverVars, clientVars, threadVars
  <1>1. Len(printed[x]) \in Nat /\ told[x] \in Nat
    BY LenProperties DEF TypeOK
  <1>2. ASSUME UNCHANGED <<running, printed, told>>, at'[x] = at[x] \/ at'[x] # "receive"
        PROVE  Stops(x)'
    BY <1>2 DEF Stops
  <1>3. CASE BrokerStops
    BY <1>2, <1>3 DEF BrokerStops
  <1>4. CASE BrokerStarts
    BY <1>2, <1>4 DEF BrokerStarts
  <1>5. ASSUME NEW s \in Servers, Publisher(s)
        PROVE  Stops(x)'
    BY <1>2, <1>5 DEF Publisher
  <1>6. ASSUME NEW r \in Requests, pub(r) \/ put(r)
        PROVE  Stops(x)'
    BY <1>2, <1>6 DEF pub, put
  <1>7. ASSUME NEW c \in Clients, subscribe(c)
        PROVE  Stops(x)'
    BY <1>2, <1>7 DEF subscribe, TypeOK
  <1>8. ASSUME NEW c \in Clients, unsubscribe(c)
        PROVE  Stops(x)'
    <2>1. UNCHANGED <<at, printed>>
      BY <1>8 DEF unsubscribe
    <2>2. CASE x = <<c, sub[c]>>
      <3>1. told'[x] = Len(printed[x])
        BY <1>8, <2>2 DEF unsubscribe, TypeOK
      <3> QED
        BY <1>1, <2>1, <3>1 DEF Stops
    <2>3. CASE x # <<c, sub[c]>>
      <3>1. told'[x] = told[x] /\ running'[x] = running[x]
        BY <1>8, <2>3 DEF unsubscribe, TypeOK
      <3> QED
        BY <2>1, <3>1 DEF Stops
    <2> QED
      BY <2>2, <2>3
  <1>9. ASSUME NEW c \in Clients, quit(c)
        PROVE  Stops(x)'
    BY <1>2, <1>9 DEF quit
  <1>10. ASSUME NEW y \in Subscribers, createConsumer(y) \/ receiveFails(y)
         PROVE  Stops(x)'
    BY <1>2, <1>10 DEF createConsumer, receiveFails, TypeOK
  <1>11. ASSUME NEW y \in Subscribers, testRunning(y)
         PROVE  Stops(x)'
    <2>1. UNCHANGED <<running, printed, told>>
      BY <1>11 DEF testRunning
    <2>2. at'[x] = at[x] \/ at'[x] # "receive" \/ running[x]
      BY <1>11 DEF testRunning, TypeOK
    <2> QED
      BY <2>1, <2>2 DEF Stops
  <1>12. ASSUME NEW y \in Subscribers, receive(y)
         PROVE  Stops(x)'
    <2>1. UNCHANGED <<running, told>>
      BY <1>12 DEF receive
    <2>2. CASE x = y
      <3>1. at[x] = "receive" /\ at'[x] = "test"
        BY <1>12, <2>2 DEF receive, TypeOK
      <3>2. printed[x] \in Seq(Requests) /\ Head(queue[x]) \in Requests
        BY <1>12, <2>2, HeadTailProperties DEF receive, TypeOK
      <3>3. printed'[x] = Append(printed[x], Head(queue[x]))
        BY <1>12, <2>2 DEF receive, TypeOK
      <3>4. Len(printed'[x]) = Len(printed[x]) + 1
        BY <3>2, <3>3
      <3> QED
        BY <1>1, <2>1, <3>1, <3>4 DEF Stops
    <2>3. CASE x # y
      <3>1. printed'[x] = printed[x] /\ at'[x] = at[x]
        BY <1>12, <2>3 DEF receive, TypeOK
      <3> QED
        BY <2>1, <3>1 DEF Stops
    <2> QED
      BY <2>2, <2>3
  <1>13. CASE UNCHANGED vars
    BY <1>2, <1>13 DEF vars
  <1> QED
    BY <1>3, <1>4, <1>5, <1>6, <1>7, <1>8, <1>9, <1>10, <1>11, <1>12, <1>13
       DEF Next, SubscriberStep

LEMMA ListenersStep ==
    ASSUME TypeOK, TypeOK', Unborn, OneListener, [Next]_vars
    PROVE  Unborn' /\ OneListener'
  <1> USE BoundsAssumption DEF serverVars, clientVars, threadVars
  <1>1. ASSUME UNCHANGED <<subbed, sub, running>>,
               \A x \in Subscribers : at[x] = "none" => at'[x] = "none"
        PROVE  Unborn' /\ OneListener'
    BY <1>1 DEF Unborn, OneListener
  <1>2. CASE BrokerStops \/ BrokerStarts
    BY <1>1, <1>2 DEF BrokerStops, BrokerStarts
  <1>3. ASSUME NEW s \in Servers, Publisher(s)
        PROVE  Unborn' /\ OneListener'
    BY <1>1, <1>3 DEF Publisher
  <1>4. ASSUME NEW r \in Requests, pub(r) \/ put(r)
        PROVE  Unborn' /\ OneListener'
    BY <1>1, <1>4 DEF pub, put
  <1>5. ASSUME NEW c \in Clients, subscribe(c)
        PROVE  Unborn' /\ OneListener'
    <2> DEFINE y == <<c, sub[c] + 1>>
    <2>1. /\ ~subbed[c] /\ sub[c] \in Nat /\ sub[c] + 1 \in 1 .. Subscriptions
          /\ subbed' = [subbed EXCEPT ![c] = TRUE]
          /\ sub' = [sub EXCEPT ![c] = sub[c] + 1]
          /\ UNCHANGED running
      BY <1>5 DEF subscribe, TypeOK
    <2>2. at' = [at EXCEPT ![y] = "start"]
      BY <1>5, <2>1 DEF subscribe, TypeOK
    <2>3. y \in Subscribers /\ running[y]
      BY <2>1 DEF Unborn, Subscribers
    <2>4. Unborn'
      <3> SUFFICES ASSUME NEW x \in Subscribers, x[2] > sub'[x[1]]
                   PROVE  running'[x] /\ at'[x] = "none"
        BY DEF Unborn
      <3>1. x[1] \in Clients /\ x[2] \in 1 .. Subscriptions /\ x = <<x[1], x[2]>>
        BY DEF Subscribers
      <3>2. sub'[x[1]] \in Nat /\ sub[x[1]] \in Nat
        BY <3>1 DEF TypeOK
      <3>3. x # y /\ x[2] > sub[x[1]]
        BY <2>1, <3>1, <3>2 DEF TypeOK
      <3>4. running[x] /\ at[x] = "none"
        BY <3>3 DEF Unborn
      <3> QED
        BY <2>1, <2>2, <3>3, <3>4 DEF TypeOK
    <2>5. OneListener'
      <3> SUFFICES ASSUME NEW d \in Clients
                   PROVE  {i \in 1 .. sub'[d] : running[<<d, i>>]}
                             = IF subbed'[d] THEN {sub'[d]} ELSE {}
        BY <2>1 DEF OneListener
      <3>1. CASE d = c
        <4>1. sub'[c] = sub[c] + 1 /\ subbed'[c]
          BY <2>1 DEF TypeOK
        <4>2. {i \in 1 .. sub[c] : running[<<c, i>>]} = {}
          BY <2>1 DEF OneListener
        <4>3. \A i \in 1 .. sub[c] + 1 : i = sub[c] + 1 \/ i \in 1 .. sub[c]
          BY <2>1
        <4>4. {i \in 1 .. sub[c] + 1 : running[<<c, i>>]} = {sub[c] + 1}
          BY <2>1, <2>3, <4>2, <4>3
        <4> QED
          BY <3>1, <4>1, <4>4
      <3>2. CASE d # c
        <4>1. sub'[d] = sub[d] /\ subbed'[d] = subbed[d]
          BY <2>1, <3>2 DEF TypeOK
        <4> QED
          BY <4>1 DEF OneListener
      <3> QED
        BY <3>1, <3>2
    <2> QED
      BY <2>4, <2>5
  <1>6. ASSUME NEW c \in Clients, unsubscribe(c)
        PROVE  Unborn' /\ OneListener'
    <2> DEFINE y == <<c, sub[c]>>
    <2>1. /\ subbed[c] /\ subbed' = [subbed EXCEPT ![c] = FALSE]
          /\ running' = [running EXCEPT ![y] = FALSE]
          /\ UNCHANGED <<sub, at>>
      BY <1>6 DEF unsubscribe
    <2>2. Unborn'
      <3> SUFFICES ASSUME NEW x \in Subscribers, x[2] > sub[x[1]]
                   PROVE  running'[x] /\ at[x] = "none"
        BY <2>1 DEF Unborn
      <3>1. x # y /\ running[x] /\ at[x] = "none"
        BY DEF Unborn, TypeOK
      <3> QED
        BY <2>1, <3>1 DEF TypeOK
    <2>3. OneListener'
      <3> SUFFICES ASSUME NEW d \in Clients
                   PROVE  {i \in 1 .. sub[d] : running'[<<d, i>>]}
                             = IF subbed'[d] THEN {sub[d]} ELSE {}
        BY <2>1 DEF OneListener
      <3>0. sub[d] \in 0 .. Subscriptions
        BY DEF TypeOK
      <3>1. \A i \in 1 .. sub[d] : <<d, i>> \in Subscribers
        BY <3>0 DEF Subscribers
      <3>2. CASE d = c
        <4>1. {i \in 1 .. sub[c] : running[<<c, i>>]} = {sub[c]}
          BY <2>1 DEF OneListener
        <4>2. \A i \in 1 .. sub[c] : running[<<c, i>>] => i = sub[c]
          BY <4>1
        <4>3. \A i \in 1 .. sub[c] : ~running'[<<c, i>>]
          BY <2>1, <3>1, <3>2, <4>2 DEF TypeOK
        <4> QED
          BY <2>1, <3>2, <4>3 DEF TypeOK
      <3>3. CASE d # c
        <4>1. subbed'[d] = subbed[d] /\ \A i \in 1 .. sub[d] : running'[<<d, i>>] = running[<<d, i>>]
          BY <2>1, <3>1, <3>3 DEF TypeOK
        <4> QED
          BY <4>1 DEF OneListener
      <3> QED
        BY <3>2, <3>3
    <2> QED
      BY <2>2, <2>3
  <1>7. ASSUME NEW c \in Clients, quit(c)
        PROVE  Unborn' /\ OneListener'
    BY <1>1, <1>7 DEF quit
  <1>8. ASSUME NEW y \in Subscribers, SubscriberStep(y)
        PROVE  Unborn' /\ OneListener'
    <2>1. UNCHANGED <<subbed, sub, running>>
      BY <1>8 DEF SubscriberStep, createConsumer, testRunning, receive, receiveFails
    <2>2. at[y] # "none" /\ \A x \in Subscribers : x # y => at'[x] = at[x]
      BY <1>8 DEF SubscriberStep, createConsumer, testRunning, receive, receiveFails, TypeOK
    <2> QED
      BY <1>1, <2>1, <2>2
  <1>9. CASE UNCHANGED vars
    BY <1>1, <1>9 DEF vars
  <1> QED
    BY <1>2, <1>3, <1>4, <1>5, <1>6, <1>7, <1>8, <1>9 DEF Next

LEMMA AnnouncedStep ==
    ASSUME TypeOK, Announced, [Next]_vars
    PROVE  Announced'
  <1> USE DEF serverVars, clientVars, threadVars
  <1> SUFFICES ASSUME NEW r \in Requests, request'[r] \in {"put", "stored"}
               PROVE  publisher'[r[1]] = "lost" \/ Contains(topic, r)'
    BY DEF Announced
  <1>0. r[1] \in Servers
    BY DEF Requests
  <1>1. ASSUME request'[r] = request[r], UNCHANGED topic,
               publisher[r[1]] = "lost" => publisher'[r[1]] = "lost"
        PROVE  publisher'[r[1]] = "lost" \/ Contains(topic, r)'
    BY <1>1 DEF Announced, Contains
  <1>2. CASE BrokerStops
    BY <1>0, <1>1, <1>2 DEF BrokerStops
  <1>3. CASE BrokerStarts
    BY <1>1, <1>3 DEF BrokerStarts
  <1>4. ASSUME NEW s \in Servers, Publisher(s)
        PROVE  publisher'[r[1]] = "lost" \/ Contains(topic, r)'
    BY <1>0, <1>1, <1>4 DEF Publisher, TypeOK
  <1>5. ASSUME NEW q \in Requests, pub(q)
        PROVE  publisher'[r[1]] = "lost" \/ Contains(topic, r)'
    <2>1. UNCHANGED publisher /\ publisher[q[1]] \in {"connected", "null", "lost"}
      BY <1>5 DEF pub, TypeOK, Requests
    <2>2. Contains(topic, r) => Contains(topic, r)'
      <3>1. topic' = topic \/ topic' = Append(topic, q)
        BY <1>5 DEF pub, Broadcast
      <3>2. CASE topic' = topic
        BY <3>2 DEF Contains
      <3>3. CASE topic' = Append(topic, q)
        <4>1. topic \in Seq(Requests)
          BY DEF TypeOK
        <4>2. /\ Len(topic) \in Nat /\ Len(topic') = Len(topic) + 1
              /\ \A i \in 1 .. Len(topic) : topic'[i] = topic[i]
          BY <1>5, <3>3, <4>1
        <4>3. \A i \in 1 .. Len(topic) : i \in 1 .. Len(topic')
          BY <4>2
        <4> QED
          BY <4>2, <4>3 DEF Contains
      <3> QED
        BY <3>1, <3>2, <3>3
    <2>3. CASE r = q
      <3>1. publisher[r[1]] # "null"
        BY <1>5, <2>3 DEF pub, TypeOK
      <3>2. CASE publisher[r[1]] = "connected"
        <4>1. topic' = Append(topic, r)
          BY <1>5, <2>3, <3>2 DEF pub, Broadcast
        <4>2. topic \in Seq(Requests)
          BY DEF TypeOK
        <4>3. Len(topic') = Len(topic) + 1 /\ topic'[Len(topic) + 1] = r /\ Len(topic) \in Nat
          BY <4>1, <4>2, LenProperties
        <4>4. Len(topic) + 1 \in 1 .. Len(topic')
          BY <4>3
        <4> QED
          BY <4>3, <4>4 DEF Contains
      <3> QED
        BY <2>1, <2>3, <3>1, <3>2
    <2>4. CASE r # q
      <3>1. request'[r] = request[r]
        BY <1>5, <2>4 DEF pub, TypeOK
      <3>2. publisher[r[1]] = "lost" \/ Contains(topic, r)
        BY <3>1 DEF Announced
      <3> QED
        BY <2>1, <2>2, <3>2
    <2> QED
      BY <2>3, <2>4
  <1>6. ASSUME NEW q \in Requests, put(q)
        PROVE  publisher'[r[1]] = "lost" \/ Contains(topic, r)'
    <2>1. request[r] \in {"put", "stored"} /\ UNCHANGED <<publisher, topic>>
      BY <1>6 DEF put, TypeOK
    <2> QED
      BY <2>1 DEF Announced, Contains
  <1>7. ASSUME NEW c \in Clients, subscribe(c) \/ unsubscribe(c) \/ quit(c)
        PROVE  publisher'[r[1]] = "lost" \/ Contains(topic, r)'
    BY <1>1, <1>7 DEF subscribe, unsubscribe, quit
  <1>8. ASSUME NEW y \in Subscribers, SubscriberStep(y)
        PROVE  publisher'[r[1]] = "lost" \/ Contains(topic, r)'
    BY <1>1, <1>8 DEF SubscriberStep, createConsumer, testRunning, receive, receiveFails
  <1>9. CASE UNCHANGED vars
    BY <1>1, <1>9 DEF vars
  <1> QED
    BY <1>2, <1>3, <1>4, <1>5, <1>6, <1>7, <1>8, <1>9 DEF Next

\* The invariant of announcements and Subscribers.
THEOREM NotificationsInvariant == Spec => []NotifInv
  <1>1. Init => NotifInv
    <2> SUFFICES ASSUME Init PROVE NotifInv
      OBVIOUS
    <2>1. Unborn /\ Announced
      BY DEF Init, Unborn, Announced
    <2>2. OneListener
      <3> SUFFICES ASSUME NEW c \in Clients
                   PROVE  {i \in 1 .. sub[c] : running[<<c, i>>]} = IF subbed[c] THEN {sub[c]} ELSE {}
        BY DEF OneListener
      <3>1. sub[c] = 0 /\ ~subbed[c] /\ 1 .. 0 = {}
        BY DEF Init
      <3> QED
        BY <3>1
    <2>3. \A x \in Subscribers : Hears(x) /\ Stops(x)
      BY EmptySeq DEF Init, Hears, Stretch, Stops
    <2> QED
      BY <2>1, <2>2, <2>3, InitOK DEF NotifInv
  <1>2. NotifInv /\ [Next]_vars => NotifInv'
    BY StepTypes, ListenersStep, AnnouncedStep, HearsStep, StopsStep DEF NotifInv
  <1> QED
    BY <1>1, <1>2, PTL DEF Spec

\* A change that was stored was announced, unless the server has lost its broker:
\* putKV announces before it stores, and a server without a session fails before it
\* has stored anything.
THEOREM StoredAnnounced == Spec => []StoredWasAnnounced
  <1>1. NotifInv => StoredWasAnnounced
    BY DEF NotifInv, Announced, StoredWasAnnounced
  <1> QED
    BY <1>1, NotificationsInvariant, PTL

\* What a Subscriber prints (Subscriber.run) is a gapless stretch of the topic, in
\* order, that begins with its consumer, and while it is connected nothing is missing
\* at its end.
THEOREM HearsStretch == Spec => []HearsSegment
  <1>1. NotifInv => HearsSegment
    <2> SUFFICES ASSUME NotifInv, NEW x \in Subscribers
                 PROVE  LET heard == printed[x] \o queue[x]
                        IN  /\ heard = SubSeq(topic, since[x] + 1, since[x] + Len(heard))
                            /\ link[x] => since[x] + Len(heard) = Len(topic)
      BY DEF HearsSegment
    <2>1. /\ topic \in Seq(Requests) /\ printed[x] \in Seq(Requests)
          /\ queue[x] \in Seq(Requests) /\ since[x] \in Nat
      BY DEF NotifInv, TypeOK
    <2>2. Hears(x)
      BY DEF NotifInv
    <2> DEFINE n == since[x]
               p == printed[x]
               q == queue[x]
    <2> HIDE DEF n, p, q
    <2>3. p \in Seq(Requests) /\ q \in Seq(Requests) /\ n \in Nat /\ Stretch(topic, n, p, q)
      BY <2>1, <2>2 DEF Hears, n, p, q
    <2>4. p \o q = SubSeq(topic, n + 1, n + Len(p \o q)) /\ n + Len(p \o q) = n + Len(p) + Len(q)
      BY <2>1, <2>3, StretchIsSubSeq
    <2>5. link[x] => n + Len(p) + Len(q) = Len(topic)
      BY <2>2 DEF Hears, n, p, q
    <2> QED
      BY <2>4, <2>5 DEF n, p, q
  <1> QED
    BY <1>1, NotificationsInvariant, PTL

\* A Subscriber that was told to stop prints one message more at most: the flag is
\* tested between two receives.
THEOREM StopsAfterOne == Spec => []OneMoreAtMost
  <1>1. NotifInv => OneMoreAtMost
    BY DEF NotifInv, Stops, OneMoreAtMost
  <1> QED
    BY <1>1, NotificationsInvariant, PTL

\* A client has one Subscriber at most that was not told to stop, and subbed says
\* whether it has (subscribe and unsubscribe of KVClient).
THEOREM ListensOnce == Spec => []OneListener
  <1>1. NotifInv => OneListener
    BY DEF NotifInv
  <1> QED
    BY <1>1, NotificationsInvariant, PTL
=============================================================================
