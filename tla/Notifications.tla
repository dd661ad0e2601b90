--------------------------- MODULE Notifications ---------------------------
(***************************************************************************)
(* The notification of changes: the servers' request threads announce what *)
(* they are about to store on a topic of a message broker, and the command *)
(* line client starts, on "subscribe", a thread that prints what comes     *)
(* over the topic until it is told to stop.                                *)
(*                                                                         *)
(* Modules KVServer and Cluster have what is announced and what is stored; *)
(* here is how announcements travel: the publisher a server creates when   *)
(* it boots, the topic, the Subscriber threads, a broker that is not there *)
(* or goes away.  A change is the request that makes it.  The broker is    *)
(* external: a topic without durable subscriptions, which gives every      *)
(* consumer what is sent while it is connected, in one order.              *)
(***************************************************************************)
EXTENDS Naturals, Sequences, SequencesExt

CONSTANTS
    Servers,       \* server processes, each booted once
    PerServer,     \* bound: requests a server is sent, each in a thread of its own
    Clients,       \* processes of KVClient
    Subscriptions, \* bound: how often a client subscribes
    BrokerFails    \* whether the broker may go down, or be down at first

ASSUME BoundsAssumption == PerServer \in Nat /\ Subscriptions \in Nat \ {0}
ASSUME BrokerAssumption == BrokerFails \in BOOLEAN

Requests == Servers \X (1 .. PerServer)
Subscribers == Clients \X (1 .. Subscriptions)

VARIABLES
    broker,     \* whether the broker is up
    publisher,  \* Publisher.session and producer of each server
    request,    \* where the thread of each request is in putKV
    topic,      \* history: all that was sent over the topic
    subbed,     \* KVClient.subbed
    sub,        \* KVClient.sub: how many Subscribers the client has created
    stop,       \* KVClient.stop
    running,    \* Subscriber.running
    at,         \* where the Subscriber's thread is
    link,       \* whether its consumer is connected
    queue,      \* what the broker has for the consumer
    printed,    \* history: what the Subscriber has printed
    since,      \* history: the length of the topic when the consumer was created
    told        \* history: how much it had printed when it was told to stop

serverVars == <<publisher, request, topic>>
clientVars == <<subbed, sub, stop>>
threadVars == <<running, at, link, queue, printed, since, told>>
vars == <<broker, serverVars, clientVars, threadVars>>

Init ==
    /\ broker \in (IF BrokerFails THEN BOOLEAN ELSE {TRUE})
    /\ publisher = [s \in Servers |-> "none"]
    /\ request = [r \in Requests |-> "pub"]
    /\ topic = <<>>
    /\ subbed = [c \in Clients |-> FALSE]
    /\ sub = [c \in Clients |-> 0]
    /\ stop = [c \in Clients |-> FALSE]
    /\ running = [x \in Subscribers |-> TRUE]
    /\ at = [x \in Subscribers |-> "none"]
    /\ link = [x \in Subscribers |-> FALSE]
    /\ queue = [x \in Subscribers |-> <<>>]
    /\ printed = [x \in Subscribers |-> <<>>]
    /\ since = [x \in Subscribers |-> 0]
    /\ told = [x \in Subscribers |-> 0]

-----------------------------------------------------------------------------
(* The broker.                                                             *)

\* Its connections break; what it had for its consumers is gone.
BrokerStops ==
    /\ BrokerFails /\ broker
    /\ broker' = FALSE
    /\ publisher' = [s \in Servers |-> IF publisher[s] = "connected" THEN "lost" ELSE publisher[s]]
    /\ link' = [x \in Subscribers |-> FALSE]
    /\ queue' = [x \in Subscribers |-> <<>>]
    /\ UNCHANGED <<request, topic, clientVars, running, at, printed, since, told>>

BrokerStarts ==
    /\ ~broker
    /\ broker' = TRUE
    /\ UNCHANGED <<serverVars, clientVars, threadVars>>

-----------------------------------------------------------------------------
(* The servers.                                                            *)

\* The constructor of Publisher, when the server boots.  Without a broker it logs
\* the exception and leaves session and producer null.
Publisher(s) ==
    /\ publisher[s] = "none"
    /\ publisher' = [publisher EXCEPT ![s] = IF broker THEN "connected" ELSE "null"]
    /\ UNCHANGED <<broker, request, topic, clientVars, threadVars>>

\* What the broker does with a message sent to the topic.
Broadcast(r) ==
    /\ topic' = Append(topic, r)
    /\ queue' = [x \in Subscribers |-> IF link[x] THEN Append(queue[x], r) ELSE queue[x]]

\* A server's requests are numbered in the order in which they announce.
NextRequest(r) ==
    /\ request[r] = "pub"
    /\ \A i \in 1 .. r[2] - 1 : request[<<r[1], i>>] # "pub"

\* Fault seeded in pub: without a session the change is stored unannounced.
pub_Tolerant(r) ==
    /\ NextRequest(r) /\ publisher[r[1]] # "none"
    /\ request' = [request EXCEPT ![r] = "put"]
    /\ IF publisher[r[1]] = "connected" THEN Broadcast(r) ELSE UNCHANGED <<topic, queue>>
    /\ UNCHANGED <<broker, publisher, clientVars, running, at, link, printed, since, told>>

\* putKV announces the change.  Without a session that is a NullPointerException,
\* which ends the request's thread; a connection that broke is a JMSException,
\* which is logged.
pub(r) ==
    /\ NextRequest(r) /\ publisher[r[1]] # "none"
    /\ request' = [request EXCEPT ![r] = IF publisher[r[1]] = "null" THEN "failed" ELSE "put"]
    /\ IF publisher[r[1]] = "connected" THEN Broadcast(r) ELSE UNCHANGED <<topic, queue>>
    /\ UNCHANGED <<broker, publisher, clientVars, running, at, link, printed, since, told>>

\* ... and stores it.
put(r) ==
    /\ request[r] = "put"
    /\ request' = [request EXCEPT ![r] = "stored"]
    /\ UNCHANGED <<broker, publisher, topic, clientVars, threadVars>>

-----------------------------------------------------------------------------
(* Commands of KVClient.                                                   *)

\* A new Subscriber and its thread.
subscribe(c) ==
    /\ ~stop[c] /\ ~subbed[c] /\ sub[c] < Subscriptions
    /\ subbed' = [subbed EXCEPT ![c] = TRUE]
    /\ sub' = [sub EXCEPT ![c] = @ + 1]
    /\ at' = [at EXCEPT ![<<c, sub'[c]>>] = "start"]
    /\ UNCHANGED <<broker, serverVars, stop, running, link, queue, printed, since, told>>

\* Fault seeded in unsubscribe: the thread is not told.
unsubscribe_Untold(c) ==
    /\ ~stop[c] /\ subbed[c]
    /\ subbed' = [subbed EXCEPT ![c] = FALSE]
    /\ UNCHANGED <<broker, serverVars, sub, stop, threadVars>>

\* The thread is told by its flag, which it looks at when it has printed.
unsubscribe(c) ==
    LET x == <<c, sub[c]>>
    IN  /\ ~stop[c] /\ subbed[c]
        /\ subbed' = [subbed EXCEPT ![c] = FALSE]
        /\ running' = [running EXCEPT ![x] = FALSE]
        /\ told' = [told EXCEPT ![x] = Len(printed[x])]
        /\ UNCHANGED <<broker, serverVars, sub, stop, at, link, queue, printed, since>>

\* The loop that reads commands ends.  A Subscriber is not told.
quit(c) ==
    /\ ~stop[c]
    /\ stop' = [stop EXCEPT ![c] = TRUE]
    /\ UNCHANGED <<broker, serverVars, subbed, sub, threadVars>>

-----------------------------------------------------------------------------
(* The thread of a Subscriber: run.                                        *)

\* A connection, a session and a consumer are created; without a broker the
\* exception is logged and the thread ends.
createConsumer(x) ==
    /\ at[x] = "start"
    /\ at' = [at EXCEPT ![x] = IF broker THEN "test" ELSE "ended"]
    /\ link' = [link EXCEPT ![x] = broker]
    /\ since' = [since EXCEPT ![x] = Len(topic)]
    /\ UNCHANGED <<broker, serverVars, clientVars, running, queue, printed, told>>

\* Fault seeded in testRunning: the flag is not looked at.
testRunning_Forever(x) ==
    /\ at[x] = "test"
    /\ at' = [at EXCEPT ![x] = "receive"]
    /\ UNCHANGED <<broker, serverVars, clientVars, running, link, queue, printed, since, told>>

\* while (running): or session and connection are closed.
testRunning(x) ==
    /\ at[x] = "test"
    /\ at' = [at EXCEPT ![x] = IF running[x] THEN "receive" ELSE "ended"]
    /\ link' = [link EXCEPT ![x] = @ /\ running[x]]
    /\ queue' = [queue EXCEPT ![x] = IF running[x] THEN @ ELSE <<>>]
    /\ UNCHANGED <<broker, serverVars, clientVars, running, printed, since, told>>

\* Fault seeded in receive: a second receive, whose message is printed, follows
\* one whose message is not.
receive_Twice(x) ==
    /\ at[x] = "receive" /\ Len(queue[x]) >= 2
    /\ printed' = [printed EXCEPT ![x] = Append(@, queue[x][2])]
    /\ queue' = [queue EXCEPT ![x] = SubSeq(@, 3, Len(@))]
    /\ at' = [at EXCEPT ![x] = "test"]
    /\ UNCHANGED <<broker, serverVars, clientVars, running, link, since, told>>

\* Fault seeded in receive: all there is is printed.
receive_All(x) ==
    /\ at[x] = "receive" /\ queue[x] # <<>>
    /\ printed' = [printed EXCEPT ![x] = @ \o queue[x]]
    /\ queue' = [queue EXCEPT ![x] = <<>>]
    /\ at' = [at EXCEPT ![x] = "test"]
    /\ UNCHANGED <<broker, serverVars, clientVars, running, link, since, told>>

\* Fault seeded in receive: it does not wait, and what is not there is printed.
receive_NoWait(x) ==
    /\ at[x] = "receive"
    /\ printed' = [printed EXCEPT ![x] = Append(@, IF queue[x] = <<>> THEN <<>> ELSE Head(queue[x]))]
    /\ queue' = [queue EXCEPT ![x] = IF @ = <<>> THEN @ ELSE Tail(@)]
    /\ at' = [at EXCEPT ![x] = "test"]
    /\ UNCHANGED <<broker, serverVars, clientVars, running, link, since, told>>

\* consumer.receive() waits for a message, which is printed.
receive(x) ==
    /\ at[x] = "receive" /\ queue[x] # <<>>
    /\ printed' = [printed EXCEPT ![x] = Append(@, Head(queue[x]))]
    /\ queue' = [queue EXCEPT ![x] = Tail(@)]
    /\ at' = [at EXCEPT ![x] = "test"]
    /\ UNCHANGED <<broker, serverVars, clientVars, running, link, since, told>>

\* The connection broke: an exception, or a null message, ends the thread.
receiveFails(x) ==
    /\ at[x] = "receive" /\ ~link[x]
    /\ at' = [at EXCEPT ![x] = "ended"]
    /\ UNCHANGED <<broker, serverVars, clientVars, running, link, queue, printed, since, told>>

SubscriberStep(x) == createConsumer(x) \/ testRunning(x) \/ receive(x) \/ receiveFails(x)

Next ==
    \/ BrokerStops \/ BrokerStarts
    \/ \E s \in Servers : Publisher(s)
    \/ \E r \in Requests : pub(r) \/ put(r)
    \/ \E c \in Clients : subscribe(c) \/ unsubscribe(c) \/ quit(c)
    \/ \E x \in Subscribers : SubscriberStep(x)

Spec == Init /\ [][Next]_vars

\* Threads run.  Nobody has to type a command, and the broker need not come back.
Fairness ==
    /\ \A s \in Servers : WF_vars(Publisher(s))
    /\ \A r \in Requests : WF_vars(pub(r)) /\ WF_vars(put(r))
    /\ \A x \in Subscribers : WF_vars(SubscriberStep(x))

FairSpec == Spec /\ Fairness

-----------------------------------------------------------------------------
(* Properties.                                                             *)

TypeOK ==
    /\ broker \in BOOLEAN
    /\ publisher \in [Servers -> {"none", "connected", "null", "lost"}]
    /\ request \in [Requests -> {"pub", "put", "stored", "failed"}]
    /\ topic \in Seq(Requests)
    /\ subbed \in [Clients -> BOOLEAN]
    /\ sub \in [Clients -> 0 .. Subscriptions]
    /\ stop \in [Clients -> BOOLEAN]
    /\ running \in [Subscribers -> BOOLEAN]
    /\ at \in [Subscribers -> {"none", "start", "test", "receive", "ended"}]
    /\ link \in [Subscribers -> BOOLEAN]
    /\ queue \in [Subscribers -> Seq(Requests)]
    /\ printed \in [Subscribers -> Seq(Requests)]
    /\ since \in [Subscribers -> Nat]
    /\ told \in [Subscribers -> Nat]

\* A change that was stored was announced, unless the server has lost its broker:
\* a PUT that succeeds is not kept from those who listen, even by a server that
\* booted without a broker.
StoredWasAnnounced ==
    \A r \in Requests :
        request[r] = "stored" => publisher[r[1]] = "lost" \/ Contains(topic, r)

\* A Subscriber prints what was announced after its consumer was created, in the
\* order of the announcements, without a gap and nothing twice; while it is
\* connected, what it has not printed waits for it.
HearsSegment ==
    \A x \in Subscribers :
        LET heard == printed[x] \o queue[x]
        IN  /\ heard = SubSeq(topic, since[x] + 1, since[x] + Len(heard))
            /\ link[x] => since[x] + Len(heard) = Len(topic)

\* A thread that was told to stop prints one message more at most: the one it
\* was waiting for when unsubscribe cleared its flag.
OneMoreAtMost ==
    \A x \in Subscribers : ~running[x] => Len(printed[x]) <= told[x] + 1

\* subbed speaks for all the threads a client has started: while it is set the
\* newest, and no other, has not been told to stop; while it is not, all have been,
\* also those that wait for a message still (KVClient's subscribe and unsubscribe,
\* which keep a reference to the newest only).
OneListener ==
    \A c \in Clients :
        {i \in 1 .. sub[c] : running[<<c, i>>]} = IF subbed[c] THEN {sub[c]} ELSE {}

\* What waits for a Subscriber is printed, unless it is told to stop or loses
\* its broker.
WaitingIsPrinted ==
    \A x \in Subscribers, r \in Requests :
        Contains(queue[x], r) ~> Contains(printed[x], r) \/ ~running[x] \/ ~link[x]

\* A Subscriber that was told to stop ends when there is something for it to
\* print (without that it waits for ever, and with it the client's process).
ToldEnds ==
    \A x \in Subscribers : ~running[x] /\ queue[x] # <<>> ~> at[x] = "ended"
=============================================================================
