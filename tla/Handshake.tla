----------------------------- MODULE Handshake -----------------------------
(***************************************************************************)
(* How a connection begins: a peer (a client, the ECS, a server that moves *)
(* data) opens a socket, KVServer.run accepts it, and both ends run the    *)
(* constructor of CommModule, which exchanges the Diffie-Hellman values    *)
(* from which both derive the key of the channel.  The server's end runs   *)
(* it in the thread that accepts connections, before it starts a thread to *)
(* serve the peer.                                                         *)
(*                                                                         *)
(* Module KVServer makes all of this one step, with the outcomes found     *)
(* here (KVServer.Accepts, Refuses, Hangs).  Here is what the step is made *)
(* of, for one server: who waits for whom, what a shutdown or a peer that  *)
(* disappears does to those in the middle of it, and that the two keys are *)
(* the same.                                                               *)
(*                                                                         *)
(* An end is a pair <<p, side>>.  The constructor's retry loop reads again *)
(* after every failure; a read that can only fail is a step that is never  *)
(* enabled.                                                                *)
(***************************************************************************)
EXTENDS Naturals, Sequences

CONSTANTS
    Peers,     \* those who connect
    Secrets,   \* the random numbers CommModule draws from (0 .. 65535)
    Prime,     \* CommModule.p
    Generator, \* CommModule.g
    Backlog    \* how many connections wait for accept (50 by default)

ASSUME SecretsAssumption == Secrets \subseteq Nat /\ Secrets # {}
ASSUME PrimeAssumption == Prime \in Nat /\ Generator \in 1 .. Prime - 1
ASSUME BacklogAssumption == Backlog \in Nat \ {0}

VARIABLES
    running,    \* KVServer.running
    listening,  \* whether the server's socket is open
    main,       \* where the thread of KVServer.run is
    backlog,    \* the connections that wait for accept
    pt,         \* where each end is
    sent,       \* what it has written: 1 the stream's header, 2 the header and its value
    secret,     \* CommModule.secretInt
    key,        \* CommModule.key
    mail        \* the SHUTDOWN request on its way from the peer: the key it is encrypted with

vars == <<running, listening, main, backlog, pt, sent, secret, key, mail>>

Ends == Peers \X {"peer", "server"}
Other(e) == <<e[1], IF e[2] = "peer" THEN "server" ELSE "peer">>
PeerEnd(p) == <<p, "peer">>
ServerEnd(p) == <<p, "server">>

\* Keys are elements of the group, before they are hashed; NoKey is null.
NoKey == Prime
Keys == 0 .. Prime

\* Before it is drawn.
NoSecret == CHOOSE x \in Secrets : TRUE

\* Points of the constructor.
Constructing == {"streams", "header", "receive"}

Init ==
    /\ running = TRUE
    /\ listening = TRUE
    /\ main = "accept"
    /\ backlog = <<>>
    /\ pt = [e \in Ends |-> "none"]
    /\ sent = [e \in Ends |-> 0]
    /\ secret = [e \in Ends |-> NoSecret]
    /\ key = [e \in Ends |-> NoKey]
    /\ mail = [p \in Peers |-> NoKey]

-----------------------------------------------------------------------------
(* The arithmetic of the exchange.                                         *)

\* The variables of fastModExp's loop, and one turn of it.  x / 2 is (x - 1) / 2 for
\* an odd x.
LoopState == [G : Nat, x : Nat, Y : Nat]

turn(s) ==
    [G |-> (s.G * s.G) % Prime,
     x |-> s.x \div 2,
     Y |-> IF s.x % 2 = 0 THEN s.Y ELSE (s.G * s.Y) % Prime]

\* The loop from a state on, and the product that fastModExp returns after it.
loop[s \in LoopState] == IF s.x > 1 THEN loop[turn(s)] ELSE (s.G * s.Y) % Prime

\* Fault seeded in fastModExp: an odd exponent multiplies by the square.
fastModExp_Late(g, e) ==
    LET late[s \in LoopState] ==
            IF s.x <= 1 THEN (s.G * s.Y) % Prime
            ELSE LET t == turn(s)
                 IN  late[[t EXCEPT !.Y = IF s.x % 2 = 0 THEN s.Y ELSE (t.G * s.Y) % Prime]]
    IN  IF e = 0 THEN 1 ELSE late[[G |-> g, x |-> e, Y |-> 1]]

\* Fault seeded in fastModExp: the last product is not reduced.
fastModExp_Unreduced(g, e) ==
    LET run[s \in LoopState] == IF s.x > 1 THEN run[turn(s)] ELSE s.G * s.Y
    IN  IF e = 0 THEN 1 ELSE run[[G |-> g, x |-> e, Y |-> 1]]

\* g^e modulo the prime by repeated squaring.
fastModExp(g, e) == IF e = 0 THEN 1 ELSE loop[[G |-> g, x |-> e, Y |-> 1]]

\* Reference definition.
Power(g, e) ==
    LET pow[n \in Nat] == IF n = 0 THEN 1 ELSE (g * pow[n - 1]) % Prime
    IN  pow[e]

-----------------------------------------------------------------------------
(* Opening and accepting a connection.                                     *)

Closed(e) == pt[e] \in {"none", "closed"}

\* The connection of p waits for accept.
Waiting(p) == \E i \in DOMAIN backlog : backlog[i] = p

\* KVStore.connect and its like: the socket is connected as soon as the backlog
\* has it, and the constructor begins.  A name is one connection at a time: it is
\* used again when both ends of the last one are closed and the server has taken
\* that from the backlog, where it stays when the peer dies.
connect(p) ==
    /\ Closed(PeerEnd(p)) /\ Closed(ServerEnd(p)) /\ ~Waiting(p)
    /\ listening /\ Len(backlog) < Backlog
    /\ backlog' = Append(backlog, p)
    /\ pt' = [pt EXCEPT ![PeerEnd(p)] = "streams", ![ServerEnd(p)] = "none"]
    /\ sent' = [sent EXCEPT ![PeerEnd(p)] = 0, ![ServerEnd(p)] = 0]
    /\ key' = [key EXCEPT ![PeerEnd(p)] = NoKey, ![ServerEnd(p)] = NoKey]
    /\ \E x \in Secrets : secret' = [secret EXCEPT ![PeerEnd(p)] = x]
    /\ mail' = [mail EXCEPT ![p] = NoKey]
    /\ UNCHANGED <<running, listening, main>>

\* serverSocket.accept(), and the constructor begins in the same thread.
accept ==
    /\ main = "accept" /\ listening /\ backlog # <<>>
    /\ main' = "construct"
    /\ backlog' = Tail(backlog)
    /\ pt' = [pt EXCEPT ![ServerEnd(Head(backlog))] = "streams"]
    /\ \E x \in Secrets : secret' = [secret EXCEPT ![ServerEnd(Head(backlog))] = x]
    /\ UNCHANGED <<running, listening, sent, key, mail>>

-----------------------------------------------------------------------------
(* The constructor of CommModule, at either end.                           *)

\* Fault seeded in openStreams: the input stream is opened first, and the header is not
\* written until that of the other end has come.
openStreams_InputFirst(e) ==
    /\ pt[e] = "streams"
    /\ pt' = [pt EXCEPT ![e] = "header"]
    /\ UNCHANGED <<running, listening, main, backlog, sent, secret, key, mail>>

\* The output stream's header is written.  (What is written to a connection that is
\* gone is lost without notice.)
openStreams(e) ==
    /\ pt[e] = "streams"
    /\ pt' = [pt EXCEPT ![e] = "header"]
    /\ sent' = [sent EXCEPT ![e] = 1]
    /\ UNCHANGED <<running, listening, main, backlog, secret, key, mail>>

\* Or the connection has been reset already: the exception is logged, there is no
\* output stream, and sendSecret throws a NullPointerException out of the constructor.
\* The peer's caller catches it; at the server it ends the thread that accepts
\* connections, and with it run().
openFails(e) ==
    /\ pt[e] = "streams" /\ pt[Other(e)] = "closed"
    /\ pt' = [pt EXCEPT ![e] = "closed"]
    /\ main' = IF e[2] = "peer" THEN main ELSE "died"
    /\ UNCHANGED <<running, listening, backlog, sent, secret, key, mail>>

\* Fault seeded in sendSecret: the other end's value is awaited first.
sendSecret_Waits(e) ==
    /\ pt[e] = "header"
    /\ sent[Other(e)] = 2
    /\ pt' = [pt EXCEPT ![e] = "receive"]
    /\ sent' = [sent EXCEPT ![e] = 2]
    /\ UNCHANGED <<running, listening, main, backlog, secret, key, mail>>

\* The other end's header has come, or the connection is gone, which is logged
\* only; then this end sends its value g^secretInt.
sendSecret(e) ==
    /\ pt[e] = "header"
    /\ sent[Other(e)] >= 1 \/ pt[Other(e)] = "closed"
    /\ pt' = [pt EXCEPT ![e] = "receive"]
    /\ sent' = [sent EXCEPT ![e] = 2]
    /\ UNCHANGED <<running, listening, main, backlog, secret, key, mail>>

\* Fault seeded in receiveSecret: the key is computed from this end's own value.
receiveSecret_OwnValue(e) ==
    /\ pt[e] = "receive" /\ sent[Other(e)] = 2
    /\ key' = [key EXCEPT ![e] = fastModExp(fastModExp(Generator, secret[e]), secret[e])]
    /\ pt' = [pt EXCEPT ![e] = "open"]
    /\ main' = IF e[2] = "peer" THEN main ELSE IF running THEN "accept" ELSE "exit"
    /\ UNCHANGED <<running, listening, backlog, sent, secret, mail>>

\* receiveSecret is tried until it returns the other end's value; setKey.  At the
\* server the thread that serves the peer is started and run goes round.
receiveSecret(e) ==
    /\ pt[e] = "receive" /\ sent[Other(e)] = 2
    /\ key' = [key EXCEPT ![e] =
                  fastModExp(fastModExp(Generator, secret[Other(e)]), secret[e])]
    /\ pt' = [pt EXCEPT ![e] = "open"]
    /\ main' = IF e[2] = "peer" THEN main ELSE IF running THEN "accept" ELSE "exit"
    /\ UNCHANGED <<running, listening, backlog, sent, secret, mail>>

ConstructorStep(e) == openStreams(e) \/ openFails(e) \/ sendSecret(e) \/ receiveSecret(e)

-----------------------------------------------------------------------------
(* An open connection, shutdown.                                           *)

\* The peer, being the ECS, sends SHUTDOWN (any other request is in KVServer).
sendAdminMsg(p) ==
    /\ pt[PeerEnd(p)] = "open" /\ mail[p] = NoKey
    /\ mail' = [mail EXCEPT ![p] = key[PeerEnd(p)]]
    /\ UNCHANGED <<running, listening, main, backlog, pt, sent, secret, key>>

\* The thread reads the request.  With another key it is garbage, receiveMsg
\* returns null and the thread ends; else KVServer.close() begins.
receiveMsg(p) ==
    /\ pt[ServerEnd(p)] = "open" /\ mail[p] # NoKey
    /\ mail' = [mail EXCEPT ![p] = NoKey]
    /\ \/ /\ mail[p] = key[ServerEnd(p)]
          /\ running' = FALSE
          /\ UNCHANGED pt
       \/ /\ mail[p] # key[ServerEnd(p)]
          /\ pt' = [pt EXCEPT ![ServerEnd(p)] = "closed"]
          /\ UNCHANGED running
    /\ UNCHANGED <<listening, main, backlog, sent, secret, key>>

\* Fault seeded in close: the flag is cleared and the socket left open.
close_LeavesSocket ==
    /\ ~running /\ ~listening
    /\ UNCHANGED vars

\* ... and goes on to close the server's socket.  What waits in the backlog is
\* reset.
close ==
    /\ ~running /\ listening
    /\ listening' = FALSE
    /\ backlog' = <<>>
    /\ pt' = [e \in Ends |-> IF e[2] = "server" /\ Waiting(e[1])
                             THEN "closed" ELSE pt[e]]
    /\ UNCHANGED <<running, main, sent, secret, key, mail>>

\* accept throws because the socket is closed, and run leaves its loop.
acceptFails ==
    /\ main = "accept" /\ ~listening
    /\ main' = "exit"
    /\ UNCHANGED <<running, listening, backlog, pt, sent, secret, key, mail>>

\* System.exit(0): the connections go with the process, the socket too.  What a
\* peer has not read yet may be lost.
exit ==
    /\ main = "exit"
    /\ main' = "ended"
    /\ listening' = FALSE
    /\ backlog' = <<>>
    /\ pt' = [e \in Ends |-> IF e[2] = "server" THEN "closed" ELSE pt[e]]
    /\ \E lost \in SUBSET {p \in Peers : pt[PeerEnd(p)] \in Constructing} :
          sent' = [e \in Ends |-> IF e[2] = "server" /\ e[1] \in lost THEN 0 ELSE sent[e]]
    /\ UNCHANGED <<running, secret, key, mail>>

\* closeConnection of the peer, or its end.  ECSClient.shutdown does not wait for
\* an answer.
closeConnection(p) ==
    /\ pt[PeerEnd(p)] = "open"
    /\ pt' = [pt EXCEPT ![PeerEnd(p)] = "closed"]
    /\ UNCHANGED <<running, listening, main, backlog, sent, secret, key, mail>>

\* The thread that serves p reads end of file, or fails because the connection was
\* reset, and ends.
threadEnds(p) ==
    /\ pt[ServerEnd(p)] = "open" /\ pt[PeerEnd(p)] = "closed"
    /\ pt' = [pt EXCEPT ![ServerEnd(p)] = "closed"]
    /\ mail' = [mail EXCEPT ![p] = NoKey]
    /\ UNCHANGED <<running, listening, main, backlog, sent, secret, key>>

\* The peer's process is killed during the exchange; what it has sent reaches the
\* server or is lost with it.
peerDies(p) ==
    /\ pt[PeerEnd(p)] \in Constructing
    /\ pt' = [pt EXCEPT ![PeerEnd(p)] = "closed"]
    /\ \E n \in 0 .. sent[PeerEnd(p)] : sent' = [sent EXCEPT ![PeerEnd(p)] = n]
    /\ UNCHANGED <<running, listening, main, backlog, secret, key, mail>>

MainStep == accept \/ acceptFails \/ exit \/ \E p \in Peers : ConstructorStep(ServerEnd(p))
PeerStep(p) == ConstructorStep(PeerEnd(p))
ThreadStep(p) == receiveMsg(p) \/ threadEnds(p)

Next ==
    \/ MainStep \/ close
    \/ \E p \in Peers :
          \/ connect(p) \/ PeerStep(p) \/ ThreadStep(p)
          \/ sendAdminMsg(p) \/ closeConnection(p) \/ peerDies(p)

Spec == Init /\ [][Next]_vars

\* Threads are scheduled.  Nobody has to connect, to ask for a shutdown or to
\* close a connection.
Fairness ==
    /\ WF_vars(MainStep) /\ WF_vars(close)
    /\ \A p \in Peers : WF_vars(PeerStep(p)) /\ WF_vars(ThreadStep(p))

FairSpec == Spec /\ Fairness

-----------------------------------------------------------------------------
(* Properties.                                                             *)

TypeOK ==
    /\ running \in BOOLEAN
    /\ listening \in BOOLEAN
    /\ main \in {"accept", "construct", "exit", "ended", "died"}
    /\ backlog \in Seq(Peers) /\ Len(backlog) <= Backlog
    /\ pt \in [Ends -> Constructing \cup {"none", "open", "closed"}]
    /\ sent \in [Ends -> 0 .. 2]
    /\ secret \in [Ends -> Secrets]
    /\ key \in [Ends -> Keys]
    /\ mail \in [Peers -> Keys]

\* Two ends that are open have the same key, g^(xy) for their secrets x and y: what
\* one encrypts the other can read.  (setKey, fastModExp; a connection that takes
\* the place of an earlier one of the peer does not get its key.)
KeysAgree ==
    \A p \in Peers :
        pt[PeerEnd(p)] = "open" /\ pt[ServerEnd(p)] = "open" =>
            /\ key[PeerEnd(p)] = key[ServerEnd(p)]
            /\ key[PeerEnd(p)] =
                  Power(Generator, secret[PeerEnd(p)] * secret[ServerEnd(p)])

\* A request that waits for a thread of the server is encrypted with that thread's
\* key, also when its sender has closed the connection already, as ECSClient.shutdown
\* does: receiveMsg never takes a SHUTDOWN for garbage.
RequestReadable ==
    \A p \in Peers :
        pt[ServerEnd(p)] = "open" /\ mail[p] # NoKey => mail[p] = key[ServerEnd(p)]

\* The accepting thread reads again and again from a peer that went away before
\* its value had come, or such a peer has ended it.
Wedged ==
    \/ main = "died"
    \/ \E p \in Peers : /\ pt[ServerEnd(p)] \in Constructing
                        /\ pt[PeerEnd(p)] = "closed" /\ sent[PeerEnd(p)] < 2

\* Neither end waits for the other for ever: a connection that was opened becomes
\* usable at both ends, unless the server ends, or one peer, not necessarily this
\* one, has disappeared in the middle of its exchange.
ExchangeEnds ==
    \A p \in Peers :
        pt[PeerEnd(p)] = "streams" ~>
            \/ pt[PeerEnd(p)] \in {"open", "closed"} /\ pt[ServerEnd(p)] \in {"open", "closed"}
            \/ main = "ended" \/ Wedged

\* The next step of the constructor can be taken at e.
CanStep(e) ==
    \/ pt[e] = "streams"
    \/ pt[e] = "header" /\ (sent[Other(e)] >= 1 \/ pt[Other(e)] = "closed")
    \/ pt[e] = "receive" /\ sent[Other(e)] = 2

\* In an exchange one of the two ends can always go on, whatever close, exit and
\* peers that die do to it: the two never wait for one another.  So the accepting
\* thread is stuck in a constructor only with a peer that disappeared, and a peer only
\* while its connection has not been accepted or once the server's socket is closed.
NoMutualWait ==
    /\ main = "construct" =>
          \E p \in Peers : pt[ServerEnd(p)] \in Constructing
    /\ \A p \in Peers :
          pt[ServerEnd(p)] \in Constructing =>
              \/ CanStep(ServerEnd(p)) \/ CanStep(PeerEnd(p))
              \/ pt[PeerEnd(p)] = "closed" /\ sent[PeerEnd(p)] < 2
    /\ \A p \in Peers :
          pt[PeerEnd(p)] \in Constructing =>
              \/ CanStep(PeerEnd(p)) \/ CanStep(ServerEnd(p))
              \/ Waiting(p) \/ ~listening

\* IKVServer on shutDown: "Exits the KVServer application".  The accepting thread,
\* which has to see the flag, is blocked in accept or in an exchange when the
\* flag is cleared; only a peer that disappeared there keeps it from ending.
ShutdownEnds == ~running ~> main = "ended" \/ Wedged

\* KVCommInterface on connect: "Establishes a connection to the KV Server.
\* @throws Exception if connection could not be established": it returns.
ConnectReturns ==
    \A p \in Peers : pt[PeerEnd(p)] = "streams" ~> pt[PeerEnd(p)] \in {"open", "closed"}
=============================================================================
