----------------------------- MODULE ECSClient -----------------------------
(***************************************************************************)
(* The external configuration service: a command-line program that starts  *)
(* and stops servers, keeps the list of active ones, computes the metadata *)
(* and directs the moves of data.  It runs one command at a time and talks *)
(* to one server at a time.                                                *)
(*                                                                         *)
(* epc is the point the command has reached, asked the server that has not *)
(* answered the request sent from there.  The lists of the code are sets   *)
(* here: addNode picks an idle server at random, so every order of the     *)
(* active list occurs, and nothing but the order of a round of messages    *)
(* depends on it.  addNodes(n) of the command line is n addNodes.          *)
(***************************************************************************)
EXTENDS KVServer, FiniteSets

CONSTANTS
    Commands,   \* the commands that are given
    MaxFaults   \* bound: how many processes are killed and waits end early

ASSUME CommandsAssumption ==
    Commands \subseteq {"addNode", "removeNode", "start", "stop", "shutDown", "quit"}
ASSUME MaxFaultsAssumption == MaxFaults \in Nat

VARIABLES
    idleServers,    \* ECSClient.idleServers
    activeServers,  \* ECSClient.activeServers
    ecsMeta,        \* ECSClient.metadata
    epc,            \* the step of the current command
    asked,          \* the server whose reply is awaited, or Null
    node,           \* the server added, removed or shut down
    peer,           \* its successor, which gives or inherits its data
    range,          \* the range to be moved
    todo,           \* the servers the current round has not reached
    faults          \* how many faults there have been

lists == <<idleServers, activeServers, ecsMeta>>
command == <<node, peer, range, todo>>
ecsVars == <<idleServers, activeServers, ecsMeta, epc, asked, node, peer, range, todo>>

NoRange == [start |-> 0, end |-> NoServer]

\* Null is no server.
ASSUME NullNoServer == Null \notin Servers

ECSInit ==
    /\ idleServers = Servers
    /\ activeServers = {}
    /\ ecsMeta = {}
    /\ epc = "ready"
    /\ asked = Null
    /\ node = NoServer
    /\ peer = NoServer
    /\ range = NoRange
    /\ todo = {}
    /\ faults = 0

-----------------------------------------------------------------------------
(* Talking to a server.                                                    *)

EAt(l) == epc = l /\ asked = Null

\* What a step that only talks to servers leaves alone.
TalksOnly == UNCHANGED <<process, flags, data, topic, threads, faults>>

EGoto(l) == epc' = l /\ asked' = Null

\* Connects to s and sends it m.  (The connection that never comes about: CutOff.)
Ask(l, s, m) ==
    /\ EAt(l)
    /\ AdminCall(s, m)
    /\ asked' = s
    /\ UNCHANGED <<epc, lists, command>>
    /\ TalksOnly

\* The connection to s is refused.
IsRefused(l, s) == EAt(l) /\ Refuses(s)

\* The reply, or null because the connection is lost.
Answered(l, s) == epc = l /\ asked = s /\ apc[s] = "reply" /\ AdminDone(s)
Lost(l, s) == epc = l /\ asked = s /\ apc[s] = "closed" /\ AdminDone(s)

\* A request from step l, with the steps that follow an answer, a refused
\* connection and a null reply.
Exchange(l, s, m, answered, refused, lost) ==
    \/ Ask(l, s, m)
    \/ /\ \/ Answered(l, s) /\ EGoto(answered)
          \/ Lost(l, s) /\ EGoto(lost)
          \/ IsRefused(l, s) /\ EGoto(refused) /\ UNCHANGED admin
       /\ UNCHANGED <<lists, command>>
       /\ TalksOnly

Message(t) == [NoAdminRequest EXCEPT !.type = t]
WithMeta(t) == [Message(t) EXCEPT !.md = ecsMeta]
MoveTo(s) == [Message("MOVE_DATA") EXCEPT !.dest = s, !.range = range]

\* All the requests the ECS sends.
ECSMessages ==
    {Message(t) : t \in {"START", "STOP", "SHUTDOWN"}}
        \cup {[Message(t) EXCEPT !.md = m] : t \in {"INIT_SERVER", "UPDATE"}, m \in SUBSET Servers}
        \cup UNION {{[Message("MOVE_DATA") EXCEPT !.dest = s, !.range = calc_metadata(m)[n]] :
                        s \in Servers, n \in m} : m \in SUBSET Servers}

\* A step without communication.
Local == UNCHANGED <<serverVars, faults>>

Fault == faults < MaxFaults /\ faults' = faults + 1

Registered == {s \in Servers : znode[s] # "none"}

\* What is under /keeper does not change any more.
Settled ==
    \A s \in Servers :
        proc[s] \in {"down", "up", "wedged"} /\ ~second[s] /\ znode[s] # "stale" /\ apc[s] # "adminServe"

\* As many nodes under /keeper as expected, or the time is up: because there never
\* will be, or, which counts as a fault, because a server is too slow.
awaitNodes(count) ==
    \/ Cardinality(Registered) = count /\ UNCHANGED faults
    \/ Cardinality(Registered) # count /\ IF Settled THEN UNCHANGED faults ELSE Fault

\* The end of a command.
Ready ==
    /\ epc' = "ready" /\ asked' = Null
    /\ node' = NoServer /\ peer' = NoServer /\ range' = NoRange /\ todo' = {}

-----------------------------------------------------------------------------
(* addNode.                                                                *)

\* Picks an idle server and launches it with startnode.sh, whether or not it still
\* runs.
addNode(n) ==
    /\ EAt("ready") /\ "addNode" \in Commands
    /\ n \in idleServers
    /\ main(n) \/ mainAgain(n)
    /\ idleServers' = idleServers \ {n}
    /\ node' = n
    /\ EGoto("awaitJoin")
    /\ UNCHANGED <<activeServers, ecsMeta, peer, range, todo, faults>>

\* Fault seeded in awaitJoin: the successor is looked up under the new metadata.
awaitJoin_LateLookup ==
    /\ EAt("awaitJoin")
    /\ awaitNodes(Cardinality(activeServers) + 1)
    /\ ecsMeta' = activeServers \cup {node}
    /\ IF activeServers = {}
       THEN UNCHANGED <<peer, range>>
       ELSE /\ peer' \in getNodeByKey(node, ecsMeta')
            /\ range' \in {calc_metadata(ecsMeta')[n] : n \in getNodeByKey(node, ecsMeta')}
    /\ EGoto("init")
    /\ UNCHANGED serverVars
    /\ UNCHANGED <<idleServers, activeServers, node, todo>>

\* Whether or not the server has checked in: the successor under the old
\* metadata, then the new metadata and the range of the new node in it.
awaitJoin ==
    /\ EAt("awaitJoin")
    /\ awaitNodes(Cardinality(activeServers) + 1)
    /\ ecsMeta' = activeServers \cup {node}
    /\ IF activeServers = {}
       THEN UNCHANGED <<peer, range>>
       ELSE /\ peer' \in getNodeByKey(node, ecsMeta)
            /\ range' \in {calc_metadata(ecsMeta')[n] : n \in getNodeByKey(node, ecsMeta')}
    /\ EGoto("init")
    /\ UNCHANGED serverVars
    /\ UNCHANGED <<idleServers, activeServers, node, todo>>

\* The answer to INIT_SERVER is followed by START on the same connection.
sendInit ==
    \/ Ask("init", node, WithMeta("INIT_SERVER"))
    \/ /\ \/ /\ epc = "init" /\ asked = node
             /\ AdminNext(node, Message("START"))
             /\ epc' = "start" /\ UNCHANGED asked
          \/ Lost("init", node) /\ EGoto("join")
          \/ IsRefused("init", node) /\ EGoto("join") /\ UNCHANGED admin
       /\ UNCHANGED <<lists, command>>
       /\ TalksOnly

sendStart ==
    /\ Answered("start", node) \/ Lost("start", node)
    /\ EGoto("join")
    /\ UNCHANGED <<lists, command>>
    /\ TalksOnly

\* Fault seeded in sendJoinMove: the successor is not told to move the data.
sendJoinMove_Omitted ==
    /\ EAt("join") /\ activeServers # {}
    /\ EGoto("joined")
    /\ Local
    /\ UNCHANGED <<lists, command>>

\* A null reply to the move is a NullPointerException nobody catches.
sendJoinMove ==
    /\ activeServers # {}
    /\ Exchange("join", peer, MoveTo(node), "joined", "joined", "dead")

\* Fault seeded in joined: only the new node gets the new metadata.
joined_TellsNewNodeOnly ==
    /\ EAt("joined") \/ (EAt("join") /\ activeServers = {})
    /\ activeServers' = activeServers \cup {node}
    /\ todo' = {node}
    /\ EGoto("updateJoin")
    /\ Local
    /\ UNCHANGED <<idleServers, ecsMeta, node, peer, range>>

\* The node is active, whatever came of the steps before, and every active
\* server is sent the new metadata.
joined ==
    /\ EAt("joined") \/ (EAt("join") /\ activeServers = {})
    /\ activeServers' = activeServers \cup {node}
    /\ todo' = activeServers'
    /\ EGoto("updateJoin")
    /\ Local
    /\ UNCHANGED <<idleServers, ecsMeta, node, peer, range>>

-----------------------------------------------------------------------------
(* UpdateAllNodesMeta, and the rounds of start and stop.                   *)

\* One message to every server of todo, from step l.  An unreachable server
\* leads to step failed.
Round(l, m, failed) ==
    \E s \in todo :
        \/ Ask(l, s, m)
        \/ /\ \/ Answered(l, s) /\ EGoto(l)
              \/ Lost(l, s) /\ EGoto(failed)
              \/ IsRefused(l, s) /\ EGoto(failed) /\ UNCHANGED admin
           /\ todo' = todo \ {s}
           /\ UNCHANGED <<lists, node, peer, range>>
           /\ TalksOnly

\* Every exception is caught: the round goes on.
UpdateAllNodesMeta ==
    \/ Round("updateJoin", WithMeta("UPDATE"), "updateJoin")
    \/ Round("updateLeave", WithMeta("UPDATE"), "updateLeave")

\* The commands start and stop.  Any exception ends the program.
start ==
    /\ EAt("ready") /\ "start" \in Commands
    /\ todo' = activeServers
    /\ EGoto("startAll")
    /\ Local
    /\ UNCHANGED <<lists, node, peer, range>>

sendStarts == Round("startAll", Message("START"), "dead")

stop ==
    /\ EAt("ready") /\ "stop" \in Commands
    /\ todo' = activeServers
    /\ EGoto("stopAll")
    /\ Local
    /\ UNCHANGED <<lists, node, peer, range>>

sendStops == Round("stopAll", Message("STOP"), "dead")

\* The round is over.
roundDone ==
    /\ todo = {} /\ asked = Null
    /\ \/ epc \in {"updateJoin", "startAll", "stopAll"} /\ Ready
       \/ epc = "updateLeave" /\ EGoto("shutdown_server") /\ UNCHANGED command
    /\ Local
    /\ UNCHANGED lists

-----------------------------------------------------------------------------
(* removeNode.                                                             *)

\* Fault seeded in removeNode: the last server may be removed too, for which the
\* lookup finds no heir.
removeNode_Last(n) ==
    /\ EAt("ready") /\ "removeNode" \in Commands
    /\ n \in activeServers
    /\ node' = n
    /\ range' \in {calc_metadata(ecsMeta)[m] : m \in getNodeByKey(n, ecsMeta)}
    /\ ecsMeta' = activeServers \ {n}
    /\ peer' \in IF ecsMeta' = {} THEN {Null} ELSE getNodeByKey(n, ecsMeta')
    /\ EGoto("updateHeir")
    /\ Local
    /\ UNCHANGED <<idleServers, activeServers, todo>>

\* The range of the node under the old metadata, then the metadata without it
\* and the heir.
removeNode(n) ==
    /\ EAt("ready") /\ "removeNode" \in Commands
    /\ n \in activeServers /\ activeServers # {n}
    /\ node' = n
    /\ range' \in {calc_metadata(ecsMeta)[m] : m \in getNodeByKey(n, ecsMeta)}
    /\ ecsMeta' = activeServers \ {n}
    /\ peer' \in getNodeByKey(n, ecsMeta')
    /\ EGoto("updateHeir")
    /\ Local
    /\ UNCHANGED <<idleServers, activeServers, todo>>

sendHeirUpdate == Exchange("updateHeir", peer, WithMeta("UPDATE"), "leave", "leave", "leave")

\* Any reply will do; an exception ends the command and leaves the node active.
sendLeaveMove == Exchange("leave", node, MoveTo(peer), "left", "failed", "failed")

left ==
    /\ EAt("left")
    /\ todo' = activeServers
    /\ EGoto("updateLeave")
    /\ Local
    /\ UNCHANGED <<lists, node, peer, range>>

\* Faults seeded in shutdown_server: the process is not awaited, the server is not
\* put back on the list of idle ones, or the request is repeated until it is
\* answered.
shutdown_server_NoAwait ==
    \/ Ask("shutdown_server", node, Message("SHUTDOWN"))
    \/ /\ \/ /\ Answered("shutdown_server", node)
             /\ idleServers' = idleServers \cup {node}
             /\ activeServers' = activeServers \ {node}
          \/ /\ \/ Lost("shutdown_server", node)
                \/ IsRefused("shutdown_server", node) /\ UNCHANGED admin
             /\ UNCHANGED <<idleServers, activeServers>>
       /\ Ready
       /\ UNCHANGED ecsMeta
       /\ TalksOnly
shutdown_server_Forgets ==
    \/ Ask("shutdown_server", node, Message("SHUTDOWN"))
    \/ /\ \/ /\ Answered("shutdown_server", node)
             /\ activeServers' = activeServers \ {node}
             /\ EGoto("awaitLeave")
          \/ /\ \/ Lost("shutdown_server", node)
                \/ IsRefused("shutdown_server", node) /\ UNCHANGED admin
             /\ EGoto("failed")
             /\ UNCHANGED activeServers
       /\ UNCHANGED <<idleServers, ecsMeta, command>>
       /\ TalksOnly

shutdown_server_Retries ==
    \/ Ask("shutdown_server", node, Message("SHUTDOWN"))
    \/ /\ \/ /\ Answered("shutdown_server", node)
             /\ idleServers' = idleServers \cup {node}
             /\ activeServers' = activeServers \ {node}
             /\ EGoto("awaitLeave")
          \/ /\ \/ Lost("shutdown_server", node)
                \/ IsRefused("shutdown_server", node) /\ UNCHANGED admin
             /\ EGoto("shutdown_server")
             /\ UNCHANGED <<idleServers, activeServers>>
       /\ UNCHANGED <<ecsMeta, command>>
       /\ TalksOnly

\* A null reply is a NullPointerException that removeNode catches: the node is
\* still listed as active.
shutdown_server ==
    \/ Ask("shutdown_server", node, Message("SHUTDOWN"))
    \/ /\ \/ /\ Answered("shutdown_server", node)
             /\ idleServers' = idleServers \cup {node}
             /\ activeServers' = activeServers \ {node}
             /\ EGoto("awaitLeave")
          \/ /\ \/ Lost("shutdown_server", node)
                \/ IsRefused("shutdown_server", node) /\ UNCHANGED admin
             /\ EGoto("failed")
             /\ UNCHANGED <<idleServers, activeServers>>
       /\ UNCHANGED <<ecsMeta, command>>
       /\ TalksOnly

awaitLeave ==
    /\ EAt("awaitLeave")
    /\ awaitNodes(Cardinality(activeServers))
    /\ Ready
    /\ UNCHANGED serverVars
    /\ UNCHANGED lists

\* removeNode prints "Problem moving data" and returns true.
failed ==
    /\ EAt("failed")
    /\ Ready
    /\ Local
    /\ UNCHANGED lists

-----------------------------------------------------------------------------
(* shutDown, quit, restart.                                                *)

shutdown ==
    /\ EAt("ready") /\ "shutDown" \in Commands
    /\ EGoto("shutDownAll")
    /\ Local
    /\ UNCHANGED <<lists, command>>

\* Sends SHUTDOWN to one server after the other without reading the replies
\* (it sleeps half a second instead).  A refused connection ends the program.
sendShutdowns ==
    /\ EAt("shutDownAll")
    /\ \E s \in activeServers :
         \/ /\ AdminCall(s, Message("SHUTDOWN"))
            /\ idleServers' = idleServers \cup {s}
            /\ activeServers' = activeServers \ {s}
            /\ EGoto("shutDownAll")
         \/ /\ Refuses(s)
            /\ EGoto("dead")
            /\ UNCHANGED <<admin, idleServers, activeServers>>
    /\ UNCHANGED <<ecsMeta, command>>
    /\ TalksOnly

awaitShutdown ==
    /\ EAt("shutDownAll") /\ activeServers = {}
    /\ awaitNodes(0)
    /\ Ready
    /\ UNCHANGED serverVars
    /\ UNCHANGED lists

quit ==
    /\ EAt("ready") /\ "quit" \in Commands
    /\ EGoto("dead")
    /\ Local
    /\ UNCHANGED <<lists, command>>

-----------------------------------------------------------------------------
(* The constructor of CommModule does not return.                          *)

\* The ECS's next step is to connect to s.
ECSConnects(s) ==
    /\ asked = Null
    /\ \/ epc \in {"init", "leave", "shutdown_server"} /\ s = node
       \/ epc = "join" /\ activeServers # {} /\ s = peer
       \/ epc = "updateHeir" /\ s = peer
       \/ epc \in {"updateJoin", "updateLeave", "startAll", "stopAll"} /\ s \in todo
       \/ epc = "shutDownAll" /\ s \in activeServers

\* s cuts the ECS's connection off, or never takes it from its backlog.  A reset
\* before the first write throws a NullPointerException instead, which has the effect
\* of a refusal but where addNode catches IOException only.
CutOff(s) ==
    /\ ECSConnects(s)
    /\ \/ epc' = "hung"
       \/ epc = "join" /\ proc[s] # "wedged" /\ epc' = "dead"
    /\ UNCHANGED <<asked, lists, command>>

connectHangs ==
    /\ \E s \in Servers : Hangs(s) /\ CutOff(s)
    /\ Local

\* The ECS is in the constructor for ever, or waits for a server that is.
Hung == epc = "hung" \/ (asked # Null /\ apc[asked] = "moveHangs")

\* The program is killed between two exchanges with servers, or by its user when it
\* hangs.
ECSKilled ==
    /\ epc # "dead"
    /\ \/ Fault /\ asked = Null
       \/ Hung /\ UNCHANGED faults
    /\ EGoto("dead")
    /\ UNCHANGED <<serverVars, lists, command>>

\* A new ECS reads ecs.config and finds the active servers under /keeper.
Restart ==
    /\ epc = "dead"
    /\ Ready
    /\ activeServers' = Registered
    /\ idleServers' = Servers \ Registered
    /\ ecsMeta' = Registered
    /\ Local

\* A step of a command that is under way.
CommandStep ==
    \/ awaitJoin \/ sendInit \/ sendStart \/ sendJoinMove \/ joined \/ UpdateAllNodesMeta
    \/ roundDone \/ sendHeirUpdate \/ sendLeaveMove \/ left \/ shutdown_server
    \/ awaitLeave \/ failed \/ sendStarts \/ sendStops \/ sendShutdowns \/ awaitShutdown
    \/ connectHangs

\* A command is given.
NewCommand ==
    \/ \E n \in Servers : addNode(n) \/ removeNode(n)
    \/ start \/ stop \/ shutdown \/ quit

-----------------------------------------------------------------------------

ECSTypeOK ==
    /\ idleServers \in SUBSET Servers
    /\ activeServers \in SUBSET Servers
    /\ ecsMeta \in SUBSET Servers
    /\ epc \in {"ready", "awaitJoin", "init", "start", "join", "joined", "updateJoin",
                "updateHeir", "leave", "left", "updateLeave", "shutdown_server",
                "awaitLeave", "failed", "startAll", "stopAll", "shutDownAll", "hung", "dead"}
    /\ asked \in Servers \cup {Null}
    /\ node \in Servers
    /\ peer \in Servers
    /\ range \in [start : 0 .. RingSize, end : Positions]
    /\ todo \in SUBSET Servers
    /\ faults \in 0 .. MaxFaults

\* The ECS waits for a command.
ECSIdle == epc = "ready"

\* No server drops off the lists of an ECS that goes on, or is on both of them,
\* whatever fails on the way: it is idle, active or the one that is being added.
ServersAccountedFor ==
    LET joining == IF epc \in {"awaitJoin", "init", "start", "join", "joined"}
                   THEN {node} ELSE {}
    IN  epc \notin {"hung", "dead"} =>
            /\ idleServers \cup activeServers \cup joining = Servers
            /\ idleServers \cap activeServers = {}
            /\ joining \cap (idleServers \cup activeServers) = {}

\* A server that accepts connections is seen under /keeper: by the time addNode
\* launches a server again, the node of its last process has expired, so that
\* create does not fail (KVServer.run, ECSClient.awaitNodes).
RegisteredWhileUp == \A s \in Servers : proc[s] = "up" => znode[s] # "none"

\* The servers addNode picks from do not run: startnode.sh never starts a second
\* process for a server, which would clear the storage file of the first one.
IdleIsDown == ECSIdle => \A s \in idleServers : proc[s] = "down"
=============================================================================
