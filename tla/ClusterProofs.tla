--------------------------- MODULE ClusterProofs ---------------------------
(***************************************************************************)
(* Proofs about the whole system, for any servers, keys, clients, requests *)
(* and commands, with overlapping requests and reconfigurations and any    *)
(* number of faults: types, the ECS's lists, and that the servers behave   *)
(* as OpenServers says, which brings the theorems proved there.            *)
(***************************************************************************)
EXTENDS Cluster, HashRingLemmas

-----------------------------------------------------------------------------
(* The ECS's own state.                                                    *)

\* The range of some node under some metadata.
IsMetadataRange(r) == \E m \in SUBSET Servers : \E n \in m : r = calc_metadata(m)[n]

\* When a move is requested its range has been looked up.
RangeKnown ==
    \/ epc \in {"updateHeir", "leave"}
    \/ epc \in {"init", "start", "join"} /\ activeServers # {}
    => IsMetadataRange(range)

ECSInv == ECSTypeOK /\ ServersAccountedFor /\ RangeKnown

LEMMA NoServerIsServer == NoServer \in Servers
  BY ServersAssumption DEF NoServer

LEMMA MetadataRangeTypes ==
    ASSUME NEW r, IsMetadataRange(r)
    PROVE  r \in [start : 0 .. RingSize, end : Positions]
  BY RangeTypes, ServersAssumption DEF IsMetadataRange

\* Where an exchange and a round leave the ECS.
LEMMA ExchangeGoes ==
    ASSUME NEW l, NEW s, NEW m, NEW a, NEW r, NEW n,
           Exchange(l, s, m, a, r, n)
    PROVE  /\ UNCHANGED <<lists, command, faults>> /\ epc = l
           /\ \/ epc' = l /\ asked' = s
              \/ epc' \in {a, r, n} /\ asked' = Null
  BY DEF Exchange, Ask, Answered, Lost, IsRefused, EGoto, EAt, TalksOnly

LEMMA RoundGoes ==
    ASSUME NEW l, NEW m, NEW f, Round(l, m, f)
    PROVE  /\ UNCHANGED <<lists, node, peer, range, faults>> /\ epc = l
           /\ \E s \in todo : \/ epc' = l /\ asked' = s /\ todo' = todo
                              \/ epc' \in {l, f} /\ asked' = Null /\ todo' = todo \ {s}
  BY DEF Round, Ask, Answered, Lost, IsRefused, EGoto, EAt, TalksOnly, command

\* A connection that never comes about.
LEMMA CutOffInv ==
    ASSUME ECSInv, NEW s \in Servers, CutOff(s), faults' \in 0 .. MaxFaults
    PROVE  ECSInv'
  <1>1. epc' \in {"hung", "dead"} /\ UNCHANGED <<asked, lists, command>>
    BY DEF CutOff
  <1> QED
    BY <1>1 DEF lists, command, ECSInv, ECSTypeOK, ServersAccountedFor, RangeKnown

\* A wait leaves the count of faults within its bound.
LEMMA AwaitCounts ==
    ASSUME NEW n, awaitNodes(n), faults \in 0 .. MaxFaults
    PROVE  faults' \in 0 .. MaxFaults
  BY MaxFaultsAssumption DEF awaitNodes, Fault

LEMMA ECSInit_Inv == ECSInit => ECSInv
  <1> SUFFICES ASSUME ECSInit PROVE ECSInv
    OBVIOUS
  <1>1. NoServer \in Servers /\ NoServer \in Positions /\ 0 \in 0 .. RingSize
    BY NoServerIsServer, ServersAssumption, RingSizeAssumption
  <1>2. NoRange \in [start : 0 .. RingSize, end : Positions]
    BY <1>1 DEF NoRange
  <1>3. faults \in 0 .. MaxFaults
    BY MaxFaultsAssumption DEF ECSInit
  <1> QED
    BY <1>1, <1>2, <1>3 DEF ECSInit, ECSInv, ECSTypeOK, ServersAccountedFor, RangeKnown

\* The end of a command.
LEMMA ReadyInv ==
    ASSUME ECSInv, Ready, UNCHANGED lists, faults' \in 0 .. MaxFaults,
           epc \notin {"awaitJoin", "init", "start", "join", "joined", "hung", "dead"}
    PROVE  ECSInv'
  <1>1. NoServer \in Servers /\ NoServer \in Positions /\ 0 \in 0 .. RingSize
    BY NoServerIsServer, ServersAssumption, RingSizeAssumption
  <1>2. NoRange \in [start : 0 .. RingSize, end : Positions]
    BY <1>1 DEF NoRange
  <1> QED
    BY <1>1, <1>2 DEF Ready, lists, ECSInv, ECSTypeOK, ServersAccountedFor, RangeKnown

LEMMA NewCommandInv ==
    ASSUME ECSInv, NewCommand
    PROVE  ECSInv'
  <1> USE DEF ECSInv, EAt, EGoto, Local, lists, command
  <1>1. ASSUME NEW n \in Servers, addNode(n)
        PROVE  ECSInv'
    <2>1. /\ epc = "ready" /\ n \in idleServers /\ idleServers' = idleServers \ {n}
          /\ node' = n /\ epc' = "awaitJoin" /\ asked' = Null
          /\ UNCHANGED <<activeServers, ecsMeta, peer, range, todo, faults>>
      BY <1>1 DEF addNode
    <2> QED
      BY <1>1, <2>1 DEF ECSTypeOK, ServersAccountedFor, RangeKnown
  <1>2. ASSUME NEW n \in Servers, removeNode(n)
        PROVE  ECSInv'
    <2>1. /\ epc = "ready" /\ n \in activeServers
          /\ node' = n /\ epc' = "updateHeir" /\ asked' = Null
          /\ ecsMeta' = activeServers \ {n}
          /\ UNCHANGED <<idleServers, activeServers, todo, faults>>
          /\ peer' \in getNodeByKey(n, ecsMeta')
          /\ range' \in {calc_metadata(ecsMeta)[m] : m \in getNodeByKey(n, ecsMeta)}
      BY <1>2 DEF removeNode
    <2>2. peer' \in Servers
      BY <2>1, LookupNamesNode DEF ECSTypeOK
    <2>3. IsMetadataRange(range')
      BY <2>1, LookupNamesNode DEF ECSTypeOK, IsMetadataRange
    <2>4. range' \in [start : 0 .. RingSize, end : Positions]
      BY <2>3, MetadataRangeTypes
    <2>5. ECSTypeOK'
      BY <1>2, <2>1, <2>2, <2>4 DEF ECSTypeOK
    <2>6. ServersAccountedFor'
      BY <2>1 DEF ServersAccountedFor
    <2> QED
      BY <2>3, <2>5, <2>6 DEF RangeKnown, IsMetadataRange
  <1>3. CASE start
    BY <1>3 DEF start, ECSTypeOK, ServersAccountedFor, RangeKnown
  <1>4. CASE stop
    BY <1>4 DEF stop, ECSTypeOK, ServersAccountedFor, RangeKnown
  <1>5. CASE shutdown
    BY <1>5 DEF shutdown, ECSTypeOK, ServersAccountedFor, RangeKnown
  <1>6. CASE quit
    BY <1>6 DEF quit, ECSTypeOK, ServersAccountedFor, RangeKnown
  <1> QED
    BY <1>1, <1>2, <1>3, <1>4, <1>5, <1>6 DEF NewCommand

LEMMA CommandStepInv ==
    ASSUME ECSInv, CommandStep
    PROVE  ECSInv'
  <1> USE DEF ECSInv, EAt, EGoto, Local, lists, command, TalksOnly
  <1>1. CASE awaitJoin
    <2>1. /\ epc = "awaitJoin" /\ epc' = "init" /\ asked' = Null
          /\ ecsMeta' = activeServers \cup {node}
          /\ UNCHANGED <<idleServers, activeServers, node, todo>>
          /\ faults' \in 0 .. MaxFaults
      BY <1>1, AwaitCounts DEF awaitJoin, ECSTypeOK
    <2>2. /\ ecsMeta' \in SUBSET Servers /\ peer' \in Servers
          /\ range' \in [start : 0 .. RingSize, end : Positions]
          /\ activeServers # {} => IsMetadataRange(range')
      <3>1. ecsMeta' \in SUBSET Servers
        BY <2>1 DEF ECSTypeOK
      <3>2. CASE activeServers = {}
        BY <1>1, <3>1, <3>2 DEF awaitJoin, ECSTypeOK
      <3>3. CASE activeServers # {}
        <4>1. /\ peer' \in getNodeByKey(node, ecsMeta)
              /\ range' \in {calc_metadata(ecsMeta')[n] : n \in getNodeByKey(node, ecsMeta')}
          BY <1>1, <3>3 DEF awaitJoin
        <4>2. peer' \in Servers
          BY <4>1, LookupNamesNode DEF ECSTypeOK
        <4>3. IsMetadataRange(range')
          BY <3>1, <4>1, LookupNamesNode DEF IsMetadataRange
        <4> QED
          BY <3>1, <4>2, <4>3, MetadataRangeTypes
      <3> QED
        BY <3>2, <3>3
    <2>3. ECSTypeOK' /\ ServersAccountedFor'
      BY <2>1, <2>2 DEF ECSTypeOK, ServersAccountedFor
    <2> QED
      BY <2>1, <2>2, <2>3 DEF RangeKnown, IsMetadataRange
  <1>2. CASE sendInit \/ sendStart \/ sendJoinMove
    <2>1. /\ UNCHANGED <<lists, command, faults>> /\ epc \in {"init", "start", "join"}
          /\ epc' \in {"init", "start", "join", "joined", "dead"}
          /\ asked' \in {node, peer, Null}
      <3>1. CASE sendInit
        BY <3>1 DEF sendInit, Ask, Lost, IsRefused
      <3>2. CASE sendStart
        BY <3>2 DEF sendStart, Answered, Lost
      <3>3. CASE sendJoinMove
        BY <3>3, ExchangeGoes DEF sendJoinMove
      <3> QED
        BY <1>2, <3>1, <3>2, <3>3
    <2> QED
      BY <2>1 DEF ECSTypeOK, ServersAccountedFor, RangeKnown, IsMetadataRange
  <1>3. CASE joined
    <2>1. /\ epc \in {"join", "joined"} /\ epc' = "updateJoin" /\ asked' = Null
          /\ activeServers' = activeServers \cup {node} /\ todo' = activeServers'
          /\ UNCHANGED <<idleServers, ecsMeta, node, peer, range, faults>>
      BY <1>3 DEF joined
    <2> QED
      BY <2>1 DEF ECSTypeOK, ServersAccountedFor, RangeKnown
  <1>4. CASE UpdateAllNodesMeta \/ sendStarts \/ sendStops
    <2>1. /\ UNCHANGED <<lists, node, peer, range, faults>>
          /\ epc \in {"updateJoin", "updateLeave", "startAll", "stopAll"}
          /\ epc' \in {"updateJoin", "updateLeave", "startAll", "stopAll", "dead"}
          /\ \E s \in todo : asked' \in {s, Null} /\ todo' \in {todo, todo \ {s}}
      BY <1>4, RoundGoes DEF UpdateAllNodesMeta, sendStarts, sendStops
    <2> QED
      BY <2>1 DEF ECSTypeOK, ServersAccountedFor, RangeKnown
  <1>5. CASE roundDone
    <2>1. CASE epc \in {"updateJoin", "startAll", "stopAll"} /\ Ready
      BY <1>5, <2>1, ReadyInv DEF roundDone, ECSTypeOK
    <2>2. CASE epc = "updateLeave" /\ EGoto("shutdown_server") /\ UNCHANGED command
      <3>1. UNCHANGED <<idleServers, activeServers, ecsMeta, node, peer, range, todo, faults>>
        BY <1>5, <2>2 DEF roundDone
      <3> QED
        BY <2>2, <3>1 DEF ECSTypeOK, ServersAccountedFor, RangeKnown
    <2> QED
      BY <1>5, <2>1, <2>2 DEF roundDone
  <1>6. CASE sendHeirUpdate \/ sendLeaveMove
    <2>1. /\ UNCHANGED <<lists, command, faults>> /\ epc \in {"updateHeir", "leave"}
          /\ epc' \in {"updateHeir", "leave", "left", "failed"}
          /\ asked' \in {node, peer, Null}
      BY <1>6, ExchangeGoes DEF sendHeirUpdate, sendLeaveMove
    <2> QED
      BY <2>1 DEF ECSTypeOK, ServersAccountedFor, RangeKnown, IsMetadataRange
  <1>7. CASE left
    BY <1>7 DEF left, ECSTypeOK, ServersAccountedFor, RangeKnown
  <1>8. CASE shutdown_server
    <2>1. /\ epc = "shutdown_server" /\ epc' \in {"shutdown_server", "awaitLeave", "failed"}
          /\ asked' \in {node, Null} /\ UNCHANGED <<ecsMeta, node, peer, range, todo, faults>>
          /\ \/ UNCHANGED <<idleServers, activeServers>>
             \/ idleServers' = idleServers \cup {node} /\ activeServers' = activeServers \ {node}
      BY <1>8 DEF shutdown_server, Ask, Answered, Lost, IsRefused
    <2> QED
      BY <2>1 DEF ECSTypeOK, ServersAccountedFor, RangeKnown
  <1>9. CASE awaitLeave
    <2>1. faults' \in 0 .. MaxFaults
      BY <1>9, AwaitCounts DEF awaitLeave, ECSTypeOK
    <2> QED
      BY <1>9, <2>1, ReadyInv DEF awaitLeave
  <1>10. CASE failed
    BY <1>10, ReadyInv DEF failed, ECSTypeOK
  <1>11. CASE sendShutdowns
    <2>1. PICK s \in activeServers :
            /\ epc = "shutDownAll" /\ epc' \in {"shutDownAll", "dead"} /\ asked' = Null
            /\ UNCHANGED <<ecsMeta, node, peer, range, todo, faults>>
            /\ \/ UNCHANGED <<idleServers, activeServers>>
               \/ idleServers' = idleServers \cup {s} /\ activeServers' = activeServers \ {s}
      BY <1>11 DEF sendShutdowns
    <2> QED
      BY <2>1 DEF ECSTypeOK, ServersAccountedFor, RangeKnown
  <1>12. CASE awaitShutdown
    <2>1. faults' \in 0 .. MaxFaults
      BY <1>12, AwaitCounts DEF awaitShutdown, ECSTypeOK
    <2> QED
      BY <1>12, <2>1, ReadyInv DEF awaitShutdown
  <1>13. CASE connectHangs
    <2>1. faults' \in 0 .. MaxFaults
      BY <1>13 DEF connectHangs, ECSTypeOK
    <2> QED
      BY <1>13, <2>1, CutOffInv DEF connectHangs
  <1> QED
    BY <1>1, <1>2, <1>3, <1>4, <1>5, <1>6, <1>7, <1>8, <1>9, <1>10, <1>11, <1>12, <1>13
       DEF CommandStep

LEMMA ECSStepInv ==
    ASSUME ECSInv, [Next]_vars
    PROVE  ECSInv'
  <1>1. ASSUME UNCHANGED ecsVars, faults' \in 0 .. MaxFaults
        PROVE  ECSInv'
    BY <1>1 DEF ecsVars, ECSInv, ECSTypeOK, ServersAccountedFor, RangeKnown, IsMetadataRange
  <1>2. faults \in 0 .. MaxFaults
    BY DEF ECSInv, ECSTypeOK
  <1>3. ASSUME NEW p \in Peers, ServeThread(p)
        PROVE  ECSInv'
    BY <1>1, <1>2, <1>3 DEF ServeThread, ServersOnly
  <1>4. ASSUME NEW s \in Servers, AdminThread(s) \/ MainThread(s) \/ Expiry(s)
        PROVE  ECSInv'
    BY <1>1, <1>2, <1>4 DEF AdminThread, MainThread, Expiry, ServersOnly
  <1>5. ASSUME NEW s \in Servers, Killed(s) \/ Wedged(s)
        PROVE  ECSInv'
    <2>1. faults' \in 0 .. MaxFaults
      BY <1>2, <1>5, MaxFaultsAssumption DEF Killed, Wedged, Fault
    <2>2. UNCHANGED ecsVars \/ CutOff(s)
      BY <1>5 DEF Killed, Wedged
    <2> QED
      BY <1>1, <2>1, <2>2, CutOffInv
  <1>6. CASE Command
    BY <1>6, NewCommandInv DEF Command
  <1>7. CASE ECSThread
    BY <1>7, CommandStepInv DEF ECSThread
  <1>8. CASE ECSRestart
    <2>1. NoServer \in Servers /\ NoServer \in Positions /\ 0 \in 0 .. RingSize
      BY NoServerIsServer, ServersAssumption, RingSizeAssumption
    <2>2. NoRange \in [start : 0 .. RingSize, end : Positions]
      BY <2>1 DEF NoRange
    <2>3. Registered \in SUBSET Servers
      BY DEF Registered
    <2> QED
      BY <1>2, <1>8, <2>1, <2>2, <2>3
         DEF ECSRestart, Restart, Ready, Local, ECSInv, ECSTypeOK, ServersAccountedFor, RangeKnown
  <1>9. CASE ECSDies
    <2>1. faults' \in 0 .. MaxFaults
      BY <1>2, <1>9, MaxFaultsAssumption DEF ECSDies, ECSKilled, Fault
    <2> QED
      BY <1>9, <2>1 DEF ECSDies, ECSKilled, EGoto, lists, command, ECSInv, ECSTypeOK,
                        ServersAccountedFor, RangeKnown
  <1>10. ASSUME NEW c \in Clients,
                \/ \E s \in Servers : ClientConnects(c, s)
                \/ \E r \in ClientRequests : ClientRequest(c, r)
                \/ ClientDisconnects(c) \/ ClientThread(c)
         PROVE  ECSInv'
    BY <1>1, <1>2, <1>10
       DEF ClientConnects, ClientRequest, ClientDisconnects, ClientThread, ClientsOnly
  <1>11. CASE UNCHANGED vars
    BY <1>1, <1>2, <1>11 DEF vars
  <1> QED
    BY <1>3, <1>4, <1>5, <1>6, <1>7, <1>8, <1>9, <1>10, <1>11 DEF Next

\* The ECS's variables have their types, and its lists are complete.
THEOREM ECSInvariant == Spec => []ECSInv
  <1>1. Init => ECSInv
    BY ECSInit_Inv DEF Init
  <1>2. ECSInv /\ [Next]_vars => ECSInv'
    BY ECSStepInv
  <1> QED
    BY <1>1, <1>2, PTL DEF Spec

\* Whatever fails in addNode, removeNode or shutDown, no server drops off the ECS's
\* lists or is on both of them.
THEOREM ListsComplete == Spec => []ServersAccountedFor
  <1>1. ECSInv => ServersAccountedFor
    BY DEF ECSInv
  <1> QED
    BY <1>1, ECSInvariant, PTL

-----------------------------------------------------------------------------
(* The servers' steps here and in the instance Open of OpenServers.        *)

\* Definition by definition, they are the same.
LEMMA SameSteps ==
    /\ \A p : ServeStep(p) => Open!ServeStep(p)
    /\ \A s : AdminStep(s) => Open!AdminStep(s)
    /\ \A s : RunStep(s) => Open!RunStep(s)
    /\ \A s : SessionExpires(s) => Open!SessionExpires(s)
    /\ \A s : main(s) => Open!main(s)
    /\ \A s : mainAgain(s) => Open!mainAgain(s)
    /\ \A s : Crash(s) => Open!Crash(s)
    /\ \A s : Wedge(s) => Open!Wedge(s)
  <1> USE DEF process, Open!process, flags, Open!flags, data, Open!data, admin, Open!admin,
              Running, Open!Running, NoRequest, Open!NoRequest, inRange, Open!inRange, threads,
              Open!threads, Serving, Open!Serving, NoReply, Open!NoReply, Empty, Open!Empty,
              NoServer, Open!NoServer, ProcessEnds, Open!ProcessEnds, Interrupted,
              Open!Interrupted, MidWrite, Open!MidWrite, Launch, Open!Launch, Peers, Open!Peers,
              NoAdminRequest, Open!NoAdminRequest, Flushing, Open!Flushing, Listens,
              Open!Listens
  <1>1. ASSUME NEW p, ServeStep(p)
        PROVE  Open!ServeStep(p)
    BY <1>1 DEF ServeStep, Open!ServeStep, serve, Open!serve, isWriteLock, Open!isWriteLock,
                checkRange, Open!checkRange, getMetadata, Open!getMetadata, getKV, Open!getKV,
                inStorage, Open!inStorage, pub, Open!pub, put, Open!put, At, Open!At, Reply,
                Open!Reply, Goto, Open!Goto, NoEntry, Open!NoEntry, ThreadDies, Open!ThreadDies,
                Responsible, Open!Responsible, calc_metadata, Open!calc_metadata, FirstNode,
                Open!FirstNode, LastNode, Open!LastNode, Predecessor, Open!Predecessor
  <1>2. ASSUME NEW s, AdminStep(s)
        PROVE  Open!AdminStep(s)
    BY <1>2 DEF AdminStep, Open!AdminStep, initKVServer, Open!initKVServer, setStart,
                Open!setStart, setStop, Open!setStop, shutDown, Open!shutDown, lockWrite,
                Open!lockWrite, unLockWrite, Open!unLockWrite, update, Open!update, flushData,
                Open!flushData, moveData, Open!moveData, moveLock, Open!moveLock, moveSnapshot,
                Open!moveSnapshot, moveConnect, Open!moveConnect, moveNext, Open!moveNext,
                moveReply, Open!moveReply, moveFlush, Open!moveFlush, moveUnlock,
                Open!moveUnlock, moveNothing, Open!moveNothing, TakeMetadata,
                Open!TakeMetadata, Hangs, Open!Hangs, MoveHangs, Open!MoveHangs,
                Handle, Open!Handle, FlushCollected, Open!FlushCollected,
                AdminAt, Open!AdminAt, MoveGoto, Open!MoveGoto, Accepts, Open!Accepts, Refuses,
                Open!Refuses, MoveFails, Open!MoveFails, ToSend, Open!ToSend, Send, Open!Send,
                Done, Open!Done
  <1>3. ASSUME NEW s, RunStep(s)
        PROVE  Open!RunStep(s)
    BY <1>3 DEF RunStep, Open!RunStep, initializeServer, Open!initializeServer, register,
                Open!register, clearKVStorage, Open!clearKVStorage, exit, Open!exit,
                secondFails, Open!secondFails, secondTakesOver, Open!secondTakesOver
  <1>4. ASSUME NEW s, SessionExpires(s)
        PROVE  Open!SessionExpires(s)
    BY <1>4 DEF SessionExpires, Open!SessionExpires
  <1>5. ASSUME NEW s, main(s)
        PROVE  Open!main(s)
    BY <1>5 DEF main, Open!main
  <1>6. ASSUME NEW s, mainAgain(s)
        PROVE  Open!mainAgain(s)
    BY <1>6 DEF mainAgain, Open!mainAgain
  <1>7. ASSUME NEW s, Crash(s)
        PROVE  Open!Crash(s)
    BY <1>7 DEF Crash, Open!Crash, MovesConnecting, Open!MovesConnecting
  <1>8. ASSUME NEW s, Wedge(s)
        PROVE  Open!Wedge(s)
    BY <1>8 DEF Wedge, Open!Wedge
  <1> QED
    BY <1>1, <1>2, <1>3, <1>4, <1>5, <1>6, <1>7, <1>8

-----------------------------------------------------------------------------
(* Every step of the cluster is one of OpenServers, or changes no server.  *)

OpenStep == Open!Next \/ UNCHANGED serverVars

\* What the ECS sends.
LEMMA MessagesAreECS ==
    ASSUME ECSTypeOK
    PROVE  /\ \A t \in {"START", "STOP", "SHUTDOWN"} : Message(t) \in ECSMessages
           /\ \A t \in {"INIT_SERVER", "UPDATE"} : WithMeta(t) \in ECSMessages
           /\ \A s \in Servers : IsMetadataRange(range) => MoveTo(s) \in ECSMessages
  <1> DEFINE W(t, m) == [Message(t) EXCEPT !.md = m]
             M(s, r) == [Message("MOVE_DATA") EXCEPT !.dest = s, !.range = r]
             A == {Message(t) : t \in {"START", "STOP", "SHUTDOWN"}}
             B == {W(t, m) : t \in {"INIT_SERVER", "UPDATE"}, m \in SUBSET Servers}
             C(m) == {M(s, calc_metadata(m)[n]) : s \in Servers, n \in m}
  <1>1. ECSMessages = A \cup B \cup UNION {C(m) : m \in SUBSET Servers}
    BY DEF ECSMessages
  <1>2. /\ \A t : WithMeta(t) = W(t, ecsMeta)
        /\ \A s : MoveTo(s) = M(s, range)
    BY DEF WithMeta, MoveTo
  <1>3. \A t \in {"START", "STOP", "SHUTDOWN"} : Message(t) \in A
    OBVIOUS
  <1> HIDE DEF W, M
  <1>4. \A t \in {"INIT_SERVER", "UPDATE"} : W(t, ecsMeta) \in B
    BY DEF ECSTypeOK
  <1>5. ASSUME NEW s \in Servers, IsMetadataRange(range)
        PROVE  \E m \in SUBSET Servers : M(s, range) \in C(m)
    BY <1>5 DEF IsMetadataRange
  <1> HIDE DEF A, B, C
  <1> QED
    BY <1>1, <1>2, <1>3, <1>4, <1>5

\* A request to a server and its reply.
LEMMA AskIsOpen ==
    ASSUME NEW s \in Servers, NEW m \in ECSMessages, AdminCall(s, m),
           UNCHANGED <<process, flags, data, topic, threads>>
    PROVE  OpenStep
  <1>1. Open!AdminSends(s, m)
    BY DEF AdminCall, Open!AdminCall, Open!AdminSends, Accepts, Open!Accepts,
           process, Open!process, flags, Open!flags, data, Open!data, threads, Open!threads
  <1> QED
    BY <1>1 DEF OpenStep, Open!Next, Open!EnvironmentStep

LEMMA StartNextIsOpen ==
    ASSUME NEW s \in Servers, Message("START") \in ECSMessages, AdminNext(s, Message("START")),
           UNCHANGED <<process, flags, data, topic, threads>>
    PROVE  OpenStep
  <1>1. Message("START").type = "START"
    BY DEF Message, NoAdminRequest
  <1>2. Open!AdminSends(s, Message("START"))
    BY <1>1 DEF AdminNext, Open!AdminNext, Open!AdminSends,
           process, Open!process, flags, Open!flags, data, Open!data, threads, Open!threads
  <1> QED
    BY <1>2 DEF OpenStep, Open!Next, Open!EnvironmentStep

LEMMA AdminDoneIsOpen ==
    ASSUME NEW s \in Servers, AdminDone(s),
           UNCHANGED <<process, flags, data, topic, threads>>
    PROVE  OpenStep
  <1>1. Open!AdminReceives(s)
    BY DEF AdminDone, Open!AdminDone, Open!AdminReceives, NoAdminRequest, Open!NoAdminRequest,
           NoServer, Open!NoServer,
           process, Open!process, flags, Open!flags, data, Open!data, threads, Open!threads
  <1> QED
    BY <1>1 DEF OpenStep, Open!Next, Open!EnvironmentStep

LEMMA ServersUntouched ==
    ASSUME UNCHANGED <<process, flags, data, topic, threads, admin>>
    PROVE  UNCHANGED serverVars
  BY DEF serverVars, process, flags, data, threads, admin

LEMMA ExchangeIsOpen ==
    ASSUME NEW l, NEW s \in Servers, NEW m \in ECSMessages, NEW a, NEW r, NEW n,
           Exchange(l, s, m, a, r, n)
    PROVE  OpenStep
  <1>1. CASE Ask(l, s, m)
    BY <1>1, AskIsOpen DEF Ask, TalksOnly
  <1>2. CASE AdminDone(s) /\ TalksOnly
    BY <1>2, AdminDoneIsOpen DEF TalksOnly
  <1>3. CASE UNCHANGED admin /\ TalksOnly
    BY <1>3, ServersUntouched DEF TalksOnly, OpenStep
  <1> QED
    BY <1>1, <1>2, <1>3 DEF Exchange, Answered, Lost

LEMMA RoundIsOpen ==
    ASSUME ECSTypeOK, NEW l, NEW m \in ECSMessages, NEW f, Round(l, m, f)
    PROVE  OpenStep
  <1>1. PICK s \in todo : \/ Ask(l, s, m)
                          \/ AdminDone(s) /\ TalksOnly
                          \/ UNCHANGED admin /\ TalksOnly
    BY DEF Round, Answered, Lost
  <1>2. s \in Servers
    BY DEF ECSTypeOK
  <1>3. CASE Ask(l, s, m)
    BY <1>2, <1>3, AskIsOpen DEF Ask, TalksOnly
  <1>4. CASE AdminDone(s) /\ TalksOnly
    BY <1>2, <1>4, AdminDoneIsOpen DEF TalksOnly
  <1>5. CASE UNCHANGED admin /\ TalksOnly
    BY <1>5, ServersUntouched DEF TalksOnly, OpenStep
  <1> QED
    BY <1>1, <1>3, <1>4, <1>5

\* The steps of the ECS.
LEMMA NewCommandIsOpen ==
    ASSUME NewCommand
    PROVE  OpenStep
  <1>1. ASSUME NEW n \in Servers, addNode(n)
        PROVE  OpenStep
    <2>1. Open!main(n) \/ Open!mainAgain(n)
      BY <1>1, SameSteps DEF addNode
    <2> QED
      BY <2>1 DEF OpenStep, Open!Next, Open!EnvironmentStep
  <1>2. ASSUME NEW n \in Servers, removeNode(n)
        PROVE  OpenStep
    BY <1>2 DEF removeNode, Local, OpenStep
  <1>3. CASE start \/ stop \/ shutdown \/ quit
    BY <1>3 DEF start, stop, shutdown, quit, Local, OpenStep
  <1> QED
    BY <1>1, <1>2, <1>3 DEF NewCommand

LEMMA CommandStepIsOpen ==
    ASSUME ECSInv, CommandStep
    PROVE  OpenStep
  <1> USE DEF ECSInv
  <1>1. node \in Servers /\ peer \in Servers
    BY DEF ECSTypeOK
  <1>2. CASE \/ awaitJoin \/ joined \/ roundDone \/ left \/ awaitLeave \/ failed
             \/ awaitShutdown \/ connectHangs
    BY <1>2 DEF awaitJoin, joined, roundDone, left, awaitLeave, failed, awaitShutdown,
                connectHangs, Local, OpenStep
  <1>3. CASE sendInit
    <2>1. CASE Ask("init", node, WithMeta("INIT_SERVER"))
      BY <1>1, <2>1, MessagesAreECS, AskIsOpen DEF Ask, TalksOnly
    <2>2. CASE AdminNext(node, Message("START")) /\ TalksOnly
      BY <1>1, <2>2, MessagesAreECS, StartNextIsOpen DEF TalksOnly
    <2>3. CASE AdminDone(node) /\ TalksOnly
      BY <1>1, <2>3, AdminDoneIsOpen DEF TalksOnly
    <2>4. CASE UNCHANGED admin /\ TalksOnly
      BY <2>4, ServersUntouched DEF TalksOnly, OpenStep
    <2> QED
      BY <1>3, <2>1, <2>2, <2>3, <2>4 DEF sendInit, Lost
  <1>4. CASE sendStart
    BY <1>1, <1>4, AdminDoneIsOpen DEF sendStart, Answered, Lost, TalksOnly
  <1>5. CASE sendJoinMove
    <2>1. activeServers # {} /\ epc = "join"
      BY <1>5, ExchangeGoes DEF sendJoinMove
    <2>2. MoveTo(node) \in ECSMessages
      BY <1>1, <2>1, MessagesAreECS DEF RangeKnown
    <2> QED
      BY <1>1, <1>5, <2>2, ExchangeIsOpen DEF sendJoinMove
  <1>6. CASE UpdateAllNodesMeta
    BY <1>6, MessagesAreECS, RoundIsOpen DEF UpdateAllNodesMeta
  <1>7. CASE sendHeirUpdate
    BY <1>1, <1>7, MessagesAreECS, ExchangeIsOpen DEF sendHeirUpdate
  <1>8. CASE sendLeaveMove
    <2>1. epc = "leave"
      BY <1>8, ExchangeGoes DEF sendLeaveMove
    <2>2. MoveTo(peer) \in ECSMessages
      BY <1>1, <2>1, MessagesAreECS DEF RangeKnown
    <2> QED
      BY <1>1, <1>8, <2>2, ExchangeIsOpen DEF sendLeaveMove
  <1>9. CASE shutdown_server
    <2>1. Message("SHUTDOWN") \in ECSMessages
      BY MessagesAreECS
    <2>2. \/ Ask("shutdown_server", node, Message("SHUTDOWN"))
          \/ AdminDone(node) /\ TalksOnly
          \/ UNCHANGED admin /\ TalksOnly
      BY <1>9 DEF shutdown_server, Answered, Lost
    <2>3. CASE Ask("shutdown_server", node, Message("SHUTDOWN"))
      BY <1>1, <2>1, <2>3, AskIsOpen DEF Ask, TalksOnly
    <2>4. CASE AdminDone(node) /\ TalksOnly
      BY <1>1, <2>4, AdminDoneIsOpen DEF TalksOnly
    <2>5. CASE UNCHANGED admin /\ TalksOnly
      BY <2>5, ServersUntouched DEF TalksOnly, OpenStep
    <2> QED
      BY <2>2, <2>3, <2>4, <2>5
  <1>10. CASE sendStarts
    BY <1>10, MessagesAreECS, RoundIsOpen DEF sendStarts
  <1>11. CASE sendStops
    BY <1>11, MessagesAreECS, RoundIsOpen DEF sendStops
  <1>12. CASE sendShutdowns
    <2>1. Message("SHUTDOWN") \in ECSMessages
      BY MessagesAreECS
    <2>2. PICK s \in activeServers : AdminCall(s, Message("SHUTDOWN")) \/ UNCHANGED admin
      BY <1>12 DEF sendShutdowns
    <2>3. s \in Servers /\ TalksOnly
      BY <1>12 DEF ECSTypeOK, sendShutdowns
    <2> QED
      BY <2>1, <2>2, <2>3, AskIsOpen, ServersUntouched DEF TalksOnly, OpenStep
  <1> QED
    BY <1>2, <1>3, <1>4, <1>5, <1>6, <1>7, <1>8, <1>9, <1>10, <1>11, <1>12 DEF CommandStep

-----------------------------------------------------------------------------
(* The client library and its connections.                                 *)

\* What the client is at agrees with what its connection is at.
Conversation(c) ==
    /\ cst[c] = "off" => pc[c] = "none"
    /\ cst[c] \in {"ready", "route", "send", "hung"} => pc[c] \in {"none", "idle", "closed"}
    /\ cst[c] = "wait" => pc[c] \in Serving \cup {"reply", "closed"}
    /\ pc[c] # "reply" => rep[c] = NoReply
    /\ pc[c] = "none" => to[c] = NoServer
    /\ cst[c] \in {"route", "send", "wait", "hung"} => op[c] \in ClientRequests

LEMMA CloseIsOpen ==
    ASSUME ThreadsOK, NEW c \in Clients, Conversation(c), pc[c] \in {"none", "idle", "closed"},
           Done(c, "none"), ClientOnly
    PROVE  OpenStep
  <1>1. CASE pc[c] = "none"
    <2>1. c \in Peers /\ rep[c] = NoReply /\ to[c] = NoServer
      BY <1>1 DEF Peers, Conversation
    <2>2. pc' = pc /\ to' = to /\ rep' = rep
      BY <1>1, <2>1 DEF Done, ThreadsOK
    <2>3. UNCHANGED threads
      BY <2>2 DEF threads, Done
    <2> QED
      BY <2>3, ServersUntouched DEF ClientOnly, OpenStep
  <1>2. CASE pc[c] \in {"idle", "closed"}
    <2>1. Open!ClientCloses(c)
      BY <1>2 DEF ClientOnly, Open!ClientCloses, Done, Open!Done, NoServer, Open!NoServer,
                  NoReply, Open!NoReply, process, Open!process, flags, Open!flags,
                  data, Open!data, admin, Open!admin
    <2> QED
      BY <2>1 DEF OpenStep, Open!Next, Open!EnvironmentStep
  <1> QED
    BY <1>1, <1>2

LEMMA ConnectIsOpen ==
    ASSUME NEW c \in Clients, NEW s \in Servers, pc[c] \in {"none", "idle", "closed"},
           Accepts(s), pc' = [pc EXCEPT ![c] = "idle"], to' = [to EXCEPT ![c] = s],
           UNCHANGED <<req, found, rep>>, ClientOnly
    PROVE  OpenStep
  <1>1. Open!ClientConnects(c, s)
    BY DEF ClientOnly, Open!ClientConnects, Accepts, Open!Accepts, process, Open!process,
           flags, Open!flags, data, Open!data, admin, Open!admin
  <1> QED
    BY <1>1 DEF OpenStep, Open!Next, Open!EnvironmentStep

LEMMA ReceiveIsOpen ==
    ASSUME NEW c \in Clients, pc[c] = "reply", Done(c, "idle"), ClientOnly
    PROVE  OpenStep
  <1>1. Open!ClientReceives(c)
    BY DEF ClientOnly, Open!ClientReceives, Done, Open!Done, NoServer, Open!NoServer,
           NoReply, Open!NoReply, process, Open!process, flags, Open!flags,
           data, Open!data, admin, Open!admin
  <1> QED
    BY <1>1 DEF OpenStep, Open!Next, Open!EnvironmentStep

LEMMA ClientStepIsOpen ==
    ASSUME ThreadsOK, StoreTypeOK, NEW c \in Clients, Conversation(c),
           \/ \E s \in Servers : connect(c, s)
           \/ \E r \in ClientRequests : request(c, r)
           \/ disconnect(c) \/ StoreStep(c)
    PROVE  OpenStep
  <1>1. ASSUME NEW s \in Servers, connect(c, s)
        PROVE  OpenStep
    BY <1>1, ConnectIsOpen DEF connect
  <1>2. ASSUME NEW r \in ClientRequests, request(c, r)
        PROVE  OpenStep
    BY <1>2, ServersUntouched DEF request, ClientOnly, OpenStep
  <1>3. CASE disconnect(c)
    BY <1>3, CloseIsOpen DEF disconnect, Conversation
  <1>4. CASE connectCorrServer(c)
    <2>1. /\ pc[c] \in {"none", "idle", "closed"} /\ ClientOnly /\ UNCHANGED <<req, found>>
      BY <1>4 DEF connectCorrServer, Conversation
    <2>2. PICK s \in Owners(op[c].key, cmeta[c]) :
             \/ UNCHANGED <<pc, to, rep>>
             \/ /\ Accepts(s) /\ pc' = [pc EXCEPT ![c] = "idle"] /\ to' = [to EXCEPT ![c] = s]
                /\ UNCHANGED rep
             \/ Done(c, "none")
      BY <1>4 DEF connectCorrServer
    <2>3. s \in Servers
      BY DEF Owners, StoreTypeOK
    <2>4. CASE UNCHANGED <<pc, to, rep>>
      BY <2>1, <2>4, ServersUntouched DEF ClientOnly, threads, OpenStep
    <2>5. CASE /\ Accepts(s) /\ pc' = [pc EXCEPT ![c] = "idle"] /\ to' = [to EXCEPT ![c] = s]
               /\ UNCHANGED rep
      BY <2>1, <2>3, <2>5, ConnectIsOpen
    <2>6. CASE Done(c, "none")
      BY <2>1, <2>6, CloseIsOpen
    <2> QED
      BY <2>2, <2>4, <2>5, <2>6
  <1>5. CASE sendMsg(c)
    <2>1. CASE pc[c] = "idle"
      <3>1. Open!ClientSends(c, op[c]) /\ op[c] \in ClientRequests
        BY <1>5, <2>1 DEF sendMsg, Conversation, ClientOnly, Open!ClientSends, Send, Open!Send,
              process, Open!process, flags, Open!flags, data, Open!data, admin, Open!admin
      <3> QED
        BY <3>1 DEF OpenStep, Open!Next, Open!EnvironmentStep
    <2>2. CASE pc[c] # "idle"
      BY <1>5, <2>2, CloseIsOpen DEF sendMsg, Fails, Conversation
    <2> QED
      BY <2>1, <2>2
  <1>6. CASE redirected(c) \/ replied(c)
    BY <1>6, ReceiveIsOpen DEF redirected, replied
  <1>7. CASE lost(c)
    BY <1>7, CloseIsOpen DEF lost, Fails
  <1>8. CASE callHangs(c)
    BY <1>8, ServersUntouched DEF callHangs, ClientOnly, OpenStep
  <1> QED
    BY <1>1, <1>2, <1>3, <1>4, <1>5, <1>6, <1>7, <1>8 DEF StoreStep

\* Every step of the cluster.
LEMMA StepIsOpen ==
    ASSUME ThreadsOK, StoreTypeOK, ECSInv, \A c \in Clients : Conversation(c), [Next]_vars
    PROVE  OpenStep
  <1>1. ASSUME NEW p \in Peers, ServeThread(p)
        PROVE  OpenStep
    <2>1. Open!ServeStep(p) /\ p \in Open!Peers
      BY <1>1, SameSteps DEF ServeThread, Peers, Open!Peers
    <2> QED
      BY <2>1 DEF OpenStep, Open!Next
  <1>2. ASSUME NEW s \in Servers, AdminThread(s) \/ MainThread(s) \/ Expiry(s)
        PROVE  OpenStep
    <2>1. Open!AdminStep(s) \/ Open!RunStep(s) \/ Open!SessionExpires(s)
      BY <1>2, SameSteps DEF AdminThread, MainThread, Expiry
    <2> QED
      BY <2>1 DEF OpenStep, Open!Next
  <1>3. ASSUME NEW s \in Servers, Killed(s) \/ Wedged(s)
        PROVE  OpenStep
    <2>1. Open!Crash(s) \/ Open!Wedge(s)
      BY <1>3, SameSteps DEF Killed, Wedged
    <2> QED
      BY <2>1 DEF OpenStep, Open!Next, Open!EnvironmentStep
  <1>4. CASE Command
    BY <1>4, NewCommandIsOpen DEF Command
  <1>5. CASE ECSThread
    BY <1>5, CommandStepIsOpen DEF ECSThread
  <1>6. CASE ECSRestart \/ ECSDies
    BY <1>6 DEF ECSRestart, ECSDies, Restart, ECSKilled, Local, OpenStep
  <1>7. ASSUME NEW c \in Clients,
               \/ \E s \in Servers : ClientConnects(c, s)
               \/ \E r \in ClientRequests : ClientRequest(c, r)
               \/ ClientDisconnects(c) \/ ClientThread(c)
        PROVE  OpenStep
    BY <1>7, ClientStepIsOpen
       DEF ClientConnects, ClientRequest, ClientDisconnects, ClientThread
  <1>8. CASE UNCHANGED vars
    BY <1>8 DEF vars, OpenStep
  <1> QED
    BY <1>1, <1>2, <1>3, <1>4, <1>5, <1>6, <1>7, <1>8 DEF Next

-----------------------------------------------------------------------------
(* What is proved of OpenServers holds of the servers of the cluster.      *)

OP == INSTANCE OpenServersProofs WITH AdminMsgs <- ECSMessages, Relaunch <- TRUE

\* The ECS asks for what servers understand.
LEMMA ECSMessagesTyped == ECSMessages \subseteq AdminRequests
  <1> DEFINE W(t, m) == [Message(t) EXCEPT !.md = m]
             M(s, r) == [Message("MOVE_DATA") EXCEPT !.dest = s, !.range = r]
  <1>1. NoServer \in Servers /\ NoServer \in Positions /\ 0 \in 0 .. RingSize
    BY NoServerIsServer, ServersAssumption, RingSizeAssumption
  <1>2. \A t \in {"START", "STOP", "SHUTDOWN", "INIT_SERVER", "UPDATE", "MOVE_DATA"} :
          Message(t) \in AdminRequests
    <2>1. [start |-> 0, end |-> NoServer] \in Ranges
      BY <1>1 DEF Ranges
    <2> QED
      BY <1>1, <2>1 DEF Message, NoAdminRequest, AdminRequests
  <1>3. \A t \in {"INIT_SERVER", "UPDATE"}, m \in SUBSET Servers : W(t, m) \in AdminRequests
    BY <1>2 DEF AdminRequests
  <1>4. \A s \in Servers, r \in Ranges : M(s, r) \in AdminRequests
    BY <1>2 DEF AdminRequests
  <1>5. \A m \in SUBSET Servers : \A n \in m : calc_metadata(m)[n] \in Ranges
    BY RangeTypes, ServersAssumption DEF Ranges
  <1> HIDE DEF W, M
  <1>6. \A m \in SUBSET Servers :
          {M(s, calc_metadata(m)[n]) : s \in Servers, n \in m} \subseteq AdminRequests
    BY <1>4, <1>5
  <1>7. {W(t, m) : t \in {"INIT_SERVER", "UPDATE"}, m \in SUBSET Servers} \subseteq AdminRequests
    BY <1>3
  <1>8. ECSMessages =
          {Message(t) : t \in {"START", "STOP", "SHUTDOWN"}}
          \cup {W(t, m) : t \in {"INIT_SERVER", "UPDATE"}, m \in SUBSET Servers}
          \cup UNION {{M(s, calc_metadata(m)[n]) : s \in Servers, n \in m} : m \in SUBSET Servers}
    BY DEF ECSMessages, W, M
  <1> QED
    BY <1>2, <1>6, <1>7, <1>8

\* Definition by definition, OP is Open and its invariant that of the servers here.
LEMMA OpenNextIsOP == Open!Next => OP!Next
  BY DEF
    Open!Next, OP!Next, Open!Peers, OP!Peers, Open!ServeStep, OP!ServeStep, Open!AdminStep,
    OP!AdminStep, Open!RunStep, OP!RunStep, Open!SessionExpires, OP!SessionExpires,
    Open!EnvironmentStep, OP!EnvironmentStep, Open!serve, OP!serve, Open!isWriteLock,
    OP!isWriteLock, Open!checkRange, OP!checkRange, Open!getMetadata, OP!getMetadata, Open!getKV,
    OP!getKV, Open!inStorage, OP!inStorage, Open!pub, OP!pub, Open!put, OP!put,
    Open!initKVServer, OP!initKVServer, Open!setStart, OP!setStart, Open!setStop, OP!setStop,
    Open!shutDown, OP!shutDown, Open!lockWrite, OP!lockWrite, Open!unLockWrite, OP!unLockWrite,
    Open!update, OP!update, Open!flushData, OP!flushData, Open!moveData, OP!moveData,
    Open!moveLock, OP!moveLock, Open!moveSnapshot, OP!moveSnapshot, Open!moveConnect,
    OP!moveConnect, Open!moveNext, OP!moveNext, Open!moveReply, OP!moveReply, Open!moveFlush,
    OP!moveFlush, Open!moveUnlock, OP!moveUnlock, Open!initializeServer, OP!initializeServer,
    Open!register, OP!register, Open!clearKVStorage, OP!clearKVStorage, Open!exit, OP!exit,
    Open!secondFails, OP!secondFails, Open!secondTakesOver, OP!secondTakesOver, Open!flags,
    OP!flags, Open!data, OP!data, Open!threads, OP!threads, Open!admin, OP!admin,
    Open!ClientConnects, OP!ClientConnects, Open!ClientSends, OP!ClientSends,
    Open!ClientReceives, OP!ClientReceives, Open!ClientCloses, OP!ClientCloses, Open!main,
    OP!main, Open!Crash, OP!Crash, Open!AdminReceives, OP!AdminReceives, Open!mainAgain,
    OP!mainAgain, Open!AdminSends, OP!AdminSends, Open!At, OP!At, Open!Reply, OP!Reply,
    Open!Goto, OP!Goto, Open!process, OP!process, Open!NoEntry, OP!NoEntry, Open!ThreadDies,
    OP!ThreadDies, Open!Responsible, OP!Responsible, Open!Handle, OP!Handle, Open!FlushCollected,
    OP!FlushCollected, Open!AdminAt, OP!AdminAt, Open!MoveGoto, OP!MoveGoto, Open!inRange,
    OP!inRange, Open!Serving, OP!Serving, Open!Accepts, OP!Accepts, Open!NoReply, OP!NoReply,
    Open!Refuses, OP!Refuses, Open!MoveFails, OP!MoveFails, Open!ToSend, OP!ToSend, Open!Send,
    OP!Send, Open!Done, OP!Done, Open!Empty, OP!Empty, Open!ProcessEnds, OP!ProcessEnds,
    Open!Interrupted, OP!Interrupted, Open!MidWrite, OP!MidWrite, Open!Launch, OP!Launch,
    Open!AdminDone, OP!AdminDone, Open!AdminCall, OP!AdminCall, Open!Running, OP!Running,
    Open!NoRequest, OP!NoRequest, Open!calc_metadata, OP!calc_metadata, Open!NoServer,
    OP!NoServer, Open!NoAdminRequest, OP!NoAdminRequest, Open!Flushing, OP!Flushing,
    Open!Wedge, OP!Wedge, Open!MovesConnecting, OP!MovesConnecting, Open!Listens, OP!Listens,
    Open!Hangs, OP!Hangs, Open!MoveHangs, OP!MoveHangs, Open!moveNothing, OP!moveNothing,
    Open!TakeMetadata, OP!TakeMetadata, Open!AdminNext, OP!AdminNext,
    Open!FirstNode, OP!FirstNode, Open!LastNode, OP!LastNode, Open!Predecessor, OP!Predecessor

LEMMA ServerInvIsOP == (ServerInv <=> OP!ServerInv) /\ (ServerInv' <=> OP!ServerInv')
  BY DEF
    ServerInv, OP!ServerInv, TypeOK, OP!TypeOK, MoveHoldsLock, OP!MoveHoldsLock, ServedByRunning,
    OP!ServedByRunning, MoveConnection, OP!MoveConnection, ProcessOK, OP!ProcessOK, FlagsOK,
    OP!FlagsOK, DataOK, OP!DataOK, ThreadsOK, OP!ThreadsOK, AdminOK, OP!AdminOK, Locked,
    OP!Locked, Peers, OP!Peers, Serving, OP!Serving, Running, OP!Running, Connected,
    OP!Connected, Stored, OP!Stored, Announcements, OP!Announcements, Requests, OP!Requests,
    Replies, OP!Replies, Moving, OP!Moving, AdminRequests, OP!AdminRequests, AdminReplies,
    OP!AdminReplies, Statuses, OP!Statuses, Ranges, OP!Ranges, Positions, OP!Positions

LEMMA ServerInitIsOP == ServerInit => OP!ServerInit
  BY DEF
    ServerInit, OP!ServerInit, Empty, OP!Empty, Peers, OP!Peers, NoServer, OP!NoServer,
    NoRequest, OP!NoRequest, NoReply, OP!NoReply, NoAdminRequest, OP!NoAdminRequest

LEMMA ServerInitIsOpen == ServerInit => Open!ServerInit
  BY DEF
    ServerInit, Open!ServerInit, Empty, Open!Empty, Peers, Open!Peers, NoServer, Open!NoServer,
    NoRequest, Open!NoRequest, NoReply, Open!NoReply, NoAdminRequest, Open!NoAdminRequest

\* The assumptions of OpenServers hold of that instance.
LEMMA OPAssumptions ==
    /\ RingSize \in Nat /\ RingSize >= 2 /\ Servers \subseteq OP!Positions /\ Servers # {}
    /\ Keys \subseteq OP!Ring /\ Keys # {} /\ LongKeys \subseteq Keys
    /\ ClientRequests \subseteq OP!Requests /\ ECSMessages \subseteq OP!AdminRequests
    /\ Brokerless \subseteq Servers /\ Null \notin OP!Ranges
  BY RingSizeAssumption, ServersAssumption, KeysAssumption, ClientRequestsAssumption,
     ECSMessagesTyped, BrokerlessAssumption, NullNoRange
     DEF Positions, OP!Positions, Ring, OP!Ring, Requests, OP!Requests, Stored, OP!Stored,
         AdminRequests, OP!AdminRequests, Ranges, OP!Ranges

LEMMA ServerInit_Inv == ServerInit => ServerInv
  BY OP!InitInv, OPAssumptions, ServerInitIsOP, ServerInvIsOP, NullAssumption,
     ClientsAssumption, MayCrashAssumption

LEMMA OpenStepInv ==
    ASSUME ServerInv, OpenStep
    PROVE  ServerInv'
  <1>1. OP!ServerInv /\ [OP!Next]_(OP!serverVars)
    BY ServerInvIsOP, OpenNextIsOP DEF OpenStep, serverVars, OP!serverVars
  <1>2. OP!ServerInv'
    BY <1>1, OP!NextInv, OPAssumptions, NullAssumption, ClientsAssumption, MayCrashAssumption
  <1> QED
    BY <1>2, ServerInvIsOP

-----------------------------------------------------------------------------
(* The clients' side of their connections.                                 *)

\* A client whose connection does not change.
LEMMA ConversationKept ==
    ASSUME NEW c, Conversation(c), UNCHANGED <<cst, op>>,
           pc'[c] = pc[c], to'[c] = to[c], rep'[c] = rep[c]
    PROVE  Conversation(c)'
  BY DEF Conversation

\* The servers' steps.
LEMMA ServeConversation ==
    ASSUME ThreadsOK, StoreTypeOK, NEW p \in Peers, NEW c \in Clients, Conversation(c),
           ServeStep(p), UNCHANGED <<cst, op>>
    PROVE  Conversation(c)'
  <1>1. c \in Peers
    BY DEF Peers
  <1>2. /\ pc[p] \in Serving /\ UNCHANGED to
        /\ \/ /\ \E l \in Serving \cup {"closed"} : pc' = [pc EXCEPT ![p] = l]
              /\ UNCHANGED rep
           \/ /\ pc' = [pc EXCEPT ![p] = "reply"]
              /\ \E r : rep' = [rep EXCEPT ![p] = r]
    <2> USE DEF Reply, Goto, ThreadDies, At, Serving
    <2>1. CASE serve(p)
      BY <2>1 DEF serve
    <2>2. CASE isWriteLock(p)
      BY <2>2 DEF isWriteLock
    <2>3. CASE checkRange(p)
      BY <2>3 DEF checkRange
    <2>4. CASE getMetadata(p)
      BY <2>4 DEF getMetadata
    <2>5. CASE getKV(p)
      BY <2>5 DEF getKV
    <2>6. CASE inStorage(p)
      BY <2>6 DEF inStorage
    <2>7. CASE pub(p)
      BY <2>7 DEF pub
    <2>8. CASE put(p)
      BY <2>8 DEF put
    <2> QED
      BY <2>1, <2>2, <2>3, <2>4, <2>5, <2>6, <2>7, <2>8 DEF ServeStep
  <1>3. CASE p # c
    <2>1. pc'[c] = pc[c] /\ rep'[c] = rep[c]
      BY <1>1, <1>2, <1>3 DEF ThreadsOK
    <2> QED
      BY <1>2, <2>1, ConversationKept
  <1>4. CASE p = c
    <2>1. pc[c] \notin {"none", "idle", "closed", "reply"}
      BY <1>2, <1>4 DEF Serving
    <2>2. cst[c] = "wait" /\ rep[c] = NoReply
      BY <2>1 DEF Conversation, StoreTypeOK
    <2>3. /\ pc'[c] \in Serving \cup {"reply", "closed"}
          /\ pc'[c] # "reply" => rep'[c] = rep[c]
      BY <1>1, <1>2, <1>4 DEF ThreadsOK
    <2>4. pc'[c] # "none"
      BY <2>3 DEF Serving
    <2> QED
      BY <2>2, <2>3, <2>4 DEF Conversation
  <1> QED
    BY <1>3, <1>4

LEMMA AdminConversation ==
    ASSUME ThreadsOK, NEW s \in Servers, NEW c \in Clients, Conversation(c),
           AdminStep(s), UNCHANGED <<cst, op>>
    PROVE  Conversation(c)'
  <1>1. c \in Peers /\ c # s
    BY ClientsAssumption DEF Peers
  <1>2. /\ pc' = pc \/ \E l : pc' = [pc EXCEPT ![s] = l]
        /\ to' = to \/ \E t : to' = [to EXCEPT ![s] = t]
        /\ rep' = rep \/ \E r : rep' = [rep EXCEPT ![s] = r]
    <2> USE DEF threads
    <2>1. CASE \/ initKVServer(s) \/ setStart(s) \/ setStop(s) \/ shutDown(s) \/ lockWrite(s)
               \/ unLockWrite(s) \/ update(s) \/ flushData(s) \/ moveNothing(s)
      BY <2>1 DEF initKVServer, setStart, setStop, shutDown, lockWrite, unLockWrite, update,
                  TakeMetadata, flushData, moveNothing, Handle
    <2>2. CASE moveData(s) \/ moveLock(s) \/ moveSnapshot(s) \/ moveFlush(s)
      BY <2>2 DEF moveData, moveLock, moveSnapshot, moveFlush
    <2>3. CASE moveConnect(s)
      BY <2>3 DEF moveConnect
    <2>4. CASE moveNext(s)
      BY <2>4 DEF moveNext, Send
    <2>5. CASE moveReply(s)
      BY <2>5 DEF moveReply, Done
    <2>6. CASE moveUnlock(s)
      BY <2>6 DEF moveUnlock, Done
    <2> QED
      BY <2>1, <2>2, <2>3, <2>4, <2>5, <2>6 DEF AdminStep
  <1>3. pc'[c] = pc[c] /\ to'[c] = to[c] /\ rep'[c] = rep[c]
    BY <1>1, <1>2 DEF ThreadsOK
  <1> QED
    BY <1>3, ConversationKept

LEMMA EndConversation ==
    ASSUME ThreadsOK, NEW s \in Servers, NEW c \in Clients, Conversation(c),
           NEW cut, ProcessEnds(s, cut), UNCHANGED <<cst, op>>
    PROVE  Conversation(c)'
  <1>1. c \in Peers /\ c # s
    BY ClientsAssumption DEF Peers
  <1>2. CASE to[c] # s
    <2>1. pc'[c] = pc[c] /\ to'[c] = to[c] /\ rep'[c] = rep[c]
      BY <1>1, <1>2 DEF ProcessEnds
    <2> QED
      BY <2>1, ConversationKept
  <1>3. CASE to[c] = s
    <2>1. pc'[c] = (IF pc[c] = "none" THEN "none" ELSE "closed") /\ rep'[c] = NoReply /\ to' = to
      BY <1>1, <1>3 DEF ProcessEnds
    <2> QED
      BY <2>1 DEF Conversation, Serving
  <1> QED
    BY <1>2, <1>3

LEMMA ProcessConversation ==
    ASSUME ThreadsOK, NEW s \in Servers, NEW c \in Clients, Conversation(c),
           RunStep(s) \/ SessionExpires(s) \/ Crash(s) \/ Wedge(s), UNCHANGED <<cst, op>>
    PROVE  Conversation(c)'
  <1>1. CASE exit(s) \/ Crash(s)
    BY <1>1, EndConversation DEF exit, Crash
  <1>2. CASE UNCHANGED threads
    BY <1>2, ConversationKept DEF threads
  <1>3. exit(s) \/ Crash(s) \/ UNCHANGED threads
    BY DEF RunStep, initializeServer, register, clearKVStorage, secondFails, secondTakesOver,
           Launch, SessionExpires, Wedge
  <1> QED
    BY <1>1, <1>2, <1>3

\* A client that connects to a server that is killed may hang.
LEMMA KilledConversation ==
    ASSUME ThreadsOK, NEW s \in Servers, NEW c \in Clients, Conversation(c), Crash(s), op' = op,
           cst'[c] = cst[c] \/ (cst[c] = "route" /\ cst'[c] = "hung")
    PROVE  Conversation(c)'
  <1>1. PICK cut : ProcessEnds(s, cut)
    BY DEF Crash
  <1>2. c \in Peers /\ c # s
    BY ClientsAssumption DEF Peers
  <1>3. CASE to[c] # s
    <2>1. pc'[c] = pc[c] /\ to'[c] = to[c] /\ rep'[c] = rep[c]
      BY <1>1, <1>2, <1>3 DEF ProcessEnds
    <2> QED
      BY <2>1 DEF Conversation
  <1>4. CASE to[c] = s
    <2>1. pc'[c] = (IF pc[c] = "none" THEN "none" ELSE "closed") /\ rep'[c] = NoReply /\ to' = to
      BY <1>1, <1>2, <1>4 DEF ProcessEnds
    <2> QED
      BY <2>1 DEF Conversation, Serving
  <1> QED
    BY <1>3, <1>4

\* A client's own steps.  Nothing of another client changes in them.
LEMMA OtherClients ==
    ASSUME ThreadsOK, StoreTypeOK, NEW c \in Clients, NEW d \in Clients, d # c, Conversation(d),
           \/ \E s \in Servers : connect(c, s)
           \/ \E r \in ClientRequests : request(c, r)
           \/ disconnect(c) \/ StoreStep(c)
    PROVE  Conversation(d)'
  <1>1. c \in Peers /\ d \in Peers
    BY DEF Peers
  <1>2. /\ pc' = pc \/ \E l : pc' = [pc EXCEPT ![c] = l]
        /\ to' = to \/ \E t : to' = [to EXCEPT ![c] = t]
        /\ rep' = rep \/ \E r : rep' = [rep EXCEPT ![c] = r]
        /\ cst' = cst \/ \E l : cst' = [cst EXCEPT ![c] = l]
        /\ op' = op \/ \E r : op' = [op EXCEPT ![c] = r]
    <2> USE DEF Done
    <2>1. ASSUME NEW s \in Servers, connect(c, s)
          PROVE  <1>2!1 /\ <1>2!2 /\ <1>2!3 /\ <1>2!4 /\ <1>2!5
      BY <2>1 DEF connect
    <2>2. ASSUME NEW r \in ClientRequests, request(c, r)
          PROVE  <1>2!1 /\ <1>2!2 /\ <1>2!3 /\ <1>2!4 /\ <1>2!5
      BY <2>2 DEF request, threads
    <2>3. CASE disconnect(c)
      BY <2>3 DEF disconnect
    <2>4. CASE connectCorrServer(c)
      BY <2>4 DEF connectCorrServer
    <2>5. CASE sendMsg(c)
      BY <2>5 DEF sendMsg, Send, Fails
    <2>6. CASE redirected(c) \/ replied(c)
      BY <2>6 DEF redirected, replied
    <2>7. CASE lost(c)
      BY <2>7 DEF lost, Fails
    <2>8. CASE callHangs(c)
      BY <2>8 DEF callHangs, threads
    <2> QED
      BY <2>1, <2>2, <2>3, <2>4, <2>5, <2>6, <2>7, <2>8 DEF StoreStep
  <1>3. /\ pc'[d] = pc[d] /\ to'[d] = to[d] /\ rep'[d] = rep[d]
        /\ cst'[d] = cst[d] /\ op'[d] = op[d]
    BY <1>1, <1>2 DEF ThreadsOK, StoreTypeOK
  <1> QED
    BY <1>3 DEF Conversation

LEMMA OwnConversation ==
    ASSUME ThreadsOK, StoreTypeOK, NEW c \in Clients, Conversation(c),
           \/ \E s \in Servers : connect(c, s)
           \/ \E r \in ClientRequests : request(c, r)
           \/ disconnect(c) \/ StoreStep(c)
    PROVE  Conversation(c)'
  <1>1. c \in Peers /\ Clients \subseteq Peers
    BY DEF Peers
  <1> USE <1>1 DEF ThreadsOK, StoreTypeOK
  <1>2. ASSUME NEW s \in Servers, connect(c, s)
        PROVE  Conversation(c)'
    BY <1>2 DEF connect, Conversation
  <1>3. ASSUME NEW r \in ClientRequests, request(c, r)
        PROVE  Conversation(c)'
    BY <1>3 DEF request, Conversation, threads
  <1>4. ASSUME Done(c, "none"), cst'[c] \in {"off", "send"},
               cst'[c] = "send" => op'[c] \in ClientRequests
        PROVE  Conversation(c)'
    BY <1>4 DEF Done, Conversation
  <1>5. CASE disconnect(c)
    BY <1>4, <1>5 DEF disconnect
  <1>6. CASE connectCorrServer(c)
    <2>1. cst[c] = "route" /\ cst'[c] = "send" /\ op' = op /\ op[c] \in ClientRequests
      BY <1>6 DEF connectCorrServer, Conversation
    <2>2. \/ UNCHANGED <<pc, to, rep>>
          \/ /\ pc' = [pc EXCEPT ![c] = "idle"]
             /\ \E s : to' = [to EXCEPT ![c] = s]
             /\ UNCHANGED rep
          \/ Done(c, "none")
      BY <1>6 DEF connectCorrServer
    <2>3. CASE UNCHANGED <<pc, to, rep>>
      BY <2>1, <2>3 DEF Conversation
    <2>4. CASE /\ pc' = [pc EXCEPT ![c] = "idle"]
               /\ UNCHANGED rep
      BY <2>1, <2>4 DEF Conversation
    <2> QED
      BY <1>4, <2>1, <2>2, <2>3, <2>4
  <1>7. CASE sendMsg(c)
    <2>1. CASE pc[c] = "idle"
      <3>1. /\ pc'[c] = "isStopped" /\ rep'[c] = NoReply
            /\ cst[c] = "send" /\ cst'[c] = "wait" /\ op' = op
        BY <1>7, <2>1 DEF sendMsg, Send, Conversation
      <3> QED
        BY <3>1 DEF Conversation, Serving
    <2>2. CASE pc[c] # "idle"
      BY <1>4, <1>7, <2>2 DEF sendMsg, Fails
    <2> QED
      BY <2>1, <2>2
  <1>8. CASE redirected(c)
    BY <1>8 DEF redirected, Done, Conversation
  <1>9. CASE replied(c)
    BY <1>9 DEF replied, Done, Conversation
  <1>10. CASE lost(c)
    BY <1>4, <1>10 DEF lost, Fails
  <1>11. CASE callHangs(c)
    <2>1. cst[c] = "route" /\ cst'[c] = "hung" /\ UNCHANGED <<pc, to, rep, op>>
      BY <1>11 DEF callHangs, Routes, threads
    <2> QED
      BY <2>1 DEF Conversation
  <1> QED
    BY <1>2, <1>3, <1>5, <1>6, <1>7, <1>8, <1>9, <1>10, <1>11 DEF StoreStep

\* The types of the client library's variables.
LEMMA StoreTypes ==
    ASSUME ThreadsOK, StoreTypeOK, NEW c \in Clients,
           \/ \E s \in Servers : connect(c, s)
           \/ \E r \in ClientRequests : request(c, r)
           \/ disconnect(c) \/ StoreStep(c)
    PROVE  StoreTypeOK'
  <1>1. c \in Peers /\ NoServer \in Servers /\ NoRequest \in Requests
    BY NoServerIsServer, KeysAssumption DEF Peers, NoRequest, Requests, Stored
  <1> USE <1>1 DEF StoreTypeOK
  <1>2. ASSUME NEW s \in Servers, connect(c, s)
        PROVE  StoreTypeOK'
    BY <1>2 DEF connect
  <1>3. ASSUME NEW r \in ClientRequests, request(c, r)
        PROVE  StoreTypeOK'
    BY <1>3, ClientRequestsAssumption DEF request
  <1>4. CASE disconnect(c)
    BY <1>4 DEF disconnect
  <1>5. CASE connectCorrServer(c)
    BY <1>5 DEF connectCorrServer, Owners
  <1>6. CASE sendMsg(c)
    BY <1>6 DEF sendMsg, Fails
  <1>7. CASE redirected(c)
    <2>1. rep[c].md \in SUBSET Servers
      BY DEF ThreadsOK, Replies
    <2> QED
      BY <1>7, <2>1 DEF redirected
  <1>8. CASE replied(c)
    BY <1>8 DEF replied
  <1>9. CASE lost(c)
    BY <1>9 DEF lost, Fails
  <1>10. CASE callHangs(c)
    BY <1>10 DEF callHangs
  <1> QED
    BY <1>2, <1>3, <1>4, <1>5, <1>6, <1>7, <1>8, <1>9, <1>10 DEF StoreStep

LEMMA LearnTypes ==
    ASSUME ThreadsOK, StoreTypeOK, known \in [Keys -> SUBSET Stored], NEW c \in Clients, Learn(c)
    PROVE  known' \in [Keys -> SUBSET Stored]
  <1>1. c \in Peers
    BY DEF Peers
  <1>2. rep[c].val \in Stored /\ op[c].val \in Stored /\ op[c].key \in Keys
    BY <1>1 DEF ThreadsOK, StoreTypeOK, Replies, Requests
  <1> QED
    BY <1>2 DEF Learn

-----------------------------------------------------------------------------
(* The invariant of the cluster.                                           *)

ClusterInv ==
    /\ ServerInv /\ ECSInv /\ StoreTypeOK
    /\ known \in [Keys -> SUBSET Stored]
    /\ \A c \in Clients : Conversation(c)

LEMMA ClusterInit_Inv == Init => ClusterInv
  <1> SUFFICES ASSUME Init PROVE ClusterInv
    OBVIOUS
  <1>1. ServerInv /\ ECSInv
    BY ServerInit_Inv, ECSInit_Inv DEF Init
  <1>2. StoreTypeOK
    BY NoServerIsServer, KeysAssumption DEF Init, StoreInit, StoreTypeOK, NoRequest, Requests, Stored
  <1>3. known \in [Keys -> SUBSET Stored]
    BY DEF Init, Stored
  <1>4. \A c \in Clients : Conversation(c)
    BY DEF Init, StoreInit, ServerInit, Conversation, Peers
  <1> QED
    BY <1>1, <1>2, <1>3, <1>4 DEF ClusterInv

LEMMA ClusterStepInv ==
    ASSUME ClusterInv, [Next]_vars
    PROVE  ClusterInv'
  <1>1. /\ ThreadsOK /\ StoreTypeOK /\ ServerInv /\ ECSInv /\ known \in [Keys -> SUBSET Stored]
        /\ \A c \in Clients : Conversation(c)
    BY DEF ClusterInv, ServerInv, TypeOK
  <1>2. OpenStep
    BY <1>1, StepIsOpen
  <1>3. ServerInv' /\ ECSInv'
    BY <1>1, <1>2, OpenStepInv, ECSStepInv
  <1> SUFFICES StoreTypeOK' /\ (known \in [Keys -> SUBSET Stored])'
               /\ (\A c \in Clients : Conversation(c)')
    BY <1>3 DEF ClusterInv
  <1>4. ASSUME UNCHANGED <<clientVars, known>>,
               \A c \in Clients : Conversation(c)'
        PROVE  StoreTypeOK' /\ (known \in [Keys -> SUBSET Stored])'
               /\ (\A c \in Clients : Conversation(c)')
    BY <1>1, <1>4 DEF clientVars, StoreTypeOK
  <1>5. ASSUME UNCHANGED <<clientVars, known, threads>>
        PROVE  \A c \in Clients : Conversation(c)'
    BY <1>1, <1>5, ConversationKept DEF clientVars, threads
  <1>6. ASSUME NEW p \in Peers, ServeThread(p)
        PROVE  \A c \in Clients : Conversation(c)'
    BY <1>1, <1>6, ServeConversation DEF ServeThread, ServersOnly, clientVars
  <1>7. ASSUME NEW s \in Servers, AdminThread(s)
        PROVE  \A c \in Clients : Conversation(c)'
    BY <1>1, <1>7, AdminConversation DEF AdminThread, ServersOnly, clientVars
  <1>8. ASSUME NEW s \in Servers, MainThread(s) \/ Expiry(s) \/ Wedged(s)
        PROVE  \A c \in Clients : Conversation(c)'
    BY <1>1, <1>8, ProcessConversation DEF MainThread, Expiry, Wedged, ServersOnly, clientVars
  <1>9. ASSUME NEW s \in Servers, Killed(s)
         PROVE  StoreTypeOK' /\ (known \in [Keys -> SUBSET Stored])'
                /\ (\A c \in Clients : Conversation(c)')
    <2>1. /\ Crash(s) /\ UNCHANGED <<addr, cmeta, op, known>>
          /\ cst' \in [Clients -> {"off", "ready", "route", "send", "wait", "hung"}]
          /\ \A c \in Clients : cst'[c] = cst[c] \/ (cst[c] = "route" /\ cst'[c] = "hung")
      <3>1. PICK cut \in SUBSET {c \in Clients : Listens(s) /\ Routes(c, s)} :
              cst' = [c \in Clients |-> IF c \in cut THEN "hung" ELSE cst[c]]
        BY <1>9 DEF Killed
      <3>2. \A c \in cut : c \in Clients /\ cst[c] = "route"
        BY DEF Routes
      <3>3. Crash(s) /\ UNCHANGED <<addr, cmeta, op, known>>
        BY <1>9 DEF Killed
      <3>4. \A c \in Clients :
              /\ cst[c] \in {"off", "ready", "route", "send", "wait", "hung"}
              /\ cst'[c] = IF c \in cut THEN "hung" ELSE cst[c]
        BY <1>1, <3>1 DEF StoreTypeOK
      <3>5. \A c \in Clients :
              /\ cst'[c] = cst[c] \/ (cst[c] = "route" /\ cst'[c] = "hung")
              /\ cst'[c] \in {"off", "ready", "route", "send", "wait", "hung"}
        <4> TAKE c \in Clients
        <4>1. CASE c \in cut
          BY <3>2, <3>4, <4>1
        <4>2. CASE c \notin cut
          BY <3>4, <4>2
        <4> QED
          BY <4>1, <4>2
      <3>6. cst' \in [Clients -> {"off", "ready", "route", "send", "wait", "hung"}]
        BY <3>1, <3>4, <3>5
      <3> QED
        BY <3>3, <3>5, <3>6
    <2>2. StoreTypeOK' /\ (known \in [Keys -> SUBSET Stored])'
      BY <1>1, <2>1 DEF StoreTypeOK
    <2>3. ASSUME NEW c \in Clients
          PROVE  Conversation(c)'
      BY <1>1, <2>1, KilledConversation
    <2> QED
      BY <2>2, <2>3
  <1>10. ASSUME Command \/ ECSThread \/ ECSRestart \/ ECSDies
        PROVE  UNCHANGED <<clientVars, known, threads>>
    <2>1. CASE Command
      BY <2>1 DEF Command, NewCommand, addNode, main, mainAgain, Launch, removeNode, start, stop,
                  shutdown, quit, Local, serverVars, threads, ECSOnly
    <2>2. CASE ECSThread
      BY <2>2 DEF ECSThread, CommandStep, awaitJoin, sendInit, sendStart, sendJoinMove, joined,
                  UpdateAllNodesMeta, roundDone, sendHeirUpdate, sendLeaveMove, left,
                  shutdown_server, awaitLeave, failed, sendStarts, sendStops, sendShutdowns,
                  awaitShutdown, connectHangs, Answered, Lost, Exchange, Round, Ask, TalksOnly,
                  Local, serverVars, threads, ECSOnly
    <2>3. CASE ECSRestart \/ ECSDies
      BY <2>3 DEF ECSRestart, ECSDies, Restart, ECSKilled, Local, serverVars, threads, ECSOnly
    <2> QED
      BY <1>10, <2>1, <2>2, <2>3
  <1>11. ASSUME NEW c \in Clients,
                \/ \E s \in Servers : ClientConnects(c, s)
                \/ \E r \in ClientRequests : ClientRequest(c, r)
                \/ ClientDisconnects(c) \/ ClientThread(c)
         PROVE  StoreTypeOK' /\ (known \in [Keys -> SUBSET Stored])'
                /\ (\A d \in Clients : Conversation(d)')
    <2>1. /\ \/ \E s \in Servers : connect(c, s)
             \/ \E r \in ClientRequests : request(c, r)
             \/ disconnect(c) \/ StoreStep(c)
          /\ UNCHANGED known \/ Learn(c)
      BY <1>11 DEF ClientConnects, ClientRequest, ClientDisconnects, ClientThread
    <2>2. StoreTypeOK'
      BY <1>1, <2>1, StoreTypes
    <2>3. (known \in [Keys -> SUBSET Stored])'
      BY <1>1, <2>1, LearnTypes
    <2>4. \A d \in Clients : Conversation(d)'
      BY <1>1, <2>1, OtherClients, OwnConversation
    <2> QED
      BY <2>2, <2>3, <2>4
  <1>12. CASE UNCHANGED vars
    <2>1. UNCHANGED <<clientVars, known, threads>>
      BY <1>12 DEF vars, serverVars, threads
    <2> QED
      BY <1>4, <1>5, <2>1
  <1>13. ASSUME \/ \E p \in Peers : ServeThread(p)
                \/ \E s \in Servers : AdminThread(s) \/ MainThread(s) \/ Expiry(s) \/ Wedged(s)
         PROVE  UNCHANGED <<clientVars, known>>
    BY <1>13 DEF ServeThread, AdminThread, MainThread, Expiry, Wedged, ServersOnly
  <1> QED
    BY <1>4, <1>5, <1>6, <1>7, <1>8, <1>9, <1>10, <1>11, <1>12, <1>13 DEF Next

\* The cluster's invariant: what the servers guarantee in any environment, the
\* ECS's lists, and that each client and its connection agree.
THEOREM ClusterInvariant == Spec => []ClusterInv
  <1>1. Init => ClusterInv
    BY ClusterInit_Inv
  <1>2. ClusterInv /\ [Next]_vars => ClusterInv'
    BY ClusterStepInv
  <1> QED
    BY <1>1, <1>2, PTL DEF Spec

\* Every variable of servers, ECS and clients keeps its type in every run of the
\* cluster.
THEOREM TypesCorrect == Spec => []ClusterTypeOK
  <1>1. ClusterInv => ClusterTypeOK
    BY DEF ClusterInv, ClusterTypeOK, ServerInv, ECSInv
  <1> QED
    BY <1>1, ClusterInvariant, PTL

\* The servers under ECS and client library are servers in an arbitrary
\* environment: every step of the cluster is one that OpenServers allows, or
\* changes no server.
THEOREM ClusterIsOpen == Spec => ServersAreOpen
  <1>1. Init => Open!ServerInit
    BY ServerInitIsOpen DEF Init
  <1>2. ClusterInv /\ [Next]_vars => [Open!Next]_(Open!serverVars)
    <2> SUFFICES ASSUME ClusterInv, [Next]_vars
                 PROVE  [Open!Next]_(Open!serverVars)
      OBVIOUS
    <2>1. OpenStep
      BY StepIsOpen DEF ClusterInv, ServerInv, TypeOK
    <2> QED
      BY <2>1 DEF OpenStep, serverVars, Open!serverVars
  <1> QED
    BY <1>1, <1>2, ClusterInvariant, PTL DEF Spec, ServersAreOpen, Open!Spec

\* What OpenServersProofs shows of a move holds of the moves the ECS asks for: a move
\* that waits waits for a thread of a process that runs, and PUTs that slip under the
\* lock can only become fewer.
THEOREM ClusterMoves == Spec => []MoveAwaitsService /\ MoveDrainsWriters
  <1>1. Open!ServerInit => OP!ServerInit
    BY DEF Open!ServerInit, OP!ServerInit, Open!Empty, OP!Empty, Open!Peers, OP!Peers,
           Open!NoServer, OP!NoServer, Open!NoRequest, OP!NoRequest, Open!NoReply, OP!NoReply,
           Open!NoAdminRequest, OP!NoAdminRequest
  <1>2. [Open!Next]_(Open!serverVars) => [OP!Next]_(OP!serverVars)
    BY OpenNextIsOP DEF Open!serverVars, OP!serverVars
  <1>3. Spec => OP!Spec
    BY <1>1, <1>2, ClusterIsOpen, PTL DEF ServersAreOpen, Open!Spec, OP!Spec
  <1>4. OP!Spec => []OP!MoveAwaitsService /\ OP!MoveDrainsWriters
    BY OP!AwaitsService, OP!DrainsWriters, OPAssumptions, NullAssumption,
       ClientsAssumption, MayCrashAssumption
  <1>5. OP!MoveAwaitsService => MoveAwaitsService
    BY DEF MoveAwaitsService, OP!MoveAwaitsService, Serving, OP!Serving
  <1>6. OP!MoveDrainsWriters => MoveDrainsWriters
    BY DEF MoveDrainsWriters, OP!MoveDrainsWriters, Locked, OP!Locked, Moving, OP!Moving,
           Writers, OP!Writers, Peers, OP!Peers, serverVars, OP!serverVars
  <1> QED
    BY <1>3, <1>4, <1>5, <1>6, PTL
=============================================================================
