--------------------------- MODULE ReliableProofs ---------------------------
(***************************************************************************)
(* Proofs about the cluster when nothing fails: no process is killed, no   *)
(* wait ends early (MaxFaults = 0), the broker is there when servers boot  *)
(* (Brokerless = {}), and a server that shuts down sends its reply before  *)
(* it exits (ReplyBeforeExit).  Requests and reconfigurations overlap as   *)
(* they like.  After a crash, an early time-out or a lost reply the ECS    *)
(* goes on with lists and metadata that no longer say what the servers     *)
(* are, and a move to a server without a broker fails: the properties      *)
(* proved here do not hold then.                                           *)
(***************************************************************************)
EXTENDS ClusterProofs, FiniteSetTheorems

-----------------------------------------------------------------------------
(* The invariant of a run without faults.                                  *)

\* What a server is to the ECS.
Steady(s) == proc[s] = "up" /\ znode[s] = "live"
Gone(s) == proc[s] = "down" /\ znode[s] = "none"
Starting(s) == Steady(s) \/ (proc[s] \in {"launched", "bound"} /\ znode[s] = "none")
Ending(s) ==
    \/ proc[s] \in {"closing", "cleared"} /\ znode[s] = "live"
    \/ proc[s] = "down" /\ znode[s] # "live"

\* The thread that serves the ECS has a request.
Busy(s) == apc[s] \notin {"none", "closed"}

Joins == {"init", "start", "join", "joined"}
Leaves == {"updateHeir", "leave", "left", "updateLeave", "shutdown_server"}
Rounds == {"updateJoin", "updateLeave", "startAll", "stopAll"}
Steps ==
    {"ready", "awaitJoin", "awaitLeave", "shutDownAll", "dead"} \cup Joins \cup Leaves \cup Rounds

\* The ECS's lists and its metadata.
ListsOK ==
    /\ epc \in Steps
    /\ idleServers \cap activeServers = {}
    /\ epc \notin Joins \cup {"awaitJoin"} => idleServers \cup activeServers = Servers
    /\ epc \in Joins \cup {"awaitJoin"} =>
          /\ node \notin idleServers \cup activeServers
          /\ idleServers \cup activeServers \cup {node} = Servers
    /\ epc \in {"ready", "awaitJoin", "startAll", "stopAll", "dead"} =>
          ecsMeta = activeServers \/ activeServers = {}
    /\ epc \in Joins =>
          /\ ecsMeta = activeServers \cup {node}
          /\ activeServers # {} => peer \in activeServers
    /\ epc \in Leaves =>
          node \in activeServers /\ ecsMeta = activeServers \ {node} /\ peer \in ecsMeta
    /\ epc \in {"updateJoin", "awaitLeave"} => ecsMeta = activeServers
    /\ epc = "awaitLeave" => node \in idleServers
    /\ epc \in Rounds => todo \subseteq activeServers

\* The servers whose process may not be as the lists say: the one that is told to
\* end, and all that were told to.
Told == IF epc \in {"shutdown_server", "awaitLeave"} THEN {node}
        ELSE IF epc = "shutDownAll" THEN idleServers ELSE {}

RolesOK ==
    /\ \A s \in Servers : ~second[s]
    /\ \A s \in activeServers \ Told : Steady(s)
    /\ \A s \in idleServers \ Told : Gone(s)
    /\ epc = "awaitJoin" => Starting(node)
    /\ epc \in Joins => Steady(node)
    /\ epc = "awaitLeave" => Ending(node)
    /\ \A s \in Told : epc # "awaitLeave" =>
          \/ Steady(s) /\ apc[s] # "reply" /\ (epc = "shutDownAll" => apc[s] = "adminServe")
          \/ Ending(s) /\ apc[s] # "adminServe"
    /\ epc = "shutdown_server" /\ Ending(node) => asked = node /\ apc[node] = "reply"

\* What the ECS asks s for at the step it is at.
IsAsked(s, m) ==
    \/ epc = "init" /\ s = node /\ m = WithMeta("INIT_SERVER")
    \/ epc = "start" /\ s = node /\ m = Message("START")
    \/ epc = "join" /\ s = peer /\ m = MoveTo(node) /\ activeServers # {}
    \/ epc = "updateHeir" /\ s = peer /\ m = WithMeta("UPDATE")
    \/ epc = "leave" /\ s = node /\ m = MoveTo(peer)
    \/ epc = "shutdown_server" /\ s = node /\ m = Message("SHUTDOWN")
    \/ epc \in {"updateJoin", "updateLeave"} /\ s \in todo /\ m = WithMeta("UPDATE")
    \/ epc = "startAll" /\ s \in todo /\ m = Message("START")
    \/ epc = "stopAll" /\ s \in todo /\ m = Message("STOP")

\* The servers have the requests that the ECS awaits an answer to, and no others;
\* only shutDown awaits none.
AdminsOK ==
    /\ asked # Null => Busy(asked) /\ IsAsked(asked, areq[asked])
    /\ \A s \in Servers :
          /\ Busy(s) => Running(s) /\ (asked = s \/ epc = "shutDownAll")
          /\ Busy(s) /\ epc = "shutDownAll" => s \in idleServers /\ areq[s].type = "SHUTDOWN"
          /\ apc[s] \in Moving => areq[s].type = "MOVE_DATA"

\* The servers' metadata.
MetaOK ==
    /\ epc \in {"ready", "awaitJoin", "startAll", "stopAll", "dead"} \cup Joins =>
          \A s \in activeServers : metadata[s] = activeServers
    /\ epc \in {"start", "join", "joined"} => metadata[node] = ecsMeta
    /\ epc \in {"leave", "left"} => metadata[peer] = ecsMeta
    /\ epc \in {"updateJoin", "updateLeave"} =>
          \A s \in activeServers \ todo : metadata[s] = ecsMeta
    /\ epc \in {"shutdown_server", "awaitLeave"} => \A s \in ecsMeta : metadata[s] = ecsMeta
    /\ epc \in {"init", "updateHeir", "updateJoin", "updateLeave"} /\ asked # Null
       /\ apc[asked] = "reply" => metadata[asked] = ecsMeta

\* A move gets its connection and does not lose it.
MoveOK ==
    \A s \in Servers : apc[s] # "moveHangs" /\ (apc[s] \in Connected => pc[s] # "closed")

ReliableInv == ListsOK /\ RolesOK /\ AdminsOK /\ MetaOK /\ MoveOK /\ LockOnlyWhileMoving

-----------------------------------------------------------------------------
(* Facts about that invariant.                                             *)

\* The types it is used with.
LEMMA Types ==
    ASSUME ClusterInv
    PROVE  /\ proc \in [Servers -> {"down", "launched", "bound", "up", "wedged", "closing",
                               "cleared"}]
           /\ znode \in [Servers -> {"none", "live", "stale"}]
           /\ second \in [Servers -> BOOLEAN] /\ writeLock \in [Servers -> BOOLEAN]
           /\ metadata \in [Servers -> SUBSET Servers]
           /\ pc \in [Peers -> Serving \cup {"none", "idle", "reply", "closed"}]
           /\ to \in [Peers -> Servers]
           /\ apc \in [Servers -> Moving \cup {"none", "adminServe", "reply", "closed"}]
           /\ areq \in [Servers -> AdminRequests]
           /\ node \in Servers /\ peer \in Servers /\ asked \in Servers \cup {Null}
           /\ idleServers \in SUBSET Servers /\ activeServers \in SUBSET Servers
           /\ todo \in SUBSET Servers /\ faults \in 0 .. MaxFaults
           /\ Servers \subseteq Peers /\ Null \notin Servers
  BY NullNoServer DEF ClusterInv, ServerInv, TypeOK, ProcessOK, FlagsOK, ThreadsOK, AdminOK,
                      ECSInv, ECSTypeOK, Peers

LEMMA MessageFields ==
    /\ \A t : Message(t).type = t
    /\ \A t : WithMeta(t).type = t /\ WithMeta(t).md = ecsMeta
    /\ \A s : MoveTo(s).type = "MOVE_DATA" /\ MoveTo(s).dest = s
  BY DEF Message, WithMeta, MoveTo, NoAdminRequest

\* What a busy server was asked.
LEMMA WhatIsAsked ==
    ASSUME ReliableInv, NEW s \in Servers, Busy(s)
    PROVE  \/ epc = "shutDownAll" /\ s \in idleServers /\ areq[s].type = "SHUTDOWN"
           \/ /\ asked = s
              /\ \/ epc = "init" /\ s = node /\ areq[s].type = "INIT_SERVER" /\ areq[s].md = ecsMeta
                 \/ epc = "start" /\ s = node /\ areq[s].type = "START"
                 \/ /\ epc = "join" /\ s = peer /\ activeServers # {}
                    /\ areq[s].type = "MOVE_DATA" /\ areq[s].dest = node
                 \/ epc = "updateHeir" /\ s = peer /\ areq[s].type = "UPDATE" /\ areq[s].md = ecsMeta
                 \/ /\ epc = "leave" /\ s = node
                    /\ areq[s].type = "MOVE_DATA" /\ areq[s].dest = peer
                 \/ epc = "shutdown_server" /\ s = node /\ areq[s].type = "SHUTDOWN"
                 \/ /\ epc \in {"updateJoin", "updateLeave"} /\ s \in todo
                    /\ areq[s].type = "UPDATE" /\ areq[s].md = ecsMeta
                 \/ epc = "startAll" /\ s \in todo /\ areq[s].type = "START"
                 \/ epc = "stopAll" /\ s \in todo /\ areq[s].type = "STOP"
  <1>1. CASE epc = "shutDownAll"
    BY <1>1 DEF ReliableInv, AdminsOK
  <1>2. CASE epc # "shutDownAll"
    <2>1. asked = s /\ asked # Null
      BY <1>2, NullNoServer DEF ReliableInv, AdminsOK
    <2> QED
      BY <2>1, MessageFields DEF ReliableInv, AdminsOK, IsAsked
  <1> QED
    BY <1>1, <1>2

\* A server at the other end of a conversation with the ECS is up.
LEMMA AskedIsSteady ==
    ASSUME ReliableInv, NEW s \in Servers, Busy(s),
           epc \notin {"shutdown_server", "shutDownAll"}
    PROVE  Steady(s)
  <1>1. CASE epc \in {"init", "start", "join", "updateHeir", "leave"}
    BY <1>1, WhatIsAsked DEF ReliableInv, RolesOK, ListsOK, Joins, Leaves, Told
  <1>2. CASE epc \in Rounds
    BY <1>2, WhatIsAsked DEF ReliableInv, RolesOK, ListsOK, Rounds, Told
  <1> QED
    BY <1>1, <1>2, WhatIsAsked DEF Rounds

\* Where a move goes: a server that is up and has an entry for itself.
LEMMA MoveTarget ==
    ASSUME ClusterInv, ReliableInv, NEW s \in Servers, apc[s] \in Moving
    PROVE  /\ areq[s].dest \in Servers /\ areq[s].dest # s
           /\ Steady(areq[s].dest) /\ ~NoEntry(areq[s].dest)
           /\ epc \in {"join", "leave"} /\ asked = s
  <1>1. Busy(s) /\ areq[s].type = "MOVE_DATA"
    BY DEF ReliableInv, AdminsOK, Busy, Moving
  <1>2. CASE epc = "join"
    <2>1. s = peer /\ areq[s].dest = node /\ activeServers # {} /\ asked = s
      BY <1>1, <1>2, WhatIsAsked
    <2>2. Steady(node) /\ metadata[node] = ecsMeta /\ node \in ecsMeta /\ peer # node
      BY <1>2, <2>1 DEF ReliableInv, RolesOK, MetaOK, ListsOK, Joins
    <2> QED
      BY <1>2, <2>1, <2>2, Types DEF NoEntry
  <1>3. CASE epc = "leave"
    <2>1. s = node /\ areq[s].dest = peer /\ asked = s
      BY <1>1, <1>3, WhatIsAsked
    <2>2. Steady(peer) /\ metadata[peer] = ecsMeta /\ peer \in ecsMeta /\ peer # node
      BY <1>3, <2>1 DEF ReliableInv, RolesOK, MetaOK, ListsOK, Leaves, Told
    <2> QED
      BY <1>3, <2>1, <2>2, Types DEF NoEntry
  <1> QED
    BY <1>1, <1>2, <1>3, WhatIsAsked

\* What does not concern the invariant.
LEMMA ReliableFrame ==
    ASSUME ReliableInv, UNCHANGED <<process, metadata, writeLock, admin, ecsVars>>,
           \A s \in Servers : apc[s] \in Connected => pc'[s] # "closed"
    PROVE  ReliableInv'
  <1> USE DEF process, admin, ecsVars
  <1>1. ListsOK' /\ RolesOK'
    BY DEF ReliableInv, ListsOK, RolesOK, Told, Steady, Gone, Starting, Ending
  <1>2. AdminsOK'
    BY DEF ReliableInv, AdminsOK, Busy, Running, IsAsked, WithMeta, MoveTo
  <1>3. MetaOK' /\ LockOnlyWhileMoving' /\ MoveOK'
    BY DEF ReliableInv, MetaOK, LockOnlyWhileMoving, MoveOK
  <1> QED
    BY <1>1, <1>2, <1>3 DEF ReliableInv

LEMMA ReliableInit == Init => ReliableInv
  <1> SUFFICES ASSUME Init PROVE ReliableInv
    OBVIOUS
  <1> USE DEF Init, ServerInit, ECSInit
  <1>1. ListsOK /\ RolesOK /\ MetaOK
    BY DEF ListsOK, RolesOK, MetaOK, Steps, Joins, Leaves, Rounds, Told, Gone
  <1>2. AdminsOK
    BY DEF AdminsOK, Busy, Moving, IsAsked
  <1>3. MoveOK /\ LockOnlyWhileMoving
    BY DEF MoveOK, LockOnlyWhileMoving, Connected
  <1> QED
    BY <1>1, <1>2, <1>3 DEF ReliableInv

-----------------------------------------------------------------------------
(* The servers' steps.                                                     *)

\* A thread closes its connection only when the server has no entry for itself,
\* which the destination of a move has, or no session with the broker.
LEMMA ServeReliable ==
    ASSUME Brokerless = {}, ClusterInv, ReliableInv, NEW p \in Peers, ServeThread(p)
    PROVE  ReliableInv'
  <1>1. UNCHANGED <<process, metadata, writeLock, admin, ecsVars>>
    BY DEF ServeThread, ServersOnly, ServeStep, serve, isWriteLock, checkRange, getMetadata, getKV,
           inStorage, pub, put, flags, process
  <1>2. ASSUME NEW s \in Servers, apc[s] \in Connected
        PROVE  pc'[s] # "closed"
    <2>1. /\ pc[s] # "closed" /\ to[s] = areq[s].dest /\ ~NoEntry(to[s]) /\ s \in Peers
      <3>1. apc[s] \in Moving
        BY <1>2 DEF Connected, Moving
      <3>2. to[s] = areq[s].dest
        BY <1>2 DEF ClusterInv, ServerInv, MoveConnection
      <3> QED
        BY <1>2, <3>1, <3>2, MoveTarget DEF ReliableInv, MoveOK, Peers
    <2>2. pc'[s] = "closed" => pc[s] = "closed" \/ (p = s /\ checkRange(p) /\ NoEntry(to[p]))
      <3> USE <2>1, Types DEF Reply, Goto, ThreadDies
      <3>1. CASE serve(p)
        BY <3>1 DEF serve
      <3>2. CASE isWriteLock(p)
        BY <3>2 DEF isWriteLock
      <3>3. CASE checkRange(p)
        BY <3>3 DEF checkRange
      <3>4. CASE getMetadata(p) \/ getKV(p)
        BY <3>4 DEF getMetadata, getKV
      <3>5. CASE inStorage(p)
        BY <3>5 DEF inStorage
      <3>6. CASE pub(p) \/ put(p)
        BY <3>6 DEF pub, put
      <3> QED
        BY <3>1, <3>2, <3>3, <3>4, <3>5, <3>6 DEF ServeThread, ServeStep
    <2> QED
      BY <2>1, <2>2
  <1> QED
    BY <1>1, <1>2, ReliableFrame

\* A step of the thread that serves the ECS, up to its reply.
LEMMA AdminGoes ==
    ASSUME ClusterInv, ReliableInv, NEW s \in Servers, Busy(s), NEW l,
           l \in Moving \cup {"reply"}, apc' = [apc EXCEPT ![s] = l],
           UNCHANGED <<ecsVars, areq>>, Running(s)', \A t \in Servers \ {s} : proc'[t] = proc[t],
           l \in Moving => areq[s].type = "MOVE_DATA"
    PROVE  ListsOK' /\ AdminsOK'
  <1>1. ListsOK'
    BY DEF ReliableInv, ListsOK, ecsVars
  <1>2. \A t \in Servers : Busy(t)' <=> Busy(t)
    BY Types DEF Busy, Moving
  <1>3. \A t \in Servers : Busy(t)' => Running(t)'
    BY <1>2 DEF ReliableInv, AdminsOK, Running
  <1>4. \A t \in Servers : apc'[t] \in Moving => areq'[t].type = "MOVE_DATA"
    BY Types DEF ReliableInv, AdminsOK
  <1>5. asked' = asked /\ epc' = epc /\ todo' = todo /\ node' = node /\ peer' = peer
        /\ idleServers' = idleServers /\ activeServers' = activeServers /\ areq' = areq
        /\ ecsMeta' = ecsMeta /\ range' = range
    BY DEF ecsVars
  <1> QED
    BY <1>1, <1>2, <1>3, <1>4, <1>5, Types DEF ReliableInv, AdminsOK, IsAsked, WithMeta, MoveTo

\* INIT_SERVER, START, STOP, UPDATE.
LEMMA CommandReliable ==
    ASSUME ClusterInv, ReliableInv, NEW s \in Servers,
           \/ initKVServer(s) \/ setStart(s) \/ setStop(s) \/ lockWrite(s)
           \/ unLockWrite(s) \/ update(s) \/ flushData(s),
           UNCHANGED ecsVars
    PROVE  ReliableInv'
  <1> USE DEF TakeMetadata
  <1>1. /\ apc[s] = "adminServe" /\ Running(s) /\ Busy(s)
        /\ apc' = [apc EXCEPT ![s] = "reply"] /\ UNCHANGED <<areq, pc, process>>
        /\ areq[s].type \in {"INIT_SERVER", "START", "STOP", "LOCK", "UNLOCK", "UPDATE", "FLUSH"}
    BY DEF initKVServer, setStart, setStop, lockWrite, unLockWrite, update, flushData, Handle,
           AdminAt, Busy, threads, process
  <1>2. areq[s].type \in {"INIT_SERVER", "START", "STOP", "UPDATE"} /\ asked = s
        /\ epc \notin {"shutdown_server", "shutDownAll"}
    BY <1>1, WhatIsAsked
  <1>9. areq[s].type \in {"INIT_SERVER", "UPDATE"} => areq[s].md # {}
    <2> SUFFICES ASSUME areq[s].type \in {"INIT_SERVER", "UPDATE"} PROVE ecsMeta # {}
      BY <1>1, WhatIsAsked
    <2>1. \/ epc = "init" \/ epc \in {"updateHeir", "updateLeave"}
          \/ epc = "updateJoin" /\ s \in todo
      BY <1>1, WhatIsAsked
    <2> QED
      BY <2>1 DEF ReliableInv, ListsOK, Joins, Leaves, Rounds
  <1>3. /\ UNCHANGED writeLock
        /\ \/ areq[s].type \in {"START", "STOP"} /\ UNCHANGED metadata
           \/ /\ areq[s].type \in {"INIT_SERVER", "UPDATE"}
              /\ metadata' = [metadata EXCEPT ![s] = areq[s].md]
    BY <1>1, <1>2, <1>9, Types DEF initKVServer, setStart, setStop, lockWrite, unLockWrite,
                                   update, flushData, Handle
  <1>4. ListsOK' /\ AdminsOK'
    <2>1. Running(s)' /\ (\A t \in Servers \ {s} : proc'[t] = proc[t]) /\ "reply" \notin Moving
      BY <1>1 DEF Running, process, Moving
    <2> QED
      BY <1>1, <2>1, AdminGoes
  <1>5. RolesOK'
    BY <1>1, <1>2 DEF ReliableInv, RolesOK, Told, Steady, Gone, Starting, Ending, ecsVars, process
  <1>6. MetaOK'
    <2>1. UNCHANGED <<asked, epc, todo, node, peer, activeServers, ecsMeta>>
      BY DEF ecsVars
    <2>2. CASE areq[s].type \in {"START", "STOP"}
      <3>1. epc \in {"start", "startAll", "stopAll"}
        BY <1>1, <2>2, WhatIsAsked
      <3> QED
        BY <1>1, <1>3, <2>1, <2>2, <3>1 DEF ReliableInv, MetaOK
    <2>3. CASE areq[s].type \in {"INIT_SERVER", "UPDATE"}
      <3>1. /\ areq[s].md = ecsMeta
            /\ \/ epc = "init" /\ s = node
               \/ epc = "updateHeir"
               \/ epc \in {"updateJoin", "updateLeave"}
        BY <1>1, <2>3, WhatIsAsked
      <3>2. /\ metadata'[s] = ecsMeta
            /\ \A t \in Servers \ {s} : metadata'[t] = metadata[t]
        BY <1>3, <2>3, <3>1, Types
      <3>3. CASE epc = "init"
        BY <1>2, <2>1, <3>1, <3>2, <3>3, Types DEF ReliableInv, MetaOK, ListsOK, Joins
      <3>4. CASE epc = "updateHeir"
        BY <1>2, <2>1, <3>1, <3>2, <3>4, Types DEF ReliableInv, MetaOK, Joins
      <3>5. CASE epc \in {"updateJoin", "updateLeave"}
        BY <1>2, <2>1, <3>1, <3>2, <3>5, Types DEF ReliableInv, MetaOK, Joins
      <3> QED
        BY <3>1, <3>3, <3>4, <3>5
    <2> QED
      BY <1>2, <2>2, <2>3
  <1>7. MoveOK' /\ LockOnlyWhileMoving'
    BY <1>1, <1>3, Types DEF ReliableInv, MoveOK, LockOnlyWhileMoving, Connected, Moving
  <1> QED
    BY <1>4, <1>5, <1>6, <1>7 DEF ReliableInv

\* What a server is to the ECS, from its side.
LEMMA RoleOf ==
    ASSUME ClusterInv, ReliableInv, NEW s \in Servers
    PROVE  \/ Steady(s)
           \/ Gone(s)
           \/ epc = "awaitJoin" /\ s = node /\ Starting(s)
           \/ epc = "awaitLeave" /\ s = node /\ Ending(s)
           \/ epc = "shutdown_server" /\ s = node /\ Ending(s) /\ asked = s /\ apc[s] = "reply"
           \/ epc = "shutDownAll" /\ s \in idleServers /\ Ending(s) /\ apc[s] # "adminServe"
  <1>1. \/ s \in activeServers \ Told \/ s \in idleServers \ Told \/ s \in Told
        \/ epc \in Joins \cup {"awaitJoin"} /\ s = node
    BY DEF ReliableInv, ListsOK
  <1>2. CASE s \in Told
    BY <1>2 DEF ReliableInv, RolesOK, Told
  <1> QED
    BY <1>1, <1>2 DEF ReliableInv, RolesOK

\* A server that changes its part, the others staying as they are.
LEMMA RolesKept ==
    ASSUME ClusterInv, ReliableInv, NEW s \in Servers, UNCHANGED <<ecsVars, second>>,
           \A t \in Servers \ {s} : proc'[t] = proc[t] /\ znode'[t] = znode[t] /\ apc'[t] = apc[t],
           \/ epc = "awaitJoin" /\ s = node /\ Starting(s)'
           \/ epc = "awaitLeave" /\ s = node /\ Ending(s)'
           \/ epc = "shutdown_server" /\ s = node /\ Ending(s)' /\ asked = s /\ apc'[s] = "reply"
           \/ epc = "shutDownAll" /\ s \in idleServers /\ Ending(s)' /\ apc'[s] # "adminServe"
    PROVE  RolesOK'
  <1>1. UNCHANGED <<asked, epc, node, activeServers, idleServers>> /\ Told' = Told
    BY DEF ecsVars, Told
  <1>2. \A t \in Servers : ~second'[t]
    BY DEF ReliableInv, RolesOK
  <1>3. \A t \in (activeServers \cup idleServers) \ Told : t # s /\ t \in Servers
    BY Types DEF Told, ReliableInv, ListsOK
  <1>4. /\ \A t \in activeServers \ Told : Steady(t)'
        /\ \A t \in idleServers \ Told : Gone(t)'
    BY <1>3 DEF ReliableInv, RolesOK, Steady, Gone
  <1>5. epc \notin Joins
    BY DEF Joins
  <1>6. ASSUME NEW t \in Told, epc # "awaitLeave"
        PROVE  \/ Steady(t)' /\ apc'[t] # "reply" /\ (epc = "shutDownAll" => apc'[t] = "adminServe")
               \/ Ending(t)' /\ apc'[t] # "adminServe"
    <2>1. CASE t = s
      BY <1>6, <2>1 DEF Told
    <2>2. CASE t # s
      <3>1. t \in Servers
        BY Types DEF Told
      <3> QED
        BY <1>6, <2>2, <3>1 DEF ReliableInv, RolesOK, Steady, Ending
    <2> QED
      BY <2>1, <2>2
  <1>7. /\ epc = "awaitJoin" => Starting(node)'
        /\ epc = "awaitLeave" => Ending(node)'
        /\ epc = "shutdown_server" => asked = node /\ apc'[node] = "reply"
    BY <1>1
  <1> QED
    BY <1>1, <1>2, <1>4, <1>5, <1>6, <1>7 DEF RolesOK

\* SHUTDOWN.
LEMMA ShutDownReliable ==
    ASSUME ClusterInv, ReliableInv, NEW s \in Servers, shutDown(s), UNCHANGED ecsVars
    PROVE  ReliableInv'
  <1>1. /\ apc[s] = "adminServe" /\ Running(s) /\ Busy(s) /\ areq[s].type = "SHUTDOWN"
        /\ apc' = [apc EXCEPT ![s] = "reply"] /\ proc' = [proc EXCEPT ![s] = "closing"]
        /\ UNCHANGED <<areq, pc, znode, second, metadata, writeLock>>
    BY DEF shutDown, Handle, AdminAt, Busy, threads, flags
  <1>2. \/ epc = "shutDownAll" /\ s \in idleServers
        \/ epc = "shutdown_server" /\ s = node /\ asked = s
    BY <1>1, WhatIsAsked
  <1>3. s \in Told /\ Told' = Told
    BY <1>2 DEF Told, ecsVars
  <1>4. Steady(s)
    BY <1>1, <1>2, <1>3 DEF ReliableInv, RolesOK
  <1>5. Ending(s)' /\ apc'[s] = "reply"
    BY <1>1, <1>4, Types DEF Steady, Ending
  <1>6. \A t \in Servers \ {s} : proc'[t] = proc[t] /\ znode'[t] = znode[t] /\ apc'[t] = apc[t]
    BY <1>1, Types
  <1>7. ListsOK' /\ AdminsOK'
    <2>1. Running(s)' /\ "reply" \notin Moving
      BY <1>1, Types DEF Running, Moving
    <2> QED
      BY <1>1, <1>6, <2>1, AdminGoes
  <1>8. RolesOK'
    BY <1>1, <1>2, <1>5, <1>6, RolesKept
  <1>9. MetaOK'
    BY <1>1, <1>2, Types DEF ReliableInv, MetaOK, Joins, ecsVars
  <1>10. MoveOK' /\ LockOnlyWhileMoving'
    BY <1>1, Types DEF ReliableInv, MoveOK, LockOnlyWhileMoving, Connected, Moving
  <1> QED
    BY <1>7, <1>8, <1>9, <1>10 DEF ReliableInv

\* A step of a move.
LEMMA MoveGoes ==
    ASSUME ClusterInv, ReliableInv, NEW s \in Servers, Busy(s), areq[s].type = "MOVE_DATA", NEW l,
           l \in (Moving \cup {"reply"}) \ {"moveHangs"}, apc' = [apc EXCEPT ![s] = l],
           UNCHANGED <<ecsVars, areq, process, metadata>>,
           \A t \in Servers \ {s} : pc'[t] = pc[t] /\ writeLock'[t] = writeLock[t],
           l \in Connected => pc'[s] # "closed", writeLock'[s] => l \in Moving
    PROVE  ReliableInv'
  <1>1. epc \in {"join", "leave"}
    BY WhatIsAsked
  <1>2. Running(s)
    BY DEF ReliableInv, AdminsOK
  <1>3. ListsOK' /\ AdminsOK'
    BY <1>2, AdminGoes DEF Running, process
  <1>4. Told = {} /\ Told' = {}
    BY <1>1 DEF Told, ecsVars
  <1>5. RolesOK'
    BY <1>1, <1>4 DEF ReliableInv, RolesOK, Steady, Gone, Starting, Ending, ecsVars, process
  <1>6. MetaOK'
    BY <1>1 DEF ReliableInv, MetaOK, ecsVars
  <1>7. MoveOK' /\ LockOnlyWhileMoving'
    BY Types DEF ReliableInv, MoveOK, LockOnlyWhileMoving
  <1> QED
    BY <1>3, <1>5, <1>6, <1>7 DEF ReliableInv

\* MOVE_DATA.  It neither finds its destination gone nor loses the connection, so
\* that it does not fail, and releases the lock.
LEMMA MoveReliable ==
    ASSUME ClusterInv, ReliableInv, NEW s \in Servers,
           \/ moveData(s) \/ moveLock(s) \/ moveSnapshot(s) \/ moveConnect(s)
           \/ moveNext(s) \/ moveReply(s) \/ moveFlush(s) \/ moveUnlock(s),
           UNCHANGED ecsVars
    PROVE  ReliableInv'
  <1>1. Busy(s) /\ areq[s].type = "MOVE_DATA"
    BY DEF moveData, moveLock, moveSnapshot, moveConnect, moveNext, moveReply, moveFlush,
           moveUnlock, AdminAt, Busy, ReliableInv, AdminsOK, Moving
  <1>2. s \in Peers /\ \A t \in Servers \ {s} : t \in Peers
    BY DEF Peers
  <1>3. apc[s] \notin Moving => ~writeLock[s]
    BY DEF ReliableInv, LockOnlyWhileMoving
  <1> USE Types, <1>1, <1>2 DEF MoveGoto, threads, flags, data
  <1>4. CASE moveData(s)
    <2>1. /\ apc' = [apc EXCEPT ![s] = "moveLock"] /\ UNCHANGED <<areq, process, metadata>>
          /\ pc' = pc /\ writeLock' = writeLock /\ "moveLock" \in Moving \ Connected
      BY <1>4 DEF moveData, Moving, Connected
    <2> QED
      BY <2>1, MoveGoes
  <1>5. CASE moveLock(s)
    <2>1. /\ apc' = [apc EXCEPT ![s] = "moveSnapshot"] /\ UNCHANGED <<areq, process, metadata>>
          /\ pc' = pc /\ writeLock' = [writeLock EXCEPT ![s] = TRUE]
          /\ "moveSnapshot" \in Moving \ Connected
      BY <1>5 DEF moveLock, Moving, Connected
    <2> QED
      BY <2>1, MoveGoes
  <1>6. CASE moveSnapshot(s)
    <2>1. /\ apc' = [apc EXCEPT ![s] = "moveConnect"] /\ UNCHANGED <<areq, process, metadata>>
          /\ pc' = pc /\ writeLock' = writeLock /\ "moveConnect" \in Moving \ Connected
      BY <1>6 DEF moveSnapshot, Moving, Connected
    <2> QED
      BY <2>1, MoveGoes
  <1>7. CASE moveConnect(s)
    <2>1. ~Refuses(areq[s].dest) /\ ~Hangs(areq[s].dest)
      BY <1>7, MoveTarget DEF moveConnect, AdminAt, Moving, Steady, Refuses, Listens, Hangs
    <2>2. /\ apc' = [apc EXCEPT ![s] = "moveNext"] /\ UNCHANGED <<areq, process, metadata>>
          /\ pc' = [pc EXCEPT ![s] = "idle"] /\ writeLock' = writeLock /\ "moveNext" \in Moving
      BY <1>7, <2>1 DEF moveConnect, Moving
    <2> QED
      BY <2>2, MoveGoes
  <1>8. CASE moveNext(s)
    <2>1. pc[s] # "closed"
      BY <1>8 DEF moveNext, AdminAt, ReliableInv, MoveOK, Connected
    <2>2. /\ \E l \in {"moveWait", "moveFlush"} : apc' = [apc EXCEPT ![s] = l]
          /\ UNCHANGED <<areq, process, metadata>> /\ writeLock' = writeLock
          /\ pc' = pc \/ pc' = [pc EXCEPT ![s] = "isStopped"]
      BY <1>8, <2>1 DEF moveNext, Send
    <2>3. {"moveWait", "moveFlush"} \subseteq Moving
      BY DEF Moving
    <2>4. pc'[s] # "closed" /\ \A t \in Servers \ {s} : pc'[t] = pc[t]
      BY <2>1, <2>2
    <2> QED
      BY <2>2, <2>3, <2>4, MoveGoes
  <1>9. CASE moveReply(s)
    <2>1. pc[s] # "closed"
      BY <1>9 DEF moveReply, AdminAt, ReliableInv, MoveOK, Connected
    <2>2. /\ apc' = [apc EXCEPT ![s] = "moveNext"] /\ UNCHANGED <<areq, process, metadata>>
          /\ pc' = [pc EXCEPT ![s] = "idle"] /\ writeLock' = writeLock /\ "moveNext" \in Moving
      BY <1>9, <2>1 DEF moveReply, Done, Moving
    <2> QED
      BY <2>2, MoveGoes
  <1>10. CASE moveFlush(s)
    <2>1. pc[s] # "closed"
      BY <1>10 DEF moveFlush, AdminAt, ReliableInv, MoveOK, Connected
    <2>2. /\ apc' = [apc EXCEPT ![s] = "moveUnlock"] /\ UNCHANGED <<areq, process, metadata>>
          /\ pc' = pc /\ writeLock' = writeLock /\ "moveUnlock" \in Moving
      BY <1>10 DEF moveFlush, Moving
    <2> QED
      BY <2>1, <2>2, MoveGoes
  <1>11. CASE moveUnlock(s)
    <2>1. /\ apc' = [apc EXCEPT ![s] = "reply"] /\ UNCHANGED <<areq, process, metadata>>
          /\ pc' = [pc EXCEPT ![s] = "none"] /\ writeLock' = [writeLock EXCEPT ![s] = FALSE]
          /\ "reply" \notin Connected
      BY <1>11 DEF moveUnlock, Done, Connected
    <2> QED
      BY <2>1, MoveGoes
  <1> QED
    BY <1>4, <1>5, <1>6, <1>7, <1>8, <1>9, <1>10, <1>11

\* The range and the destination of a move are not null.
LEMMA RangeIsSent ==
    ASSUME ClusterInv, ReliableInv, NEW s \in Servers
    PROVE  ~moveNothing(s)
  <1> SUFFICES ASSUME moveNothing(s) PROVE FALSE
    OBVIOUS
  <1>1. Busy(s) /\ areq[s].type = "MOVE_DATA" /\ areq[s].range = Null
    BY DEF moveNothing, Handle, AdminAt, Busy
  <1>2. asked = s /\ asked # Null
    BY <1>1, WhatIsAsked, Types
  <1>3. areq[s] \in {MoveTo(node), MoveTo(peer)}
    BY <1>1, <1>2, MessageFields DEF ReliableInv, AdminsOK, IsAsked
  <1>4. areq[s].range = range
    BY <1>3 DEF MoveTo, Message, NoAdminRequest
  <1>5. range \in Ranges
    BY DEF ClusterInv, ECSInv, ECSTypeOK, Ranges
  <1> QED
    BY <1>1, <1>4, <1>5, NullNoRange

LEMMA AdminReliable ==
    ASSUME ClusterInv, ReliableInv, NEW s \in Servers, AdminThread(s)
    PROVE  ReliableInv'
  BY CommandReliable, ShutDownReliable, MoveReliable, RangeIsSent DEF AdminThread, AdminStep, ServersOnly

\* While a server ends nobody is asked for anything, and nothing moves.
LEMMA NobodyMoves ==
    ASSUME ClusterInv, ReliableInv, epc \in {"awaitJoin", "awaitLeave", "shutDownAll"}
    PROVE  asked = Null /\ \A s \in Servers : apc[s] \notin Connected
  <1>1. asked = Null
    BY Types DEF ReliableInv, AdminsOK, IsAsked
  <1>2. \A s \in Servers : apc[s] \notin Moving
    BY MoveTarget
  <1> QED
    BY <1>1, <1>2 DEF Connected, Moving

\* The main thread.  It starts and ends only servers that are meant to.
LEMMA MainReliable ==
    ASSUME ReplyBeforeExit, ClusterInv, ReliableInv, NEW s \in Servers, MainThread(s)
    PROVE  ReliableInv'
  <1>1. UNCHANGED ecsVars /\ RunStep(s) /\ ~second[s]
    BY DEF MainThread, ServersOnly, ReliableInv, RolesOK
  <1> USE Types
  <1>2. CASE initializeServer(s) \/ register(s)
    <2>1. /\ proc[s] \in {"launched", "bound"} /\ UNCHANGED <<second, metadata, writeLock, pc, admin>>
          /\ \A t \in Servers \ {s} : proc'[t] = proc[t] /\ znode'[t] = znode[t]
      BY <1>2 DEF initializeServer, register, flags, threads
    <2>2. epc = "awaitJoin" /\ s = node /\ Starting(s)
      BY <2>1, RoleOf DEF Steady, Gone, Ending
    <2>3. Starting(s)'
      <3>1. CASE initializeServer(s)
        BY <2>1, <2>2, <3>1 DEF initializeServer, Starting, Steady
      <3>2. CASE register(s)
        <4>1. proc[s] = "bound" /\ znode[s] = "none"
          BY <2>1, <2>2, <3>2 DEF register, Starting, Steady
        <4> QED
          BY <3>2, <4>1 DEF register, Starting, Steady
      <3> QED
        BY <1>2, <3>1, <3>2
    <2>4. RolesOK'
      BY <1>1, <2>1, <2>2, <2>3, RolesKept DEF admin
    <2>5. asked = Null /\ \A t \in Servers : ~Busy(t)
      BY <2>2, NobodyMoves DEF ReliableInv, AdminsOK
    <2>6. ListsOK'
      BY <1>1 DEF ReliableInv, ListsOK, ecsVars
    <2>7. AdminsOK'
      BY <1>1, <2>1, <2>2, <2>5 DEF AdminsOK, IsAsked, Busy, Moving, admin, ecsVars
    <2>8. MetaOK' /\ MoveOK' /\ LockOnlyWhileMoving'
      BY <1>1, <2>1 DEF ReliableInv, MetaOK, MoveOK, LockOnlyWhileMoving, admin, ecsVars
    <2> QED
      BY <2>4, <2>6, <2>7, <2>8 DEF ReliableInv
  <1>3. CASE clearKVStorage(s)
    <2>1. /\ proc[s] = "closing" /\ UNCHANGED <<znode, second, metadata, writeLock, pc, admin>>
          /\ proc' = [proc EXCEPT ![s] = "cleared"]
      BY <1>3 DEF clearKVStorage, flags, threads
    <2>2. Ending(s)' /\ UNCHANGED apc
      BY <2>1, RoleOf DEF Steady, Gone, Starting, Ending, admin
    <2>3. RolesOK'
      BY <1>1, <2>1, <2>2, RolesKept, RoleOf DEF Steady, Gone, Starting
    <2>4. \A t \in Servers : Running(t)' <=> Running(t)
      BY <2>1 DEF Running
    <2>5. ListsOK'
      BY <1>1 DEF ReliableInv, ListsOK, ecsVars
    <2>6. AdminsOK'
      BY <1>1, <2>1, <2>4 DEF ReliableInv, AdminsOK, IsAsked, Busy, admin, ecsVars, WithMeta, MoveTo
    <2>7. MetaOK' /\ MoveOK' /\ LockOnlyWhileMoving'
      BY <1>1, <2>1 DEF ReliableInv, MetaOK, MoveOK, LockOnlyWhileMoving, admin, ecsVars
    <2> QED
      BY <2>3, <2>5, <2>6, <2>7 DEF ReliableInv
  <1>4. CASE exit(s)
    <2>1. proc[s] = "cleared" /\ ~(asked = s /\ apc[s] = "reply")
      BY <1>4 DEF exit, MainThread
    <2>2. \/ epc = "awaitLeave" /\ s = node /\ Ending(s)
          \/ epc = "shutDownAll" /\ s \in idleServers /\ Ending(s)
      BY <2>1, RoleOf DEF Steady, Gone, Starting
    <2>3. asked = Null /\ \A t \in Servers : apc[t] \notin Connected
      BY <2>2, NobodyMoves
    <2>4. /\ proc' = [proc EXCEPT ![s] = "down"] /\ UNCHANGED second
          /\ znode' = [znode EXCEPT ![s] = IF @ = "live" THEN "stale" ELSE @]
          /\ \A t \in Servers : apc'[t] = IF t # s \/ apc[t] = "none" THEN apc[t] ELSE "closed"
          /\ \A t \in Servers \ {s} : areq'[t] = areq[t]
          /\ metadata' = [metadata EXCEPT ![s] = {}]
          /\ writeLock' = [writeLock EXCEPT ![s] = FALSE]
      BY <1>4 DEF exit, ProcessEnds
    <2>5. Ending(s)' /\ ~Busy(s)' /\ apc'[s] \notin Moving
      BY <2>4 DEF Ending, Busy, Moving
    <2>6. \A t \in Servers \ {s} : /\ proc'[t] = proc[t] /\ znode'[t] = znode[t]
                                   /\ apc'[t] = apc[t] /\ metadata'[t] = metadata[t]
                                   /\ writeLock'[t] = writeLock[t] /\ areq'[t] = areq[t]
      BY <2>4
    <2>7. RolesOK'
      BY <1>1, <2>2, <2>4, <2>5, <2>6, RolesKept DEF Busy
    <2>8. ListsOK'
      BY <1>1 DEF ReliableInv, ListsOK, ecsVars
    <2>9. AdminsOK'
      <3>1. UNCHANGED <<asked, epc, idleServers>>
        BY <1>1 DEF ecsVars
      <3>2. \A t \in Servers : Busy(t)' => t # s /\ Busy(t)
        BY <2>5, <2>6 DEF Busy
      <3>3. \A t \in Servers : apc'[t] \in Moving => t # s
        BY <2>5
      <3>4. \A t \in Servers : Busy(t)' => Running(t)'
        BY <2>6, <3>2 DEF ReliableInv, AdminsOK, Running
      <3> QED
        BY <2>2, <2>3, <2>6, <3>1, <3>2, <3>3, <3>4 DEF ReliableInv, AdminsOK, IsAsked
    <2>10. MetaOK'
      <3>1. UNCHANGED <<asked, epc, ecsMeta, node>>
        BY <1>1 DEF ecsVars
      <3>2. CASE epc = "awaitLeave"
        <4>1. ecsMeta \subseteq Servers \ {s}
          BY <2>2, <3>2 DEF ReliableInv, ListsOK
        <4> QED
          BY <2>6, <3>1, <3>2, <4>1 DEF ReliableInv, MetaOK, Joins
      <3>3. CASE epc = "shutDownAll"
        BY <3>1, <3>3 DEF MetaOK, Joins
      <3> QED
        BY <2>2, <3>2, <3>3
    <2>11. MoveOK'
      BY <2>3, <2>5, <2>6 DEF ReliableInv, MoveOK, Connected, Moving
    <2>12. LockOnlyWhileMoving'
      BY <2>4, <2>6 DEF ReliableInv, LockOnlyWhileMoving
    <2> QED
      BY <2>7, <2>8, <2>9, <2>10, <2>11, <2>12 DEF ReliableInv
  <1> QED
    BY <1>1, <1>2, <1>3, <1>4 DEF RunStep, secondFails, secondTakesOver

LEMMA ExpiryReliable ==
    ASSUME ClusterInv, ReliableInv, NEW s \in Servers, Expiry(s)
    PROVE  ReliableInv'
  <1> USE Types
  <1>1. /\ UNCHANGED <<ecsVars, proc, second, metadata, writeLock, pc, admin>>
        /\ znode[s] = "stale" /\ znode' = [znode EXCEPT ![s] = "none"]
    BY DEF Expiry, SessionExpires, ServersOnly, flags, threads
  <1>2. Ending(s)'
    BY <1>1, RoleOf DEF Steady, Gone, Starting, Ending
  <1>3. RolesOK'
    BY <1>1, <1>2, RolesKept, RoleOf DEF Steady, Gone, Starting, admin
  <1>4. ListsOK'
    BY <1>1 DEF ReliableInv, ListsOK, ecsVars
  <1>5. AdminsOK'
    BY <1>1 DEF ReliableInv, AdminsOK, IsAsked, Busy, Running, admin, ecsVars, WithMeta, MoveTo
  <1>6. MetaOK' /\ MoveOK' /\ LockOnlyWhileMoving'
    BY <1>1 DEF ReliableInv, MetaOK, MoveOK, LockOnlyWhileMoving, admin, ecsVars
  <1> QED
    BY <1>3, <1>4, <1>5, <1>6 DEF ReliableInv

-----------------------------------------------------------------------------
(* The ECS's steps.                                                        *)

\* Between two exchanges no server has a request.
LEMMA NoneBusy ==
    ASSUME ClusterInv, ReliableInv, asked = Null, epc # "shutDownAll"
    PROVE  \A s \in Servers : ~Busy(s) /\ apc[s] \notin Moving /\ ~writeLock[s]
  <1>1. \A s \in Servers : ~Busy(s)
    BY Types DEF ReliableInv, AdminsOK
  <1>2. \A s \in Servers : apc[s] \notin Moving
    BY <1>1 DEF Busy, Moving
  <1> QED
    BY <1>1, <1>2, Types DEF ReliableInv, LockOnlyWhileMoving

LEMMA QuietAdmins ==
    ASSUME asked' = Null, \A s \in Servers : ~Busy(s)'
    PROVE  AdminsOK' /\ MoveOK'
  <1>1. \A s \in Servers : apc'[s] \notin Moving \cup Connected /\ apc'[s] # "moveHangs"
    BY DEF Busy, Moving, Connected
  <1> QED
    BY <1>1 DEF AdminsOK, MoveOK

\* The end of a step that talks to nobody.
LEMMA LocalQuiet ==
    ASSUME ClusterInv, ReliableInv, asked = Null, epc # "shutDownAll", asked' = Null,
           UNCHANGED <<apc, writeLock>>
    PROVE  AdminsOK' /\ MoveOK' /\ LockOnlyWhileMoving'
  <1>1. \A s \in Servers : ~Busy(s)'
    BY NoneBusy DEF Busy
  <1> QED
    BY <1>1, NoneBusy, QuietAdmins DEF LockOnlyWhileMoving

\* A request is sent.
LEMMA AskReliable ==
    ASSUME ClusterInv, ReliableInv, NEW l, NEW s \in Servers, NEW m, Ask(l, s, m), IsAsked(s, m)
    PROVE  ReliableInv'
  <1> USE Types
  <1>1. /\ UNCHANGED <<process, flags, pc, epc, idleServers, activeServers, ecsMeta, node, peer,
                       range, todo>>
        /\ asked = Null /\ asked' = s /\ Accepts(s)
        /\ apc' = [apc EXCEPT ![s] = "adminServe"] /\ areq' = [areq EXCEPT ![s] = m]
    BY DEF Ask, EAt, AdminCall, TalksOnly, lists, command, threads
  <1>2. epc # "shutDownAll" /\ \A t \in Servers : ~Busy(t) /\ ~writeLock[t]
    BY <1>1, NoneBusy DEF IsAsked
  <1>3. /\ apc'[s] = "adminServe" /\ areq'[s] = m
        /\ \A t \in Servers \ {s} : apc'[t] = apc[t] /\ areq'[t] = areq[t]
    BY <1>1
  <1>4. ListsOK'
    BY <1>1 DEF ReliableInv, ListsOK
  <1>5. RolesOK'
    <2>1. Told' = Told
      BY <1>1 DEF Told
    <2>2. ~(epc = "shutdown_server" /\ Ending(node))
      BY <1>1 DEF ReliableInv, RolesOK
    <2>3. epc = "shutdown_server" => Steady(node) /\ s = node
      BY <2>2 DEF ReliableInv, RolesOK, Told, IsAsked
    <2> QED
      BY <1>1, <1>2, <1>3, <2>1, <2>2, <2>3
         DEF ReliableInv, RolesOK, Told, Steady, Gone, Starting, Ending, process
  <1>6. AdminsOK'
    <2>1. \A t \in Servers \ {s} : ~Busy(t)' /\ apc'[t] \notin Moving
      BY <1>2, <1>3 DEF Busy, Moving
    <2>2. Busy(s)' /\ apc'[s] \notin Moving /\ Running(s)'
      BY <1>1, <1>3 DEF Busy, Moving, Running, Accepts, process
    <2>3. IsAsked(s, m)'
      BY <1>1 DEF IsAsked, WithMeta, MoveTo
    <2> QED
      BY <1>1, <1>2, <1>3, <2>1, <2>2, <2>3 DEF AdminsOK, IsAsked, WithMeta, MoveTo
  <1>7. MetaOK'
    BY <1>1, <1>3 DEF ReliableInv, MetaOK, flags
  <1>8. MoveOK' /\ LockOnlyWhileMoving'
    BY <1>1, <1>2, <1>3 DEF ReliableInv, MoveOK, LockOnlyWhileMoving, flags, Connected
  <1> QED
    BY <1>4, <1>5, <1>6, <1>7, <1>8 DEF ReliableInv

\* An exchange ends with a reply: the server is up and stays so.
LEMMA ExchangeReliable ==
    ASSUME ClusterInv, ReliableInv, NEW l, NEW s \in Servers, NEW m, NEW a, NEW r, NEW n,
           Exchange(l, s, m, a, r, n), IsAsked(s, m), asked = Null => Steady(s)
    PROVE  \/ ReliableInv'
           \/ Answered(l, s) /\ EGoto(a) /\ UNCHANGED <<lists, command>> /\ TalksOnly
  <1>1. ~Lost(l, s)
    BY Types DEF Lost, ReliableInv, AdminsOK, Busy
  <1>2. ~IsRefused(l, s)
    BY DEF IsRefused, EAt, Refuses, Listens, Steady
  <1> QED
    BY <1>1, <1>2, AskReliable DEF Exchange

\* The reply is read.
LEMMA AnsweredGoes ==
    ASSUME ClusterInv, ReliableInv, NEW l, NEW s \in Servers, Answered(l, s), asked' = Null,
           TalksOnly
    PROVE  /\ AdminsOK' /\ MoveOK' /\ LockOnlyWhileMoving'
           /\ UNCHANGED <<proc, znode, second, metadata>>
           /\ apc'[s] = "none" /\ \A t \in Servers \ {s} : apc'[t] = apc[t]
           /\ epc = l /\ asked = s /\ apc[s] = "reply" /\ IsAsked(s, areq[s])
  <1> USE Types
  <1>1. /\ epc = l /\ asked = s /\ apc[s] = "reply" /\ apc' = [apc EXCEPT ![s] = "none"]
        /\ UNCHANGED <<proc, znode, second, metadata, writeLock>>
    BY DEF Answered, AdminDone, TalksOnly, process, flags
  <1>2. IsAsked(s, areq[s]) /\ epc # "shutDownAll"
    BY <1>1 DEF ReliableInv, AdminsOK, IsAsked
  <1>3. \A t \in Servers : ~Busy(t)' /\ ~writeLock[t]
    <2>1. \A t \in Servers \ {s} : ~Busy(t)
      BY <1>1, <1>2 DEF ReliableInv, AdminsOK
    <2>2. \A t \in Servers : apc[t] \notin Moving
      BY <1>1, <2>1 DEF Busy, Moving
    <2> QED
      BY <1>1, <2>1, <2>2 DEF Busy, ReliableInv, LockOnlyWhileMoving
  <1> QED
    BY <1>1, <1>2, <1>3, QuietAdmins DEF LockOnlyWhileMoving

\* The rounds.
LEMMA RoundReliable ==
    ASSUME ClusterInv, ReliableInv, NEW l, NEW m, NEW f, Round(l, m, f),
           epc = l => l \in Rounds /\ \A s \in todo : IsAsked(s, m)
    PROVE  ReliableInv'
  <1> USE Types
  <1>1. PICK s \in todo :
          \/ Ask(l, s, m)
          \/ /\ \/ Answered(l, s) /\ EGoto(l)
                \/ Lost(l, s)
                \/ IsRefused(l, s)
             /\ todo' = todo \ {s}
             /\ UNCHANGED <<lists, node, peer, range>>
             /\ TalksOnly
    BY DEF Round
  <1>2. epc = l /\ s \in Servers /\ l \in Rounds /\ IsAsked(s, m)
    BY <1>1 DEF Ask, Answered, Lost, IsRefused, EAt
  <1>3. Steady(s)
    BY <1>2 DEF ReliableInv, ListsOK, RolesOK, Rounds, Told
  <1>4. ~Lost(l, s) /\ ~IsRefused(l, s)
    BY <1>2, <1>3 DEF Lost, IsRefused, ReliableInv, AdminsOK, Busy, Refuses, Listens, Steady
  <1>5. CASE Ask(l, s, m)
    BY <1>2, <1>5, AskReliable
  <1>6. CASE Answered(l, s) /\ EGoto(l) /\ todo' = todo \ {s}
             /\ UNCHANGED <<lists, node, peer, range>> /\ TalksOnly
    <2>1. epc' = epc /\ asked' = Null /\ todo' = todo \ {s}
          /\ UNCHANGED <<idleServers, activeServers, ecsMeta, node, peer, range>>
      BY <1>2, <1>6 DEF EGoto, lists
    <2>2. /\ AdminsOK' /\ MoveOK' /\ LockOnlyWhileMoving'
          /\ UNCHANGED <<proc, znode, second, metadata>>
          /\ asked = s /\ apc[s] = "reply"
      BY <1>2, <1>6, <2>1, AnsweredGoes
    <2>3. ListsOK'
      BY <2>1 DEF ReliableInv, ListsOK
    <2>4. RolesOK'
      BY <1>2, <2>1, <2>2 DEF ReliableInv, RolesOK, Rounds, Joins, Told, Steady, Gone, Starting, Ending
    <2>5. MetaOK'
      BY <1>2, <2>1, <2>2 DEF ReliableInv, MetaOK, Rounds, Joins
    <2> QED
      BY <2>2, <2>3, <2>4, <2>5 DEF ReliableInv
  <1> QED
    BY <1>1, <1>4, <1>5, <1>6

\* The START that follows the reply to INIT_SERVER.
LEMMA StartNextReliable ==
    ASSUME ClusterInv, ReliableInv, epc = "init", asked = node, AdminNext(node, Message("START")),
           epc' = "start", UNCHANGED asked, UNCHANGED <<lists, command>>, TalksOnly
    PROVE  ReliableInv'
  <1> USE Types
  <1>1. /\ UNCHANGED <<proc, znode, second, metadata, writeLock, pc, idleServers, activeServers,
                       ecsMeta, node, peer, range, todo>>
        /\ apc[node] = "reply" /\ Busy(node)
        /\ apc'[node] = "adminServe" /\ areq'[node] = Message("START")
        /\ \A t \in Servers \ {node} : apc'[t] = apc[t] /\ areq'[t] = areq[t]
    BY DEF AdminNext, TalksOnly, process, flags, threads, lists, command, Busy
  <1>2. \A t \in Servers \ {node} : ~Busy(t) /\ apc[t] \notin Moving
    BY DEF ReliableInv, AdminsOK, Busy, Moving
  <1>3. ListsOK'
    BY <1>1 DEF ReliableInv, ListsOK, Joins, Leaves, Rounds, Steps
  <1>4. RolesOK'
    <2>1. Told = {} /\ Told' = {}
      BY DEF Told
    <2> QED
      BY <1>1, <2>1 DEF ReliableInv, RolesOK, Joins, Steady, Gone
  <1>5. AdminsOK'
    <2>1. Running(node)'
      BY <1>1 DEF ReliableInv, AdminsOK, Running
    <2>2. \A t \in Servers \ {node} : ~Busy(t)' /\ apc'[t] \notin Moving
      BY <1>1, <1>2 DEF Busy
    <2>3. Busy(node)' /\ apc'[node] \notin Moving
      BY <1>1 DEF Busy, Moving
    <2>4. IsAsked(node, Message("START"))'
      BY <1>1 DEF IsAsked, Message
    <2> QED
      BY <1>1, <2>1, <2>2, <2>3, <2>4 DEF AdminsOK, IsAsked, Message, WithMeta, MoveTo
  <1>6. MetaOK'
    <2>1. metadata[node] = ecsMeta
      BY <1>1 DEF ReliableInv, MetaOK
    <2> QED
      BY <1>1, <2>1 DEF ReliableInv, MetaOK, Joins
  <1>7. MoveOK' /\ LockOnlyWhileMoving'
    BY <1>1, <1>2 DEF ReliableInv, MoveOK, LockOnlyWhileMoving, Connected, Moving
  <1> QED
    BY <1>3, <1>4, <1>5, <1>6, <1>7 DEF ReliableInv

\* The exchanges of addNode.
LEMMA JoinReliable ==
    ASSUME ClusterInv, ReliableInv, sendInit \/ sendStart \/ sendJoinMove
    PROVE  ReliableInv'
  <1> USE Types
  <1>1. epc \in {"init", "start", "join"}
    BY ExchangeGoes DEF sendInit, sendStart, sendJoinMove, Ask, EAt, Answered, Lost, IsRefused
  <1>2. /\ Steady(node) /\ (activeServers # {} => Steady(peer)) /\ epc \in Joins
    BY <1>1 DEF ReliableInv, ListsOK, RolesOK, Joins, Told
  <1>3. ASSUME NEW s \in Servers, Answered(epc, s), NEW a \in {"start", "join", "joined"}, EGoto(a),
               epc = "init" => s = node,
               UNCHANGED <<lists, command>>, TalksOnly
        PROVE  ReliableInv'
    <2>1. /\ epc' = a /\ asked' = Null
          /\ UNCHANGED <<idleServers, activeServers, ecsMeta, node, peer, range, todo>>
      BY <1>3 DEF EGoto, lists, command
    <2>2. /\ AdminsOK' /\ MoveOK' /\ LockOnlyWhileMoving'
          /\ UNCHANGED <<proc, znode, second, metadata>>
          /\ asked = s /\ apc[s] = "reply"
      BY <1>3, <2>1, AnsweredGoes
    <2>3. ListsOK'
      BY <1>2, <1>3, <2>1 DEF ReliableInv, ListsOK, Joins, Leaves, Rounds, Steps
    <2>4. RolesOK'
      <3>1. Told = {} /\ Told' = {}
        BY <1>1, <1>3, <2>1 DEF Told
      <3> QED
        BY <1>2, <1>3, <2>1, <2>2, <3>1 DEF ReliableInv, RolesOK, Joins, Steady, Gone
    <2>5. MetaOK'
      <3>1. metadata[node] = ecsMeta
        BY <1>1, <1>3, <2>2 DEF ReliableInv, MetaOK
      <3> QED
        BY <1>1, <1>3, <2>1, <2>2, <3>1 DEF ReliableInv, MetaOK, Joins
    <2> QED
      BY <2>2, <2>3, <2>4, <2>5 DEF ReliableInv
  <1>4. CASE sendInit
    <2>1. epc = "init" /\ IsAsked(node, WithMeta("INIT_SERVER"))
      BY <1>4 DEF sendInit, Ask, EAt, Lost, IsRefused, IsAsked
    <2>2. ~Lost("init", node) /\ ~IsRefused("init", node)
      BY <1>2 DEF Lost, IsRefused, ReliableInv, AdminsOK, Busy, Refuses, Listens, Steady
    <2> QED
      BY <1>4, <2>1, <2>2, AskReliable, StartNextReliable DEF sendInit
  <1>5. CASE sendStart
    <2>1. Answered("start", node) /\ epc = "start"
      BY <1>5 DEF sendStart, Answered, Lost, ReliableInv, AdminsOK, Busy
    <2> QED
      BY <1>3, <1>5, <2>1 DEF sendStart
  <1>6. CASE sendJoinMove
    <2>1. epc = "join" /\ activeServers # {} /\ IsAsked(peer, MoveTo(node))
      BY <1>6, ExchangeGoes DEF sendJoinMove, IsAsked
    <2>2. \/ ReliableInv'
          \/ Answered("join", peer) /\ EGoto("joined") /\ UNCHANGED <<lists, command>> /\ TalksOnly
      BY <1>2, <1>6, <2>1, ExchangeReliable DEF sendJoinMove
    <2> QED
      BY <1>3, <2>1, <2>2
  <1> QED
    BY <1>4, <1>5, <1>6

\* The exchanges of removeNode, up to the request to shut down.
LEMMA LeaveReliable ==
    ASSUME ClusterInv, ReliableInv, sendHeirUpdate \/ sendLeaveMove
    PROVE  ReliableInv'
  <1> USE Types
  <1>1. epc \in {"updateHeir", "leave"}
    BY ExchangeGoes DEF sendHeirUpdate, sendLeaveMove
  <1>2. Steady(node) /\ Steady(peer)
    BY <1>1 DEF ReliableInv, ListsOK, RolesOK, Leaves, Told
  <1>3. ASSUME NEW s \in Servers, Answered(epc, s), NEW a \in {"leave", "left"}, EGoto(a),
               epc = "updateHeir" => s = peer, UNCHANGED <<lists, command>>, TalksOnly
        PROVE  ReliableInv'
    <2>1. /\ epc' = a /\ asked' = Null
          /\ UNCHANGED <<idleServers, activeServers, ecsMeta, node, peer, range, todo>>
      BY <1>3 DEF EGoto, lists, command
    <2>2. /\ AdminsOK' /\ MoveOK' /\ LockOnlyWhileMoving'
          /\ UNCHANGED <<proc, znode, second, metadata>>
          /\ asked = s /\ apc[s] = "reply"
      BY <1>3, <2>1, AnsweredGoes
    <2>3. ListsOK'
      BY <1>1, <1>3, <2>1 DEF ReliableInv, ListsOK, Joins, Leaves, Rounds, Steps
    <2>4. RolesOK'
      <3>1. Told = {} /\ Told' = {}
        BY <1>1, <1>3, <2>1 DEF Told
      <3> QED
        BY <1>1, <1>3, <2>1, <2>2, <3>1 DEF ReliableInv, RolesOK, Joins, Steady, Gone
    <2>5. MetaOK'
      <3>1. metadata[peer] = ecsMeta
        BY <1>1, <1>3, <2>2 DEF ReliableInv, MetaOK
      <3> QED
        BY <1>3, <2>1, <2>2, <3>1 DEF MetaOK, Joins
    <2> QED
      BY <2>2, <2>3, <2>4, <2>5 DEF ReliableInv
  <1>4. CASE sendHeirUpdate
    <2>1. epc = "updateHeir" /\ IsAsked(peer, WithMeta("UPDATE"))
      BY <1>4, ExchangeGoes DEF sendHeirUpdate, IsAsked
    <2>2. \/ ReliableInv'
          \/ /\ Answered("updateHeir", peer) /\ EGoto("leave")
             /\ UNCHANGED <<lists, command>> /\ TalksOnly
      BY <1>2, <1>4, <2>1, ExchangeReliable DEF sendHeirUpdate
    <2> QED
      BY <1>3, <2>1, <2>2
  <1>5. CASE sendLeaveMove
    <2>1. epc = "leave" /\ IsAsked(node, MoveTo(peer))
      BY <1>5, ExchangeGoes DEF sendLeaveMove, IsAsked
    <2>2. \/ ReliableInv'
          \/ Answered("leave", node) /\ EGoto("left") /\ UNCHANGED <<lists, command>> /\ TalksOnly
      BY <1>2, <1>5, <2>1, ExchangeReliable DEF sendLeaveMove
    <2> QED
      BY <1>3, <2>1, <2>2
  <1> QED
    BY <1>4, <1>5

LEMMA ShutdownServerReliable ==
    ASSUME ClusterInv, ReliableInv, shutdown_server
    PROVE  ReliableInv'
  <1> USE Types
  <1>1. epc = "shutdown_server" /\ node \in activeServers /\ Told = {node}
    BY DEF shutdown_server, Ask, EAt, Answered, Lost, IsRefused, ReliableInv, ListsOK, Leaves, Told
  <1>2. IsAsked(node, Message("SHUTDOWN"))
    BY <1>1 DEF IsAsked
  <1>3. ~Lost("shutdown_server", node)
    BY DEF Lost, ReliableInv, AdminsOK, Busy
  <1>4. ~IsRefused("shutdown_server", node)
    <2>1. asked = Null => Steady(node)
      BY <1>1 DEF ReliableInv, RolesOK
    <2> QED
      BY <2>1 DEF IsRefused, EAt, Refuses, Listens, Steady
  <1>5. CASE Ask("shutdown_server", node, Message("SHUTDOWN"))
    BY <1>2, <1>5, AskReliable
  <1>6. CASE /\ Answered("shutdown_server", node)
             /\ idleServers' = idleServers \cup {node}
             /\ activeServers' = activeServers \ {node}
             /\ EGoto("awaitLeave") /\ UNCHANGED <<ecsMeta, command>> /\ TalksOnly
    <2>1. /\ epc' = "awaitLeave" /\ asked' = Null
          /\ UNCHANGED <<ecsMeta, node, peer, range, todo>>
      BY <1>6 DEF EGoto, command
    <2>2. /\ AdminsOK' /\ MoveOK' /\ LockOnlyWhileMoving'
          /\ UNCHANGED <<proc, znode, second, metadata>>
          /\ asked = node /\ apc[node] = "reply"
      BY <1>6, <2>1, AnsweredGoes
    <2>3. Ending(node)
      BY <1>1, <2>2 DEF ReliableInv, RolesOK
    <2>4. ListsOK'
      BY <1>1, <1>6, <2>1 DEF ReliableInv, ListsOK, Joins, Leaves, Rounds, Steps
    <2>5. RolesOK'
      <3>1. Told' = {node}
        BY <2>1 DEF Told
      <3> QED
        BY <1>1, <1>6, <2>1, <2>2, <2>3, <3>1 DEF ReliableInv, RolesOK, Joins, Steady, Gone, Ending
    <2>6. MetaOK'
      BY <1>1, <1>6, <2>1, <2>2 DEF ReliableInv, MetaOK, Joins
    <2> QED
      BY <2>2, <2>4, <2>5, <2>6 DEF ReliableInv
  <1> QED
    BY <1>3, <1>4, <1>5, <1>6 DEF shutdown_server

\* The steps that talk to nobody, apart from the waits.
LEMMA LocalReliable ==
    ASSUME ClusterInv, ReliableInv, joined \/ left \/ roundDone
    PROVE  ReliableInv'
  <1> USE Types
  <1>1. /\ UNCHANGED <<proc, znode, second, metadata, apc, writeLock>> /\ asked = Null
        /\ asked' = Null /\ epc \in {"join", "joined", "left"} \cup Rounds
    BY DEF joined, left, roundDone, EAt, EGoto, Ready, Local, serverVars, Rounds
  <1>2. AdminsOK' /\ MoveOK' /\ LockOnlyWhileMoving'
    BY <1>1, LocalQuiet DEF Rounds
  <1>3. \A s \in Servers : ~Busy(s)
    BY <1>1, NoneBusy DEF Rounds
  <1> SUFFICES ListsOK' /\ RolesOK' /\ MetaOK'
    BY <1>2 DEF ReliableInv
  <1> USE DEF ReliableInv, Steady, Gone
  <1>4. CASE joined
    <2>1. /\ epc \in {"join", "joined"} /\ epc' = "updateJoin"
          /\ activeServers' = activeServers \cup {node} /\ todo' = activeServers'
          /\ UNCHANGED <<idleServers, ecsMeta, node, peer, range>>
      BY <1>4 DEF joined, EAt, EGoto
    <2>2. ListsOK'
      BY <2>1 DEF ListsOK, Joins, Leaves, Rounds, Steps
    <2>3. RolesOK'
      <3>1. Told = {} /\ Told' = {}
        BY <2>1 DEF Told
      <3> QED
        BY <1>1, <2>1, <3>1 DEF RolesOK, Joins
    <2>4. MetaOK'
      BY <1>1, <2>1 DEF MetaOK, Joins
    <2> QED
      BY <2>2, <2>3, <2>4
  <1>5. CASE left
    <2>1. /\ epc = "left" /\ epc' = "updateLeave" /\ todo' = activeServers
          /\ UNCHANGED <<idleServers, activeServers, ecsMeta, node, peer, range>>
      BY <1>5 DEF left, EAt, EGoto, lists
    <2>2. ListsOK'
      BY <2>1 DEF ListsOK, Joins, Leaves, Rounds, Steps
    <2>3. RolesOK'
      <3>1. Told = {} /\ Told' = {}
        BY <2>1 DEF Told
      <3> QED
        BY <1>1, <2>1, <3>1 DEF RolesOK, Joins
    <2>4. MetaOK'
      BY <1>1, <2>1 DEF MetaOK, Joins
    <2> QED
      BY <2>2, <2>3, <2>4
  <1>6. CASE roundDone
    <2>1. todo = {} /\ UNCHANGED <<idleServers, activeServers, ecsMeta>>
      BY <1>6 DEF roundDone, lists
    <2>2. CASE epc \in {"updateJoin", "startAll", "stopAll"} /\ epc' = "ready"
      <3>1. ListsOK'
        BY <2>1, <2>2 DEF ListsOK, Joins, Leaves, Rounds, Steps
      <3>2. RolesOK'
        <4>1. Told = {} /\ Told' = {}
          BY <2>2 DEF Told
        <4> QED
          BY <1>1, <2>1, <2>2, <4>1 DEF RolesOK, Joins
      <3>3. MetaOK'
        BY <1>1, <2>1, <2>2 DEF MetaOK, ListsOK, Joins
      <3> QED
        BY <3>1, <3>2, <3>3
    <2>3. CASE epc = "updateLeave" /\ epc' = "shutdown_server" /\ UNCHANGED command
      <3>1. UNCHANGED <<node, peer, range, todo>>
        BY <2>3 DEF command
      <3>2. ListsOK'
        BY <2>1, <2>3, <3>1 DEF ListsOK, Joins, Leaves, Rounds, Steps
      <3>3. RolesOK'
        <4>1. Told = {} /\ Told' = {node} /\ node \in activeServers
          BY <2>3, <3>1 DEF Told, ListsOK, Leaves
        <4>2. Steady(node) /\ apc[node] # "reply"
          BY <1>3, <4>1 DEF RolesOK, Busy
        <4> QED
          BY <1>1, <2>1, <2>3, <3>1, <4>1, <4>2 DEF RolesOK, Joins, Ending
      <3>4. MetaOK'
        BY <1>1, <2>1, <2>3, <3>1 DEF MetaOK, ListsOK, Leaves, Joins
      <3> QED
        BY <3>2, <3>3, <3>4
    <2> QED
      BY <1>6, <2>2, <2>3 DEF roundDone, Ready, EGoto
  <1> QED
    BY <1>4, <1>5, <1>6

-----------------------------------------------------------------------------
(* The waits: as many nodes under /keeper as expected means the right ones. *)

LEMMA ServersFinite == IsFiniteSet(Servers)
  <1>1. IsFiniteSet(Positions)
    BY FS_Interval, RingSizeAssumption DEF Positions
  <1> QED
    BY <1>1, FS_Subset, ServersAssumption

\* A wait that does not count as a fault.
LEMMA AwaitReliable ==
    ASSUME MaxFaults = 0, ClusterInv, NEW count, awaitNodes(count)
    PROVE  Cardinality(Registered) = count \/ Settled
  BY Types DEF awaitNodes, Fault

LEMMA AwaitJoinReliable ==
    ASSUME MaxFaults = 0, ClusterInv, ReliableInv, awaitJoin
    PROVE  ReliableInv'
  <1> USE Types
  <1>1. /\ epc = "awaitJoin" /\ asked = Null /\ epc' = "init" /\ asked' = Null
        /\ ecsMeta' = activeServers \cup {node}
        /\ UNCHANGED <<idleServers, activeServers, node, todo>>
        /\ UNCHANGED <<proc, znode, second, metadata, apc, writeLock>>
    BY DEF awaitJoin, EAt, EGoto, serverVars
  <1>2. AdminsOK' /\ MoveOK' /\ LockOnlyWhileMoving'
    BY <1>1, LocalQuiet
  <1>3. /\ \A s \in activeServers : Steady(s)
        /\ \A s \in idleServers : Gone(s)
        /\ Starting(node) /\ node \notin activeServers \cup idleServers
        /\ activeServers \cup idleServers \cup {node} = Servers
    BY <1>1 DEF ReliableInv, ListsOK, RolesOK, Joins, Told
  <1>4. Steady(node)
    <2>1. Cardinality(Registered) = Cardinality(activeServers) + 1 \/ Settled
      BY AwaitReliable DEF awaitJoin
    <2>2. CASE Settled
      BY <1>3, <2>2 DEF Settled, Starting
    <2>3. CASE Cardinality(Registered) = Cardinality(activeServers) + 1
      <3>1. Cardinality(activeServers) \in Nat
        BY ServersFinite, FS_Subset, FS_CardinalityType
      <3>2. Registered # activeServers
        BY <2>3, <3>1
      <3>3. Registered = activeServers \cup (IF znode[node] # "none" THEN {node} ELSE {})
        BY <1>3 DEF Registered, Steady, Gone
      <3> QED
        BY <1>3, <3>2, <3>3 DEF Starting
    <2> QED
      BY <2>1, <2>2, <2>3
  <1>5. activeServers # {} => peer' \in activeServers
    <2> SUFFICES ASSUME activeServers # {} PROVE peer' \in activeServers
      OBVIOUS
    <2>1. peer' \in getNodeByKey(node, ecsMeta) /\ ecsMeta = activeServers
      BY <1>1 DEF awaitJoin, ReliableInv, ListsOK
    <2> QED
      BY <2>1, LookupNamesNode
  <1>6. ListsOK'
    BY <1>1, <1>5 DEF ReliableInv, ListsOK, Joins, Leaves, Rounds, Steps
  <1>7. RolesOK'
    <2>1. Told = {} /\ Told' = {}
      BY <1>1 DEF Told
    <2> QED
      BY <1>1, <1>4, <2>1 DEF ReliableInv, RolesOK, Joins, Steady, Gone
  <1>8. MetaOK'
    BY <1>1 DEF ReliableInv, MetaOK, Joins
  <1> QED
    BY <1>2, <1>6, <1>7, <1>8 DEF ReliableInv

\* The end of removeNode and of shutDown, when those that were told to end have.
LEMMA EndReliable ==
    ASSUME ClusterInv, ReliableInv, Ready, UNCHANGED serverVars, UNCHANGED lists, asked = Null,
           \A s \in activeServers : Steady(s), \A s \in idleServers : Gone(s),
           epc \in {"awaitLeave", "shutDownAll"}, epc = "shutDownAll" => activeServers = {}
    PROVE  ReliableInv'
  <1> USE Types
  <1>1. /\ epc' = "ready" /\ asked' = Null /\ UNCHANGED <<idleServers, activeServers, ecsMeta>>
        /\ UNCHANGED <<proc, znode, second, metadata, apc, writeLock, pc>>
    BY DEF Ready, lists, serverVars
  <1>2. ListsOK'
    BY <1>1 DEF ReliableInv, ListsOK, Joins, Leaves, Rounds, Steps
  <1>3. RolesOK'
    <2>1. Told' = {}
      BY <1>1 DEF Told
    <2>2. idleServers \cap activeServers = {} /\ \A s \in Servers : ~second[s]
      BY DEF ReliableInv, ListsOK, RolesOK
    <2> QED
      BY <1>1, <2>1, <2>2 DEF RolesOK, Joins, Steady, Gone
  <1>4. \A s \in Servers : ~Busy(s)'
    BY <1>1 DEF ReliableInv, AdminsOK, Busy, Running, Gone
  <1>5. AdminsOK' /\ MoveOK'
    BY <1>1, <1>4, QuietAdmins
  <1>6. LockOnlyWhileMoving'
    BY <1>1 DEF ReliableInv, LockOnlyWhileMoving
  <1>7. MetaOK'
    BY <1>1 DEF ReliableInv, MetaOK, ListsOK, Joins
  <1> QED
    BY <1>2, <1>3, <1>5, <1>6, <1>7 DEF ReliableInv

LEMMA AwaitLeaveReliable ==
    ASSUME MaxFaults = 0, ClusterInv, ReliableInv, awaitLeave
    PROVE  ReliableInv'
  <1> USE Types
  <1>1. epc = "awaitLeave" /\ asked = Null /\ Ready /\ UNCHANGED serverVars /\ UNCHANGED lists
    BY DEF awaitLeave, EAt
  <1>2. /\ \A s \in activeServers : Steady(s)
        /\ \A s \in idleServers \ {node} : Gone(s)
        /\ Ending(node) /\ node \in idleServers /\ node \notin activeServers
        /\ activeServers \cup idleServers = Servers
    BY <1>1 DEF ReliableInv, ListsOK, RolesOK, Joins, Told
  <1>3. Gone(node)
    <2>1. Cardinality(Registered) = Cardinality(activeServers) \/ Settled
      BY AwaitReliable DEF awaitLeave
    <2>2. CASE Settled
      BY <1>2, <2>2 DEF Settled, Ending, Gone
    <2>3. CASE Cardinality(Registered) = Cardinality(activeServers)
      <3>1. IsFiniteSet(activeServers) /\ Cardinality(activeServers) \in Nat
        BY ServersFinite, FS_Subset, FS_CardinalityType
      <3>2. Cardinality(activeServers \cup {node}) = Cardinality(activeServers) + 1
        BY <1>2, <3>1, FS_AddElement
      <3>3. Registered # activeServers \cup {node}
        <4> SUFFICES ASSUME Registered = activeServers \cup {node} PROVE FALSE
          OBVIOUS
        <4> DEFINE n == Cardinality(activeServers)
        <4>1. n = n + 1 /\ n \in Nat
          BY <2>3, <3>1, <3>2, Zenon
        <4> HIDE DEF n
        <4> QED
          BY <4>1
      <3>4. Registered = activeServers \cup (IF znode[node] # "none" THEN {node} ELSE {})
        BY <1>2 DEF Registered, Steady, Gone
      <3> QED
        BY <1>2, <3>3, <3>4 DEF Ending, Gone
    <2> QED
      BY <2>1, <2>2, <2>3
  <1> QED
    BY <1>1, <1>2, <1>3, EndReliable

LEMMA AwaitShutdownReliable ==
    ASSUME MaxFaults = 0, ClusterInv, ReliableInv, awaitShutdown
    PROVE  ReliableInv'
  <1> USE Types
  <1>1. /\ epc = "shutDownAll" /\ asked = Null /\ Ready /\ UNCHANGED serverVars
        /\ UNCHANGED lists /\ activeServers = {}
    BY DEF awaitShutdown, EAt
  <1>2. idleServers = Servers
    BY <1>1 DEF ReliableInv, ListsOK, Joins
  <1>3. \A s \in Servers : (Steady(s) /\ apc[s] = "adminServe") \/ Ending(s)
    BY <1>1, <1>2 DEF ReliableInv, RolesOK, Told
  <1>4. \A s \in Servers : Gone(s)
    <2>1. Cardinality(Registered) = 0 \/ Settled
      BY AwaitReliable DEF awaitShutdown
    <2>2. CASE Settled
      BY <1>3, <2>2 DEF Settled, Ending, Gone
    <2>3. CASE Cardinality(Registered) = 0
      <3>1. Registered \in SUBSET Servers
        BY DEF Registered
      <3>2. IsFiniteSet(Registered)
        BY <3>1, ServersFinite, FS_Subset
      <3>3. Registered = {}
        BY <2>3, <3>2, FS_EmptySet
      <3> QED
        BY <1>3, <3>3 DEF Registered, Steady, Ending, Gone
    <2> QED
      BY <2>1, <2>2, <2>3
  <1> QED
    BY <1>1, <1>2, <1>4, EndReliable

\* One SHUTDOWN of the command shutDown.
LEMMA SendShutdownReliable ==
    ASSUME ClusterInv, ReliableInv, sendShutdowns
    PROVE  ReliableInv'
  <1> USE Types
  <1>1. PICK s \in activeServers :
          /\ epc = "shutDownAll" /\ asked = Null
          /\ \/ /\ AdminCall(s, Message("SHUTDOWN"))
                /\ idleServers' = idleServers \cup {s}
                /\ activeServers' = activeServers \ {s}
                /\ EGoto("shutDownAll")
             \/ Refuses(s)
          /\ UNCHANGED <<ecsMeta, command>> /\ TalksOnly
    BY DEF sendShutdowns, EAt
  <1>2. s \in Servers /\ Steady(s) /\ s \notin idleServers
    BY <1>1 DEF ReliableInv, RolesOK, ListsOK, Told
  <1>3. /\ idleServers' = idleServers \cup {s} /\ activeServers' = activeServers \ {s}
        /\ epc' = "shutDownAll" /\ asked' = Null
        /\ apc' = [apc EXCEPT ![s] = "adminServe"]
        /\ areq' = [areq EXCEPT ![s] = Message("SHUTDOWN")]
        /\ UNCHANGED <<proc, znode, second, metadata, writeLock, pc>>
    BY <1>1, <1>2 DEF AdminCall, EGoto, TalksOnly, process, flags, threads, Refuses, Listens,
                        Steady
  <1>4. /\ apc'[s] = "adminServe" /\ areq'[s].type = "SHUTDOWN"
        /\ \A t \in Servers \ {s} : apc'[t] = apc[t] /\ areq'[t] = areq[t]
    BY <1>2, <1>3, MessageFields
  <1>5. ListsOK'
    BY <1>1, <1>2, <1>3 DEF ReliableInv, ListsOK, Joins, Leaves, Rounds, Steps
  <1>6. RolesOK'
    <2>1. Told = idleServers /\ Told' = idleServers \cup {s}
      BY <1>1, <1>3 DEF Told
    <2> QED
      BY <1>1, <1>2, <1>3, <1>4, <2>1 DEF ReliableInv, RolesOK, Joins, Steady, Ending
  <1>7. AdminsOK'
    <2>1. Running(s)'
      BY <1>2, <1>3 DEF Steady, Running
    <2> QED
      BY <1>1, <1>2, <1>3, <1>4, <2>1 DEF ReliableInv, AdminsOK, Busy, Running, Moving
  <1>8. MetaOK'
    BY <1>3 DEF MetaOK, Joins
  <1>9. MoveOK' /\ LockOnlyWhileMoving'
    <2>1. ~Busy(s) /\ apc[s] \notin Moving
      BY <1>1, <1>2 DEF ReliableInv, AdminsOK, Busy, Moving
    <2> QED
      BY <1>2, <1>3, <1>4, <2>1 DEF ReliableInv, MoveOK, LockOnlyWhileMoving, Connected
  <1> QED
    BY <1>5, <1>6, <1>7, <1>8, <1>9 DEF ReliableInv

\* Every server the ECS connects to accepts.
LEMMA ConnectsToSteady ==
    ASSUME ClusterInv, ReliableInv, NEW s \in Servers, ECSConnects(s)
    PROVE  Steady(s)
  <1> USE Types
  <1>1. asked = Null
    BY DEF ECSConnects
  <1>2. CASE epc = "init"
    BY <1>2 DEF ECSConnects, ReliableInv, RolesOK, Joins
  <1>3. CASE epc = "shutdown_server"
    <2>1. s = node /\ node \in Told /\ ~Ending(node)
      BY <1>1, <1>3 DEF ECSConnects, ReliableInv, RolesOK, Told
    <2> QED
      BY <1>3, <2>1 DEF ReliableInv, RolesOK
  <1>4. CASE epc \in {"leave", "join", "updateHeir"} \cup Rounds
    <2>1. s \in activeServers /\ Told = {}
      BY <1>4 DEF ECSConnects, ReliableInv, ListsOK, Joins, Leaves, Rounds, Told
    <2> QED
      BY <2>1 DEF ReliableInv, RolesOK
  <1>5. CASE epc = "shutDownAll"
    <2>1. s \in activeServers \ Told
      BY <1>5 DEF ECSConnects, ReliableInv, ListsOK, Told
    <2> QED
      BY <2>1 DEF ReliableInv, RolesOK
  <1> QED
    BY <1>2, <1>3, <1>4, <1>5 DEF ECSConnects, Rounds

LEMMA CommandStepReliable ==
    ASSUME MaxFaults = 0, ClusterInv, ReliableInv, CommandStep
    PROVE  ReliableInv'
  <1>1. CASE UpdateAllNodesMeta
    BY <1>1, RoundReliable DEF UpdateAllNodesMeta, IsAsked, Rounds
  <1>2. CASE sendStarts \/ sendStops
    BY <1>2, RoundReliable DEF sendStarts, sendStops, IsAsked, Rounds
  <1>3. ~failed
    BY DEF failed, EAt, ReliableInv, ListsOK, Steps, Joins, Leaves, Rounds
  <1>4. ~connectHangs
    BY ConnectsToSteady DEF connectHangs, CutOff, Hangs, Steady
  <1> QED
    BY <1>1, <1>2, <1>3, <1>4, AwaitJoinReliable, JoinReliable, LocalReliable, LeaveReliable,
       ShutdownServerReliable, AwaitLeaveReliable, SendShutdownReliable, AwaitShutdownReliable
       DEF CommandStep

-----------------------------------------------------------------------------
(* New commands, a new ECS, and every step.                                *)

LEMMA NewCommandReliable ==
    ASSUME ClusterInv, ReliableInv, NewCommand
    PROVE  ReliableInv'
  <1> USE Types
  <1>1. epc = "ready" /\ asked = Null /\ asked' = Null /\ UNCHANGED <<metadata, apc, writeLock>>
    BY DEF NewCommand, addNode, main, mainAgain, Launch, removeNode, start, stop, shutdown, quit,
           EAt, EGoto, Local, serverVars, flags, admin
  <1>2. AdminsOK' /\ MoveOK' /\ LockOnlyWhileMoving'
    BY <1>1, LocalQuiet
  <1>3. \A s \in Servers : ~Busy(s)
    BY <1>1, NoneBusy
  <1>4. Told = {} /\ idleServers \cup activeServers = Servers /\ idleServers \cap activeServers = {}
    BY <1>1 DEF Told, ReliableInv, ListsOK, Joins
  <1> SUFFICES ListsOK' /\ RolesOK' /\ MetaOK'
    BY <1>2 DEF ReliableInv
  <1> USE DEF ReliableInv
  <1>5. ASSUME NEW n \in Servers, addNode(n)
        PROVE  ListsOK' /\ RolesOK' /\ MetaOK'
    <2>1. /\ n \in idleServers /\ idleServers' = idleServers \ {n} /\ node' = n
          /\ epc' = "awaitJoin" /\ UNCHANGED <<activeServers, ecsMeta, peer, range, todo>>
      BY <1>5 DEF addNode, EGoto
    <2>2. Gone(n)
      BY <1>4, <2>1 DEF RolesOK
    <2>3. proc' = [proc EXCEPT ![n] = "launched"] /\ UNCHANGED <<znode, second>>
      BY <1>5, <2>2 DEF addNode, main, mainAgain, Launch, Gone
    <2>4. ListsOK'
      BY <1>1, <1>4, <2>1 DEF ListsOK, Joins, Leaves, Rounds, Steps
    <2>5. RolesOK'
      <3>1. Told' = {}
        BY <2>1 DEF Told
      <3>2. Starting(n)'
        BY <2>2, <2>3 DEF Starting, Gone
      <3>3. \A t \in Servers \ {n} : proc'[t] = proc[t] /\ znode'[t] = znode[t]
        BY <2>3
      <3>4. /\ \A s \in activeServers : Steady(s)'
            /\ \A s \in idleServers \ {n} : Gone(s)'
        BY <1>4, <2>1, <3>3 DEF RolesOK, Steady, Gone
      <3> QED
        BY <2>1, <2>3, <3>1, <3>2, <3>4 DEF RolesOK, Joins
    <2>6. MetaOK'
      BY <1>1, <2>1 DEF MetaOK, Joins
    <2> QED
      BY <2>4, <2>5, <2>6
  <1>6. ASSUME UNCHANGED serverVars, epc' \notin {"shutdown_server", "awaitLeave", "awaitJoin"} \cup Joins,
               UNCHANGED <<idleServers, activeServers>>
        PROVE  RolesOK'
    <2>1. UNCHANGED <<proc, znode, second, apc>>
      BY <1>6 DEF serverVars
    <2>2. Told' \subseteq idleServers /\ (Told' # {} => epc' = "shutDownAll")
      BY <1>6 DEF Told
    <2>3. /\ \A s \in activeServers : Steady(s)'
          /\ \A s \in idleServers : Gone(s)' /\ Ending(s)' /\ apc'[s] # "adminServe"
      BY <1>3, <1>4, <2>1 DEF RolesOK, Steady, Gone, Ending, Busy
    <2> QED
      BY <1>6, <2>1, <2>2, <2>3 DEF RolesOK
  <1>7. ASSUME NEW n \in Servers, removeNode(n)
        PROVE  ListsOK' /\ RolesOK' /\ MetaOK'
    <2>1. /\ n \in activeServers /\ node' = n /\ epc' = "updateHeir"
          /\ ecsMeta' = activeServers \ {n} /\ peer' \in ecsMeta'
          /\ UNCHANGED <<idleServers, activeServers, todo>> /\ UNCHANGED serverVars
      BY <1>7, LookupNamesNode DEF removeNode, EGoto, Local
    <2>2. ListsOK'
      BY <1>1, <1>4, <2>1 DEF ListsOK, Joins, Leaves, Rounds, Steps
    <2>3. MetaOK'
      BY <1>1, <2>1 DEF MetaOK, Joins
    <2>4. RolesOK'
      BY <1>6, <2>1 DEF Joins
    <2> QED
      BY <2>2, <2>3, <2>4
  <1>8. CASE start \/ stop
    <2>1. /\ epc' \in {"startAll", "stopAll"} /\ todo' = activeServers /\ UNCHANGED serverVars
          /\ UNCHANGED <<idleServers, activeServers, ecsMeta, node, peer, range>>
      BY <1>8 DEF start, stop, EGoto, Local, lists
    <2>2. ListsOK'
      BY <1>1, <1>4, <2>1 DEF ListsOK, Joins, Leaves, Rounds, Steps
    <2>3. MetaOK'
      BY <1>1, <2>1 DEF MetaOK, Joins
    <2>4. RolesOK'
      BY <1>6, <2>1 DEF Joins
    <2> QED
      BY <2>2, <2>3, <2>4
  <1>9. CASE shutdown \/ quit
    <2>1. /\ epc' \in {"shutDownAll", "dead"} /\ UNCHANGED serverVars
          /\ UNCHANGED <<idleServers, activeServers, ecsMeta, node, peer, range, todo>>
      BY <1>9 DEF shutdown, quit, EGoto, Local, lists, command
    <2>2. ListsOK'
      BY <1>1, <1>4, <2>1 DEF ListsOK, Joins, Leaves, Rounds, Steps
    <2>3. MetaOK'
      BY <1>1, <2>1 DEF MetaOK, Joins
    <2>4. RolesOK'
      BY <1>6, <2>1 DEF Joins
    <2> QED
      BY <2>2, <2>3, <2>4
  <1> QED
    BY <1>5, <1>7, <1>8, <1>9 DEF NewCommand

\* A new ECS finds under /keeper the servers that the last one had as active.
LEMMA RestartReliable ==
    ASSUME ClusterInv, ReliableInv, Restart
    PROVE  ReliableInv'
  <1> USE Types
  <1>1. /\ epc = "dead" /\ epc' = "ready" /\ asked' = Null
        /\ activeServers' = Registered /\ idleServers' = Servers \ Registered
        /\ ecsMeta' = Registered
        /\ UNCHANGED <<proc, znode, second, metadata, apc, writeLock>>
    BY DEF Restart, Ready, Local, serverVars
  <1>2. asked = Null
    BY <1>1 DEF ReliableInv, AdminsOK, IsAsked
  <1>3. AdminsOK' /\ MoveOK' /\ LockOnlyWhileMoving'
    BY <1>1, <1>2, LocalQuiet
  <1>4. /\ \A s \in activeServers : Steady(s)
        /\ \A s \in idleServers : Gone(s)
        /\ activeServers \cup idleServers = Servers /\ activeServers \cap idleServers = {}
    BY <1>1 DEF ReliableInv, ListsOK, RolesOK, Joins, Told
  <1>5. Registered = activeServers /\ Servers \ Registered = idleServers
    BY <1>4 DEF Registered, Steady, Gone
  <1>6. ListsOK'
    BY <1>1, <1>4, <1>5 DEF ListsOK, Joins, Leaves, Rounds, Steps
  <1>7. RolesOK'
    <2>1. Told' = {}
      BY <1>1 DEF Told
    <2> QED
      BY <1>1, <1>4, <1>5, <2>1 DEF ReliableInv, RolesOK, Joins, Steady, Gone
  <1>8. MetaOK'
    BY <1>1, <1>5 DEF ReliableInv, MetaOK, Joins
  <1> QED
    BY <1>3, <1>6, <1>7, <1>8 DEF ReliableInv

\* A client's step concerns its own connection only.
LEMMA ClientReliable ==
    ASSUME ClusterInv, ReliableInv, NEW c \in Clients,
           \/ \E s \in Servers : ClientConnects(c, s)
           \/ \E r \in ClientRequests : ClientRequest(c, r)
           \/ ClientDisconnects(c) \/ ClientThread(c)
    PROVE  ReliableInv'
  <1>1. UNCHANGED ecsVars /\ ClientOnly
    BY DEF ClientConnects, ClientRequest, ClientDisconnects, ClientThread, ClientsOnly, connect,
           request, disconnect, StoreStep, connectCorrServer, callHangs, sendMsg, redirected,
           replied, lost
  <1>2. pc' = pc \/ \E l : pc' = [pc EXCEPT ![c] = l]
    BY DEF ClientConnects, ClientRequest, ClientDisconnects, ClientThread, connect, request,
           disconnect, StoreStep, connectCorrServer, callHangs, sendMsg, redirected, replied,
           lost, Fails, Done, Send, threads
  <1>3. \A s \in Servers : s # c /\ s \in Peers
    BY ClientsAssumption DEF Peers
  <1>4. \A s \in Servers : pc'[s] = pc[s]
    BY <1>2, <1>3, Types
  <1> QED
    BY <1>1, <1>4, ReliableFrame DEF ClientOnly, flags, ReliableInv, MoveOK

LEMMA NothingFails ==
    ASSUME MaxFaults = 0, ClusterInv, ReliableInv
    PROVE  ~ECSDies /\ \A s \in Servers : ~Killed(s) /\ ~Wedged(s)
  <1>1. ~Fault
    BY Types DEF Fault
  <1>2. ~Hung
    BY Types DEF Hung, ReliableInv, ListsOK, MoveOK, Steps, Joins, Leaves, Rounds
  <1> QED
    BY <1>1, <1>2 DEF ECSDies, ECSKilled, Killed, Wedged

LEMMA ReliableStep ==
    ASSUME MaxFaults = 0, Brokerless = {}, ReplyBeforeExit, ClusterInv, ReliableInv, [Next]_vars
    PROVE  ReliableInv'
  <1>1. CASE Command
    BY <1>1, NewCommandReliable DEF Command
  <1>2. CASE ECSThread
    BY <1>2, CommandStepReliable DEF ECSThread
  <1>3. CASE ECSRestart
    BY <1>3, RestartReliable DEF ECSRestart
  <1>4. CASE UNCHANGED vars
    BY <1>4, ReliableFrame DEF vars, serverVars, process, admin, ReliableInv, MoveOK
  <1>5. ASSUME NEW s \in Servers, AdminThread(s) \/ MainThread(s) \/ Expiry(s)
        PROVE  ReliableInv'
    BY <1>5, AdminReliable, MainReliable, ExpiryReliable
  <1> QED
    BY <1>1, <1>2, <1>3, <1>4, <1>5, NothingFails, ServeReliable, ClientReliable DEF Next

\* Without faults the servers are where the ECS's step says they are, whatever
\* clients do meanwhile.
THEOREM ReliableInvariant ==
    ASSUME MaxFaults = 0, Brokerless = {}, ReplyBeforeExit
    PROVE  Spec => []ReliableInv
  <1>1. Init => ReliableInv
    BY ReliableInit
  <1>2. ClusterInv /\ ReliableInv /\ [Next]_vars => ReliableInv'
    BY ReliableStep
  <1> QED
    BY <1>1, <1>2, ClusterInvariant, PTL DEF Spec

\* Without faults, whenever the ECS waits for a command every active server is up
\* and has the metadata of the active servers: UpdateAllNodesMeta has reached them
\* all, however often servers came and went.
THEOREM MetadataAgrees ==
    ASSUME MaxFaults = 0, Brokerless = {}, ReplyBeforeExit
    PROVE  Spec => []MetadataAgreement
  <1>1. ReliableInv => MetadataAgreement
    BY DEF ReliableInv, ListsOK, RolesOK, MetaOK, Told, Steady, MetadataAgreement, ECSIdle
  <1> QED
    BY <1>1, ReliableInvariant, PTL

\* Without faults addNode never launches a server that still runs: awaitNodes counts
\* nodes under /keeper, and that the count is right means that the right server has
\* gone.
THEOREM IdleServersAreDown ==
    ASSUME MaxFaults = 0, Brokerless = {}, ReplyBeforeExit
    PROVE  Spec => []IdleIsDown
  <1>1. ReliableInv => IdleIsDown
    BY DEF ReliableInv, RolesOK, Told, Gone, IdleIsDown, ECSIdle
  <1> QED
    BY <1>1, ReliableInvariant, PTL

\* Without faults a server that accepts connections is registered: the node of its
\* last process has expired before the next one starts, so that create succeeds.
THEOREM UpIsRegistered ==
    ASSUME MaxFaults = 0, Brokerless = {}, ReplyBeforeExit
    PROVE  Spec => []RegisteredWhileUp
  <1>1. ClusterInv /\ ReliableInv => RegisteredWhileUp
    BY RoleOf DEF RegisteredWhileUp, Steady, Gone, Starting, Ending
  <1> QED
    BY <1>1, ClusterInvariant, ReliableInvariant, PTL

\* Without faults the write lock is held during moves only: no move of addNode or
\* removeNode fails, its destination being up and having an entry for itself.
THEOREM LockIsReleased ==
    ASSUME MaxFaults = 0, Brokerless = {}, ReplyBeforeExit
    PROVE  Spec => []LockOnlyWhileMoving
  <1>1. ReliableInv => LockOnlyWhileMoving
    BY DEF ReliableInv
  <1> QED
    BY <1>1, ReliableInvariant, PTL
=============================================================================
