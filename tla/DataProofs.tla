----------------------------- MODULE DataProofs -----------------------------
(***************************************************************************)
(* Proofs about the data of a quiet cluster: nothing fails, servers find   *)
(* the message broker when they boot, requests come between the ECS's      *)
(* commands, servers are three positions apart and no key hashes to a      *)
(* seam; and as long as no server that is stopped inherits the data of one *)
(* that is removed (HeirStarted).  MoveToStopped, WriteDuringMove and      *)
(* FailedMove show what happens without three of these.                    *)
(***************************************************************************)
EXTENDS ReliableProofs

\* The hypothesis of the theorems about the constants.  The one about behaviours is
\* HeirStarted.
Quiet ==
    /\ MaxFaults = 0 /\ Brokerless = {} /\ ReplyBeforeExit /\ ~Overlap
    /\ "shutDown" \notin Commands
    /\ Spaced(Servers)
    /\ \A k \in Keys, s \in Servers : k \notin {s - 1, s}

-----------------------------------------------------------------------------
(* The invariant of the data.                                              *)

\* From the lookups of addNode and removeNode until the move has ended: the server
\* that gives the range away, and the one that gets it.
Joining == {"init", "start", "join"}
Handing == (epc \in Joining /\ activeServers # {}) \/ epc \in {"updateHeir", "leave"}
From == IF epc \in Joining THEN peer ELSE node
Into == IF epc \in Joining THEN node ELSE peer

\* The range looked up is what changes hands.
RangeOK ==
    Handing =>
        \A k \in Keys :
            IF inRange(k, range)
            THEN Owners(k, activeServers) = {From} /\ Owners(k, ecsMeta) = {Into}
            ELSE Owners(k, activeServers) = Owners(k, ecsMeta)

\* Requests run between commands only, and a new server is started before it is
\* given data.
CalmOK ==
    /\ epc # "shutDownAll"
    /\ epc # "ready" => NoRequestRuns
    /\ epc \in {"join", "joined"} => ~stopped[node]
    /\ epc = "start" /\ apc[node] = "reply" => ~stopped[node]

\* The requests that are served: those of a move wait for their answer, those past
\* a test of serve have passed it, and those of clients are where they belong.
Storing == {"inRangePut", "inStorage", "pub", "put"}
ServingOK ==
    /\ \A s \in Servers : pc[s] \in Serving \cup {"reply"} => apc[s] = "moveWait"
    /\ \A p \in Peers :
          /\ pc[p] \in {"inRangeGet", "getKV"} => req[p].type = "GET"
          /\ pc[p] \in Storing \cup {"isWriteLock"} => req[p].type = "PUT"
          /\ pc[p] \in Storing => req[p].key \notin LongKeys
    /\ \A c \in Clients :
          pc[c] \in {"getKV", "inStorage", "pub", "put"} =>
              to[c] \in Owners(req[c].key, activeServers)

\* The pair a move has sent last.
SentOK ==
    \A s \in Servers :
        pc[s] \in Serving =>
            /\ pc[s] \in Storing \cup {"isStopped", "isWriteLock"}
            /\ req[s].type = "PUT" /\ req[s].key \in dataToFlush[s]
            /\ req[s].val = storage[s][req[s].key]

\* What is collected to be deleted, and what is still to be sent.
Copying == {"moveNext", "moveWait", "moveFlush"}
CollectedOK ==
    \A s \in Servers :
        /\ dataToFlush[s] # {} => apc[s] \in Copying
        /\ \A k \in dataToFlush[s] : storage[s][k] # Null /\ inRange(k, range)
        /\ apc[s] \in {"moveConnect", "moveNext", "moveWait"} =>
              \A k \in Keys :
                  snap[s][k] = IF inRange(k, range) /\ k \notin dataToFlush[s]
                               THEN storage[s][k] ELSE Null
        /\ apc[s] = "moveFlush" =>
              \A k \in Keys : inRange(k, range) /\ storage[s][k] # Null => k \in dataToFlush[s]

\* A pair the move has collected is at its destination too, or on its way.
CopiedOK ==
    \A s \in Servers, k \in Keys :
        k \in dataToFlush[s] =>
            \/ storage[Into][k] = storage[s][k]
            \/ pc[s] \in Serving /\ req[s].key = k /\ storage[Into][k] = Null

\* Whether the data are where the metadata of the nodes S place them.
Placed(S) == \A s \in Servers, k \in Keys : storage[s][k] # Null => s \in Owners(k, S)

\* Before the move of a command, while it copies, and after it.
Before ==
    \/ epc \in {"ready", "dead", "startAll", "stopAll", "awaitJoin", "init", "start", "updateHeir"}
    \/ /\ epc \in {"join", "leave"}
       /\ \/ asked = Null
          \/ apc[asked] \in {"adminServe", "moveLock", "moveSnapshot", "moveConnect"}
During == epc \in {"join", "leave"} /\ asked # Null /\ apc[asked] \in Copying
After ==
    \/ epc \in {"joined", "updateJoin", "left", "updateLeave", "shutdown_server", "awaitLeave"}
    \/ epc \in {"join", "leave"} /\ asked # Null /\ apc[asked] \in {"moveUnlock", "reply"}

PlacedOK ==
    /\ Before => Placed(activeServers)
    /\ During => \A s \in Servers, k \in Keys :
                    storage[s][k] # Null =>
                        s \in Owners(k, activeServers) \/ (s = Into /\ k \in dataToFlush[From])
    /\ After => Placed(ecsMeta)

\* A key that is too long is not stored.
ShortOK == \A s \in Servers, k \in Keys : storage[s][k] # Null => k \notin LongKeys

DataInv ==
    /\ RangeOK /\ CalmOK /\ ServingOK /\ SentOK /\ CollectedOK /\ CopiedOK /\ PlacedOK /\ ShortOK

-----------------------------------------------------------------------------
(* The ring.                                                               *)

LEMMA KeyOffSeam ==
    ASSUME Quiet, NEW S \in SUBSET Servers, NEW k \in Keys
    PROVE  k \in Int /\ k \notin Seam(S) /\ S \in SUBSET Positions
  <1>1. k \in Int /\ S \in SUBSET Positions
    BY KeysAssumption, ServersAssumption, RingSizeAssumption DEF Ring
  <1>2. k \notin Seam(S)
    BY <1>1, SeamNearNode DEF Quiet
  <1> QED
    BY <1>1, <1>2

\* A key has one owner.
LEMMA KeyOwner ==
    ASSUME Quiet, NEW S \in SUBSET Servers, NEW k \in Keys, NEW s \in Owners(k, S),
           NEW t \in Owners(k, S)
    PROVE  s = t /\ s \in S
  <1>1. S # {} /\ s \in S
    BY DEF Owners
  <1>2. Owners(k, S) = {Successor(k, S)}
    BY <1>1, KeyOffSeam, OneOwnerOffSeam
  <1> QED
    BY <1>1, <1>2

LEMMA SpacedSubset ==
    ASSUME Quiet, NEW S \in SUBSET Servers
    PROVE  Spaced(S)
  BY DEF Quiet, Spaced

\* The lookups of addNode, and the range that goes with them.
LEMMA JoinRange ==
    ASSUME Quiet, NEW S \in SUBSET Servers, S # {}, NEW n \in Servers \ S,
           NEW p \in getNodeByKey(n, S),
           NEW r \in {calc_metadata(S \cup {n})[m] : m \in getNodeByKey(n, S \cup {n})},
           NEW k \in Keys
    PROVE  IF inRange(k, r)
           THEN Owners(k, S) = {p} /\ Owners(k, S \cup {n}) = {n}
           ELSE Owners(k, S) = Owners(k, S \cup {n})
  <1> DEFINE N == S \cup {n}
  <1>1. /\ S \in SUBSET Positions /\ N \in SUBSET Positions /\ N # {} /\ n \in N
        /\ n \in Positions \ S
    BY ServersAssumption
  <1>2. Spaced(N) /\ N \cup {n} = N
    BY SpacedSubset
  <1>3. getNodeByKey(n, S) = {Successor(n, S)}
    BY <1>1, <1>2, LookupNamesSuccessor
  <1>4. getNodeByKey(n, N) = {n}
    <2> HIDE DEF N
    <2> QED
      BY <1>1, <1>2, LookupNamesSuccessor, SuccessorOfNode
  <1>5. p = Successor(n, S) /\ r = calc_metadata(N)[n]
    BY <1>3, <1>4
  <1>6. k \in Int /\ k \notin Seam(S) /\ k \notin Seam(N)
    BY KeyOffSeam
  <1> QED
    BY <1>1, <1>5, <1>6, JoinHandsOver

\* Those of removeNode.
LEMMA LeaveRange ==
    ASSUME Quiet, NEW S \in SUBSET Servers, NEW n \in S, S # {n},
           NEW p \in getNodeByKey(n, S \ {n}),
           NEW r \in {calc_metadata(S)[m] : m \in getNodeByKey(n, S)},
           NEW k \in Keys
    PROVE  IF inRange(k, r)
           THEN Owners(k, S) = {n} /\ Owners(k, S \ {n}) = {p}
           ELSE Owners(k, S) = Owners(k, S \ {n})
  <1> DEFINE T == S \ {n}
  <1>1. T \in SUBSET Servers /\ T # {} /\ n \in Servers \ T /\ T \cup {n} = S
    OBVIOUS
  <1> HIDE DEF T
  <1>2. /\ p \in getNodeByKey(n, T)
        /\ r \in {calc_metadata(T \cup {n})[m] : m \in getNodeByKey(n, T \cup {n})}
    BY <1>1 DEF T
  <1>3. IF inRange(k, r)
        THEN Owners(k, T) = {p} /\ Owners(k, T \cup {n}) = {n}
        ELSE Owners(k, T) = Owners(k, T \cup {n})
    BY <1>1, <1>2, JoinRange
  <1> QED
    BY <1>1, <1>3 DEF T

-----------------------------------------------------------------------------
(* Facts about the invariant.                                              *)

LEMMA DataTypes ==
    ASSUME ClusterInv
    PROVE  /\ storage \in [Servers -> [Keys -> Stored]]
           /\ dataToFlush \in [Servers -> SUBSET Keys]
           /\ snap \in [Servers -> [Keys -> Stored]]
           /\ req \in [Peers -> Requests]
           /\ stopped \in [Servers -> BOOLEAN]
           /\ cst \in [Clients -> {"off", "ready", "route", "send", "wait", "hung"}]
           /\ ecsMeta \in SUBSET Servers
           /\ Clients \subseteq Peers /\ Clients \cap Servers = {} /\ Peers = Clients \cup Servers
  BY ClientsAssumption DEF ClusterInv, ServerInv, TypeOK, FlagsOK, ThreadsOK, AdminOK, DataOK,
                           ECSInv, ECSTypeOK, StoreTypeOK, Peers

\* Who moves data, what and where to.
LEMMA MoveIs ==
    ASSUME HeirStarted, ClusterInv, ReliableInv, CalmOK, NEW s \in Servers,
           apc[s] \in Moving \/ (apc[s] = "adminServe" /\ areq[s].type = "MOVE_DATA")
    PROVE  /\ asked = s /\ epc \in {"join", "leave"} /\ Handing
           /\ s = From /\ areq[s].dest = Into /\ areq[s].range = range
           /\ Into \in Servers /\ Into # s /\ Into \in ecsMeta /\ metadata[Into] = ecsMeta
           /\ ~stopped[Into] /\ ~writeLock[Into] /\ Steady(s)
           /\ \A t \in Servers : Busy(t) => t = s
  <1>1. Busy(s) /\ areq[s].type = "MOVE_DATA"
    BY DEF ReliableInv, AdminsOK, Busy, Moving
  <1>2. asked = s /\ IsAsked(s, areq[s])
    BY <1>1, WhatIsAsked, NullNoServer DEF ReliableInv, AdminsOK, CalmOK
  <1>3. \A t \in Servers : Busy(t) => t = s
    BY <1>2 DEF ReliableInv, AdminsOK, CalmOK
  <1>4. Steady(s)
    BY <1>1, <1>2, AskedIsSteady, WhatIsAsked DEF CalmOK
  <1>5. \A t : MoveTo(t).dest = t /\ MoveTo(t).range = range
    BY DEF MoveTo, Message, NoAdminRequest
  <1>6. CASE epc = "join" /\ s = peer /\ areq[s] = MoveTo(node) /\ activeServers # {}
    <2>1. node \in ecsMeta /\ peer # node /\ metadata[node] = ecsMeta /\ ~stopped[node]
      BY <1>6 DEF ReliableInv, ListsOK, MetaOK, Joins, CalmOK
    <2>2. ~writeLock[node]
      BY <1>3, <1>6, <2>1, Types DEF ReliableInv, LockOnlyWhileMoving, Busy, Moving
    <2> QED
      BY <1>2, <1>3, <1>4, <1>5, <1>6, <2>1, <2>2, Types DEF Handing, From, Into, Joining
  <1>7. CASE epc = "leave" /\ s = node /\ areq[s] = MoveTo(peer)
    <2>1. peer \in ecsMeta /\ peer # node /\ metadata[peer] = ecsMeta /\ peer \in activeServers
      BY <1>7 DEF ReliableInv, ListsOK, MetaOK, Leaves
    <2>2. ~stopped[peer]
      BY <1>7 DEF HeirStarted
    <2>3. ~writeLock[peer]
      BY <1>3, <1>7, <2>1, Types DEF ReliableInv, LockOnlyWhileMoving, Busy, Moving
    <2> QED
      BY <1>2, <1>3, <1>4, <1>5, <1>7, <2>1, <2>2, <2>3, Types DEF Handing, From, Into, Joining
  <1> QED
    BY <1>1, <1>2, <1>6, <1>7, WhatIsAsked, MessageFields DEF IsAsked

\* Where nothing is copied, nothing is collected and no server has sent a request.
LEMMA NothingCollected ==
    ASSUME ServingOK, CollectedOK, NEW s \in Servers, apc[s] \notin Copying
    PROVE  dataToFlush[s] = {} /\ pc[s] \notin Serving
  BY DEF ServingOK, CollectedOK, Copying

\* A client's request is served between commands, by an active server.
LEMMA ClientServed ==
    ASSUME ClusterInv, ReliableInv, CalmOK, NEW c \in Clients, pc[c] \in Serving
    PROVE  /\ epc = "ready" /\ cst[c] = "wait" /\ asked = Null
           /\ to[c] \in activeServers /\ metadata[to[c]] = activeServers
           /\ \A s \in Servers : apc[s] \notin Moving
  <1>1. cst[c] = "wait"
    BY DataTypes DEF ClusterInv, Conversation, Serving
  <1>2. epc = "ready"
    BY <1>1 DEF CalmOK, NoRequestRuns
  <1>3. Running(to[c]) /\ to[c] \in Servers
    BY DataTypes, Types DEF ClusterInv, ServerInv, ServedByRunning
  <1>4. to[c] \in activeServers /\ metadata[to[c]] = activeServers
    BY <1>2, <1>3 DEF ReliableInv, ListsOK, RolesOK, MetaOK, Told, Gone, Running, Joins
  <1>5. asked = Null
    BY <1>2, WhatIsAsked, Types DEF ReliableInv, AdminsOK
  <1> QED
    BY <1>1, <1>2, <1>4, <1>5, NoneBusy

\* Between commands no server is ending, so that no client hangs.
LEMMA NoCallHangs ==
    ASSUME ClusterInv, ReliableInv, CalmOK, NEW c \in Clients
    PROVE  ~callHangs(c)
  <1> SUFFICES ASSUME callHangs(c) PROVE FALSE
    OBVIOUS
  <1>1. PICK s \in Servers : cst[c] = "route" /\ Hangs(s)
    BY DEF callHangs, Routes
  <1>2. epc = "ready"
    BY <1>1 DEF CalmOK, NoRequestRuns
  <1>3. Steady(s) \/ Gone(s)
    BY <1>2, RoleOf
  <1> QED
    BY <1>1, <1>3 DEF Hangs, Steady, Gone

LEMMA DataInit == Init => DataInv
  <1> SUFFICES ASSUME Init PROVE DataInv
    OBVIOUS
  <1> USE DEF Init, ServerInit, ECSInit, StoreInit
  <1>1. RangeOK /\ CalmOK
    BY DEF RangeOK, CalmOK, Handing, Joining
  <1>2. ServingOK /\ SentOK
    BY DEF ServingOK, SentOK, Serving, Storing, Peers
  <1>3. \A s \in Servers, k \in Keys : storage[s][k] = Null
    BY DEF Empty
  <1>4. CollectedOK /\ CopiedOK /\ PlacedOK /\ ShortOK
    BY <1>3 DEF CollectedOK, CopiedOK, PlacedOK, ShortOK, Placed
  <1> QED
    BY <1>1, <1>2, <1>4 DEF DataInv

-----------------------------------------------------------------------------
(* Serving requests.                                                       *)

\* A step of a thread that serves p.
LEMMA ServeGoes ==
    ASSUME ClusterInv, NEW p \in Peers, ServeThread(p)
    PROVE  /\ pc[p] \in Serving /\ Running(to[p])
           /\ UNCHANGED <<process, flags, admin, ecsVars, clientVars, dataToFlush, to>>
           /\ \A q \in Peers \ {p} : pc'[q] = pc[q] /\ req'[q] = req[q]
           /\ pc'[p] \in Serving => req'[p] = req[p]
           /\ pc[p] # "put" => UNCHANGED storage
           /\ pc[p] = "put" => put(p)
  <1> USE Types, DataTypes DEF ServeThread, ServersOnly, ServeStep, At, Reply, Goto, ThreadDies, data, Serving
  <1>1. CASE serve(p)
    BY <1>1 DEF serve
  <1>2. CASE isWriteLock(p)
    BY <1>2 DEF isWriteLock
  <1>3. CASE checkRange(p)
    BY <1>3 DEF checkRange
  <1>4. CASE getMetadata(p) \/ getKV(p)
    BY <1>4 DEF getMetadata, getKV
  <1>5. CASE inStorage(p)
    BY <1>5 DEF inStorage
  <1>6. CASE pub(p)
    BY <1>6 DEF pub
  <1>7. CASE put(p)
    BY <1>7 DEF put
  <1> QED
    BY <1>1, <1>2, <1>3, <1>4, <1>5, <1>6, <1>7

\* What the tests of serve leave known.
LEMMA ServeTests ==
    ASSUME ClusterInv, ServingOK, NEW p \in Peers, ServeThread(p)
    PROVE  /\ pc'[p] \in {"inRangeGet", "getKV"} => req[p].type = "GET"
           /\ pc'[p] \in Storing \cup {"isWriteLock"} => req[p].type = "PUT"
           /\ pc'[p] \in Storing => req[p].key \notin LongKeys
           /\ pc'[p] \in {"getKV", "inStorage", "pub", "put"} =>
                 \/ pc[p] \in {"inStorage", "pub"}
                 \/ ~NoEntry(to[p]) /\ Responsible(to[p], req[p].key)
  <1> USE Types DEF ServeThread, ServersOnly, ServeStep, At, Reply, Goto, ThreadDies, Storing,
                    ServingOK
  <1>1. CASE serve(p)
    BY <1>1 DEF serve
  <1>2. CASE isWriteLock(p)
    BY <1>2 DEF isWriteLock
  <1>3. CASE checkRange(p)
    BY <1>3 DEF checkRange
  <1>4. CASE getMetadata(p) \/ getKV(p)
    BY <1>4 DEF getMetadata, getKV
  <1>5. CASE inStorage(p)
    BY <1>5 DEF inStorage
  <1>6. CASE pub(p)
    BY <1>6 DEF pub
  <1>7. CASE put(p)
    BY <1>7 DEF put
  <1> QED
    BY <1>1, <1>2, <1>3, <1>4, <1>5, <1>6, <1>7

\* A client's request.
LEMMA ServeClientData ==
    ASSUME Quiet, HeirStarted, ClusterInv, ReliableInv, DataInv, NEW p \in Clients,
           ServeThread(p)
    PROVE  DataInv'
  <1> USE DEF DataInv
  <1>0. p \in Peers /\ p \notin Servers
    BY DataTypes
  <1>1. /\ pc[p] \in Serving
        /\ UNCHANGED <<process, flags, admin, ecsVars, clientVars, dataToFlush, to>>
        /\ \A q \in Peers \ {p} : pc'[q] = pc[q] /\ req'[q] = req[q]
        /\ pc'[p] \in Serving => req'[p] = req[p]
        /\ pc[p] # "put" => UNCHANGED storage
        /\ pc[p] = "put" => put(p)
    BY <1>0, ServeGoes
  <1>2. /\ epc = "ready" /\ to[p] \in activeServers /\ metadata[to[p]] = activeServers
        /\ \A s \in Servers : apc[s] \notin Moving
    BY <1>1, ClientServed
  <1>3. \A s \in Servers : dataToFlush[s] = {} /\ pc[s] \notin Serving \cup {"reply"}
    BY <1>2, NothingCollected DEF Copying, Moving, ServingOK
  <1>4. RangeOK' /\ CalmOK'
    BY <1>1 DEF RangeOK, CalmOK, Handing, From, Into, ecsVars, flags, process, admin, clientVars,
                NoRequestRuns, Steady
  <1>5. \A s \in Servers : /\ apc'[s] = apc[s] /\ dataToFlush'[s] = {}
                           /\ pc'[s] \notin Serving \cup {"reply"}
    BY <1>0, <1>1, <1>3, DataTypes DEF admin
  <1>6. SentOK' /\ CollectedOK' /\ CopiedOK'
    BY <1>2, <1>5 DEF SentOK, CollectedOK, CopiedOK, Moving
  <1>7. pc[p] \in {"getKV", "inStorage", "pub", "put"} =>
            to[p] \in Owners(req[p].key, activeServers)
    BY DEF ServingOK
  <1>8. pc'[p] \in {"getKV", "inStorage", "pub", "put"} =>
            to[p] \in Owners(req[p].key, activeServers)
    BY <1>0, <1>2, <1>7, ServeTests DEF Responsible, Owners
  <1>9. ServingOK'
    <2>1. /\ pc'[p] \in {"inRangeGet", "getKV"} => req'[p].type = "GET"
          /\ pc'[p] \in Storing \cup {"isWriteLock"} => req'[p].type = "PUT"
          /\ pc'[p] \in Storing => req'[p].key \notin LongKeys
      BY <1>0, <1>1, ServeTests DEF Storing, Serving
    <2>2. pc'[p] \in {"getKV", "inStorage", "pub", "put"} =>
              to'[p] \in Owners(req'[p].key, activeServers')
      BY <1>1, <1>8 DEF ecsVars, Serving
    <2> QED
      BY <1>1, <1>5, <2>1, <2>2, DataTypes DEF ServingOK, ecsVars
  <1>10. PlacedOK' /\ ShortOK'
    <2>1. UNCHANGED <<epc, asked, activeServers>> /\ Placed(activeServers)
      BY <1>1, <1>2 DEF PlacedOK, Before, ecsVars
    <2>2. \A s \in Servers, k \in Keys :
             storage'[s][k] # Null =>
                 storage[s][k] # Null \/ (pc[p] = "put" /\ s = to[p] /\ k = req[p].key)
      <3>1. CASE pc[p] = "put"
        BY <1>1, <3>1, DataTypes, Types DEF put
      <3> QED
        BY <1>1, <3>1
    <2>3. \A s \in Servers, k \in Keys :
             storage'[s][k] # Null => s \in Owners(k, activeServers) /\ k \notin LongKeys
      BY <1>0, <1>7, <2>1, <2>2 DEF Placed, ShortOK, ServingOK, Storing
    <2> QED
      BY <1>2, <2>1, <2>3 DEF PlacedOK, ShortOK, Placed, During, After
  <1> QED
    BY <1>4, <1>6, <1>9, <1>10

\* The request of a move passes every test and is stored.
LEMMA ServeMoveGoes ==
    ASSUME Quiet, HeirStarted, ClusterInv, ReliableInv, DataInv, NEW p \in Servers,
           ServeThread(p)
    PROVE  LET k == req[p].key
           IN  /\ apc[p] = "moveWait" /\ to[p] = Into /\ k \in dataToFlush[p]
               /\ req[p].type = "PUT" /\ req[p].val = storage[p][k] /\ k \in Keys
               /\ k \notin LongKeys
               /\ \/ pc'[p] \in Storing \cup {"isWriteLock"} /\ UNCHANGED <<req, storage>>
                  \/ /\ pc'[p] = "reply"
                     /\ storage' = [storage EXCEPT ![Into][k] = storage[p][k]]
  <1> DEFINE k == req[p].key
  <1> USE DEF DataInv
  <1>0. p \in Peers
    BY Types
  <1>1. pc[p] \in Serving /\ Running(to[p])
    BY <1>0, ServeGoes
  <1>2. /\ apc[p] = "moveWait" /\ pc[p] \in Storing \cup {"isStopped", "isWriteLock"}
        /\ req[p].type = "PUT" /\ k \in dataToFlush[p] /\ req[p].val = storage[p][k]
    BY <1>1 DEF ServingOK, SentOK
  <1>3. k \in Keys /\ storage[p][k] # Null /\ inRange(k, range) /\ k \notin LongKeys
    BY <1>2, DataTypes DEF CollectedOK, ShortOK
  <1>4. /\ Handing /\ p = From /\ areq[p].dest = Into /\ Into \in Servers /\ Into \in ecsMeta
        /\ metadata[Into] = ecsMeta /\ ~stopped[Into] /\ ~writeLock[Into]
    BY <1>2, MoveIs DEF Moving
  <1>5. to[p] = Into
    BY <1>2, <1>4 DEF ClusterInv, ServerInv, MoveConnection, Connected
  <1>6. ~NoEntry(Into) /\ Responsible(Into, k)
    BY <1>3, <1>4 DEF RangeOK, Owners, NoEntry, Responsible
  <1>7. \/ pc'[p] \in Storing \cup {"isWriteLock"} /\ UNCHANGED <<req, storage>>
        \/ /\ pc'[p] = "reply"
           /\ storage' = [storage EXCEPT ![Into][k] = storage[p][k]]
    <2> HIDE DEF DataInv
    <2>8. to[p] \notin Brokerless
      BY DEF Quiet
    <2> USE <1>0, <1>2, <1>3, <1>4, <1>5, <1>6, <2>8, Types
        DEF ServeThread, ServersOnly, ServeStep, At, Reply, Goto, ThreadDies, Storing, data
    <2>1. CASE serve(p)
      BY <2>1 DEF serve
    <2>2. CASE isWriteLock(p)
      BY <2>2 DEF isWriteLock
    <2>3. CASE checkRange(p)
      BY <2>3 DEF checkRange
    <2>4. CASE getMetadata(p) \/ getKV(p)
      BY <2>4 DEF getMetadata, getKV
    <2>5. CASE inStorage(p)
      BY <2>5 DEF inStorage
    <2>6. CASE pub(p)
      BY <2>6 DEF pub
    <2>7. CASE put(p)
      BY <2>7 DEF put
    <2> QED
      BY <2>1, <2>2, <2>3, <2>4, <2>5, <2>6, <2>7
  <1> QED
    BY <1>2, <1>3, <1>5, <1>7

LEMMA ServeMoveData ==
    ASSUME Quiet, HeirStarted, ClusterInv, ReliableInv, DataInv, NEW p \in Servers,
           ServeThread(p)
    PROVE  DataInv'
  <1> DEFINE k == req[p].key
  <1> USE DEF DataInv
  <1>0. p \in Peers /\ p \notin Clients
    BY DataTypes
  <1>1. /\ pc[p] \in Serving
        /\ UNCHANGED <<process, flags, admin, ecsVars, clientVars, dataToFlush, to>>
        /\ \A q \in Peers \ {p} : pc'[q] = pc[q] /\ req'[q] = req[q]
    BY <1>0, ServeGoes
  <1>2. /\ apc[p] = "moveWait" /\ to[p] = Into /\ k \in dataToFlush[p]
        /\ req[p].type = "PUT" /\ req[p].val = storage[p][k] /\ k \in Keys /\ k \notin LongKeys
        /\ \/ pc'[p] \in Storing \cup {"isWriteLock"} /\ UNCHANGED <<req, storage>>
           \/ pc'[p] = "reply" /\ storage' = [storage EXCEPT ![Into][k] = storage[p][k]]
    BY ServeMoveGoes
  <1>3. /\ Handing /\ p = From /\ Into \in Servers /\ Into # p /\ asked = p
        /\ epc \in {"join", "leave"} /\ \A t \in Servers : Busy(t) => t = p
    BY <1>2, MoveIs DEF Moving
  <1> HIDE DEF k
  <1>4. \A s \in Servers \ {p} : apc[s] \notin Moving /\ dataToFlush[s] = {} /\ pc[s] \notin Serving \cup {"reply"}
    <2>1. \A s \in Servers \ {p} : apc[s] \notin Moving
      BY <1>3 DEF Busy, Moving
    <2> QED
      BY <2>1, NothingCollected DEF Copying, Moving, ServingOK
  <1>5. RangeOK' /\ CalmOK' /\ Into' = Into /\ From' = From
    BY <1>1 DEF RangeOK, CalmOK, Handing, From, Into, ecsVars, flags, process, admin, clientVars,
                NoRequestRuns, Steady
  <1>6. \A s \in Servers : s # Into => storage'[s] = storage[s]
    BY <1>2, <1>3, DataTypes
  <1>7. \A j \in Keys : j # k => storage'[Into][j] = storage[Into][j]
    BY <1>2, <1>3, DataTypes
  <1>8. UNCHANGED <<apc, snap, range, dataToFlush, epc, asked, activeServers, ecsMeta>>
    BY <1>1 DEF admin, ecsVars
  <1>9. ServingOK'
    <2>1. /\ pc'[p] \notin {"inRangeGet", "getKV"}
          /\ pc'[p] \in Storing \cup {"isWriteLock"} => req'[p].type = "PUT"
          /\ pc'[p] \in Storing => req'[p].key \notin LongKeys
      BY <1>2 DEF Storing, k
    <2> QED
      BY <1>0, <1>1, <1>2, <1>8, <2>1, DataTypes DEF ServingOK
  <1>10. SentOK'
    <2> SUFFICES ASSUME NEW s \in Servers, pc'[s] \in Serving
                 PROVE  /\ pc'[s] \in Storing \cup {"isStopped", "isWriteLock"}
                        /\ req'[s].type = "PUT" /\ req'[s].key \in dataToFlush'[s]
                        /\ req'[s].val = storage'[s][req'[s].key]
      BY DEF SentOK
    <2>1. s = p
      BY <1>1, <1>4, Types
    <2>2. pc'[p] # "reply"
      BY <2>1 DEF Serving
    <2> QED
      BY <1>2, <1>8, <2>1, <2>2 DEF k
  <1>11. CollectedOK'
    <2>1. \A s \in Servers : s # p => apc'[s] \notin Moving /\ dataToFlush'[s] = {}
      BY <1>4, <1>8
    <2>2. storage'[p] = storage[p]
      BY <1>3, <1>6
    <2> QED
      BY <1>2, <1>8, <2>1, <2>2 DEF CollectedOK, Moving
  <1>12. CopiedOK'
    <2> SUFFICES ASSUME NEW s \in Servers, NEW j \in Keys, j \in dataToFlush'[s]
                 PROVE  \/ storage'[Into'][j] = storage'[s][j]
                        \/ pc'[s] \in Serving /\ req'[s].key = j /\ storage'[Into'][j] = Null
      BY DEF CopiedOK
    <2>1. s = p /\ j \in dataToFlush[p] /\ storage'[p] = storage[p]
      BY <1>3, <1>4, <1>6, <1>8
    <2>2. \/ storage[Into][j] = storage[p][j]
          \/ req[p].key = j /\ storage[Into][j] = Null
      BY <2>1 DEF CopiedOK
    <2>3. CASE pc'[p] = "reply" /\ storage' = [storage EXCEPT ![Into][k] = storage[p][k]]
      BY <1>3, <1>5, <1>7, <2>1, <2>2, <2>3, DataTypes DEF k
    <2>4. CASE pc'[p] \in Storing \cup {"isWriteLock"} /\ UNCHANGED <<req, storage>>
      BY <1>5, <2>1, <2>2, <2>4 DEF Storing, Serving
    <2> QED
      BY <1>2, <2>3, <2>4
  <1>13. PlacedOK' /\ ShortOK'
    <2>1. \A s \in Servers, j \in Keys :
             storage'[s][j] # Null => storage[s][j] # Null \/ (s = Into /\ j = k)
      BY <1>6, <1>7
    <2>2. During /\ During' /\ ~Before' /\ ~After'
      BY <1>2, <1>3, <1>8, NullNoServer DEF During, Before, After, Copying
    <2>3. \A s \in Servers, j \in Keys :
             storage'[s][j] # Null =>
                 s \in Owners(j, activeServers) \/ (s = Into /\ j \in dataToFlush[From])
      BY <1>2, <1>3, <2>1, <2>2 DEF PlacedOK
    <2> QED
      BY <1>2, <1>5, <1>8, <2>1, <2>2, <2>3 DEF PlacedOK, ShortOK
  <1> QED
    BY <1>5, <1>9, <1>10, <1>11, <1>12, <1>13

-----------------------------------------------------------------------------
(* Commands of the ECS at a server, and moves.                             *)

\* A command that moves no data: none is being moved.
LEMMA CommandData ==
    ASSUME Quiet, HeirStarted, ClusterInv, ReliableInv, DataInv, NEW s \in Servers,
           \/ initKVServer(s) \/ setStart(s) \/ setStop(s) \/ shutDown(s) \/ lockWrite(s)
           \/ unLockWrite(s) \/ update(s) \/ flushData(s),
           UNCHANGED <<ecsVars, clientVars>>
    PROVE  DataInv'
  <1> USE DEF DataInv
  <1>1. /\ apc[s] = "adminServe" /\ apc' = [apc EXCEPT ![s] = "reply"]
        /\ UNCHANGED <<snap, znode, pc, req, to>>
        /\ areq[s].type \in {"INIT_SERVER", "START", "STOP", "SHUTDOWN", "LOCK", "UNLOCK",
                             "UPDATE", "FLUSH"}
    BY DEF initKVServer, setStart, setStop, shutDown, lockWrite, unLockWrite, update, flushData,
           TakeMetadata, Handle, AdminAt, threads
  <1>2. Busy(s) /\ asked = s /\ epc \notin {"join", "leave", "shutDownAll"}
    BY <1>1, WhatIsAsked DEF Busy, CalmOK
  <1>3. /\ areq[s].type \notin {"LOCK", "UNLOCK", "FLUSH"}
        /\ areq[s].type = "STOP" => epc = "stopAll"
    BY <1>1, <1>2, WhatIsAsked
  <1>4. /\ UNCHANGED <<storage, dataToFlush>>
        /\ areq[s].type = "START" => stopped' = [stopped EXCEPT ![s] = FALSE]
        /\ areq[s].type \notin {"START", "STOP"} => stopped' = stopped
    BY <1>1, <1>3 DEF initKVServer, setStart, setStop, shutDown, lockWrite, unLockWrite, update,
                flushData, TakeMetadata, Handle, data, flags
  <1>5. \A t \in Servers : apc[t] \notin Moving /\ apc'[t] \notin Moving
    BY <1>1, <1>2, MoveIs, Types DEF Moving
  <1>6. \A t \in Servers : dataToFlush'[t] = {} /\ pc'[t] \notin Serving \cup {"reply"}
    BY <1>1, <1>4, <1>5, NothingCollected DEF Copying, Moving, ServingOK
  <1>7. RangeOK'
    BY DEF RangeOK, Handing, From, Into, ecsVars
  <1>8. CalmOK'
    <2>1. UNCHANGED <<epc, asked, node, activeServers, cst>>
      BY DEF ecsVars, clientVars
    <2>2. epc \in {"join", "joined"} => ~stopped'[node]
      BY <1>2, <1>3, <1>4, WhatIsAsked DEF CalmOK
    <2>3. epc = "start" /\ apc'[node] = "reply" => ~stopped'[node]
      <3> SUFFICES ASSUME epc = "start" PROVE ~stopped'[node]
        OBVIOUS
      <3>1. s = node /\ areq[s].type = "START"
        BY <1>1, <1>2, WhatIsAsked
      <3> QED
        BY <1>4, <3>1, DataTypes
    <2> QED
      BY <2>1, <2>2, <2>3, Types DEF CalmOK, NoRequestRuns
  <1>9. ServingOK'
    BY <1>1, <1>6 DEF ServingOK, ecsVars
  <1>10. SentOK' /\ CollectedOK' /\ CopiedOK'
    BY <1>5, <1>6 DEF SentOK, CollectedOK, CopiedOK, Moving
  <1>11. PlacedOK' /\ ShortOK'
    BY <1>2, <1>4 DEF PlacedOK, ShortOK, Placed, Before, During, After, ecsVars
  <1> QED
    BY <1>7, <1>8, <1>9, <1>10, <1>11

\* What a step of a move leaves as it is.
LEMMA MoveKeeps ==
    ASSUME Quiet, HeirStarted, ClusterInv, ReliableInv, DataInv, NEW s \in Servers,
           apc[s] \in Moving \/ (apc[s] = "adminServe" /\ areq[s].type = "MOVE_DATA"),
           UNCHANGED <<ecsVars, clientVars, process, stopped>>,
           NEW l, apc' = [apc EXCEPT ![s] = l],
           \A q \in Peers \ {s} : pc'[q] = pc[q] /\ req'[q] = req[q] /\ to'[q] = to[q],
           \A t \in Servers \ {s} : dataToFlush'[t] = dataToFlush[t],
           pc'[s] \in Serving \cup {"reply"} => l = "moveWait",
           \/ pc'[s] = pc[s] /\ req'[s] = req[s]
           \/ pc'[s] \in {"none", "idle", "isStopped"}
    PROVE  /\ RangeOK' /\ CalmOK' /\ ServingOK'
           /\ \A t \in Servers \ {s} :
                 apc'[t] \notin Moving /\ dataToFlush'[t] = {} /\ pc'[t] \notin Serving
           /\ UNCHANGED <<Into, From, epc, asked, range, activeServers, ecsMeta>>
           /\ apc'[s] = l
  <1> USE DEF DataInv
  <1>1. asked = s /\ epc \in {"join", "leave"} /\ \A t \in Servers : Busy(t) => t = s
    BY MoveIs
  <1>2. UNCHANGED <<Into, From, epc, asked, range, activeServers, ecsMeta>> /\ apc'[s] = l
    BY Types DEF ecsVars, Into, From
  <1>3. RangeOK'
    BY DEF RangeOK, Handing, From, Into, ecsVars
  <1>4. CalmOK'
    BY <1>1 DEF CalmOK, ecsVars, clientVars, process, Steady, NoRequestRuns
  <1>5. \A t \in Servers \ {s} : /\ apc[t] \notin Moving /\ apc'[t] = apc[t]
                                 /\ dataToFlush[t] = {}
                                 /\ pc[t] \notin Serving \cup {"reply"}
    <2>1. \A t \in Servers \ {s} : apc[t] \notin Moving /\ apc'[t] = apc[t]
      BY <1>1, Types DEF Busy, Moving
    <2> QED
      BY <2>1, NothingCollected DEF Copying, Moving, ServingOK
  <1>6. ServingOK'
    <2>1. \A t \in Servers : pc'[t] \in Serving \cup {"reply"} => apc'[t] = "moveWait"
      BY <1>2, <1>5, Types
    <2>2. \A p \in Peers :
             /\ pc'[p] \in {"inRangeGet", "getKV"} => req'[p].type = "GET"
             /\ pc'[p] \in Storing \cup {"isWriteLock"} => req'[p].type = "PUT"
             /\ pc'[p] \in Storing => req'[p].key \notin LongKeys
      BY DEF ServingOK, Storing
    <2>3. \A c \in Clients : c \in Peers \ {s}
      BY DataTypes
    <2> QED
      BY <1>2, <2>1, <2>2, <2>3 DEF ServingOK
  <1>7. \A t \in Servers \ {s} :
            apc'[t] \notin Moving /\ dataToFlush'[t] = {} /\ pc'[t] \notin Serving
    BY <1>5, Types
  <1> QED
    BY <1>2, <1>3, <1>4, <1>6, <1>7

\* Before the first pair is sent: nothing is collected, and the data are in place.
LEMMA MoveBeginsData ==
    ASSUME Quiet, HeirStarted, ClusterInv, ReliableInv, DataInv, NEW s \in Servers,
           moveData(s) \/ moveLock(s) \/ moveSnapshot(s) \/ moveConnect(s),
           UNCHANGED <<ecsVars, clientVars>>
    PROVE  DataInv'
  <1> DEFINE l == IF apc[s] = "adminServe" THEN "moveLock"
                  ELSE IF apc[s] = "moveLock" THEN "moveSnapshot"
                  ELSE IF apc[s] = "moveSnapshot" THEN "moveConnect" ELSE "moveNext"
  <1> USE DEF DataInv
  <1>1. /\ apc[s] \in {"adminServe", "moveLock", "moveSnapshot", "moveConnect"}
        /\ apc[s] = "adminServe" => areq[s].type = "MOVE_DATA"
        /\ moveData(s) => apc[s] = "adminServe"
        /\ moveLock(s) => apc[s] = "moveLock"
        /\ moveSnapshot(s) => apc[s] = "moveSnapshot"
        /\ moveConnect(s) => apc[s] = "moveConnect"
    BY DEF moveData, moveLock, moveSnapshot, moveConnect, AdminAt
  <1>2. /\ apc[s] \in Moving \/ (apc[s] = "adminServe" /\ areq[s].type = "MOVE_DATA")
        /\ apc[s] \notin Copying
    BY <1>1 DEF Moving, Copying
  <1>3. /\ asked = s /\ epc \in {"join", "leave"} /\ s = From /\ areq[s].dest = Into
        /\ areq[s].range = range /\ Into \in Servers
    BY <1>2, MoveIs
  <1>4. dataToFlush[s] = {} /\ pc[s] \notin Serving \cup {"reply"}
    BY <1>2, NothingCollected DEF ServingOK, Copying
  <1>5. (~Refuses(areq[s].dest) /\ ~Hangs(areq[s].dest)) \/ ~moveConnect(s)
    BY <1>1, MoveTarget DEF Steady, Refuses, Listens, Hangs, Moving
  <1>6. /\ UNCHANGED <<process, stopped, storage, dataToFlush, req>>
        /\ apc' = [apc EXCEPT ![s] = l]
        /\ \A q \in Peers \ {s} : pc'[q] = pc[q] /\ to'[q] = to[q]
        /\ pc'[s] = pc[s] \/ pc'[s] = "idle"
    <2>1. CASE moveData(s)
      BY <1>1, <2>1 DEF moveData, MoveGoto, data, threads
    <2>2. CASE moveLock(s)
      BY <1>1, <2>2 DEF moveLock, MoveGoto, data, threads
    <2>3. CASE moveSnapshot(s)
      BY <1>1, <2>3 DEF moveSnapshot, MoveGoto, data, threads
    <2>4. CASE moveConnect(s)
      BY <1>1, <1>5, <2>4, Types DEF moveConnect, MoveGoto, data
    <2> QED
      BY <2>1, <2>2, <2>3, <2>4
  <1> HIDE DEF l
  <1>7. /\ RangeOK' /\ CalmOK' /\ ServingOK'
        /\ \A t \in Servers \ {s} :
              apc'[t] \notin Moving /\ dataToFlush'[t] = {} /\ pc'[t] \notin Serving
        /\ UNCHANGED <<Into, From, epc, asked, range, activeServers, ecsMeta>>
        /\ apc'[s] = l
    <2>1. pc'[s] \in Serving \cup {"reply"} => l = "moveWait"
      BY <1>4, <1>6 DEF Serving
    <2> QED
      BY <1>2, <1>6, <2>1, MoveKeeps
  <1>8. SentOK' /\ CopiedOK'
    BY <1>4, <1>6, <1>7 DEF SentOK, CopiedOK, Serving
  <1>9. \A k \in Keys : l \in {"moveConnect", "moveNext"} =>
            snap'[s][k] = IF inRange(k, range) THEN storage[s][k] ELSE Null
    <2>1. CASE moveSnapshot(s)
      BY <1>3, <2>1, DataTypes DEF moveSnapshot
    <2>2. CASE moveConnect(s)
      <3>1. snap' = snap
        BY <1>5, <2>2 DEF moveConnect
      <3> QED
        BY <1>1, <1>4, <2>2, <3>1 DEF CollectedOK
    <2> QED
      BY <1>1, <2>1, <2>2 DEF l
  <1>10. l \in {"moveLock", "moveSnapshot", "moveConnect", "moveNext"}
    BY DEF l
  <1>11. CollectedOK'
    BY <1>4, <1>6, <1>7, <1>9, <1>10 DEF CollectedOK, Moving
  <1>12. PlacedOK' /\ ShortOK'
    <2>1. Placed(activeServers)
      BY <1>1, <1>3 DEF PlacedOK, Before
    <2>2. ~After'
      BY <1>3, <1>7, <1>10 DEF After
    <2> QED
      BY <1>6, <1>7, <2>1, <2>2 DEF PlacedOK, ShortOK, Placed
  <1> QED
    BY <1>7, <1>8, <1>11, <1>12

\* A pair is sent: it is at its source, in the range, and not at the destination.
LEMMA MoveNextData ==
    ASSUME Quiet, HeirStarted, ClusterInv, ReliableInv, DataInv, NEW s \in Servers, moveNext(s),
           UNCHANGED <<ecsVars, clientVars>>
    PROVE  DataInv'
  <1> USE DEF DataInv
  <1>1. /\ apc[s] = "moveNext" /\ apc[s] \in Moving
        /\ UNCHANGED <<process, stopped, storage, to>>
    BY DEF moveNext, AdminAt, MoveGoto, Moving
  <1>2. /\ asked = s /\ epc \in {"join", "leave"} /\ s = From /\ Handing
        /\ areq[s].range = range /\ Into \in Servers /\ Into # s
    BY <1>1, MoveIs
  <1>3. pc[s] = "idle"
    BY <1>1 DEF ClusterInv, ServerInv, MoveConnection, ReliableInv, MoveOK, Connected
  <1>4. During
    BY <1>1, <1>2, NullNoServer DEF During, Copying
  <1>5. CASE ToSend(s) = {} /\ apc' = [apc EXCEPT ![s] = "moveFlush"]
             /\ UNCHANGED <<dataToFlush, snap, pc, req>>
    <2>1. /\ RangeOK' /\ CalmOK' /\ ServingOK'
          /\ \A t \in Servers \ {s} :
                apc'[t] \notin Moving /\ dataToFlush'[t] = {} /\ pc'[t] \notin Serving
          /\ UNCHANGED <<Into, From, epc, asked, range, activeServers, ecsMeta>>
          /\ apc'[s] = "moveFlush"
      <3>1. pc'[s] \notin Serving \cup {"reply"}
        BY <1>3, <1>5 DEF Serving
      <3> QED
        BY <1>1, <1>5, <3>1, MoveKeeps
    <2>2. SentOK' /\ CopiedOK'
      BY <1>1, <1>3, <1>5, <2>1 DEF SentOK, CopiedOK, Serving
    <2>3. \A k \in Keys : inRange(k, range) /\ storage[s][k] # Null => k \in dataToFlush[s]
      BY <1>1, <1>5 DEF CollectedOK, ToSend
    <2>4. CollectedOK'
      <3>1. /\ \A k \in dataToFlush'[s] : storage'[s][k] # Null /\ inRange(k, range')
            /\ \A k \in Keys : inRange(k, range') /\ storage'[s][k] # Null => k \in dataToFlush'[s]
        BY <1>1, <1>5, <2>1, <2>3 DEF CollectedOK
      <3> QED
        BY <2>1, <3>1 DEF CollectedOK, Moving, Copying
    <2>5. During' /\ ~Before' /\ ~After'
      BY <1>2, <2>1, NullNoServer DEF During, Before, After, Copying
    <2>6. PlacedOK' /\ ShortOK'
      BY <1>1, <1>4, <1>5, <2>1, <2>5 DEF PlacedOK, ShortOK
    <2> QED
      BY <2>1, <2>2, <2>4, <2>6
  <1>6. ASSUME NEW k \in ToSend(s),
               dataToFlush' = [dataToFlush EXCEPT ![s] = @ \cup {k}],
               snap' = [snap EXCEPT ![s][k] = Null],
               Send(s, [type |-> "PUT", key |-> k, val |-> snap[s][k]]),
               apc' = [apc EXCEPT ![s] = "moveWait"]
        PROVE  DataInv'
    <2>1. /\ k \in Keys /\ snap[s][k] # Null /\ s \in Peers
          /\ snap[s][k] = storage[s][k] /\ inRange(k, range) /\ k \notin dataToFlush[s]
      BY <1>1, <1>6, Types DEF ToSend, CollectedOK
    <2>2. /\ pc' = [pc EXCEPT ![s] = "isStopped"]
          /\ req' = [req EXCEPT ![s] = [type |-> "PUT", key |-> k, val |-> storage[s][k]]]
      BY <1>6, <2>1 DEF Send
    <2>3. /\ pc'[s] = "isStopped"
          /\ req'[s] = [type |-> "PUT", key |-> k, val |-> storage[s][k]]
          /\ dataToFlush'[s] = dataToFlush[s] \cup {k}
          /\ snap'[s] = [snap[s] EXCEPT ![k] = Null]
      BY <1>6, <2>1, <2>2, Types, DataTypes
    <2>4. /\ RangeOK' /\ CalmOK' /\ ServingOK'
          /\ \A t \in Servers \ {s} :
                apc'[t] \notin Moving /\ dataToFlush'[t] = {} /\ pc'[t] \notin Serving
          /\ UNCHANGED <<Into, From, epc, asked, range, activeServers, ecsMeta>>
          /\ apc'[s] = "moveWait"
      BY <1>1, <1>6, <2>2, <2>3, MoveKeeps, Types, DataTypes
    <2>5. SentOK'
      BY <1>1, <2>3, <2>4 DEF SentOK
    <2>6. CollectedOK'
      <3>1. \A j \in dataToFlush'[s] : storage'[s][j] # Null /\ inRange(j, range')
        BY <1>1, <2>1, <2>3, <2>4 DEF CollectedOK
      <3>2. \A j \in Keys :
                snap'[s][j] = IF inRange(j, range') /\ j \notin dataToFlush'[s]
                              THEN storage'[s][j] ELSE Null
        BY <1>1, <2>1, <2>3, <2>4, DataTypes DEF CollectedOK
      <3> QED
        BY <2>4, <3>1, <3>2 DEF CollectedOK, Moving, Copying
    <2>7. storage[Into][k] = Null
      <3>1. Owners(k, activeServers) = {s}
        BY <1>2, <2>1 DEF RangeOK
      <3> QED
        BY <1>2, <1>4, <2>1, <3>1 DEF PlacedOK
    <2>8. CopiedOK'
      <3>1. \A j \in dataToFlush[s] : storage[Into][j] = storage[s][j]
        BY <1>3, DataTypes DEF CopiedOK, Serving
      <3> QED
        BY <1>1, <2>3, <2>4, <2>7, <3>1 DEF CopiedOK, Serving
    <2>9. During' /\ ~Before' /\ ~After'
      BY <1>2, <2>4, NullNoServer DEF During, Before, After, Copying
    <2>10. PlacedOK' /\ ShortOK'
      BY <1>1, <1>2, <1>4, <2>3, <2>4, <2>9 DEF PlacedOK, ShortOK
    <2> QED
      BY <2>4, <2>5, <2>6, <2>8, <2>10
  <1> QED
    BY <1>3, <1>5, <1>6 DEF moveNext, MoveGoto

\* The answer has come: the pair is at the destination.
LEMMA MoveReplyData ==
    ASSUME Quiet, HeirStarted, ClusterInv, ReliableInv, DataInv, NEW s \in Servers,
           moveReply(s),
           UNCHANGED <<ecsVars, clientVars>>
    PROVE  DataInv'
  <1> USE DEF DataInv
  <1>1. apc[s] = "moveWait" /\ apc[s] \in Moving /\ s \in Peers
    BY Types DEF moveReply, AdminAt, Moving
  <1>2. pc[s] # "closed"
    BY <1>1 DEF ReliableInv, MoveOK, Connected
  <1>3. /\ pc[s] = "reply" /\ UNCHANGED <<process, stopped, storage, dataToFlush, snap, to, req>>
        /\ apc' = [apc EXCEPT ![s] = "moveNext"] /\ pc' = [pc EXCEPT ![s] = "idle"]
    BY <1>2 DEF moveReply, MoveGoto, Done, data
  <1>4. asked = s /\ epc \in {"join", "leave"} /\ s = From /\ Into \in Servers
    BY <1>1, MoveIs
  <1>5. /\ RangeOK' /\ CalmOK' /\ ServingOK'
        /\ \A t \in Servers \ {s} :
              apc'[t] \notin Moving /\ dataToFlush'[t] = {} /\ pc'[t] \notin Serving
        /\ UNCHANGED <<Into, From, epc, asked, range, activeServers, ecsMeta>>
        /\ apc'[s] = "moveNext"
    <2>1. /\ pc'[s] = "idle" /\ pc'[s] \notin Serving \cup {"reply"}
          /\ \A q \in Peers \ {s} : pc'[q] = pc[q] /\ req'[q] = req[q] /\ to'[q] = to[q]
          /\ \A t \in Servers \ {s} : dataToFlush'[t] = dataToFlush[t]
      BY <1>1, <1>3, Types DEF Serving
    <2>2. UNCHANGED <<ecsVars, clientVars, process, stopped>>
      BY <1>3
    <2> QED
      BY <1>1, <1>3, <2>1, <2>2, MoveKeeps
  <1>6. pc[s] \notin Serving /\ pc'[s] \notin Serving
    BY <1>1, <1>3, Types DEF Serving
  <1>7. SentOK' /\ CopiedOK'
    BY <1>3, <1>5, <1>6 DEF SentOK, CopiedOK
  <1>8. CollectedOK'
    <2>1. /\ \A k \in dataToFlush'[s] : storage'[s][k] # Null /\ inRange(k, range')
          /\ \A k \in Keys :
                snap'[s][k] = IF inRange(k, range') /\ k \notin dataToFlush'[s]
                              THEN storage'[s][k] ELSE Null
      BY <1>1, <1>3, <1>5 DEF CollectedOK
    <2> QED
      BY <1>5, <2>1 DEF CollectedOK, Moving, Copying
  <1>9. During /\ During' /\ ~Before' /\ ~After'
    BY <1>1, <1>4, <1>5, NullNoServer DEF During, Before, After, Copying
  <1>10. PlacedOK' /\ ShortOK'
    BY <1>3, <1>5, <1>9 DEF PlacedOK, ShortOK
  <1> QED
    BY <1>5, <1>7, <1>8, <1>10

\* What was collected is deleted at its source: now the data are where the new
\* metadata place them.
LEMMA MoveFlushData ==
    ASSUME Quiet, HeirStarted, ClusterInv, ReliableInv, DataInv, NEW s \in Servers,
           moveFlush(s),
           UNCHANGED <<ecsVars, clientVars>>
    PROVE  DataInv'
  <1> USE DEF DataInv
  <1>1. /\ apc[s] = "moveFlush" /\ apc[s] \in Moving /\ s \in Peers
        /\ apc' = [apc EXCEPT ![s] = "moveUnlock"]
        /\ UNCHANGED <<process, stopped, snap, to, req, pc>>
        /\ dataToFlush' = [dataToFlush EXCEPT ![s] = {}]
        /\ storage' = [storage EXCEPT ![s] =
                          [k \in Keys |-> IF k \in dataToFlush[s] THEN Null ELSE @[k]]]
    BY Types DEF moveFlush, FlushCollected, MoveGoto, AdminAt, Moving, threads
  <1>2. /\ asked = s /\ epc \in {"join", "leave"} /\ s = From /\ Handing /\ Into \in Servers
        /\ Into # s
    BY <1>1, MoveIs
  <1>3. pc[s] \notin Serving \cup {"reply"}
    BY <1>1 DEF ServingOK
  <1>4. /\ RangeOK' /\ CalmOK' /\ ServingOK'
        /\ \A t \in Servers \ {s} :
              apc'[t] \notin Moving /\ dataToFlush'[t] = {} /\ pc'[t] \notin Serving
        /\ UNCHANGED <<Into, From, epc, asked, range, activeServers, ecsMeta>>
        /\ apc'[s] = "moveUnlock"
    BY <1>1, <1>3, MoveKeeps, DataTypes
  <1>5. /\ dataToFlush'[s] = {}
        /\ \A k \in Keys : storage'[s][k] = IF k \in dataToFlush[s] THEN Null ELSE storage[s][k]
        /\ \A t \in Servers \ {s} : storage'[t] = storage[t]
    BY <1>1, DataTypes
  <1>6. SentOK' /\ CopiedOK' /\ CollectedOK'
    BY <1>1, <1>3, <1>4, <1>5 DEF SentOK, CopiedOK, CollectedOK, Moving
  <1>7. During /\ After' /\ ~Before' /\ ~During'
    BY <1>1, <1>2, <1>4, NullNoServer DEF During, Before, After, Copying
  <1>8. ASSUME NEW t \in Servers, NEW k \in Keys, storage'[t][k] # Null
        PROVE  t \in Owners(k, ecsMeta) /\ storage[t][k] # Null
    <2>1. storage[t][k] # Null
      BY <1>5, <1>8
    <2>2. t \in Owners(k, activeServers) \/ (t = Into /\ k \in dataToFlush[s])
      BY <1>2, <1>7, <2>1 DEF PlacedOK
    <2>3. CASE inRange(k, range)
      <3>1. Owners(k, activeServers) = {s} /\ Owners(k, ecsMeta) = {Into}
        BY <1>2, <2>3 DEF RangeOK
      <3>2. t # s
        BY <1>1, <1>5, <1>8, <2>1, <2>3 DEF CollectedOK
      <3> QED
        BY <2>1, <2>2, <3>1, <3>2
    <2>4. CASE ~inRange(k, range)
      <3>1. k \notin dataToFlush[s]
        BY <2>4 DEF CollectedOK
      <3>2. Owners(k, activeServers) = Owners(k, ecsMeta)
        BY <1>2, <2>4 DEF RangeOK
      <3> QED
        BY <2>1, <2>2, <3>1, <3>2
    <2> QED
      BY <2>3, <2>4
  <1>9. PlacedOK' /\ ShortOK'
    BY <1>4, <1>7, <1>8 DEF PlacedOK, ShortOK, Placed
  <1> QED
    BY <1>4, <1>6, <1>9

LEMMA MoveUnlockData ==
    ASSUME Quiet, HeirStarted, ClusterInv, ReliableInv, DataInv, NEW s \in Servers,
           moveUnlock(s),
           UNCHANGED <<ecsVars, clientVars>>
    PROVE  DataInv'
  <1> USE DEF DataInv
  <1>1. /\ apc[s] = "moveUnlock" /\ apc[s] \in Moving /\ apc[s] \notin Copying /\ s \in Peers
        /\ apc' = [apc EXCEPT ![s] = "reply"]
        /\ UNCHANGED <<process, stopped, storage, dataToFlush, req>>
        /\ pc' = [pc EXCEPT ![s] = "none"]
        /\ \A q \in Peers \ {s} : to'[q] = to[q]
    BY Types DEF moveUnlock, AdminAt, Moving, Copying, Done, data
  <1>2. asked = s /\ epc \in {"join", "leave"}
    BY <1>1, MoveIs
  <1>3. dataToFlush[s] = {} /\ pc'[s] \notin Serving \cup {"reply"}
    BY <1>1, NothingCollected, Types DEF Serving
  <1>4. /\ RangeOK' /\ CalmOK' /\ ServingOK'
        /\ \A t \in Servers \ {s} :
              apc'[t] \notin Moving /\ dataToFlush'[t] = {} /\ pc'[t] \notin Serving
        /\ UNCHANGED <<Into, From, epc, asked, range, activeServers, ecsMeta>>
        /\ apc'[s] = "reply"
    <2>1. pc'[s] = "none" /\ \A q \in Peers \ {s} : pc'[q] = pc[q]
      BY <1>1, Types
    <2> QED
      BY <1>1, <1>3, <2>1, MoveKeeps
  <1>5. SentOK' /\ CopiedOK' /\ CollectedOK'
    BY <1>1, <1>3, <1>4 DEF SentOK, CopiedOK, CollectedOK, Moving
  <1>6. After /\ After' /\ ~Before' /\ ~During'
    BY <1>1, <1>2, <1>4, NullNoServer DEF During, Before, After, Copying
  <1>7. PlacedOK' /\ ShortOK'
    BY <1>1, <1>4, <1>6 DEF PlacedOK, ShortOK, Placed
  <1> QED
    BY <1>4, <1>5, <1>7

LEMMA AdminData ==
    ASSUME Quiet, HeirStarted, ClusterInv, ReliableInv, DataInv, NEW s \in Servers,
           AdminThread(s)
    PROVE  DataInv'
  BY RangeIsSent, CommandData, MoveBeginsData, MoveNextData, MoveReplyData, MoveFlushData, MoveUnlockData
     DEF AdminThread, AdminStep, ServersOnly

-----------------------------------------------------------------------------
(* Steps while nothing is served and nothing moves.                        *)

\* What is said of requests and moves holds of none.
LEMMA StillData ==
    ASSUME Quiet, HeirStarted, ClusterInv, ReliableInv, DataInv, NoRequestRuns,
           \A s \in Servers : apc[s] \notin Moving /\ apc'[s] \notin Moving,
           \A s \in Servers : dataToFlush'[s] \in {{}, dataToFlush[s]},
           \A p \in Peers : pc'[p] = pc[p] \/ pc'[p] \notin Serving \cup {"reply"}
    PROVE  ServingOK' /\ SentOK' /\ CollectedOK' /\ CopiedOK'
  <1> USE DEF DataInv
  <1>1. \A s \in Servers : dataToFlush'[s] = {} /\ pc[s] \notin Serving \cup {"reply"}
    BY NothingCollected DEF Copying, Moving, ServingOK
  <1>2. \A c \in Clients : pc[c] \notin Serving
    BY DEF NoRequestRuns, ClusterInv, Conversation, Serving
  <1>3. \A p \in Peers : pc[p] \notin Serving
    BY <1>1, <1>2, DataTypes
  <1>4. \A p \in Peers : pc'[p] \notin Serving
    BY <1>3
  <1>5. \A s \in Servers : pc'[s] \notin Serving \cup {"reply"}
    BY <1>1, Types
  <1>6. ServingOK'
    BY <1>4, <1>5, DataTypes DEF ServingOK, Serving, Storing
  <1>7. SentOK' /\ CollectedOK' /\ CopiedOK'
    BY <1>1, <1>5 DEF SentOK, CollectedOK, CopiedOK, Moving
  <1> QED
    BY <1>6, <1>7

\* The main thread runs while a server is being started or ends; one that ends has
\* no data any more, so that clearing its storage loses nothing.
LEMMA MainMeans ==
    ASSUME Quiet, HeirStarted, ClusterInv, ReliableInv, CalmOK, NEW s \in Servers, MainThread(s)
    PROVE  /\ s = node /\ epc \in {"awaitJoin", "awaitLeave", "shutdown_server"}
           /\ clearKVStorage(s) \/ exit(s) => epc \in {"awaitLeave", "shutdown_server"}
           /\ s \in activeServers => epc = "shutdown_server" /\ clearKVStorage(s)
           /\ initializeServer(s) \/ register(s) \/ clearKVStorage(s) \/ exit(s)
           /\ \A t \in Servers : apc[t] \notin Moving
  <1>1. ~second[s]
    BY DEF ReliableInv, RolesOK
  <1>2. initializeServer(s) \/ register(s) \/ clearKVStorage(s) \/ exit(s)
    BY <1>1 DEF MainThread, RunStep, secondFails, secondTakesOver
  <1>3. /\ initializeServer(s) \/ register(s) => proc[s] \in {"launched", "bound"}
        /\ clearKVStorage(s) => proc[s] = "closing"
        /\ exit(s) => proc[s] = "cleared"
    BY DEF initializeServer, register, clearKVStorage, exit
  <1>4. /\ proc[s] \in {"launched", "bound"} => epc = "awaitJoin" /\ s = node
        /\ proc[s] \in {"closing", "cleared"} =>
              /\ s = node
              /\ epc = "awaitLeave" \/ (epc = "shutdown_server" /\ asked = s /\ apc[s] = "reply")
    BY RoleOf DEF Steady, Gone, Starting, Ending, CalmOK
  <1>5. exit(s) => epc = "awaitLeave"
    BY <1>3, <1>4 DEF MainThread, Quiet
  <1>6. s \in activeServers => epc = "shutdown_server" /\ clearKVStorage(s)
    BY <1>2, <1>3, <1>4, <1>5 DEF ReliableInv, ListsOK, Joins
  <1>7. \A t \in Servers : apc[t] \notin Moving
    BY <1>2, <1>3, <1>4, MoveIs
  <1> QED
    BY <1>2, <1>3, <1>4, <1>6, <1>7

LEMMA InterruptedShrinks ==
    ASSUME ClusterInv, NEW s \in Servers, Interrupted(s)
    PROVE  \A t \in Servers, k \in Keys : storage'[t][k] # Null => storage[t][k] # Null
  <1>1. CASE UNCHANGED storage
    BY <1>1
  <1>2. CASE storage' = [storage EXCEPT ![s] = Empty]
    BY <1>2, DataTypes DEF Empty
  <1>3. ASSUME NEW done,
               storage' = [storage EXCEPT ![s] = [k \in Keys |-> IF k \in done THEN Null ELSE @[k]]]
        PROVE  \A t \in Servers, k \in Keys : storage'[t][k] # Null => storage[t][k] # Null
    BY <1>3, DataTypes
  <1> QED
    BY <1>1, <1>2, <1>3 DEF Interrupted

LEMMA MainData ==
    ASSUME Quiet, HeirStarted, ClusterInv, ReliableInv, DataInv, NEW s \in Servers,
           MainThread(s)
    PROVE  DataInv'
  <1> USE DEF DataInv
  <1>1. /\ s = node /\ epc \in {"awaitJoin", "awaitLeave", "shutdown_server"}
        /\ s \in activeServers => epc = "shutdown_server" /\ clearKVStorage(s)
        /\ initializeServer(s) \/ register(s) \/ clearKVStorage(s) \/ exit(s)
        /\ \A t \in Servers : apc[t] \notin Moving
    BY MainMeans
  <1>2. UNCHANGED <<ecsVars, clientVars>>
    BY DEF MainThread, ServersOnly
  <1>3. /\ \A t \in Servers : apc'[t] \notin Moving /\ dataToFlush'[t] \in {{}, dataToFlush[t]}
        /\ \A p \in Peers : pc'[p] = pc[p] \/ pc'[p] \notin Serving \cup {"reply"}
        /\ \A t \in Servers \ {s} : proc'[t] = proc[t] /\ stopped'[t] = stopped[t]
        /\ \A t \in Servers \ {s} : znode'[t] = znode[t]
        /\ \A t \in Servers, k \in Keys : storage'[t][k] # Null => storage[t][k] # Null
    <2> USE <1>1, Types, DataTypes
    <2>1. CASE initializeServer(s) \/ register(s)
      BY <2>1 DEF initializeServer, register, flags, data, threads, admin
    <2>2. CASE clearKVStorage(s)
      BY <2>2 DEF clearKVStorage, flags, threads, admin, Empty
    <2>3. CASE exit(s)
      <3>1. /\ \A t \in Servers : apc'[t] \notin Moving
            /\ \A t \in Servers : dataToFlush'[t] \in {{}, dataToFlush[t]}
            /\ \A t \in Servers \ {s} : proc'[t] = proc[t] /\ stopped'[t] = stopped[t]
            /\ \A t \in Servers \ {s} : znode'[t] = znode[t]
        BY <2>3 DEF exit, ProcessEnds, Moving
      <3>2. \A p \in Peers : pc'[p] = pc[p] \/ pc'[p] \notin Serving \cup {"reply"}
        BY <2>3 DEF exit, ProcessEnds, Serving
      <3>3. \A t \in Servers, k \in Keys : storage'[t][k] # Null => storage[t][k] # Null
        BY <2>3, InterruptedShrinks DEF exit
      <3> QED
        BY <2>3, <3>1, <3>2, <3>3
    <2> QED
      BY <2>1, <2>2, <2>3
  <1>4. NoRequestRuns /\ (clearKVStorage(s) => proc'[s] # "up")
    BY <1>1, Types DEF CalmOK, clearKVStorage
  <1>5. ServingOK' /\ SentOK' /\ CollectedOK' /\ CopiedOK'
    BY <1>1, <1>3, <1>4, StillData
  <1>6. RangeOK'
    BY <1>2 DEF RangeOK, Handing, From, Into, ecsVars
  <1>7. CalmOK'
    BY <1>1, <1>2 DEF CalmOK, NoRequestRuns, ecsVars, clientVars
  <1>8. PlacedOK' /\ ShortOK'
    BY <1>1, <1>2, <1>3 DEF PlacedOK, ShortOK, Placed, Before, During, After, ecsVars
  <1> QED
    BY <1>5, <1>6, <1>7, <1>8

LEMMA ExpiryData ==
    ASSUME Quiet, HeirStarted, ClusterInv, ReliableInv, DataInv, NEW s \in Servers, Expiry(s)
    PROVE  DataInv'
  <1> USE DEF DataInv
  <1>1. /\ UNCHANGED <<proc, flags, data, threads, admin, ecsVars, clientVars>>
        /\ znode' = [znode EXCEPT ![s] = "none"]
    BY DEF Expiry, ServersOnly, SessionExpires
  <1>2. UNCHANGED <<stopped, storage, dataToFlush, pc, to, req, apc, snap, cst>>
    BY <1>1 DEF flags, data, threads, admin, clientVars
  <1>3. RangeOK'
    BY <1>1 DEF RangeOK, Handing, From, Into, ecsVars
  <1>4. CalmOK'
    BY <1>1, <1>2 DEF CalmOK, NoRequestRuns, ecsVars
  <1>5. ServingOK' /\ SentOK' /\ CollectedOK' /\ CopiedOK'
    BY <1>1, <1>2 DEF ServingOK, SentOK, CollectedOK, CopiedOK, Into, ecsVars
  <1>6. PlacedOK' /\ ShortOK'
    BY <1>1, <1>2 DEF PlacedOK, ShortOK, Placed, Before, During, After, Into, From, ecsVars
  <1> QED
    BY <1>3, <1>4, <1>5, <1>6

\* A client's own steps: none of them stores anything.
LEMMA ClientData ==
    ASSUME Quiet, HeirStarted, ClusterInv, ReliableInv, DataInv, NEW c \in Clients,
           \/ \E s \in Servers : ClientConnects(c, s)
           \/ \E r \in ClientRequests : ClientRequest(c, r)
           \/ ClientDisconnects(c) \/ ClientThread(c)
    PROVE  DataInv'
  <1> USE DEF DataInv
  <1>1. UNCHANGED <<process, flags, data, admin, ecsVars>>
    BY DEF ClientConnects, ClientRequest, ClientDisconnects, ClientThread, ClientsOnly, ClientOnly,
           connect, request, disconnect, StoreStep, connectCorrServer, callHangs, sendMsg,
           redirected, replied, lost
  <1>2. /\ \A q \in Peers \ {c} : pc'[q] = pc[q] /\ req'[q] = req[q] /\ to'[q] = to[q]
        /\ \/ pc'[c] \in {"none", "idle", "isStopped"}
           \/ pc'[c] = pc[c] /\ cst[c] \in {"ready", "route"}
        /\ \A d \in Clients \ {c} : cst'[d] = cst[d]
        /\ cst'[c] \in {"off", "ready"} \/ (epc = "ready" \/ cst[c] \notin {"off", "ready", "hung"})
    <2> USE Types, DataTypes DEF Done, Send, threads
    <2>1. CASE \E s \in Servers : ClientConnects(c, s)
      BY <2>1 DEF ClientConnects, connect
    <2>2. CASE \E r \in ClientRequests : ClientRequest(c, r)
      BY <2>2 DEF ClientRequest, request, Quiet
    <2>3. CASE ClientDisconnects(c)
      BY <2>3 DEF ClientDisconnects, disconnect
    <2>4. CASE ClientThread(c)
      <3>1. CASE connectCorrServer(c)
        BY <3>1 DEF connectCorrServer
      <3>2. CASE sendMsg(c)
        BY <3>2 DEF sendMsg, Fails
      <3>3. CASE redirected(c) \/ replied(c) \/ lost(c)
        BY <3>3 DEF redirected, replied, lost, Fails
      <3> QED
        BY <2>4, <3>1, <3>2, <3>3, NoCallHangs DEF ClientThread, StoreStep
    <2> QED
      BY <2>1, <2>2, <2>3, <2>4
  <1>3. UNCHANGED <<stopped, storage, dataToFlush, apc, snap>>
    BY <1>1 DEF flags, data, admin
  <1>4. \A s \in Servers : pc'[s] = pc[s] /\ req'[s] = req[s]
    BY <1>2, DataTypes
  <1>5. pc'[c] \notin Serving \/ pc'[c] = "isStopped"
    BY <1>2 DEF ClusterInv, Conversation, Serving
  <1>6. RangeOK'
    BY <1>1 DEF RangeOK, Handing, From, Into, ecsVars
  <1>7. CalmOK'
    <2>1. epc # "ready" => NoRequestRuns'
      BY <1>2 DEF CalmOK, NoRequestRuns
    <2> QED
      BY <1>1, <1>3, <2>1 DEF CalmOK, ecsVars, Steady, process
  <1>8. ServingOK'
    BY <1>1, <1>2, <1>3, <1>4, <1>5, DataTypes DEF ServingOK, Serving, Storing, ecsVars
  <1>9. SentOK' /\ CollectedOK' /\ CopiedOK'
    BY <1>1, <1>3, <1>4 DEF SentOK, CollectedOK, CopiedOK, Into, ecsVars
  <1>10. PlacedOK' /\ ShortOK'
    BY <1>1, <1>3 DEF PlacedOK, ShortOK, Placed, Before, During, After, Into, From, ecsVars
  <1> QED
    BY <1>6, <1>7, <1>8, <1>9, <1>10

-----------------------------------------------------------------------------
(* The ECS.                                                                *)

\* A server the ECS waits for does not disappear, and one that is up answers.
LEMMA ExchangeAnswered ==
    ASSUME ClusterInv, ReliableInv, NEW l, NEW s \in Servers, NEW m, NEW a, NEW r, NEW n,
           Exchange(l, s, m, a, r, n), asked = Null => Steady(s)
    PROVE  /\ UNCHANGED <<lists, command>> /\ TalksOnly /\ epc = l
           /\ \/ /\ asked = Null /\ epc' = epc /\ asked' = s
                 /\ apc' = [apc EXCEPT ![s] = "adminServe"]
              \/ /\ asked = s /\ apc[s] = "reply" /\ epc' = a /\ asked' = Null
                 /\ apc' = [apc EXCEPT ![s] = "none"]
  <1>1. ~Lost(l, s)
    BY NullNoServer DEF Lost, ReliableInv, AdminsOK, Busy
  <1>2. ~IsRefused(l, s)
    BY DEF IsRefused, EAt, Refuses, Listens, Steady
  <1> QED
    BY <1>1, <1>2 DEF Exchange, Ask, Answered, AdminCall, AdminDone, EAt, EGoto

LEMMA RoundAnswered ==
    ASSUME ClusterInv, ReliableInv, NEW l, NEW m, NEW f, Round(l, m, f), l \in Rounds
    PROVE  /\ UNCHANGED <<lists, node, peer, range>> /\ TalksOnly /\ epc = l /\ epc' = l
           /\ \E s \in Servers :
                 \/ /\ asked = Null /\ asked' = s
                    /\ apc' = [apc EXCEPT ![s] = "adminServe"]
                 \/ /\ asked = s /\ apc[s] = "reply" /\ asked' = Null
                    /\ apc' = [apc EXCEPT ![s] = "none"]
  <1>1. PICK s \in todo :
           \/ Ask(l, s, m)
           \/ /\ \/ Answered(l, s) /\ EGoto(l)
                 \/ Lost(l, s)
                 \/ IsRefused(l, s)
              /\ UNCHANGED <<lists, node, peer, range>>
              /\ TalksOnly
    BY DEF Round
  <1>2. s \in Servers /\ epc = l
    BY <1>1, Types DEF Ask, Answered, Lost, IsRefused, EAt
  <1>3. Steady(s)
    BY <1>1, <1>2 DEF ReliableInv, ListsOK, RolesOK, Rounds, Told
  <1>4. ~Lost(l, s) /\ ~IsRefused(l, s)
    BY <1>2, <1>3, NullNoServer DEF Lost, IsRefused, ReliableInv, AdminsOK, Busy, Refuses,
                                    Listens, Steady
  <1> QED
    BY <1>1, <1>2, <1>4 DEF Ask, Answered, AdminCall, AdminDone, EAt, EGoto, command

\* The ECS does nothing while data are moved.
LEMMA ECSAlone ==
    ASSUME HeirStarted, ClusterInv, ReliableInv, CalmOK, asked = Null \/ apc[asked] = "reply"
    PROVE  \A s \in Servers : apc[s] \notin Moving
  BY MoveIs, NullNoServer DEF Moving

\* A request to a server and its answer.
LEMMA TalkData ==
    ASSUME Quiet, HeirStarted, ClusterInv, ReliableInv, DataInv, epc # "ready",
           UNCHANGED <<lists, node, peer, range, clientVars>>, TalksOnly, NEW s \in Servers,
           \/ /\ asked = Null /\ epc' = epc /\ asked' = s
              /\ apc' = [apc EXCEPT ![s] = "adminServe"]
           \/ /\ asked = s /\ apc[s] = "reply" /\ asked' = Null
              /\ apc' = [apc EXCEPT ![s] = "none"]
              /\ \/ epc' = epc /\ epc \notin {"join", "leave"}
                 \/ epc = "start" /\ epc' = "join"
                 \/ epc = "join" /\ epc' = "joined"
                 \/ epc = "updateHeir" /\ epc' = "leave"
                 \/ epc = "leave" /\ epc' = "left"
           \/ /\ asked = s /\ apc[s] = "reply" /\ asked' = s
              /\ apc' = [apc EXCEPT ![s] = "adminServe"]
              /\ epc = "init" /\ epc' = "start"
    PROVE  DataInv'
  <1> USE DEF DataInv
  <1>1. UNCHANGED <<proc, znode, stopped, storage, dataToFlush, pc, to, req, cst>>
    BY DEF TalksOnly, process, flags, data, threads, clientVars
  <1>2. UNCHANGED <<idleServers, activeServers, ecsMeta, node, peer, range>>
    BY DEF lists
  <1>3. NoRequestRuns /\ NoRequestRuns'
    BY <1>1 DEF CalmOK, NoRequestRuns
  <1>4. \A t \in Servers : apc[t] \notin Moving /\ apc'[t] \notin Moving
    BY ECSAlone, Types DEF Moving
  <1>5. ServingOK' /\ SentOK' /\ CollectedOK' /\ CopiedOK'
    BY <1>1, <1>3, <1>4, StillData
  <1>6. RangeOK'
    <2>1. Handing' => Handing /\ From' = From /\ Into' = Into
      BY <1>2 DEF Handing, From, Into, Joining
    <2> QED
      BY <1>2, <2>1 DEF RangeOK
  <1>7. CalmOK'
    <2>1. epc' \in {"join", "joined"} => ~stopped[node]
      <3>1. CASE epc = "start" /\ epc' = "join"
        <4>1. asked = node
          BY <3>1, WhatIsAsked DEF Busy
        <4> QED
          BY <3>1, <4>1 DEF CalmOK
      <3> QED
        BY <3>1 DEF CalmOK
    <2>2. epc' = "start" => apc'[node] # "reply"
      <3>1. CASE asked = Null
        BY <3>1, NoneBusy, Types DEF Busy, CalmOK
      <3>2. CASE asked = s
        BY <3>2, Types DEF ReliableInv, AdminsOK, Busy, CalmOK
      <3> QED
        BY <3>1, <3>2
    <2>3. epc' \notin {"shutDownAll", "ready"}
      BY DEF CalmOK
    <2> QED
      BY <1>1, <1>2, <1>3, <2>1, <2>2, <2>3 DEF CalmOK
  <1>8. PlacedOK' /\ ShortOK'
    <2>1. /\ Before' => Before
          /\ ~During'
          /\ After' => After
      BY <1>4, NullNoServer, Types DEF Before, During, After, Copying, Moving
    <2> QED
      BY <1>1, <1>2, <2>1 DEF PlacedOK, ShortOK, Placed
  <1> QED
    BY <1>5, <1>6, <1>7, <1>8

\* A step of the ECS that leaves the servers alone.
LEMMA LocalData ==
    ASSUME Quiet, HeirStarted, ClusterInv, ReliableInv, DataInv,
           asked = Null \/ apc[asked] = "reply",
           UNCHANGED <<storage, dataToFlush, pc, to, req, cst>>,
           NoRequestRuns,
           \A s \in Servers : apc'[s] \in {apc[s], "none"},
           RangeOK', CalmOK', PlacedOK'
    PROVE  DataInv'
  <1> USE DEF DataInv
  <1>1. \A s \in Servers : apc[s] \notin Moving /\ apc'[s] \notin Moving
    BY ECSAlone, Types DEF Moving
  <1>2. ServingOK' /\ SentOK' /\ CollectedOK' /\ CopiedOK'
    BY <1>1, StillData
  <1>3. ShortOK'
    BY DEF ShortOK
  <1> QED
    BY <1>2, <1>3

\* The exchanges and rounds of addNode, removeNode and start.
LEMMA AskData ==
    ASSUME Quiet, HeirStarted, ClusterInv, ReliableInv, DataInv, UNCHANGED clientVars,
           \/ sendInit \/ sendStart \/ sendJoinMove \/ sendHeirUpdate \/ sendLeaveMove
           \/ UpdateAllNodesMeta \/ sendStarts \/ sendStops
    PROVE  DataInv'
  <1> USE DEF DataInv
  <1>1. /\ epc \in Joins => Steady(node) /\ (activeServers # {} => Steady(peer))
        /\ epc \in {"updateHeir", "leave"} => Steady(node) /\ Steady(peer)
    BY DEF ReliableInv, ListsOK, RolesOK, Joins, Leaves, Told
  <1>2. node \in Servers /\ peer \in Servers
    BY Types
  <1>3. CASE sendInit
    <2>1. epc = "init"
      BY <1>3 DEF sendInit, Ask, Lost, IsRefused, EAt
    <2>2. ~Lost("init", node) /\ ~IsRefused("init", node)
      BY <1>1, <1>2, <2>1, NullNoServer DEF Lost, IsRefused, ReliableInv, AdminsOK, Busy, Refuses,
                                            Listens, Steady, Joins
    <2>3. /\ UNCHANGED <<lists, command>> /\ TalksOnly
          /\ \/ /\ asked = Null /\ epc' = epc /\ asked' = node
                /\ apc' = [apc EXCEPT ![node] = "adminServe"]
             \/ /\ asked = node /\ apc[node] = "reply" /\ epc' = "start" /\ asked' = node
                /\ apc' = [apc EXCEPT ![node] = "adminServe"]
      BY <1>3, <2>2 DEF sendInit, Ask, AdminCall, AdminNext, EAt
    <2> QED
      BY <1>2, <2>1, <2>3, TalkData DEF command
  <1>4. CASE sendStart
    <2>1. epc = "start"
      BY <1>4 DEF sendStart, Answered, Lost
    <2>2. ~Lost("start", node)
      BY <1>2, NullNoServer DEF Lost, ReliableInv, AdminsOK, Busy
    <2>3. /\ UNCHANGED <<lists, command>> /\ TalksOnly
          /\ asked = node /\ apc[node] = "reply" /\ epc' = "join" /\ asked' = Null
          /\ apc' = [apc EXCEPT ![node] = "none"]
      BY <1>4, <2>2 DEF sendStart, Answered, AdminDone, EGoto
    <2> QED
      BY <1>2, <2>1, <2>3, TalkData DEF command
  <1>5. CASE sendJoinMove
    <2>1. epc = "join" /\ activeServers # {}
      BY <1>5 DEF sendJoinMove, Exchange, Ask, Answered, Lost, IsRefused, EAt
    <2>2. Exchange("join", peer, MoveTo(node), "joined", "joined", "dead") /\ Steady(peer)
      BY <1>1, <1>5, <2>1 DEF sendJoinMove, Joins
    <2>3. /\ UNCHANGED <<lists, command>> /\ TalksOnly
          /\ \/ /\ asked = Null /\ epc' = epc /\ asked' = peer
                /\ apc' = [apc EXCEPT ![peer] = "adminServe"]
             \/ /\ asked = peer /\ apc[peer] = "reply" /\ epc' = "joined" /\ asked' = Null
                /\ apc' = [apc EXCEPT ![peer] = "none"]
      BY <1>2, <2>2, ExchangeAnswered
    <2> QED
      BY <1>2, <2>1, <2>3, TalkData DEF command
  <1>6. CASE sendHeirUpdate
    <2>1. epc = "updateHeir"
      BY <1>6 DEF sendHeirUpdate, Exchange, Ask, Answered, Lost, IsRefused, EAt
    <2>2. Exchange("updateHeir", peer, WithMeta("UPDATE"), "leave", "leave", "leave") /\ Steady(peer)
      BY <1>1, <1>6, <2>1 DEF sendHeirUpdate
    <2>3. /\ UNCHANGED <<lists, command>> /\ TalksOnly
          /\ \/ /\ asked = Null /\ epc' = epc /\ asked' = peer
                /\ apc' = [apc EXCEPT ![peer] = "adminServe"]
             \/ /\ asked = peer /\ apc[peer] = "reply" /\ epc' = "leave" /\ asked' = Null
                /\ apc' = [apc EXCEPT ![peer] = "none"]
      BY <1>2, <2>2, ExchangeAnswered
    <2> QED
      BY <1>2, <2>1, <2>3, TalkData DEF command
  <1>7. CASE sendLeaveMove
    <2>1. epc = "leave"
      BY <1>7 DEF sendLeaveMove, Exchange, Ask, Answered, Lost, IsRefused, EAt
    <2>2. Exchange("leave", node, MoveTo(peer), "left", "failed", "failed") /\ Steady(node)
      BY <1>1, <1>7, <2>1 DEF sendLeaveMove
    <2>3. /\ UNCHANGED <<lists, command>> /\ TalksOnly
          /\ \/ /\ asked = Null /\ epc' = epc /\ asked' = node
                /\ apc' = [apc EXCEPT ![node] = "adminServe"]
             \/ /\ asked = node /\ apc[node] = "reply" /\ epc' = "left" /\ asked' = Null
                /\ apc' = [apc EXCEPT ![node] = "none"]
      BY <1>2, <2>2, ExchangeAnswered
    <2> QED
      BY <1>2, <2>1, <2>3, TalkData DEF command
  <1>8. ASSUME NEW l \in Rounds, NEW m, NEW f, Round(l, m, f)
        PROVE  DataInv'
    <2>1. /\ UNCHANGED <<lists, node, peer, range>> /\ TalksOnly /\ epc = l /\ epc' = l
          /\ \E s \in Servers :
                \/ /\ asked = Null /\ asked' = s
                   /\ apc' = [apc EXCEPT ![s] = "adminServe"]
                \/ /\ asked = s /\ apc[s] = "reply" /\ asked' = Null
                   /\ apc' = [apc EXCEPT ![s] = "none"]
      BY <1>8, RoundAnswered
    <2>2. epc' = epc /\ epc \notin {"ready", "join", "leave"}
      BY <1>8, <2>1 DEF Rounds
    <2> QED
      BY <2>1, <2>2, TalkData
  <1>9. CASE UpdateAllNodesMeta \/ sendStarts \/ sendStops
    BY <1>8, <1>9 DEF UpdateAllNodesMeta, sendStarts, sendStops, Rounds
  <1> QED
    BY <1>3, <1>4, <1>5, <1>6, <1>7, <1>9

\* shutdown_server: the node leaves the list of active servers when its data are
\* where the metadata without it say.
LEMMA ShutdownServerData ==
    ASSUME Quiet, HeirStarted, ClusterInv, ReliableInv, DataInv, UNCHANGED clientVars,
           shutdown_server
    PROVE  DataInv'
  <1> USE DEF DataInv
  <1>1. epc = "shutdown_server" /\ TalksOnly /\ node \in Servers /\ UNCHANGED <<ecsMeta, command>>
    BY Types DEF shutdown_server, Ask, Answered, Lost, IsRefused, EAt, lists
  <1>2. asked = Null => Steady(node)
    BY <1>1, NullNoServer DEF ReliableInv, RolesOK, Told
  <1>3. ~Lost("shutdown_server", node) /\ ~IsRefused("shutdown_server", node)
    BY <1>1, <1>2, NullNoServer DEF Lost, IsRefused, EAt, ReliableInv, AdminsOK, Busy, Refuses,
                                    Listens, Steady
  <1>4. CASE Ask("shutdown_server", node, Message("SHUTDOWN"))
    <2>1. /\ UNCHANGED <<lists, command>>
          /\ asked = Null /\ epc' = epc /\ asked' = node
          /\ apc' = [apc EXCEPT ![node] = "adminServe"]
      BY <1>4 DEF Ask, AdminCall, EAt
    <2> QED
      BY <1>1, <2>1, TalkData DEF command
  <1>5. CASE ~Ask("shutdown_server", node, Message("SHUTDOWN"))
    <2>1. /\ asked = node /\ apc[node] = "reply" /\ epc' = "awaitLeave" /\ asked' = Null
          /\ apc' = [apc EXCEPT ![node] = "none"]
          /\ activeServers' = activeServers \ {node} /\ UNCHANGED ecsMeta
      BY <1>3, <1>5 DEF shutdown_server, Answered, AdminDone, EGoto
    <2>2. UNCHANGED <<proc, znode, stopped, storage, dataToFlush, pc, to, req, cst>>
      BY <1>1 DEF TalksOnly, process, flags, data, threads, clientVars
    <2>3. NoRequestRuns /\ NoRequestRuns'
      BY <1>1, <2>2 DEF CalmOK, NoRequestRuns
    <2>4. RangeOK'
      BY <2>1 DEF RangeOK, Handing, Joining
    <2>5. CalmOK'
      BY <2>1, <2>2, <2>3 DEF CalmOK
    <2>6. PlacedOK'
      BY <1>1, <2>1, <2>2 DEF PlacedOK, Placed, Before, During, After
    <2>7. \A s \in Servers : apc'[s] \in {apc[s], "none"}
      BY <2>1, Types
    <2> QED
      BY <2>1, <2>2, <2>3, <2>4, <2>5, <2>6, <2>7, LocalData
  <1> QED
    BY <1>4, <1>5

\* The steps of a command without communication.
LEMMA LocalStepData ==
    ASSUME Quiet, HeirStarted, ClusterInv, ReliableInv, DataInv, UNCHANGED clientVars,
           awaitJoin \/ joined \/ roundDone \/ left \/ awaitLeave
    PROVE  DataInv'
  <1> USE DEF DataInv
  <1>1. UNCHANGED serverVars /\ asked = Null /\ epc # "ready"
    BY DEF awaitJoin, joined, roundDone, left, awaitLeave, Local, EAt
  <1>2. UNCHANGED <<proc, znode, stopped, storage, dataToFlush, pc, to, req, cst, apc>>
    BY <1>1 DEF serverVars, clientVars
  <1>3. NoRequestRuns /\ NoRequestRuns'
    BY <1>1, <1>2 DEF CalmOK, NoRequestRuns
  <1>4. SUFFICES RangeOK' /\ CalmOK' /\ PlacedOK'
    BY <1>1, <1>2, <1>3, <1>4, LocalData
  <1>5. CASE awaitJoin
    <2>1. /\ epc = "awaitJoin" /\ epc' = "init" /\ asked' = Null
          /\ ecsMeta' = activeServers \cup {node} /\ UNCHANGED <<activeServers, node>>
          /\ activeServers # {} =>
                /\ peer' \in getNodeByKey(node, ecsMeta)
                /\ range' \in {calc_metadata(ecsMeta')[n] : n \in getNodeByKey(node, ecsMeta')}
      BY <1>5 DEF awaitJoin, EAt, EGoto
    <2>2. RangeOK'
      <3>1. SUFFICES ASSUME activeServers # {}, NEW k \in Keys
                     PROVE  (IF inRange(k, range)
                             THEN Owners(k, activeServers) = {From} /\ Owners(k, ecsMeta) = {Into}
                             ELSE Owners(k, activeServers) = Owners(k, ecsMeta))'
        BY <2>1 DEF RangeOK, Handing, Joining
      <3>2. /\ activeServers \in SUBSET Servers /\ node \in Servers \ activeServers
            /\ ecsMeta = activeServers
        BY <2>1, <3>1, Types DEF ReliableInv, ListsOK
      <3>3. /\ peer' \in getNodeByKey(node, activeServers)
            /\ range' \in {calc_metadata(activeServers \cup {node})[m] :
                              m \in getNodeByKey(node, activeServers \cup {node})}
        BY <2>1, <3>1, <3>2
      <3>4. IF inRange(k, range')
            THEN /\ Owners(k, activeServers) = {peer'}
                 /\ Owners(k, activeServers \cup {node}) = {node}
            ELSE Owners(k, activeServers) = Owners(k, activeServers \cup {node})
        BY <3>1, <3>2, <3>3, JoinRange
      <3>5. From' = peer' /\ Into' = node
        BY <2>1 DEF From, Into, Joining
      <3> QED
        BY <2>1, <3>4, <3>5
    <2>3. CalmOK'
      BY <1>2, <1>3, <2>1 DEF CalmOK
    <2>4. PlacedOK'
      BY <1>2, <2>1 DEF PlacedOK, Placed, Before, During, After
    <2> QED
      BY <2>2, <2>3, <2>4
  <1>6. CASE joined
    <2>1. /\ epc = "joined" \/ (epc = "join" /\ activeServers = {})
          /\ epc' = "updateJoin" /\ activeServers' = activeServers \cup {node}
          /\ asked' = Null /\ UNCHANGED ecsMeta
      BY <1>6 DEF joined, EAt, EGoto
    <2>2. RangeOK'
      BY <2>1 DEF RangeOK, Handing, Joining
    <2>3. CalmOK'
      BY <1>2, <1>3, <2>1 DEF CalmOK
    <2>4. PlacedOK'
      <3>1. Placed(ecsMeta)
        <4>1. CASE epc = "joined"
          BY <4>1 DEF PlacedOK, After
        <4>2. CASE epc = "join" /\ activeServers = {}
          BY <1>1, <4>2, KeyOwner DEF PlacedOK, Before, Placed
        <4> QED
          BY <2>1, <4>1, <4>2
      <3> QED
        BY <1>2, <2>1, <3>1 DEF PlacedOK, Placed, Before, During, After
    <2> QED
      BY <2>2, <2>3, <2>4
  <1>7. CASE roundDone
    <2>1. /\ \/ epc \in {"updateJoin", "startAll", "stopAll"} /\ epc' = "ready"
             \/ epc = "updateLeave" /\ epc' = "shutdown_server"
          /\ asked' = Null /\ UNCHANGED <<activeServers, ecsMeta>>
      BY <1>7 DEF roundDone, Ready, EGoto, lists
    <2>2. epc = "updateJoin" => ecsMeta = activeServers
      BY DEF ReliableInv, ListsOK
    <2>3. RangeOK'
      BY <2>1 DEF RangeOK, Handing, Joining
    <2>4. CalmOK'
      BY <1>2, <1>3, <2>1 DEF CalmOK
    <2>5. PlacedOK'
      BY <1>2, <2>1, <2>2 DEF PlacedOK, Placed, Before, During, After
    <2> QED
      BY <2>3, <2>4, <2>5
  <1>8. CASE left
    <2>1. /\ epc = "left" /\ epc' = "updateLeave"
          /\ asked' = Null /\ UNCHANGED <<activeServers, ecsMeta>>
      BY <1>8 DEF left, EAt, EGoto, lists
    <2>2. RangeOK'
      BY <2>1 DEF RangeOK, Handing, Joining
    <2>3. CalmOK'
      BY <1>2, <1>3, <2>1 DEF CalmOK
    <2>4. PlacedOK'
      BY <1>2, <2>1 DEF PlacedOK, Placed, Before, During, After
    <2> QED
      BY <2>2, <2>3, <2>4
  <1>9. CASE awaitLeave
    <2>1. /\ epc = "awaitLeave" /\ epc' = "ready"
          /\ asked' = Null /\ UNCHANGED <<activeServers, ecsMeta>>
      BY <1>9 DEF awaitLeave, EAt, Ready, lists
    <2>2. ecsMeta = activeServers
      BY <2>1 DEF ReliableInv, ListsOK
    <2>3. RangeOK'
      BY <2>1 DEF RangeOK, Handing, Joining
    <2>4. CalmOK'
      BY <1>2, <1>3, <2>1 DEF CalmOK
    <2>5. PlacedOK'
      BY <1>2, <2>1, <2>2 DEF PlacedOK, Placed, Before, During, After
    <2> QED
      BY <2>3, <2>4, <2>5
  <1> QED
    BY <1>5, <1>6, <1>7, <1>8, <1>9

LEMMA CommandStepData ==
    ASSUME Quiet, HeirStarted, ClusterInv, ReliableInv, DataInv, UNCHANGED clientVars,
           CommandStep
    PROVE  DataInv'
  <1>1. ~failed
    BY DEF failed, EAt, ReliableInv, ListsOK, Steps, Joins, Leaves, Rounds
  <1>2. ~sendShutdowns /\ ~awaitShutdown
    BY DEF EAt, sendShutdowns, awaitShutdown, DataInv, CalmOK
  <1>3. ~connectHangs
    BY ConnectsToSteady DEF connectHangs, CutOff, Hangs, Steady
  <1> QED
    BY <1>1, <1>2, <1>3, AskData, ShutdownServerData, LocalStepData DEF CommandStep

\* A command is given when no request runs, and a new ECS finds the active servers.
LEMMA NewCommandData ==
    ASSUME Quiet, HeirStarted, ClusterInv, ReliableInv, DataInv, UNCHANGED clientVars,
           (NewCommand /\ NoRequestRuns) \/ Restart
    PROVE  DataInv'
  <1> USE DEF DataInv
  <1>1. /\ epc \in {"ready", "dead"} /\ asked = Null /\ NoRequestRuns
        /\ UNCHANGED <<znode, stopped, storage, dataToFlush, pc, to, req, cst, apc>>
    <2>1. epc \in {"ready", "dead"} /\ NoRequestRuns
      BY DEF NewCommand, addNode, removeNode, start, stop, shutdown, quit, Restart, EAt, CalmOK
    <2>2. asked = Null
      BY <2>1, WhatIsAsked, Types DEF ReliableInv, AdminsOK
    <2>3. UNCHANGED <<znode, stopped, storage, dataToFlush, pc, to, req, cst, apc>>
      BY DEF NewCommand, addNode, main, Launch, mainAgain, removeNode, start, stop, shutdown, quit,
             Restart, Local, serverVars, flags, data, threads, admin, clientVars
    <2> QED
      BY <2>1, <2>2, <2>3
  <1>2. SUFFICES RangeOK' /\ CalmOK' /\ PlacedOK'
    BY <1>1, <1>2, LocalData
  <1>3. NoRequestRuns'
    BY <1>1 DEF NoRequestRuns
  <1>4. Placed(activeServers)
    BY <1>1 DEF PlacedOK, Before
  <1>5. ASSUME epc' \in {"ready", "awaitJoin", "startAll", "stopAll", "dead"}, asked' = Null,
               activeServers' = activeServers,
               \A s \in activeServers : proc'[s] = proc[s]
        PROVE  RangeOK' /\ CalmOK' /\ PlacedOK'
    <2>1. RangeOK'
      BY <1>5 DEF RangeOK, Handing, Joining
    <2>2. CalmOK'
      BY <1>1, <1>3, <1>5 DEF CalmOK
    <2>3. PlacedOK'
      BY <1>1, <1>4, <1>5 DEF PlacedOK, Placed, Before, During, After
    <2> QED
      BY <2>1, <2>2, <2>3
  <1>6. ASSUME NEW n \in Servers, addNode(n)
        PROVE  RangeOK' /\ CalmOK' /\ PlacedOK'
    <2>1. /\ epc = "ready" /\ n \in idleServers /\ epc' = "awaitJoin" /\ asked' = Null
          /\ activeServers' = activeServers
      BY <1>6 DEF addNode, EAt, EGoto
    <2>2. proc[n] = "down" /\ n \notin activeServers
      BY <2>1 DEF ReliableInv, ListsOK, RolesOK, Told, Gone
    <2>3. proc' = [proc EXCEPT ![n] = "launched"]
      BY <1>6, <2>2 DEF addNode, main, Launch, mainAgain
    <2> QED
      BY <1>5, <2>1, <2>2, <2>3, Types
  <1>7. ASSUME NEW n \in Servers, removeNode(n)
        PROVE  RangeOK' /\ CalmOK' /\ PlacedOK'
    <2>1. /\ epc = "ready" /\ epc' = "updateHeir" /\ asked' = Null /\ node' = n
          /\ activeServers' = activeServers /\ n \in activeServers /\ activeServers # {n}
          /\ range' \in {calc_metadata(ecsMeta)[m] : m \in getNodeByKey(n, ecsMeta)}
          /\ ecsMeta' = activeServers \ {n}
          /\ peer' \in getNodeByKey(n, ecsMeta')
          /\ proc' = proc
      BY <1>7 DEF removeNode, EAt, EGoto, Local, serverVars
    <2>2. ecsMeta = activeServers /\ activeServers \in SUBSET Servers
      BY <2>1, Types DEF ReliableInv, ListsOK
    <2>3. RangeOK'
      <3>1. SUFFICES ASSUME NEW k \in Keys
                     PROVE  (IF inRange(k, range)
                             THEN Owners(k, activeServers) = {From} /\ Owners(k, ecsMeta) = {Into}
                             ELSE Owners(k, activeServers) = Owners(k, ecsMeta))'
        BY DEF RangeOK
      <3>2. /\ peer' \in getNodeByKey(n, activeServers \ {n})
            /\ range' \in {calc_metadata(activeServers)[m] : m \in getNodeByKey(n, activeServers)}
        BY <2>1, <2>2
      <3>3. IF inRange(k, range')
            THEN Owners(k, activeServers) = {n} /\ Owners(k, activeServers \ {n}) = {peer'}
            ELSE Owners(k, activeServers) = Owners(k, activeServers \ {n})
        BY <2>1, <2>2, <3>2, LeaveRange
      <3>4. From' = n /\ Into' = peer'
        BY <2>1 DEF From, Into, Joining
      <3> QED
        BY <2>1, <3>3, <3>4
    <2>4. CalmOK'
      BY <1>1, <1>3, <2>1 DEF CalmOK
    <2>5. PlacedOK'
      BY <1>1, <1>4, <2>1 DEF PlacedOK, Placed, Before, During, After
    <2> QED
      BY <2>3, <2>4, <2>5
  <1>8. CASE start \/ stop \/ quit
    BY <1>5, <1>8 DEF start, stop, quit, EGoto, Local, serverVars, lists
  <1>9. CASE Restart
    <2>1. epc = "dead" /\ epc' = "ready" /\ asked' = Null /\ proc' = proc
      BY <1>9 DEF Restart, Ready, Local, serverVars
    <2>2. Registered = activeServers
      BY <2>1, Types DEF Registered, ReliableInv, ListsOK, RolesOK, Told, Steady, Gone, Joins
    <2>3. activeServers' = activeServers
      BY <1>9, <2>2 DEF Restart
    <2> QED
      BY <1>5, <2>1, <2>3
  <1>10. ~shutdown
    BY DEF shutdown, Quiet
  <1> QED
    BY <1>6, <1>7, <1>8, <1>9, <1>10 DEF NewCommand

LEMMA DataStep ==
    ASSUME Quiet, HeirStarted, ClusterInv, ReliableInv, DataInv, [Next]_vars
    PROVE  DataInv'
  <1>1. ~ECSDies /\ \A s \in Servers : ~Killed(s) /\ ~Wedged(s)
    BY NothingFails DEF Quiet
  <1>4. CASE Command
    BY <1>4, NewCommandData DEF Command, ECSOnly, Quiet
  <1>5. CASE ECSThread
    BY <1>5, CommandStepData DEF ECSThread, ECSOnly
  <1>6. CASE ECSRestart
    BY <1>6, NewCommandData DEF ECSRestart, ECSOnly
  <1>7. ASSUME NEW p \in Peers, ServeThread(p)
        PROVE  DataInv'
    <2>1. CASE p \in Clients
      BY <1>7, <2>1, ServeClientData
    <2>2. CASE p \in Servers
      BY <1>7, <2>2, ServeMoveData
    <2> QED
      BY <2>1, <2>2 DEF Peers
  <1>8. ASSUME NEW s \in Servers, AdminThread(s) \/ MainThread(s) \/ Expiry(s)
        PROVE  DataInv'
    BY <1>8, AdminData, MainData, ExpiryData
  <1>9. CASE UNCHANGED vars
    <2>1. UNCHANGED <<proc, znode, stopped, storage, dataToFlush, pc, to, req, apc, snap,
                      epc, asked, node, peer, range, activeServers, ecsMeta, cst>>
      BY <1>9 DEF vars, serverVars, ecsVars, clientVars
    <2>2. RangeOK' /\ CalmOK'
      BY <2>1 DEF DataInv, RangeOK, Handing, From, Into, CalmOK, NoRequestRuns
    <2>3. ServingOK' /\ SentOK' /\ CollectedOK' /\ CopiedOK'
      BY <2>1 DEF DataInv, ServingOK, SentOK, CollectedOK, CopiedOK, Into
    <2>4. PlacedOK' /\ ShortOK'
      BY <2>1 DEF DataInv, PlacedOK, ShortOK, Placed, Before, During, After, From, Into
    <2> QED
      BY <2>2, <2>3, <2>4 DEF DataInv
  <1> QED
    BY <1>1, <1>4, <1>5, <1>6, <1>7, <1>8, <1>9, ClientData DEF Next

-----------------------------------------------------------------------------
(* When the heirs are started.                                             *)

\* Without the command stop every active server is started.
StartedOK == epc # "stopAll" /\ \A s \in activeServers : ~stopped[s]

LEMMA StartedHeir ==
    ASSUME ReliableInv, StartedOK
    PROVE  HeirStarted
  BY DEF HeirStarted, StartedOK, ReliableInv, ListsOK, Leaves

\* The new command and the restart of the ECS; a restart finds the active servers.
LEMMA NewCommandStarted ==
    ASSUME "stop" \notin Commands, ClusterInv, ReliableInv, StartedOK, NewCommand \/ Restart
    PROVE  StartedOK'
  <1>1. epc' # "stopAll" /\ UNCHANGED stopped
    BY DEF NewCommand, addNode, main, Launch, mainAgain, removeNode, start, stop, shutdown, quit,
           Restart, Ready, EGoto, Local, serverVars, flags
  <1>2. activeServers' = activeServers
    <2>1. CASE NewCommand
      BY <2>1 DEF NewCommand, addNode, removeNode, start, stop, shutdown, quit, lists
    <2>2. CASE Restart
      <3>1. Registered = activeServers
        BY <2>2, Types DEF Restart, Registered, ReliableInv, ListsOK, RolesOK, Told, Steady, Gone,
                           Joins
      <3> QED
        BY <2>2, <3>1 DEF Restart
    <2> QED
      BY <2>1, <2>2
  <1> QED
    BY <1>1, <1>2 DEF StartedOK

\* A node is made active after START, or in a cluster of its own.
LEMMA CommandStepStarted ==
    ASSUME ClusterInv, ReliableInv, CalmOK, StartedOK, CommandStep
    PROVE  StartedOK'
  <1>1. epc # "stopAll" /\ UNCHANGED stopped
    BY DEF StartedOK, CommandStep, awaitJoin, sendInit, sendStart, sendJoinMove, joined,
           UpdateAllNodesMeta, roundDone, sendHeirUpdate, sendLeaveMove, left, shutdown_server,
           awaitLeave, failed, sendStarts, sendStops, sendShutdowns, awaitShutdown, connectHangs,
           Exchange, Round, Ask, TalksOnly, Local, serverVars, flags
  <1>2. epc' # "stopAll"
    BY <1>1 DEF CommandStep, awaitJoin, sendInit, sendStart, sendJoinMove, joined,
           UpdateAllNodesMeta, roundDone, sendHeirUpdate, sendLeaveMove, left, shutdown_server,
           awaitLeave, failed, sendStarts, sendStops, sendShutdowns, awaitShutdown, connectHangs,
           CutOff, Exchange, Round, Ask, EAt, EGoto, Ready, Answered, Lost, IsRefused
  <1>3. \/ activeServers' \subseteq activeServers
        \/ activeServers' = activeServers \cup {node} /\ epc \in {"join", "joined"}
    <2>1. CASE joined
      BY <2>1 DEF joined, EAt
    <2>2. CASE ~joined
      BY <2>2 DEF CommandStep, awaitJoin, sendInit, sendStart, sendJoinMove,
           UpdateAllNodesMeta, roundDone, sendHeirUpdate, sendLeaveMove, left, shutdown_server,
           awaitLeave, failed, sendStarts, sendStops, sendShutdowns, awaitShutdown, connectHangs,
           CutOff, Exchange, Round, Ask, lists
    <2> QED
      BY <2>1, <2>2
  <1> QED
    BY <1>1, <1>2, <1>3 DEF StartedOK, CalmOK

LEMMA StartedStep ==
    ASSUME Quiet, "stop" \notin Commands, ClusterInv, ReliableInv, DataInv, StartedOK, [Next]_vars
    PROVE  StartedOK'
  <1>1. HeirStarted
    BY StartedHeir
  <1>2. ~ECSDies /\ \A s \in Servers : ~Killed(s) /\ ~Wedged(s)
    BY NothingFails DEF Quiet
  <1>3. CASE Command \/ ECSRestart
    BY <1>3, NewCommandStarted DEF Command, ECSRestart
  <1>4. CASE ECSThread
    BY <1>4, CommandStepStarted DEF ECSThread, DataInv
  <1>5. ASSUME NEW s \in Servers, AdminThread(s)
        PROVE  StartedOK'
    <2>1. UNCHANGED <<epc, activeServers>>
      BY <1>5 DEF AdminThread, ServersOnly, ecsVars
    <2>2. ~setStop(s)
      <3>1. setStop(s) => Busy(s) /\ areq[s].type = "STOP"
        BY DEF setStop, Handle, AdminAt, Busy
      <3> QED
        BY <3>1, WhatIsAsked DEF StartedOK
    <2>3. \A t \in Servers : stopped'[t] \in {stopped[t], FALSE}
      <3>1. CASE setStart(s)
        BY <3>1, DataTypes DEF setStart
      <3>2. CASE ~setStart(s)
        BY <1>5, <2>2, <3>2 DEF AdminThread, AdminStep, initKVServer, shutDown, lockWrite,
             unLockWrite, update, flushData, moveData, moveNothing, moveLock, moveSnapshot,
             moveConnect, moveNext, moveReply, moveFlush, moveUnlock, TakeMetadata, MoveFails,
             MoveHangs, MoveGoto, flags
      <3> QED
        BY <3>1, <3>2
    <2> QED
      BY <2>1, <2>3, Types DEF StartedOK
  <1>6. ASSUME NEW s \in Servers, MainThread(s)
        PROVE  StartedOK'
    <2>1. /\ s \in activeServers => clearKVStorage(s)
          /\ initializeServer(s) \/ register(s) \/ clearKVStorage(s) \/ exit(s)
      BY <1>1, <1>6, MainMeans DEF DataInv
    <2>2. UNCHANGED <<epc, activeServers>>
      BY <1>6 DEF MainThread, ServersOnly, ecsVars
    <2>3. \A t \in Servers : t # s \/ s \in activeServers => stopped'[t] = stopped[t]
      <3>1. CASE exit(s)
        <4>1. stopped' = [stopped EXCEPT ![s] = TRUE] /\ s \notin activeServers
          BY <2>1, <3>1 DEF exit, ProcessEnds, clearKVStorage
        <4> QED
          BY <4>1, DataTypes
      <3>2. CASE initializeServer(s) \/ register(s) \/ clearKVStorage(s)
        BY <3>2 DEF initializeServer, register, clearKVStorage, flags
      <3> QED
        BY <2>1, <3>1, <3>2
    <2> QED
      BY <2>2, <2>3, Types DEF StartedOK
  <1>7. CASE UNCHANGED <<flags, ecsVars>>
    BY <1>7 DEF StartedOK, flags, ecsVars
  <1>8. ASSUME NEW p \in Peers, ServeThread(p)
        PROVE  StartedOK'
    BY <1>7, <1>8, ServeGoes
  <1>9. ASSUME NEW c \in Clients,
               \/ \E s \in Servers : ClientConnects(c, s)
               \/ \E r \in ClientRequests : ClientRequest(c, r)
               \/ ClientDisconnects(c) \/ ClientThread(c)
        PROVE  StartedOK'
    BY <1>7, <1>9 DEF ClientConnects, ClientRequest, ClientDisconnects, ClientThread, ClientsOnly,
           ClientOnly, connect, request, disconnect, StoreStep, connectCorrServer, callHangs,
           sendMsg, redirected, replied, lost
  <1>10. (\E s \in Servers : Expiry(s)) \/ UNCHANGED vars => StartedOK'
    BY <1>7 DEF Expiry, ServersOnly, SessionExpires, vars, serverVars, flags
  <1> QED
    BY <1>2, <1>3, <1>4, <1>5, <1>6, <1>8, <1>9, <1>10 DEF Next

\* Without the command removeNode there are no heirs.
LEMMA NoHeirStep ==
    ASSUME "removeNode" \notin Commands, epc \notin {"updateHeir", "leave"}, [Next]_vars
    PROVE  epc' \notin {"updateHeir", "leave"}
  <1>1. CASE UNCHANGED ecsVars
    BY <1>1 DEF ecsVars
  <1>2. CASE NewCommand \/ Restart \/ ECSKilled
    BY <1>2 DEF NewCommand, addNode, removeNode, start, stop, shutdown, quit, Restart, ECSKilled,
                Ready, EGoto
  <1>3. CASE CommandStep
    BY <1>3 DEF CommandStep, awaitJoin, sendInit, sendStart, sendJoinMove, joined,
           UpdateAllNodesMeta, roundDone, sendHeirUpdate, sendLeaveMove, left, shutdown_server,
           awaitLeave, failed, sendStarts, sendStops, sendShutdowns, awaitShutdown, connectHangs,
           CutOff, Exchange, Round, Ask, EAt, EGoto, Ready, Answered, Lost, IsRefused
  <1>4. CASE \E s \in Servers : Killed(s) \/ Wedged(s)
    BY <1>1, <1>4 DEF Killed, Wedged, CutOff
  <1> QED
    BY <1>1, <1>2, <1>3, <1>4 DEF Next, vars, ServeThread, AdminThread, MainThread, Expiry,
           ServersOnly, ClientConnects, ClientRequest, ClientDisconnects, ClientThread, ClientsOnly,
           Command, ECSThread, ECSRestart, ECSDies

\* The second hypothesis of the theorems holds of its own in a quiet cluster whose
\* operator does not stop servers, or does not remove any: start, stop, addNode and the
\* requests may then come in any order.
THEOREM HeirsAreStarted ==
    ASSUME Quiet, "stop" \notin Commands \/ "removeNode" \notin Commands
    PROVE  Spec => []HeirStarted
  <1>1. CASE "stop" \notin Commands
    <2>1. Init => DataInv /\ StartedOK
      BY DataInit DEF StartedOK, Init, ECSInit
    <2>2. ClusterInv /\ ReliableInv /\ DataInv /\ StartedOK /\ [Next]_vars => DataInv' /\ StartedOK'
      BY <1>1, StartedHeir, DataStep, StartedStep
    <2>3. ReliableInv /\ StartedOK => HeirStarted
      BY StartedHeir
    <2>4. Spec => []ReliableInv
      BY ReliableInvariant DEF Quiet
    <2> QED
      BY <2>1, <2>2, <2>3, <2>4, ClusterInvariant, PTL DEF Spec
  <1>2. CASE "removeNode" \notin Commands
    <2> DEFINE NoHeir == epc \notin {"updateHeir", "leave"}
    <2>1. Init => NoHeir
      BY DEF Init, ECSInit
    <2>2. NoHeir /\ [Next]_vars => NoHeir'
      BY <1>2, NoHeirStep
    <2>3. NoHeir => HeirStarted
      BY DEF HeirStarted
    <2> HIDE DEF NoHeir
    <2> QED
      BY <2>1, <2>2, <2>3, PTL DEF Spec
  <1> QED
    BY <1>1, <1>2

-----------------------------------------------------------------------------
(* The theorems.                                                           *)

\* In a quiet cluster the data are where the step of the ECS's command says,
\* before a move, while it copies and after it.
THEOREM DataInvariant ==
    ASSUME Quiet
    PROVE  Spec /\ []HeirStarted => []DataInv
  <1>1. Init => DataInv
    BY DataInit
  <1>2. HeirStarted /\ ClusterInv /\ ReliableInv /\ DataInv /\ [Next]_vars => DataInv'
    BY DataStep
  <1>3. Spec => []ReliableInv
    BY ReliableInvariant DEF Quiet
  <1> QED
    BY <1>1, <1>2, <1>3, ClusterInvariant, PTL DEF Spec

\* In a quiet cluster no move deletes a pair that its destination does not have:
\* every PUT of moveData is stored, although it takes any reply for success.
THEOREM FlushedDataIsTransferred ==
    ASSUME Quiet
    PROVE  Spec /\ []HeirStarted => []FlushedIsTransferred
  <1>1. HeirStarted /\ ClusterInv /\ ReliableInv /\ DataInv => FlushedIsTransferred
    <2>1. SUFFICES ASSUME HeirStarted, ClusterInv, ReliableInv, DataInv, NEW s \in Servers,
                          apc[s] = "moveFlush", NEW k \in dataToFlush[s]
                   PROVE  storage[areq[s].dest][k] = storage[s][k]
      BY DEF FlushedIsTransferred
    <2>2. areq[s].dest = Into /\ k \in Keys
      BY <2>1, MoveIs, DataTypes DEF DataInv, Moving
    <2>3. pc[s] \notin Serving
      BY <2>1 DEF DataInv, ServingOK
    <2> QED
      BY <2>1, <2>2, <2>3 DEF DataInv, CopiedOK
  <1>2. Spec => []ReliableInv
    BY ReliableInvariant DEF Quiet
  <1> QED
    BY <1>1, <1>2, DataInvariant, ClusterInvariant, PTL

\* In a quiet cluster, whatever servers joined and left, between commands every pair
\* is at one server, the active one that is responsible for its key: a move leaves
\* no copy behind that a later one could bring back, and loses none.
THEOREM DataIsPlaced ==
    ASSUME Quiet
    PROVE  Spec /\ []HeirStarted => []Placement
  <1>1. ClusterInv /\ DataInv => Placement
    <2>1. SUFFICES ASSUME ClusterInv, DataInv, epc = "ready", NEW k \in Keys
                   PROVE  \A s, t \in Servers :
                             storage[s][k] # Null /\ storage[t][k] # Null =>
                                 s = t /\ s \in activeServers /\ s \in Owners(k, activeServers)
      BY DEF Placement, ECSIdle
    <2>2. \A s \in Servers : storage[s][k] # Null => s \in Owners(k, activeServers)
      BY <2>1 DEF DataInv, PlacedOK, Before, Placed
    <2>3. activeServers \in SUBSET Servers
      BY <2>1, Types
    <2> QED
      BY <2>1, <2>2, <2>3, KeyOwner
  <1> QED
    BY <1>1, DataInvariant, ClusterInvariant, PTL

-----------------------------------------------------------------------------
(* What a quiet cluster is to its clients: the one map of KVMap, whose     *)
(* content is View.  The theorem is for any number of clients.  That a     *)
(* client reads what it wrote and that the last announcement is current is *)
(* shown for one client: of two that write a key, the one that announces   *)
(* last need not be the one that stores last.                              *)

\* The hypothesis of the last two theorems.
OneClient == \A c, d \in Clients : c = d

-----------------------------------------------------------------------------
(* The invariants.                                                         *)

\* Copies of a key are equal, so that View says what each of them says.
Agree ==
    \A s, t \in Servers, k \in Keys :
        storage[s][k] # Null /\ storage[t][k] # Null => storage[s][k] = storage[t][k]

\* The request that is served is the one the client made.
AskedOK == \A c \in Clients : pc[c] \in Serving => req[c] = op[c]

\* What was announced last is what put is about to store, or what is stored.
TopicOK ==
    /\ \A c \in Clients : pc[c] = "put" => topic[req[c].key].val = req[c].val
    /\ \A k \in Keys :
          (\A c \in Clients : pc[c] = "put" => req[c].key # k) => topic[k].val = View(k)

\* A reply on its way is not out of date.
HasEffect(c) == pc[c] = "reply" /\ rep[c].status \in Effective
AnswerOK == \A c \in Clients : HasEffect(c) => rep[c].val = View(op[c].key)

\* What the client may read is stored, unless the reply to its PUT is on its way.
KnownOK ==
    \A k \in Keys :
        \/ View(k) \in known[k]
        \/ \E c \in Clients : HasEffect(c) /\ op[c].type = "PUT" /\ op[c].key = k

-----------------------------------------------------------------------------
(* View.                                                                   *)

LEMMA CopiesAgree ==
    ASSUME Quiet, HeirStarted, ClusterInv, ReliableInv, DataInv
    PROVE  Agree
  <1> USE DEF DataInv
  <1>1. SUFFICES ASSUME NEW s \in Servers, NEW t \in Servers, NEW k \in Keys,
                        storage[s][k] # Null, storage[t][k] # Null
                 PROVE  storage[s][k] = storage[t][k]
    BY DEF Agree
  <1>2. Before \/ During \/ After
    <2>1. epc \in {"join", "leave"} /\ asked # Null => Busy(asked) /\ asked \in Servers
      BY Types DEF ReliableInv, AdminsOK
    <2> QED
      BY <2>1, Types DEF Before, During, After, Busy, Moving, Copying, CalmOK, ReliableInv, ListsOK,
                         MoveOK, Steps, Joins, Leaves, Rounds
  <1>3. activeServers \in SUBSET Servers /\ ecsMeta \in SUBSET Servers
    BY Types, DataTypes
  <1>4. CASE Before \/ After
    <2>1. \/ s \in Owners(k, activeServers) /\ t \in Owners(k, activeServers)
          \/ s \in Owners(k, ecsMeta) /\ t \in Owners(k, ecsMeta)
      BY <1>1, <1>4 DEF PlacedOK, Placed
    <2> QED
      BY <1>3, <2>1, KeyOwner
  <1>5. CASE During
    <2>1. /\ asked \in Servers /\ apc[asked] \in Moving
      BY <1>5, Types DEF During, Copying, Moving
    <2>2. Handing /\ From = asked /\ From \in Servers
      BY <2>1, MoveIs
    <2>3. \A u \in {s, t} : u \in Owners(k, activeServers) \/ (u = Into /\ k \in dataToFlush[From])
      BY <1>1, <1>5 DEF PlacedOK
    <2>4. CASE k \in dataToFlush[From]
      <3>1. inRange(k, range) /\ Owners(k, activeServers) = {From}
        BY <2>2, <2>4 DEF CollectedOK, RangeOK
      <3>2. storage[Into][k] = storage[From][k] \/ storage[Into][k] = Null
        BY <2>2, <2>4 DEF CopiedOK
      <3>3. s \in {From, Into} /\ t \in {From, Into}
        BY <2>3, <3>1
      <3> QED
        BY <1>1, <3>2, <3>3
    <2>5. CASE k \notin dataToFlush[From]
      BY <1>3, <2>3, <2>5, KeyOwner
    <2> QED
      BY <2>4, <2>5
  <1> QED
    BY <1>2, <1>4, <1>5

LEMMA AnyCopy ==
    ASSUME NEW st, NEW k, NEW s \in Servers, st[s][k] # Null,
           \A t, u \in Servers : st[t][k] # Null /\ st[u][k] # Null => st[t][k] = st[u][k]
    PROVE  st[CHOOSE t \in Servers : st[t][k] # Null][k] = st[s][k]
  <1>1. /\ (CHOOSE t \in Servers : st[t][k] # Null) \in Servers
        /\ st[CHOOSE t \in Servers : st[t][k] # Null][k] # Null
    OBVIOUS
  <1> QED
    BY <1>1

LEMMA ViewIs ==
    ASSUME Agree, NEW k \in Keys
    PROVE  /\ \A s \in Servers : storage[s][k] # Null => View(k) = storage[s][k]
           /\ (\A s \in Servers : storage[s][k] = Null) => View(k) = Null
  <1>1. ASSUME NEW s \in Servers, storage[s][k] # Null
        PROVE  View(k) = storage[s][k]
    <2>1. storage[CHOOSE t \in Servers : storage[t][k] # Null][k] = storage[s][k]
      BY <1>1, AnyCopy DEF Agree
    <2> QED
      BY <1>1, <2>1 DEF View
  <1>2. (\A s \in Servers : storage[s][k] = Null) => View(k) = Null
    BY DEF View
  <1> QED
    BY <1>1, <1>2

LEMMA NextViewIs ==
    ASSUME Agree', NEW k \in Keys
    PROVE  /\ \A s \in Servers : storage'[s][k] # Null => View(k)' = storage'[s][k]
           /\ (\A s \in Servers : storage'[s][k] = Null) => View(k)' = Null
  <1>1. ASSUME NEW s \in Servers, storage'[s][k] # Null
        PROVE  View(k)' = storage'[s][k]
    <2>1. storage'[CHOOSE t \in Servers : storage'[t][k] # Null][k] = storage'[s][k]
      BY <1>1, AnyCopy DEF Agree
    <2> QED
      BY <1>1, <2>1 DEF View
  <1>2. (\A s \in Servers : storage'[s][k] = Null) => View(k)' = Null
    BY DEF View
  <1> QED
    BY <1>1, <1>2

\* No value appears and none disappears.
LEMMA ViewKept ==
    ASSUME Agree, Agree', NEW k \in Keys,
           \A s \in Servers : storage'[s][k] # Null =>
              \E t \in Servers : storage[t][k] = storage'[s][k],
           \A s \in Servers : storage[s][k] # Null => \E t \in Servers : storage'[t][k] # Null
    PROVE  View(k)' = View(k)
  <1>1. CASE \E s \in Servers : storage'[s][k] # Null
    BY <1>1, ViewIs, NextViewIs
  <1>2. CASE \A s \in Servers : storage'[s][k] = Null
    BY <1>2, ViewIs, NextViewIs
  <1> QED
    BY <1>1, <1>2

\* A client's request that is past the range test is at the only server that may
\* have the key.
LEMMA OwnerView ==
    ASSUME Quiet, HeirStarted, ClusterInv, ReliableInv, DataInv, Agree, NEW c \in Clients,
           pc[c] \in {"getKV", "inStorage", "pub", "put"}
    PROVE  LET k == req[c].key
           IN  /\ k \in Keys /\ to[c] \in Servers
               /\ View(k) = storage[to[c]][k]
               /\ \A s \in Servers \ {to[c]} : storage[s][k] = Null
  <1> DEFINE k == req[c].key
  <1> USE DEF DataInv
  <1>1. k \in Keys /\ to[c] \in Servers /\ pc[c] \in Serving
    BY Types, DataTypes DEF Requests, Serving
  <1>2. Placed(activeServers) /\ activeServers \in SUBSET Servers
    BY <1>1, ClientServed, Types DEF PlacedOK, Before
  <1>3. to[c] \in Owners(k, activeServers)
    BY DEF ServingOK
  <1> HIDE DEF k
  <1>4. \A s \in Servers \ {to[c]} : storage[s][k] = Null
    BY <1>1, <1>2, <1>3, KeyOwner DEF Placed
  <1>5. View(k) = storage[to[c]][k]
    <2>1. CASE storage[to[c]][k] # Null
      BY <1>1, <2>1, ViewIs
    <2>2. CASE storage[to[c]][k] = Null
      BY <1>1, <1>4, <2>2, ViewIs
    <2> QED
      BY <2>1, <2>2
  <1> QED
    BY <1>1, <1>4, <1>5 DEF k

-----------------------------------------------------------------------------
(* What is no client's request.                                            *)

\* The steps that clients have no part in: those of moves, servers and the ECS.
Background ==
    \/ \E s \in Servers : ServeThread(s) \/ AdminThread(s) \/ MainThread(s) \/ Expiry(s)
    \/ Command \/ ECSThread \/ ECSRestart
    \/ UNCHANGED vars

\* The steps of client c.
OwnStep(c) ==
    \/ \E s \in Servers : ClientConnects(c, s)
    \/ \E r \in ClientRequests : ClientRequest(c, r)
    \/ ClientDisconnects(c) \/ ClientThread(c)

LEMMA StepKinds ==
    ASSUME Quiet, ClusterInv, ReliableInv, [Next]_vars
    PROVE  Background \/ \E c \in Clients : ServeThread(c) \/ OwnStep(c)
  <1>1. ~ECSDies /\ \A s \in Servers : ~Killed(s) /\ ~Wedged(s)
    BY NothingFails DEF Quiet
  <1> QED
    BY <1>1 DEF Next, Background, OwnStep, Peers

\* A move that stores a pair announces and keeps its value.
LEMMA MovePutView ==
    ASSUME Quiet, HeirStarted, ClusterInv, ReliableInv, DataInv, Agree, Agree',
           NEW s \in Servers, ServeThread(s)
    PROVE  /\ \A k \in Keys : View(k)' = View(k)
           /\ \A k \in Keys : topic'[k].val \in {topic[k].val, View(k)}
           /\ UNCHANGED <<clientVars, known>> /\ \A c \in Clients : pc[c] \notin Serving
           /\ \A c \in Clients : pc'[c] = pc[c] /\ req'[c] = req[c] /\ rep'[c] = rep[c]
  <1> DEFINE j == req[s].key
  <1> USE DEF DataInv
  <1>0. s \in Peers /\ \A c \in Clients : c \in Peers /\ c # s
    BY DataTypes, Types
  <1>1. /\ apc[s] = "moveWait" /\ j \in dataToFlush[s] /\ j \in Keys /\ req[s].val = storage[s][j]
        /\ UNCHANGED storage \/ storage' = [storage EXCEPT ![Into][j] = storage[s][j]]
    BY ServeMoveGoes
  <1>2. Into \in Servers /\ Into # s /\ storage[s][j] # Null
    BY <1>1, MoveIs DEF Moving, CollectedOK
  <1> HIDE DEF j
  <1>3. ASSUME NEW k \in Keys
        PROVE  View(k)' = View(k)
    <2>1. CASE UNCHANGED storage
      BY <2>1 DEF View
    <2>2. CASE storage' = [storage EXCEPT ![Into][j] = storage[s][j]]
      <3>1. \A t \in Servers : storage'[t][k] = IF t = Into /\ k = j THEN storage[s][j] ELSE storage[t][k]
        BY <1>1, <1>2, <1>3, <2>2, DataTypes
      <3> QED
        BY <1>2, <3>1, ViewKept
    <2> QED
      BY <1>1, <2>1, <2>2
  <1>4. View(j) = storage[s][j]
    BY <1>1, <1>2, ViewIs
  <1>5. \A k \in Keys : topic'[k].val \in {topic[k].val, View(k)}
    <2>1. CASE UNCHANGED topic
      BY <2>1
    <2>2. CASE pub(s)
      <3>1. topic \in [Keys -> Announcements]
        BY DEF ClusterInv, ServerInv, TypeOK, DataOK
      <3> QED
        BY <1>1, <1>4, <2>2, <3>1 DEF pub, j
    <2> QED
      BY <2>1, <2>2 DEF ServeThread, ServeStep, serve, isWriteLock, checkRange, getMetadata, getKV,
                        inStorage, put
  <1>6. UNCHANGED <<clientVars, known>> /\ \A c \in Clients : pc[c] \notin Serving
    BY <1>1, ClientServed DEF ServeThread, ServersOnly, Moving
  <1>7. \A c \in Clients : pc'[c] = pc[c] /\ req'[c] = req[c]
    BY <1>0, ServeGoes
  <1>8. \A c \in Clients : rep'[c] = rep[c]
    BY <1>0 DEF ServeThread, ServeStep, serve, isWriteLock, checkRange, getMetadata, getKV, inStorage,
                pub, put, Reply, Goto, ThreadDies, ClusterInv, ServerInv, TypeOK, ThreadsOK
  <1> QED
    BY <1>3, <1>5, <1>6, <1>7, <1>8

\* A move deletes what its destination has.
LEMMA AdminView ==
    ASSUME Quiet, HeirStarted, ClusterInv, ReliableInv, DataInv, Agree, Agree',
           NEW s \in Servers, AdminThread(s)
    PROVE  /\ \A k \in Keys : View(k)' = View(k)
           /\ UNCHANGED <<topic, clientVars, known>>
           /\ \A c \in Clients : pc'[c] = pc[c] /\ req'[c] = req[c] /\ rep'[c] = rep[c]
  <1> USE DEF DataInv
  <1>0. s \in Peers /\ \A c \in Clients : c \in Peers /\ c # s
    BY DataTypes, Types
  <1>1. UNCHANGED <<topic, clientVars, known>>
    <2>1. UNCHANGED <<clientVars, known>>
      BY DEF AdminThread, ServersOnly
    <2>2. UNCHANGED topic
      BY DEF AdminThread, AdminStep, initKVServer, setStart, setStop, shutDown, lockWrite, unLockWrite,
             update, TakeMetadata, flushData, Handle, moveData, moveNothing, moveLock, moveSnapshot,
             moveConnect, moveNext, moveReply, moveFlush, moveUnlock, MoveGoto, MoveFails, MoveHangs
    <2> QED
      BY <2>1, <2>2
  <1>2. \A c \in Clients : pc'[c] = pc[c] /\ req'[c] = req[c] /\ rep'[c] = rep[c]
    <2> USE <1>0 DEF threads, ClusterInv, ServerInv, TypeOK, ThreadsOK
    <2>1. CASE \/ initKVServer(s) \/ setStart(s) \/ setStop(s) \/ shutDown(s) \/ lockWrite(s)
               \/ unLockWrite(s) \/ update(s) \/ flushData(s) \/ moveNothing(s)
      BY <2>1 DEF initKVServer, setStart, setStop, shutDown, lockWrite, unLockWrite, update,
                  TakeMetadata, flushData, moveNothing, Handle
    <2>2. CASE moveData(s) \/ moveLock(s) \/ moveSnapshot(s) \/ moveFlush(s)
      BY <2>2 DEF moveData, moveLock, moveSnapshot, moveFlush
    <2>3. CASE moveConnect(s)
      BY <2>3 DEF moveConnect
    <2>4. CASE moveNext(s)
      BY <2>4 DEF moveNext, Send
    <2>5. CASE moveReply(s) \/ moveUnlock(s)
      BY <2>5 DEF moveReply, moveUnlock, Done
    <2> QED
      BY <2>1, <2>2, <2>3, <2>4, <2>5 DEF AdminThread, AdminStep
  <1>3. ASSUME NEW k \in Keys
        PROVE  View(k)' = View(k)
    <2>1. CASE UNCHANGED storage
      BY <2>1 DEF View
    <2>2. ASSUME FlushCollected(s)
          PROVE  \A t \in Servers :
                    storage'[t][k] = IF t = s /\ k \in dataToFlush[s] THEN Null ELSE storage[t][k]
      BY <1>3, <2>2, DataTypes DEF FlushCollected
    <2>3. CASE moveFlush(s)
      <3>1. apc[s] = "moveFlush" /\ pc[s] \notin Serving /\ Into \in Servers /\ Into # s
        BY <2>3, MoveIs DEF moveFlush, AdminAt, Moving, ServingOK
      <3>2. k \in dataToFlush[s] => storage[Into][k] = storage[s][k] /\ storage[s][k] # Null
        BY <1>3, <3>1 DEF CopiedOK, CollectedOK
      <3>3. \A t \in Servers :
               storage'[t][k] = IF t = s /\ k \in dataToFlush[s] THEN Null ELSE storage[t][k]
        BY <2>2, <2>3 DEF moveFlush
      <3>4. \A t \in Servers : storage'[t][k] # Null => storage[t][k] = storage'[t][k]
        BY <3>3
      <3>5. \A t \in Servers : storage[t][k] # Null => \E u \in Servers : storage'[u][k] # Null
        BY <3>1, <3>2, <3>3
      <3> QED
        BY <1>3, <3>4, <3>5, ViewKept
    <2>4. CASE flushData(s)
      <3>1. dataToFlush[s] = {}
        BY <2>4, NothingCollected DEF flushData, Handle, AdminAt, Copying
      <3>2. \A t \in Servers : storage'[t][k] = storage[t][k]
        BY <2>2, <2>4, <3>1 DEF flushData
      <3> QED
        BY <1>3, <3>2, ViewKept
    <2> QED
      BY <2>1, <2>3, <2>4
         DEF AdminThread, AdminStep, initKVServer, setStart, setStop, shutDown, lockWrite, unLockWrite,
             update, TakeMetadata, Handle, moveData, moveNothing, moveLock, moveSnapshot, moveConnect,
             moveNext, moveReply, moveUnlock, MoveGoto, MoveFails, MoveHangs, data
  <1> QED
    BY <1>1, <1>2, <1>3

\* A server that clears its storage has none.
LEMMA MainView ==
    ASSUME Quiet, HeirStarted, ClusterInv, ReliableInv, DataInv, Agree, Agree',
           NEW s \in Servers, MainThread(s)
    PROVE  /\ \A k \in Keys : View(k)' = View(k)
           /\ UNCHANGED <<topic, clientVars, known>> /\ NoRequestRuns
           /\ \A c \in Clients : \/ pc'[c] = pc[c] /\ req'[c] = req[c] /\ rep'[c] = rep[c]
                                 \/ pc'[c] \in {"none", "closed"}
  <1> USE DEF DataInv
  <1>1. /\ s = node /\ epc \in {"awaitJoin", "awaitLeave", "shutdown_server"}
        /\ clearKVStorage(s) \/ exit(s) => epc \in {"awaitLeave", "shutdown_server"}
        /\ initializeServer(s) \/ register(s) \/ clearKVStorage(s) \/ exit(s)
    BY MainMeans
  <1>2. NoRequestRuns
    BY <1>1 DEF CalmOK
  <1>3. UNCHANGED <<topic, clientVars, known>>
    BY <1>1 DEF MainThread, ServersOnly, initializeServer, register, clearKVStorage, exit, ProcessEnds
  <1>4. \A c \in Clients : \/ pc'[c] = pc[c] /\ req'[c] = req[c] /\ rep'[c] = rep[c]
                           \/ pc'[c] \in {"none", "closed"}
    <2>1. CASE exit(s)
      BY <2>1, DataTypes DEF exit, ProcessEnds
    <2> QED
      BY <1>1, <2>1 DEF initializeServer, register, clearKVStorage, threads
  <1>5. ASSUME NEW k \in Keys
        PROVE  View(k)' = View(k)
    <2>1. CASE UNCHANGED storage
      BY <2>1 DEF View
    <2>2. CASE clearKVStorage(s) \/ exit(s)
      <3>1. s \notin ecsMeta /\ ecsMeta \in SUBSET Servers /\ Placed(ecsMeta)
        BY <1>1, <2>2, DataTypes DEF ReliableInv, ListsOK, Leaves, PlacedOK, After
      <3>2. \A i \in Keys : storage[s][i] = Null
        BY <3>1, KeyOwner DEF Placed
      <3>3. \A t \in Servers : storage'[t][k] = storage[t][k]
        <4>1. CASE storage' = [storage EXCEPT ![s] = Empty]
          BY <1>5, <3>2, <4>1, DataTypes DEF Empty
        <4>2. ASSUME NEW done, storage' = [storage EXCEPT ![s] =
                                             [i \in Keys |-> IF i \in done THEN Null ELSE @[i]]]
              PROVE  \A t \in Servers : storage'[t][k] = storage[t][k]
          BY <1>5, <3>2, <4>2, DataTypes
        <4> QED
          BY <2>1, <2>2, <4>1, <4>2 DEF clearKVStorage, exit, Interrupted
      <3> QED
        BY <1>5, <3>3, ViewKept
    <2> QED
      BY <1>1, <2>1, <2>2 DEF initializeServer, register, data
  <1> QED
    BY <1>2, <1>3, <1>4, <1>5

\* Reconfigurations are invisible.
LEMMA BackgroundView ==
    ASSUME Quiet, HeirStarted, ClusterInv, ReliableInv, DataInv, Agree, Agree', Background
    PROVE  /\ \A k \in Keys : View(k)' = View(k)
           /\ \A k \in Keys : topic'[k].val \in {topic[k].val, View(k)}
           /\ UNCHANGED topic \/ \A c \in Clients : pc[c] \notin Serving
           /\ UNCHANGED <<clientVars, known>>
           /\ \A c \in Clients :
                 \/ pc'[c] = pc[c] /\ req'[c] = req[c] /\ rep'[c] = rep[c]
                 \/ cst[c] \in {"off", "ready", "hung"} /\ pc'[c] \in {"none", "closed"}
  <1>1. CASE \E s \in Servers : ServeThread(s)
    BY <1>1, MovePutView
  <1>2. CASE \E s \in Servers : AdminThread(s)
    BY <1>2, AdminView
  <1>3. CASE \E s \in Servers : MainThread(s)
    BY <1>3, MainView DEF NoRequestRuns
  <1>4. CASE UNCHANGED <<storage, topic, pc, req, rep, clientVars, known>>
    BY <1>4 DEF View
  <1>5. CASE \E s \in Servers : Expiry(s)
    BY <1>4, <1>5 DEF Expiry, SessionExpires, ServersOnly, data, threads
  <1>6. CASE Command
    <2>1. UNCHANGED <<storage, topic, pc, req, rep>>
      BY <1>6 DEF Command, NewCommand, addNode, main, mainAgain, Launch, removeNode, start, stop,
                  shutdown, quit, Local, serverVars, data, threads
    <2> QED
      BY <1>4, <1>6, <2>1 DEF Command, ECSOnly
  <1>7. CASE ECSRestart
    BY <1>4, <1>7 DEF ECSRestart, Restart, Local, ECSOnly, serverVars
  <1>8. CASE ECSThread
    <2>1. UNCHANGED <<storage, topic, pc, req, rep>>
      BY <1>8 DEF ECSThread, CommandStep, awaitJoin, sendInit, sendStart, sendJoinMove, joined,
                  UpdateAllNodesMeta, roundDone, sendHeirUpdate, sendLeaveMove, left, shutdown_server,
                  awaitLeave, failed, sendStarts, sendStops, sendShutdowns, awaitShutdown,
                  connectHangs, Exchange, Round, Ask, TalksOnly, Local, serverVars, data, threads
    <2> QED
      BY <1>4, <1>8, <2>1 DEF ECSThread, ECSOnly
  <1>9. CASE UNCHANGED vars
    BY <1>4, <1>9 DEF vars, serverVars
  <1> QED
    BY <1>1, <1>2, <1>3, <1>5, <1>6, <1>7, <1>8, <1>9 DEF Background

-----------------------------------------------------------------------------
(* The steps of clients and of the threads that serve them.                *)

\* A step of the thread that serves client c: it goes on to another point, or it
\* reads, writes, refuses or redirects.
LEMMA ServeKinds ==
    ASSUME Quiet, HeirStarted, ClusterInv, ReliableInv, DataInv, NEW c \in Clients,
           ServeThread(c)
    PROVE  /\ pc[c] \in Serving /\ cst[c] = "wait" /\ UNCHANGED <<clientVars, known, to>>
           /\ \A d \in Clients \ {c} : pc'[d] = pc[d] /\ req'[d] = req[d] /\ rep'[d] = rep[d]
           /\ pc'[c] \in Serving => req'[c] = req[c]
           /\ pc'[c] \in Serving \cup {"closed", "reply"}
           /\ \/ /\ pc'[c] # "reply" /\ UNCHANGED storage
                 /\ (UNCHANGED topic /\ pc'[c] # "put") \/ pub(c)
              \/ /\ pc'[c] = "reply" /\ pc[c] # "put" /\ UNCHANGED <<storage, topic>>
                 /\ rep'[c].status \in {"SERVER_STOPPED", "SERVER_WRITE_LOCK", "PUT_ERROR",
                                        "SERVER_NOT_RESPONSIBLE"}
              \/ getKV(c) /\ UNCHANGED <<storage, topic>>
              \/ /\ pc[c] = "inStorage" /\ pc'[c] = "reply" /\ UNCHANGED <<storage, topic>>
                 /\ storage[to[c]][req[c].key] = Null /\ req[c].val = Null
                 /\ rep'[c].status = "DELETE_ERROR" /\ rep'[c].val = Null
              \/ put(c) /\ UNCHANGED topic
  <1>0. c \in Peers /\ \A d \in Clients : d \in Peers
    BY DataTypes
  <1>1. /\ pc[c] \in Serving /\ UNCHANGED <<clientVars, to>>
        /\ \A d \in Clients \ {c} : pc'[d] = pc[d] /\ req'[d] = req[d]
        /\ pc'[c] \in Serving => req'[c] = req[c]
    BY <1>0, ServeGoes
  <1>2. cst[c] = "wait"
    BY <1>1, ClientServed DEF DataInv
  <1>3. UNCHANGED known
    BY DEF ServeThread, ServersOnly
  <1>4. rep \in [Peers -> Replies]
    BY DEF ClusterInv, ServerInv, TypeOK, ThreadsOK
  <1>5. \A d \in Clients \ {c} : rep'[d] = rep[d]
    BY <1>0, <1>4 DEF ServeThread, ServeStep, serve, isWriteLock, checkRange, getMetadata, getKV,
                      inStorage, pub, put, Reply, Goto, ThreadDies
  <1>6. /\ pc'[c] \in Serving \cup {"closed", "reply"}
        /\ \/ /\ pc'[c] # "reply" /\ UNCHANGED storage
              /\ (UNCHANGED topic /\ pc'[c] # "put") \/ pub(c)
           \/ /\ pc'[c] = "reply" /\ pc[c] # "put" /\ UNCHANGED <<storage, topic>>
              /\ rep'[c].status \in {"SERVER_STOPPED", "SERVER_WRITE_LOCK", "PUT_ERROR",
                                     "SERVER_NOT_RESPONSIBLE"}
           \/ getKV(c) /\ UNCHANGED <<storage, topic>>
           \/ /\ pc[c] = "inStorage" /\ pc'[c] = "reply" /\ UNCHANGED <<storage, topic>>
              /\ storage[to[c]][req[c].key] = Null /\ req[c].val = Null
              /\ rep'[c].status = "DELETE_ERROR" /\ rep'[c].val = Null
           \/ put(c) /\ UNCHANGED topic
    <2> USE <1>0, <1>4, Types DEF At, Reply, Goto, ThreadDies, data, Serving
    <2>1. CASE serve(c)
      BY <2>1 DEF serve
    <2>2. CASE isWriteLock(c)
      BY <2>2 DEF isWriteLock
    <2>3. CASE checkRange(c)
      BY <2>3 DEF checkRange
    <2>4. CASE getMetadata(c)
      BY <2>4 DEF getMetadata
    <2>5. CASE getKV(c)
      BY <2>5 DEF getKV
    <2>6. CASE inStorage(c)
      BY <2>6 DEF inStorage
    <2>7. CASE pub(c)
      BY <2>7 DEF pub
    <2>8. CASE put(c)
      BY <2>8 DEF put
    <2> QED
      BY <2>1, <2>2, <2>3, <2>4, <2>5, <2>6, <2>7, <2>8 DEF ServeThread, ServeStep
  <1> QED
    BY <1>1, <1>2, <1>3, <1>5, <1>6

\* What put does to View.
LEMMA PutView ==
    ASSUME Quiet, HeirStarted, ClusterInv, ReliableInv, DataInv, Agree, Agree',
           NEW c \in Clients, put(c)
    PROVE  \A k \in Keys : View(k)' = IF k = req[c].key THEN req[c].val ELSE View(k)
  <1> DEFINE j == req[c].key
  <1>1. /\ pc[c] = "put" /\ storage' = [storage EXCEPT ![to[c]][j] = req[c].val]
    BY DEF put, At
  <1>2. /\ j \in Keys /\ to[c] \in Servers
        /\ \A s \in Servers \ {to[c]} : storage[s][j] = Null
    BY <1>1, OwnerView
  <1> HIDE DEF j
  <1>3. \A s \in Servers, k \in Keys :
           storage'[s][k] = IF s = to[c] /\ k = j THEN req[c].val ELSE storage[s][k]
    BY <1>1, <1>2, DataTypes
  <1>4. ASSUME NEW k \in Keys, k = j
        PROVE  View(k)' = req[c].val
    <2>1. storage'[to[c]][k] = req[c].val /\ \A s \in Servers \ {to[c]} : storage'[s][k] = Null
      BY <1>2, <1>3, <1>4
    <2>2. CASE req[c].val = Null
      BY <1>4, <2>1, <2>2, NextViewIs
    <2>3. CASE req[c].val # Null
      BY <1>2, <1>4, <2>1, <2>3, NextViewIs
    <2> QED
      BY <2>2, <2>3
  <1>5. ASSUME NEW k \in Keys, k # j
        PROVE  View(k)' = View(k)
    <2>1. \A s \in Servers : storage'[s][k] = storage[s][k]
      BY <1>3, <1>5
    <2> QED
      BY <1>5, <2>1, ViewKept
  <1> QED
    BY <1>4, <1>5 DEF j

\* A client's own step: it makes its request, sends it, gives up or reads the reply.
LEMMA OwnKinds ==
    ASSUME ClusterInv, ReliableInv, DataInv, NEW c \in Clients, OwnStep(c)
    PROVE  /\ UNCHANGED <<storage, topic>>
           /\ \A d \in Clients \ {c} : /\ pc'[d] = pc[d] /\ req'[d] = req[d] /\ rep'[d] = rep[d]
                                       /\ cst'[d] = cst[d] /\ op'[d] = op[d]
           /\ \/ /\ cst[c] \in {"off", "ready"} /\ cst'[c] \in {"off", "ready"}
                 /\ pc[c] \notin Serving \cup {"reply"} /\ pc'[c] \in {"none", "idle"}
                 /\ UNCHANGED known
              \/ /\ cst[c] = "ready" /\ cst'[c] = "route" /\ op'[c] \in ClientRequests
                 /\ pc[c] \notin Serving \cup {"reply"} /\ pc'[c] = pc[c]
                 /\ UNCHANGED known
              \/ /\ cst[c] \in {"route", "send"} /\ cst'[c] \in {"send", "wait"} /\ op'[c] = op[c]
                 /\ pc[c] \notin Serving \cup {"reply"} /\ pc'[c] # "reply"
                 /\ pc'[c] \in Serving => pc'[c] = "isStopped" /\ req'[c] = op[c]
                 /\ Learn(c)
              \/ /\ cst[c] \in {"send", "wait"} /\ cst'[c] = "off"
                 /\ pc[c] \notin Serving \cup {"reply"} /\ pc'[c] = "none"
                 /\ Learn(c)
              \/ /\ cst[c] = "wait" /\ pc[c] = "reply" /\ rep[c].status = "SERVER_NOT_RESPONSIBLE"
                 /\ cst'[c] = "route" /\ op'[c] = op[c] /\ pc'[c] = "idle"
                 /\ Learn(c)
              \/ /\ cst[c] = "wait" /\ pc[c] = "reply" /\ rep[c].status # "SERVER_NOT_RESPONSIBLE"
                 /\ cst'[c] = "ready" /\ pc'[c] = "idle"
                 /\ Learn(c)
  <1>0. /\ \A d \in Clients : d \in Peers
        /\ pc \in [Peers -> Serving \cup {"none", "idle", "reply", "closed"}]
        /\ req \in [Peers -> Requests] /\ rep \in [Peers -> Replies]
        /\ cst \in [Clients -> {"off", "ready", "route", "send", "wait", "hung"}]
        /\ op \in [Clients -> Requests]
    BY DataTypes DEF ClusterInv, ServerInv, TypeOK, ThreadsOK, StoreTypeOK
  <1>1. /\ cst[c] = "off" => pc[c] = "none"
        /\ cst[c] \in {"ready", "route", "send"} => pc[c] \in {"none", "idle", "closed"}
    BY DEF ClusterInv, Conversation
  <1> USE <1>0, <1>1 DEF ClientOnly, Done, Send, Fails, threads, data, Serving
  <1>2. CASE \E s \in Servers : ClientConnects(c, s)
    BY <1>2 DEF ClientConnects, connect
  <1>3. CASE \E r \in ClientRequests : ClientRequest(c, r)
    BY <1>3 DEF ClientRequest, request
  <1>4. CASE ClientDisconnects(c)
    BY <1>4 DEF ClientDisconnects, disconnect
  <1>5. CASE ClientThread(c)
    <2>1. Learn(c)
      BY <1>5 DEF ClientThread
    <2>2. CASE connectCorrServer(c)
      BY <2>1, <2>2 DEF connectCorrServer
    <2>3. CASE sendMsg(c)
      BY <2>1, <2>3 DEF sendMsg
    <2>4. CASE redirected(c)
      BY <2>1, <2>4 DEF redirected
    <2>5. CASE replied(c)
      BY <2>1, <2>5 DEF replied
    <2>6. CASE lost(c)
      BY <2>1, <2>6 DEF lost
    <2>7. ~callHangs(c)
      BY NoCallHangs DEF DataInv
    <2> QED
      BY <1>5, <2>2, <2>3, <2>4, <2>5, <2>6, <2>7 DEF ClientThread, StoreStep
  <1> QED
    BY <1>2, <1>3, <1>4, <1>5 DEF OwnStep

\* The request that is served is the one the client made.
LEMMA AskedStep ==
    ASSUME Quiet, HeirStarted, ClusterInv, ReliableInv, DataInv, Agree, Agree', AskedOK,
           [Next]_vars
    PROVE  AskedOK'
  <1>1. CASE Background
    <2>1. UNCHANGED op
      BY <1>1, BackgroundView DEF clientVars
    <2>2. \A c \in Clients : pc'[c] \in Serving => pc'[c] = pc[c] /\ req'[c] = req[c]
      BY <1>1, BackgroundView DEF Serving
    <2> QED
      BY <2>1, <2>2 DEF AskedOK
  <1>2. ASSUME NEW c \in Clients, ServeThread(c)
        PROVE  AskedOK'
    <2>1. /\ UNCHANGED op /\ pc[c] \in Serving
          /\ \A d \in Clients \ {c} : pc'[d] = pc[d] /\ req'[d] = req[d]
          /\ pc'[c] \in Serving => req'[c] = req[c]
      BY <1>2, ServeKinds DEF clientVars
    <2> QED
      BY <2>1 DEF AskedOK
  <1>3. ASSUME NEW c \in Clients, OwnStep(c)
        PROVE  AskedOK'
    <2>1. /\ \A d \in Clients \ {c} : pc'[d] = pc[d] /\ req'[d] = req[d] /\ op'[d] = op[d]
          /\ pc'[c] \in Serving => req'[c] = op'[c]
      BY <1>3, OwnKinds DEF Serving
    <2> QED
      BY <2>1 DEF AskedOK
  <1> QED
    BY <1>1, <1>2, <1>3, StepKinds

-----------------------------------------------------------------------------
(* The map.                                                                *)

Views == [k \in Keys |-> View(k)]
Calls == [c \in Clients |-> CallOf(c)]
Answers == [c \in Clients |-> AnswerOf(c)]

NoAnswer == [kind |-> "none", val |-> Null]

LEMMA AnswerIs ==
    ASSUME NEW c \in Clients
    PROVE  /\ pc[c] # "reply" => AnswerOf(c) = NoAnswer
           /\ rep[c].status = "SERVER_NOT_RESPONSIBLE" => AnswerOf(c) = NoAnswer
           /\ pc[c] = "reply" /\ rep[c].status # "SERVER_NOT_RESPONSIBLE" => AnswerOf(c) # NoAnswer
  <1>1. /\ pc[c] # "reply" => AnswerOf(c) = NoAnswer
        /\ rep[c].status = "SERVER_NOT_RESPONSIBLE" => AnswerOf(c) = NoAnswer
    BY DEF AnswerOf, NoAnswer
  <1>2. ASSUME pc[c] = "reply", rep[c].status # "SERVER_NOT_RESPONSIBLE"
        PROVE  AnswerOf(c).kind # "none"
    BY <1>2 DEF AnswerOf
  <1>3. NoAnswer.kind = "none"
    BY DEF NoAnswer
  <1> QED
    BY <1>1, <1>2, <1>3

LEMMA NextAnswerIs ==
    ASSUME NEW c \in Clients
    PROVE  /\ pc'[c] # "reply" => AnswerOf(c)' = NoAnswer
           /\ rep'[c].status = "SERVER_NOT_RESPONSIBLE" => AnswerOf(c)' = NoAnswer
           /\ pc'[c] = "reply" =>
                 /\ rep'[c].status \in {"SERVER_STOPPED", "SERVER_WRITE_LOCK", "PUT_ERROR"} =>
                       AnswerOf(c)' = [kind |-> "refused", val |-> Null]
                 /\ rep'[c].status = "GET_SUCCESS" =>
                       AnswerOf(c)' = [kind |-> "value", val |-> rep'[c].val]
                 /\ rep'[c].status = "GET_ERROR" => AnswerOf(c)' = [kind |-> "value", val |-> Null]
                 /\ rep'[c].status \in {"PUT_SUCCESS", "PUT_UPDATE", "DELETE_SUCCESS",
                                        "DELETE_ERROR"} =>
                       AnswerOf(c)' = [kind |-> "stored", val |-> Null]
  BY DEF AnswerOf, NoAnswer, Effective

LEMMA CallIs ==
    ASSUME ClusterInv, NEW c \in Clients
    PROVE  /\ cst[c] \in {"route", "send", "wait"} => CallOf(c) = op[c] /\ CallOf(c) # NoCall
           /\ cst[c] \in {"off", "ready"} => CallOf(c) = NoCall
  <1>1. op[c].type \in {"GET", "PUT"} /\ NoCall.type = "none"
    BY DEF ClusterInv, StoreTypeOK, Requests, NoCall
  <1> QED
    BY <1>1 DEF CallOf

LEMMA NextCallIs ==
    ASSUME NEW c \in Clients
    PROVE  /\ cst'[c] \in {"route", "send", "wait"} => CallOf(c)' = op'[c]
           /\ cst'[c] \in {"off", "ready"} => CallOf(c)' = NoCall
  BY DEF CallOf

\* The actions of KVMap in these terms.
LEMMA MapVars == Map!vars = <<Views, Calls, Answers>> /\ Map!vars' = <<Views', Calls', Answers'>>
  BY DEF Map!vars, Views, Calls, Answers

LEMMA MapCalls ==
    ASSUME NEW c \in Clients, NEW r \in ClientRequests, Calls[c] = NoCall,
           Calls' = [Calls EXCEPT ![c] = r], UNCHANGED <<Views, Answers>>
    PROVE  Map!Next
  BY DEF Views, Calls, Answers, Map!Next, Map!Call

LEMMA MapReads ==
    ASSUME NEW c \in Clients, Calls[c] # NoCall, Answers[c] = NoAnswer, Calls[c].type = "GET",
           Answers' = [Answers EXCEPT ![c] = [kind |-> "value", val |-> Views[Calls[c].key]]],
           UNCHANGED <<Views, Calls>>
    PROVE  Map!Next
  BY DEF Views, Calls, Answers, NoAnswer, Map!Next, Map!Read, Map!Pending, Map!None, Map!Value

LEMMA MapWrites ==
    ASSUME NEW c \in Clients, Calls[c] # NoCall, Answers[c] = NoAnswer, Calls[c].type = "PUT",
           Views' = [Views EXCEPT ![Calls[c].key] = Calls[c].val],
           Answers' = [Answers EXCEPT ![c] = [kind |-> "stored", val |-> Null]],
           UNCHANGED Calls
    PROVE  Map!Next
  BY DEF Views, Calls, Answers, NoAnswer, Map!Next, Map!Write, Map!Pending, Map!None, Map!Stored

LEMMA MapRefuses ==
    ASSUME NEW c \in Clients, Calls[c] # NoCall, Answers[c] = NoAnswer,
           Answers' = [Answers EXCEPT ![c] = [kind |-> "refused", val |-> Null]],
           UNCHANGED <<Views, Calls>>
    PROVE  Map!Next
  BY DEF Views, Calls, Answers, NoAnswer, Map!Next, Map!Refuse, Map!Pending, Map!None, Map!Refused

LEMMA MapAborts ==
    ASSUME NEW c \in Clients, Calls[c] # NoCall, Answers[c] = NoAnswer,
           Calls' = [Calls EXCEPT ![c] = NoCall], UNCHANGED <<Views, Answers>>
    PROVE  Map!Next
  BY DEF Views, Calls, Answers, NoAnswer, Map!Next, Map!Abort, Map!Pending, Map!None

LEMMA MapReturns ==
    ASSUME NEW c \in Clients, Answers[c] # NoAnswer,
           Calls' = [Calls EXCEPT ![c] = NoCall], Answers' = [Answers EXCEPT ![c] = NoAnswer],
           UNCHANGED Views
    PROVE  Map!Next
  BY DEF Views, Calls, Answers, NoAnswer, Map!Next, Map!Return, Map!None

\* A step that concerns one client only.
LEMMA OneChanges ==
    ASSUME NEW c \in Clients,
           \A d \in Clients \ {c} :
              pc'[d] = pc[d] /\ rep'[d] = rep[d] /\ cst'[d] = cst[d] /\ op'[d] = op[d]
    PROVE  /\ Calls' = [Calls EXCEPT ![c] = CallOf(c)']
           /\ Answers' = [Answers EXCEPT ![c] = AnswerOf(c)']
           /\ CallOf(c)' = CallOf(c) => UNCHANGED Calls
           /\ AnswerOf(c)' = AnswerOf(c) => UNCHANGED Answers
           /\ Calls[c] = CallOf(c) /\ Answers[c] = AnswerOf(c)
  <1>1. \A d \in Clients \ {c} : CallOf(d)' = CallOf(d) /\ AnswerOf(d)' = AnswerOf(d)
    BY DEF CallOf, AnswerOf
  <1> QED
    BY <1>1 DEF Calls, Answers

\* Moves and reconfigurations leave the map alone.
LEMMA BackgroundMap ==
    ASSUME Quiet, HeirStarted, ClusterInv, ReliableInv, DataInv, Agree, Agree', Background
    PROVE  UNCHANGED Map!vars
  <1>1. UNCHANGED Views
    BY BackgroundView DEF Views
  <1>2. UNCHANGED <<cst, op>>
    BY BackgroundView DEF clientVars
  <1>3. UNCHANGED Calls
    BY <1>2 DEF Calls, CallOf
  <1>4. ASSUME NEW c \in Clients
        PROVE  AnswerOf(c)' = AnswerOf(c)
    <2>1. CASE pc'[c] = pc[c] /\ rep'[c] = rep[c]
      BY <2>1 DEF AnswerOf
    <2>2. CASE cst[c] \in {"off", "ready", "hung"} /\ pc'[c] \in {"none", "closed"}
      <3>1. pc[c] # "reply"
        BY <2>2 DEF ClusterInv, Conversation
      <3> QED
        BY <2>2, <3>1, AnswerIs, NextAnswerIs
    <2> QED
      BY <2>1, <2>2, BackgroundView
  <1>5. UNCHANGED Answers
    BY <1>4 DEF Answers
  <1> QED
    BY <1>1, <1>3, <1>5, MapVars

\* A request takes effect when getKV, inStorage or put answers it.
LEMMA ServeMap ==
    ASSUME Quiet, HeirStarted, ClusterInv, ReliableInv, DataInv, Agree, Agree', AskedOK,
           NEW c \in Clients, ServeThread(c)
    PROVE  Map!Next \/ UNCHANGED Map!vars
  <1>1. /\ pc[c] \in Serving /\ cst[c] = "wait" /\ UNCHANGED <<clientVars, to>>
        /\ \A d \in Clients \ {c} : pc'[d] = pc[d] /\ rep'[d] = rep[d]
    BY ServeKinds
  <1>2. UNCHANGED <<cst, op>> /\ op[c] = req[c] /\ req[c] \in Requests /\ pc[c] # "reply"
    BY <1>1, DataTypes DEF clientVars, AskedOK, Serving
  <1>3. /\ Calls[c] = req[c] /\ Calls[c] # NoCall /\ Answers[c] = NoAnswer /\ UNCHANGED Calls
        /\ Answers' = [Answers EXCEPT ![c] = AnswerOf(c)']
        /\ AnswerOf(c)' = NoAnswer => UNCHANGED Answers
    <2>1. CallOf(c)' = CallOf(c)
      BY <1>2 DEF CallOf
    <2>2. CallOf(c) = req[c] /\ CallOf(c) # NoCall /\ AnswerOf(c) = NoAnswer
      BY <1>1, <1>2, CallIs, AnswerIs
    <2> QED
      BY <1>1, <1>2, <2>1, <2>2, OneChanges
  <1>4. UNCHANGED storage => UNCHANGED Views
    BY DEF Views, View
  <1>5. CASE pc'[c] # "reply" /\ UNCHANGED storage
    BY <1>3, <1>4, <1>5, NextAnswerIs, MapVars
  <1>6. CASE /\ pc'[c] = "reply" /\ UNCHANGED storage
             /\ rep'[c].status \in {"SERVER_STOPPED", "SERVER_WRITE_LOCK", "PUT_ERROR",
                                    "SERVER_NOT_RESPONSIBLE"}
    <2>1. CASE rep'[c].status = "SERVER_NOT_RESPONSIBLE"
      BY <1>3, <1>4, <1>6, <2>1, NextAnswerIs, MapVars
    <2>2. CASE rep'[c].status # "SERVER_NOT_RESPONSIBLE"
      <3>1. AnswerOf(c)' = [kind |-> "refused", val |-> Null]
        BY <1>6, <2>2, NextAnswerIs
      <3> QED
        BY <1>3, <1>4, <1>6, <3>1, MapRefuses
    <2> QED
      BY <2>1, <2>2
  <1>7. CASE getKV(c) /\ UNCHANGED storage
    <2>1. pc[c] = "getKV" /\ req[c].type = "GET"
      BY <1>7, DataTypes DEF getKV, At, DataInv, ServingOK
    <2>2. /\ req[c].key \in Keys /\ View(req[c].key) = storage[to[c]][req[c].key]
      BY <2>1, OwnerView
    <2>3. /\ pc'[c] = "reply" /\ rep'[c].val = View(req[c].key)
          /\ rep'[c].status = IF View(req[c].key) = Null THEN "GET_ERROR" ELSE "GET_SUCCESS"
      BY <1>7, <2>2, Types, DataTypes DEF getKV, Reply, ClusterInv, ServerInv, TypeOK, ThreadsOK
    <2>4. AnswerOf(c)' = [kind |-> "value", val |-> View(req[c].key)]
      BY <2>3, NextAnswerIs
    <2>5. Views[Calls[c].key] = View(req[c].key)
      BY <1>3, <2>2 DEF Views
    <2> QED
      BY <1>3, <1>4, <1>7, <2>1, <2>4, <2>5, MapReads
  <1>8. CASE /\ pc[c] = "inStorage" /\ pc'[c] = "reply" /\ UNCHANGED storage
             /\ storage[to[c]][req[c].key] = Null /\ req[c].val = Null
             /\ rep'[c].status = "DELETE_ERROR"
    <2>1. req[c].type = "PUT"
      BY <1>8, DataTypes DEF DataInv, ServingOK, Storing
    <2>2. req[c].key \in Keys /\ View(req[c].key) = Null
      BY <1>8, OwnerView
    <2>3. AnswerOf(c)' = [kind |-> "stored", val |-> Null]
      BY <1>8, NextAnswerIs
    <2>4. Views' = [Views EXCEPT ![Calls[c].key] = Calls[c].val]
      BY <1>3, <1>4, <1>8, <2>2 DEF Views
    <2> QED
      BY <1>3, <2>1, <2>3, <2>4, MapWrites
  <1>9. CASE put(c)
    <2>1. pc[c] = "put" /\ req[c].type = "PUT"
      BY <1>9, DataTypes DEF put, At, DataInv, ServingOK, Storing
    <2>2. req[c].key \in Keys
      BY <1>2 DEF Requests
    <2>3. /\ pc'[c] = "reply"
          /\ rep'[c].status \in {"PUT_SUCCESS", "PUT_UPDATE", "DELETE_SUCCESS"}
      BY <1>9, Types, DataTypes DEF put, Reply, ClusterInv, ServerInv, TypeOK, ThreadsOK
    <2>4. AnswerOf(c)' = [kind |-> "stored", val |-> Null]
      BY <2>3, NextAnswerIs
    <2>5. Views' = [Views EXCEPT ![Calls[c].key] = Calls[c].val]
      BY <1>3, <1>9, <2>2, PutView DEF Views
    <2> QED
      BY <1>3, <2>1, <2>4, <2>5, MapWrites
  <1> QED
    BY <1>5, <1>6, <1>7, <1>8, <1>9, ServeKinds

LEMMA OwnMap ==
    ASSUME ClusterInv, ReliableInv, DataInv, NEW c \in Clients, OwnStep(c)
    PROVE  Map!Next \/ UNCHANGED Map!vars
  <1>1. UNCHANGED Views
    BY OwnKinds DEF Views, View
  <1>2. /\ Calls' = [Calls EXCEPT ![c] = CallOf(c)']
        /\ Answers' = [Answers EXCEPT ![c] = AnswerOf(c)']
        /\ CallOf(c)' = CallOf(c) => UNCHANGED Calls
        /\ AnswerOf(c)' = AnswerOf(c) => UNCHANGED Answers
        /\ Calls[c] = CallOf(c) /\ Answers[c] = AnswerOf(c)
    BY OwnKinds, OneChanges
  <1>3. CASE pc[c] # "reply" /\ pc'[c] # "reply"
    <2>1. AnswerOf(c) = NoAnswer /\ UNCHANGED Answers
      BY <1>2, <1>3, AnswerIs, NextAnswerIs
    <2>2. CASE cst[c] \in {"off", "ready"} /\ cst'[c] \in {"off", "ready"}
      BY <1>1, <1>2, <2>1, <2>2, CallIs, NextCallIs, MapVars
    <2>3. CASE cst[c] = "ready" /\ cst'[c] = "route" /\ op'[c] \in ClientRequests
      <3>1. CallOf(c) = NoCall /\ CallOf(c)' = op'[c]
        BY <2>3, CallIs, NextCallIs
      <3> QED
        BY <1>1, <1>2, <2>1, <2>3, <3>1, MapCalls
    <2>4. CASE cst[c] \in {"route", "send"} /\ cst'[c] \in {"send", "wait"} /\ op'[c] = op[c]
      BY <1>1, <1>2, <2>1, <2>4, CallIs, NextCallIs, MapVars
    <2>5. CASE cst[c] \in {"send", "wait"} /\ cst'[c] = "off"
      <3>1. CallOf(c) # NoCall /\ CallOf(c)' = NoCall
        BY <2>5, CallIs, NextCallIs
      <3> QED
        BY <1>1, <1>2, <2>1, <3>1, MapAborts
    <2> QED
      BY <1>3, <2>2, <2>3, <2>4, <2>5, OwnKinds
  <1>4. CASE /\ pc[c] = "reply" /\ rep[c].status = "SERVER_NOT_RESPONSIBLE" /\ cst[c] = "wait"
             /\ cst'[c] = "route" /\ op'[c] = op[c] /\ pc'[c] = "idle"
    BY <1>1, <1>2, <1>4, AnswerIs, NextAnswerIs, CallIs, NextCallIs, MapVars
  <1>5. CASE /\ pc[c] = "reply" /\ rep[c].status # "SERVER_NOT_RESPONSIBLE"
             /\ cst'[c] = "ready" /\ pc'[c] = "idle"
    <2>1. AnswerOf(c) # NoAnswer /\ AnswerOf(c)' = NoAnswer /\ CallOf(c)' = NoCall
      BY <1>5, AnswerIs, NextAnswerIs, NextCallIs
    <2> QED
      BY <1>1, <1>2, <2>1, MapReturns
  <1> QED
    BY <1>3, <1>4, <1>5, OwnKinds

LEMMA MapStep ==
    ASSUME Quiet, HeirStarted, ClusterInv, ReliableInv, DataInv, Agree, Agree', AskedOK,
           [Next]_vars
    PROVE  Map!Next \/ UNCHANGED Map!vars
  BY StepKinds, BackgroundMap, ServeMap, OwnMap

LEMMA MapInit == Init => Map!Init
  <1> SUFFICES ASSUME Init PROVE Map!Init
    OBVIOUS
  <1> USE DEF Init, ServerInit, StoreInit
  <1>1. \A k \in Keys : View(k) = Null
    BY DEF View, Empty
  <1>2. \A c \in Clients : CallOf(c) = NoCall /\ AnswerOf(c) = NoAnswer
    BY AnswerIs DEF CallOf, Peers
  <1> QED
    BY <1>1, <1>2 DEF Map!Init, Map!None, NoAnswer

-----------------------------------------------------------------------------
(* The theorem about the map.                                              *)

\* Facts about states that the theorems start from.
LEMMA QuietFacts ==
    ASSUME Quiet
    PROVE  Spec /\ []HeirStarted => [](ClusterInv /\ ReliableInv /\ DataInv /\ Agree)
  <1>1. HeirStarted /\ ClusterInv /\ ReliableInv /\ DataInv => Agree
    BY CopiesAgree
  <1>2. Spec => []ReliableInv
    BY ReliableInvariant DEF Quiet
  <1> QED
    BY <1>1, <1>2, DataInvariant, ClusterInvariant, PTL

\* In a quiet cluster the request that a thread of a server works on is the one that
\* its client waits for.
THEOREM ServedWasAsked ==
    ASSUME Quiet
    PROVE  Spec /\ []HeirStarted => []AskedOK
  <1>1. Init => AskedOK
    BY DEF Init, ServerInit, AskedOK, Peers, Serving
  <1>2. HeirStarted /\ ClusterInv /\ ReliableInv /\ DataInv /\ Agree /\ Agree' /\ AskedOK
            /\ [Next]_vars => AskedOK'
    BY AskedStep
  <1> QED
    BY <1>1, <1>2, QuietFacts, PTL DEF Spec

\* The quiet cluster implements the map of KVMap, with any number of clients, servers
\* and keys: every request takes effect at one moment, when getKV, inStorage or put
\* answers it, and adding and removing servers changes nothing a client can see.
THEOREM ClusterIsMap ==
    ASSUME Quiet
    PROVE  Spec /\ []HeirStarted => ImplementsMap
  <1>1. Init => Map!Init
    BY MapInit
  <1>2. HeirStarted /\ ClusterInv /\ ReliableInv /\ DataInv /\ Agree /\ Agree' /\ AskedOK
            /\ [Next]_vars => [Map!Next]_(Map!vars)
    BY MapStep
  <1> QED
    BY <1>1, <1>2, QuietFacts, ServedWasAsked, PTL DEF Spec, ImplementsMap, Map!Spec

\* With an operator who never stops servers, or never removes any, a quiet cluster keeps
\* every pair where it belongs, loses none and is the map, with no condition on its
\* behaviours.
THEOREM QuietCluster ==
    ASSUME Quiet, "stop" \notin Commands \/ "removeNode" \notin Commands
    PROVE  Spec => []FlushedIsTransferred /\ []Placement /\ ImplementsMap
  BY HeirsAreStarted, FlushedDataIsTransferred, DataIsPlaced, ClusterIsMap, PTL

-----------------------------------------------------------------------------
(* One client.                                                             *)

\* A client that is served or whose reply is on its way has called; the background
\* does not touch it.
LEMMA BackgroundKeeps ==
    ASSUME Quiet, HeirStarted, ClusterInv, ReliableInv, DataInv, Agree, Agree', Background,
           NEW c \in Clients
    PROVE  /\ op'[c] = op[c] /\ known' = known
           /\ \/ pc'[c] = pc[c] /\ req'[c] = req[c] /\ rep'[c] = rep[c]
              \/ /\ pc[c] \notin Serving \cup {"reply"} /\ pc'[c] \notin Serving \cup {"reply"}
  <1>1. op'[c] = op[c] /\ known' = known
    BY BackgroundView DEF clientVars
  <1>2. CASE cst[c] \in {"off", "ready", "hung"} /\ pc'[c] \in {"none", "closed"}
    BY <1>1, <1>2 DEF ClusterInv, Conversation, Serving
  <1> QED
    BY <1>1, <1>2, BackgroundView

LEMMA TopicStep ==
    ASSUME Quiet, OneClient, HeirStarted, ClusterInv, ReliableInv, DataInv, Agree, Agree',
           TopicOK, [Next]_vars
    PROVE  TopicOK'
  <1>1. CASE Background
    <2>1. \A c \in Clients : /\ pc'[c] = "put" <=> pc[c] = "put"
                             /\ pc'[c] = "put" => req'[c] = req[c] /\ pc[c] \in Serving
      BY <1>1, BackgroundKeeps DEF Serving
    <2>2. \A c \in Clients : pc'[c] = "put" => topic' = topic
      BY <1>1, <2>1, BackgroundView
    <2>3. \A c \in Clients : pc'[c] = "put" => topic'[req'[c].key].val = req'[c].val
      BY <2>1, <2>2 DEF TopicOK
    <2>4. ASSUME NEW k \in Keys, \A c \in Clients : pc'[c] = "put" => req'[c].key # k
          PROVE  topic'[k].val = View(k)'
      <3>1. topic[k].val = View(k)
        BY <2>1, <2>4 DEF TopicOK
      <3> QED
        BY <1>1, <2>4, <3>1, BackgroundView
    <2> QED
      BY <2>3, <2>4 DEF TopicOK
  <1>2. ASSUME NEW c \in Clients, ServeThread(c), pc[c] = "put"
        PROVE  TopicOK'
    <2>1. put(c) /\ UNCHANGED topic /\ c \in Peers
      BY <1>2, ServeGoes, DataTypes DEF put, data
    <2>2. pc'[c] = "reply"
      BY <2>1, Types DEF put, Reply
    <2>3. \A k \in Keys : View(k)' = IF k = req[c].key THEN req[c].val ELSE View(k)
      BY <2>1, PutView
    <2>4. \A k \in Keys : topic[k].val = IF k = req[c].key THEN req[c].val ELSE View(k)
      BY <1>2 DEF TopicOK, OneClient
    <2> QED
      BY <2>1, <2>2, <2>3, <2>4 DEF TopicOK, OneClient
  <1>3. ASSUME NEW c \in Clients, pc[c] # "put", ServeThread(c) \/ OwnStep(c)
        PROVE  TopicOK'
    <2>1. \A k \in Keys : topic[k].val = View(k)
      BY <1>3 DEF TopicOK, OneClient
    <2>2. UNCHANGED storage
      BY <1>3, ServeGoes, OwnKinds, DataTypes
    <2>3. \A k \in Keys : View(k)' = View(k)
      BY <2>2 DEF View
    <2>4. CASE pub(c)
      <3>1. pc'[c] = "put" /\ req'[c] = req[c] /\ req[c].key \in Keys
        BY <2>4, Types, DataTypes DEF pub, Goto, Requests, Quiet
      <3>2. \A k \in Keys : topic'[k].val = IF k = req[c].key THEN req[c].val ELSE topic[k].val
        BY <2>4, <3>1 DEF pub, ClusterInv, ServerInv, TypeOK, DataOK, Quiet
      <3> QED
        BY <2>1, <2>3, <3>1, <3>2 DEF TopicOK, OneClient
    <2>5. CASE UNCHANGED topic /\ pc'[c] # "put"
      BY <2>1, <2>3, <2>5 DEF TopicOK, OneClient
    <2>6. CASE ServeThread(c)
      <3>1. ~put(c)
        BY <1>3 DEF put, At
      <3>2. getKV(c) => pc'[c] = "reply"
        BY Types, DataTypes DEF getKV, Reply
      <3> QED
        BY <2>4, <2>5, <2>6, <3>1, <3>2, ServeKinds
    <2>7. CASE OwnStep(c)
      BY <1>3, <2>5, <2>7, OwnKinds DEF Serving
    <2> QED
      BY <1>3, <2>6, <2>7
  <1>4. ASSUME NEW c \in Clients, OwnStep(c)
        PROVE  pc[c] # "put"
    BY <1>4, OwnKinds DEF Serving
  <1> QED
    BY <1>1, <1>2, <1>3, <1>4, StepKinds

LEMMA AnswerStep ==
    ASSUME Quiet, OneClient, HeirStarted, ClusterInv, ReliableInv, DataInv, Agree, Agree',
           AskedOK, AnswerOK,
           [Next]_vars
    PROVE  AnswerOK'
  <1>1. CASE Background
    <2>1. SUFFICES ASSUME NEW c \in Clients, HasEffect(c)'
                   PROVE  rep'[c].val = View(op[c].key)'
      BY DEF AnswerOK
    <2>2. /\ pc'[c] = pc[c] /\ rep'[c] = rep[c] /\ op'[c] = op[c]
      BY <1>1, <2>1, BackgroundKeeps DEF HasEffect
    <2>3. rep[c].val = View(op[c].key) /\ op[c].key \in Keys
      BY <2>1, <2>2 DEF AnswerOK, HasEffect, ClusterInv, StoreTypeOK, Requests
    <2>4. ASSUME NEW k \in Keys, k = op[c].key
          PROVE  rep[c].val = View(k)'
      BY <1>1, <2>3, <2>4, BackgroundView
    <2> QED
      BY <2>2, <2>3, <2>4 DEF View
  <1>2. ASSUME NEW c \in Clients, ServeThread(c)
        PROVE  AnswerOK'
    <2>1. SUFFICES ASSUME HasEffect(c)', NEW k \in Keys, k = req[c].key
                   PROVE  rep'[c].val = View(k)'
      <3>1. pc[c] \in Serving /\ op' = op /\ op[c] = req[c] /\ req[c].key \in Keys
        BY <1>2, ServeKinds, DataTypes DEF clientVars, AskedOK, Requests
      <3> QED
        BY <2>1, <3>1 DEF AnswerOK, OneClient, View
    <2>2. rep \in [Peers -> Replies] /\ c \in Peers
      BY DataTypes DEF ClusterInv, ServerInv, TypeOK, ThreadsOK
    <2>3. CASE getKV(c) /\ UNCHANGED storage
      <3>1. View(k) = storage[to[c]][k] /\ View(k)' = View(k)
        BY <2>1, <2>3, OwnerView DEF getKV, At, View
      <3> QED
        BY <2>1, <2>2, <2>3, <3>1 DEF getKV, Reply
    <2>4. CASE put(c)
      <3>1. View(k)' = req[c].val
        BY <2>1, <2>4, PutView
      <3> QED
        BY <2>2, <2>4, <3>1 DEF put, Reply
    <2>5. CASE /\ pc[c] = "inStorage" /\ UNCHANGED storage
               /\ storage[to[c]][req[c].key] = Null /\ rep'[c].val = Null
      BY <2>1, <2>5, OwnerView DEF View
    <2> QED
      BY <1>2, <2>1, <2>3, <2>4, <2>5, ServeKinds DEF HasEffect, Effective
  <1>3. ASSUME NEW c \in Clients, OwnStep(c)
        PROVE  AnswerOK'
    BY <1>3, OwnKinds DEF AnswerOK, HasEffect, OneClient
  <1> QED
    BY <1>1, <1>2, <1>3, StepKinds

LEMMA KnownStep ==
    ASSUME Quiet, OneClient, HeirStarted, ClusterInv, ReliableInv, DataInv, Agree, Agree',
           AskedOK, AnswerOK,
           KnownOK, [Next]_vars
    PROVE  KnownOK'
  <1>0. known \in [Keys -> SUBSET Stored]
    BY DEF ClusterInv
  <1>1. CASE Background
    <2>1. \A k \in Keys : View(k)' = View(k)
      BY <1>1, BackgroundView
    <2>2. \A c \in Clients : HasEffect(c) => HasEffect(c)'
      BY <1>1, BackgroundKeeps DEF HasEffect
    <2>3. UNCHANGED <<op, known>>
      BY <1>1, BackgroundView DEF clientVars
    <2> QED
      BY <2>1, <2>2, <2>3 DEF KnownOK
  <1>2. ASSUME NEW c \in Clients, ServeThread(c)
        PROVE  KnownOK'
    <2>1. pc[c] \in Serving /\ UNCHANGED <<op, known>> /\ op[c] = req[c]
      BY <1>2, ServeKinds DEF clientVars, AskedOK
    <2>2. \A k \in Keys : View(k) \in known[k]
      BY <2>1 DEF KnownOK, OneClient, HasEffect, Serving
    <2>3. CASE UNCHANGED storage
      BY <2>1, <2>2, <2>3 DEF KnownOK, View
    <2>4. CASE put(c)
      <3>1. \A k \in Keys : View(k)' = IF k = req[c].key THEN req[c].val ELSE View(k)
        BY <2>4, PutView
      <3>2. req[c].type = "PUT"
        BY <2>4, DataTypes DEF put, At, DataInv, ServingOK, Storing
      <3>3. HasEffect(c)'
        BY <2>4, Types, DataTypes
           DEF put, Reply, HasEffect, Effective, ClusterInv, ServerInv, TypeOK, ThreadsOK
      <3> QED
        BY <2>1, <2>2, <3>1, <3>2, <3>3 DEF KnownOK
    <2> QED
      BY <1>2, <2>3, <2>4, ServeKinds
  <1>3. ASSUME NEW c \in Clients, OwnStep(c)
        PROVE  KnownOK'
    <2>1. \A k \in Keys : View(k)' = View(k)
      BY <1>3, OwnKinds DEF View
    <2>2. \A k \in Keys : View(k) \in known[k] \/ (HasEffect(c) /\ op[c].key = k)
      BY DEF KnownOK, OneClient
    <2>3. CASE UNCHANGED known /\ ~HasEffect(c)
      BY <2>1, <2>2, <2>3 DEF KnownOK
    <2>4. CASE Learn(c)
      <3>1. op[c].key \in Keys
        BY DEF ClusterInv, StoreTypeOK, Requests
      <3>2. HasEffect(c) => known'[op[c].key] = {View(op[c].key)}
        BY <1>0, <2>4, <3>1 DEF Learn, HasEffect, AnswerOK
      <3>3. ~HasEffect(c) => \A k \in Keys : known[k] \subseteq known'[k]
        BY <1>0, <2>4, <3>1 DEF Learn, HasEffect
      <3>4. \A k \in Keys : k # op[c].key => known'[k] = known[k]
        BY <1>0, <2>4 DEF Learn
      <3>5. \A k \in Keys : View(k) \in known'[k]
        BY <2>2, <3>2, <3>3, <3>4
      <3> QED
        BY <2>1, <3>5 DEF KnownOK
    <2> QED
      BY <1>3, <2>3, <2>4, OwnKinds DEF HasEffect
  <1> QED
    BY <1>1, <1>2, <1>3, StepKinds

LEMMA OneClientInit == Init => TopicOK /\ AnswerOK /\ KnownOK
  <1> SUFFICES ASSUME Init PROVE TopicOK /\ AnswerOK /\ KnownOK
    OBVIOUS
  <1> USE DEF Init, ServerInit, StoreInit
  <1>1. \A k \in Keys : View(k) = Null
    BY DEF View, Empty
  <1>2. \A c \in Clients : pc[c] = "none"
    BY DEF Peers
  <1> QED
    BY <1>1, <1>2 DEF TopicOK, AnswerOK, KnownOK, HasEffect

\* In a quiet cluster with one client the last notification about a key says what is
\* stored: it is sent before the value is stored, and moving a pair announces it anew.
THEOREM AnnouncementIsCurrent ==
    ASSUME Quiet, OneClient
    PROVE  Spec /\ []HeirStarted => []LastAnnouncementIsCurrent
  <1>1. Init => TopicOK
    BY OneClientInit
  <1>2. HeirStarted /\ ClusterInv /\ ReliableInv /\ DataInv /\ Agree /\ Agree' /\ TopicOK
            /\ [Next]_vars => TopicOK'
    BY TopicStep
  <1>3. ClusterInv /\ TopicOK => LastAnnouncementIsCurrent
    BY DEF TopicOK, LastAnnouncementIsCurrent, NoRequestRuns, ClusterInv, Conversation
  <1> QED
    BY <1>1, <1>2, <1>3, QuietFacts, PTL DEF Spec

\* In a quiet cluster with one client a GET returns what the last PUT stored, through
\* any number of moves between them.
THEOREM ReadsWhatWasWritten ==
    ASSUME Quiet, OneClient
    PROVE  Spec /\ []HeirStarted => ReadsLastWrite
  <1>1. Init => AnswerOK /\ KnownOK
    BY OneClientInit
  <1>2. HeirStarted /\ ClusterInv /\ ReliableInv /\ DataInv /\ Agree /\ Agree' /\ AskedOK
            /\ AnswerOK /\ KnownOK /\ [Next]_vars => AnswerOK' /\ KnownOK'
    BY AnswerStep, KnownStep
  <1>3. ASSUME AnswerOK, KnownOK, ClusterInv, NEW c \in Clients, replied(c), op[c].type = "GET",
               rep[c].status \in Effective
        PROVE  rep[c].val \in known[op[c].key]
    <2>1. HasEffect(c) /\ op[c].key \in Keys
      BY <1>3 DEF replied, HasEffect, ClusterInv, StoreTypeOK, Requests
    <2> QED
      BY <1>3, <2>1 DEF AnswerOK, KnownOK, OneClient
  <1>4. ClusterInv /\ AnswerOK /\ KnownOK /\ [Next]_vars =>
            [\A c \in Clients :
               replied(c) /\ op[c].type = "GET" /\ rep[c].status \in Effective
                   => rep[c].val \in known[op[c].key]]_vars
    BY <1>3
  <1> QED
    BY <1>1, <1>2, <1>4, QuietFacts, ServedWasAsked, PTL DEF Spec, ReadsLastWrite
=============================================================================
