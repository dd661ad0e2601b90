------------------------------ MODULE KVServer ------------------------------
(***************************************************************************)
(* The storage servers: KVServer (process, flags, moveData), the           *)
(* CommModule threads that serve its connections, and its KVStorage file.  *)
(*                                                                         *)
(* Every server accepts any number of connections, each served by a thread *)
(* of its own.  A Peer is whoever holds a connection: a client, or another *)
(* server that is sending it data in moveData; pc[p] is the program point  *)
(* of the thread that serves p, `to[p]' the server it belongs to.  Steps   *)
(* between two accesses to state that threads share are one action, so     *)
(* that every interleaving of two threads of a server is a behaviour.  The *)
(* thread that serves the ECS is apart (apc): the ECS is one sequential    *)
(* program with at most one request in flight at a server.                 *)
(*                                                                         *)
(* This module has the servers' state and steps.  Module OpenServers runs   *)
(* them in an unconstrained environment; modules KVStore and ECSClient are *)
(* the real one, composed in Cluster.                                      *)
(*                                                                         *)
(* Abstracted: the metadata map is represented by the set of nodes it was  *)
(* computed from (HashRing.calc_metadata gives the ranges), {} standing    *)
(* for the null reference of a server that was never initialised; the      *)
(* encryption and MAC of the channel; logging.                             *)
(***************************************************************************)
EXTENDS HashRing

CONSTANTS
    Servers,    \* the servers of ecs.config, named by their ring positions
    Keys,       \* keys, named by their hashes
    LongKeys,   \* the keys of more than 20 bytes
    Values,     \* values other than null and the empty string
    Null,       \* the null value: a PUT of it is a delete
    Clients,    \* client connections
    Brokerless, \* the servers that boot while the message broker is not there
    MayCrash    \* whether processes may be killed

ASSUME ServersAssumption == Servers \subseteq Positions /\ Servers # {}
ASSUME KeysAssumption == Keys \subseteq Ring /\ Keys # {} /\ LongKeys \subseteq Keys
ASSUME NullAssumption == Null \notin Values
ASSUME BrokerlessAssumption == Brokerless \subseteq Servers
ASSUME ClientsAssumption == Clients \cap Servers = {}
ASSUME MayCrashAssumption == MayCrash \in BOOLEAN

VARIABLES
    proc,        \* state of the server's process
    znode,       \* its ephemeral node under /keeper
    second,      \* whether the server was launched again while its process ran
    stopped,     \* KVServer.stopped
    writeLock,   \* KVServer.writeLock
    metadata,    \* KVServer.metadata
    storage,     \* the content of the server's storage file
    dataToFlush, \* KVServer.dataToFlush
    topic,       \* the last notification published about each key
    pc,          \* where the thread serving the peer is
    to,          \* the server the peer is connected to
    req,         \* the peer's request
    found,       \* what inStorage answered for it
    rep,         \* the reply
    apc,         \* where the thread serving the ECS is
    areq,        \* the ECS's request
    arep,        \* the reply's status
    snap         \* moveData's copy of the storage: the pairs left to send

process == <<proc, znode, second>>
flags   == <<stopped, writeLock, metadata>>
data    == <<storage, dataToFlush>>
threads == <<pc, to, req, found, rep>>
admin   == <<apc, areq, arep, snap>>
serverVars == <<proc, znode, second, stopped, writeLock, metadata, storage, dataToFlush,
                topic, pc, to, req, found, rep, apc, areq, arep, snap>>

Peers == Clients \cup Servers
Stored == Values \cup {Null}
Empty == [k \in Keys |-> Null]

Requests == [type : {"GET", "PUT"}, key : Keys, val : Stored]

\* Fields of a connection that is not in use.
NoServer == CHOOSE s \in Servers : TRUE
NoRequest == [type |-> "GET", key |-> CHOOSE k \in Keys : TRUE, val |-> Null]
NoReply == [status |-> "none", val |-> Null, md |-> {}]

Statuses == {"none", "GET_SUCCESS", "GET_ERROR", "PUT_SUCCESS", "PUT_UPDATE", "PUT_ERROR",
             "DELETE_SUCCESS", "DELETE_ERROR", "SERVER_STOPPED", "SERVER_WRITE_LOCK",
             "SERVER_NOT_RESPONSIBLE"}
Replies == [status : Statuses, val : Stored, md : SUBSET Servers]

Ranges == [start : 0 .. RingSize, end : Positions]

\* Null is no range: in a MOVE_DATA it stands for a range or a destination that is
\* null.  The null metadata of an INIT_SERVER or UPDATE are {}.
ASSUME NullNoRange == Null \notin Ranges

AdminRequests == [type : {"INIT_SERVER", "START", "STOP", "SHUTDOWN", "LOCK", "UNLOCK",
                          "MOVE_DATA", "UPDATE", "FLUSH"},
                  md : SUBSET Servers, dest : Servers, range : Ranges \cup {Null}]

NoAdminRequest == [type |-> "START", md |-> {}, dest |-> NoServer,
                   range |-> [start |-> 0, end |-> NoServer]]

AdminReplies == {"none", "INIT_SERVER_SUCCESS", "INIT_SERVER_FAILED", "START_SUCCESS",
                 "STOP_SUCCESS", "SHUTDOWN_SUCCESS", "LOCK_SUCCESS", "UNLOCK_SUCCESS",
                 "MOVE_DATA_SUCCESS", "MOVE_DATA_FAILED", "UPDATE_SUCCESS",
                 "UPDATE_FAILED", "FLUSH_SUCCESS"}

Announcements == [type : {"None", "Put", "Update", "Delete"}, val : Stored]

\* Program points of moveData, in order; from moveConnect it may come to hang in
\* the constructor of its CommModule.
Moving == {"moveLock", "moveSnapshot", "moveConnect", "moveNext", "moveWait",
           "moveFlush", "moveUnlock", "moveHangs"}

\* Program points of a thread that serves a request.
Serving == {"isStopped", "inRangeGet", "getKV", "isWriteLock", "inRangePut",
            "getMetadata", "inStorage", "pub", "put"}

ServerInit ==
    /\ proc = [s \in Servers |-> "down"]
    /\ znode = [s \in Servers |-> "none"]
    /\ second = [s \in Servers |-> FALSE]
    /\ stopped = [s \in Servers |-> TRUE]
    /\ writeLock = [s \in Servers |-> FALSE]
    /\ metadata = [s \in Servers |-> {}]
    /\ storage = [s \in Servers |-> Empty]
    /\ dataToFlush = [s \in Servers |-> {}]
    /\ topic = [k \in Keys |-> [type |-> "None", val |-> Null]]
    /\ pc = [p \in Peers |-> "none"]
    /\ to = [p \in Peers |-> NoServer]
    /\ req = [p \in Peers |-> NoRequest]
    /\ found = [p \in Peers |-> FALSE]
    /\ rep = [p \in Peers |-> NoReply]
    /\ apc = [s \in Servers |-> "none"]
    /\ areq = [s \in Servers |-> NoAdminRequest]
    /\ arep = [s \in Servers |-> "none"]
    /\ snap = [s \in Servers |-> Empty]

-----------------------------------------------------------------------------
(* The process: launch, accept loop, exit, crash.                          *)

\* Connecting is the socket, its accept by run() and the exchange of keys in
\* CommModule's constructor at both ends (module Handshake).  Here it is one step
\* with one of four outcomes.  It succeeds; it waits, at a server that listens and
\* does not yet accept; it is refused; or the constructor never returns, because the
\* server ends while it has the connection in its backlog or in the exchange, or
\* because its accepting thread is held up in the exchange with a peer that went
\* away.  A step of the connecting peer that comes at "closing" stands for one that
\* was begun before close(); one that a kill cuts off is part of the kill (Crash).
\* A connection reset before anything was written to it throws, which is handled
\* like a refusal (but see ECSClient.CutOff).
Accepts(s) == proc[s] = "up"
Listens(s) == proc[s] \in {"bound", "up", "wedged"}
Refuses(s) == ~Listens(s)
Hangs(s) == proc[s] \in {"closing", "wedged"}

\* Threads of the process run.
Running(s) == proc[s] \in {"up", "wedged", "closing", "cleared"}

\* A new process.  (ProcessEnds has left its variables as a new one has them.)
Launch(s) ==
    /\ proc[s] = "down"
    /\ proc' = [proc EXCEPT ![s] = "launched"]
    /\ UNCHANGED <<znode, flags, data, topic, threads, admin>>

main(s) == Launch(s) /\ UNCHANGED second

\* A process for a server that has one.  While the first has the port the second
\* fails to bind and to register (unless no node is there: its own dies with it),
\* clears the storage file they share and exits.  A write of the first that is
\* under way when the file is cleared puts back what it has read.
mainAgain(s) ==
    /\ proc[s] # "down"
    /\ second' = [second EXCEPT ![s] = TRUE]
    /\ UNCHANGED <<proc, znode, flags, data, topic, threads, admin>>

initializeServer(s) ==
    /\ proc[s] = "launched"
    /\ proc' = [proc EXCEPT ![s] = "bound"]
    /\ UNCHANGED <<znode, second, flags, data, topic, threads, admin>>

\* run() registers under /keeper before it accepts.  A node left by an earlier
\* process whose session has not expired makes create fail, which is logged only.
\* setData, which follows create, writes the address, which only an ECS that starts
\* reads: without it that ECS ends at once, as if it had not been started yet.
register(s) ==
    /\ proc[s] = "bound"
    /\ proc' = [proc EXCEPT ![s] = "up"]
    /\ znode' = [znode EXCEPT ![s] = IF @ = "none" THEN "live" ELSE @]
    /\ UNCHANGED <<second, flags, data, topic, threads, admin>>

\* ZooKeeper removes the ephemeral node of a dead process.
SessionExpires(s) ==
    /\ znode[s] = "stale"
    /\ znode' = [znode EXCEPT ![s] = "none"]
    /\ UNCHANGED <<proc, second, flags, data, topic, threads, admin>>

\* close() made accept fail, run() leaves its loop and clears the storage.
clearKVStorage(s) ==
    /\ proc[s] = "closing"
    /\ proc' = [proc EXCEPT ![s] = "cleared"]
    /\ storage' = [storage EXCEPT ![s] = Empty]
    /\ UNCHANGED <<znode, second, flags, dataToFlush, topic, threads, admin>>

\* Fault seeded in ProcessEnds: the peers are not told.
ProcessEnds_LeavesConnections(s, cut) ==
    /\ proc' = [proc EXCEPT ![s] = "down"]
    /\ znode' = [znode EXCEPT ![s] = IF @ = "live" THEN "stale" ELSE @]
    /\ apc' = [m \in Servers |-> IF m \in cut THEN "moveHangs"
                                 ELSE IF m # s \/ apc[m] = "none" THEN apc[m] ELSE "closed"]
    /\ areq' = [areq EXCEPT ![s] = NoAdminRequest]
    /\ arep' = [arep EXCEPT ![s] = "none"]
    /\ snap' = [m \in Servers |-> IF m \in cut \cup {s} THEN Empty ELSE snap[m]]
    /\ stopped' = [stopped EXCEPT ![s] = TRUE]
    /\ writeLock' = [writeLock EXCEPT ![s] = FALSE]
    /\ metadata' = [metadata EXCEPT ![s] = {}]
    /\ dataToFlush' = [dataToFlush EXCEPT ![s] = {}]
    /\ UNCHANGED <<second, topic, threads>>

\* The process is gone, and its memory: whoever waits for it reads end of file.
\* A thread of another server that serves a request of its moveData goes on.  The
\* moves of the servers in cut, which are connecting to s, hang.
ProcessEnds(s, cut) ==
    LET ended == {p \in Peers : to[p] = s} \cup (IF pc[s] \in Serving THEN {} ELSE {s})
    IN  /\ proc' = [proc EXCEPT ![s] = "down"]
        /\ znode' = [znode EXCEPT ![s] = IF @ = "live" THEN "stale" ELSE @]
        /\ pc' = [p \in Peers |-> IF p \notin ended THEN pc[p]
                                  ELSE IF p = s \/ pc[p] = "none" THEN "none" ELSE "closed"]
        /\ req' = [p \in Peers |-> IF p \in ended THEN NoRequest ELSE req[p]]
        /\ found' = [p \in Peers |-> IF p \in ended THEN FALSE ELSE found[p]]
        /\ rep' = [p \in Peers |-> IF p \in ended THEN NoReply ELSE rep[p]]
        /\ apc' = [m \in Servers |-> IF m \in cut THEN "moveHangs"
                                     ELSE IF m # s \/ apc[m] = "none" THEN apc[m] ELSE "closed"]
        /\ areq' = [areq EXCEPT ![s] = NoAdminRequest]
        /\ arep' = [arep EXCEPT ![s] = "none"]
        /\ snap' = [m \in Servers |-> IF m \in cut \cup {s} THEN Empty ELSE snap[m]]
        /\ stopped' = [stopped EXCEPT ![s] = TRUE]
        /\ writeLock' = [writeLock EXCEPT ![s] = FALSE]
        /\ metadata' = [metadata EXCEPT ![s] = {}]
        /\ dataToFlush' = [dataToFlush EXCEPT ![s] = {}]
        /\ UNCHANGED <<second, topic, to>>

\* A thread of s is about to rewrite the storage file, or is doing so.
Flushing(s) == apc[s] = "moveFlush" \/ (apc[s] = "adminServe" /\ areq[s].type = "FLUSH")
MidWrite(s) ==
    \/ \E p \in Peers : to[p] = s /\ pc[p] = "put"
    \/ Flushing(s) /\ dataToFlush[s] # {}

secondFails(s) ==
    /\ second[s] /\ Listens(s)
    /\ second' = [second EXCEPT ![s] = FALSE]
    /\ znode' = [znode EXCEPT ![s] = IF @ = "none" THEN "stale" ELSE @]
    /\ \/ storage' = [storage EXCEPT ![s] = Empty]
       \/ MidWrite(s) /\ UNCHANGED storage
    /\ UNCHANGED <<proc, flags, dataToFlush, topic, threads, admin>>

\* Or the first has ended before the second binds.
secondTakesOver(s) ==
    /\ second[s] /\ Launch(s)
    /\ second' = [second EXCEPT ![s] = FALSE]

\* What a process that ends leaves in the file, whatever its threads are doing.
\* The file is rewritten in place, once for every key of a flush: it may be left
\* truncated, which getKVObject reads as empty, or with part of the flush done.
Interrupted(s) ==
    \/ UNCHANGED storage
    \/ MidWrite(s) /\ storage' = [storage EXCEPT ![s] = Empty]
    \/ Flushing(s) /\ \E done \in SUBSET dataToFlush[s] :
          storage' = [storage EXCEPT ![s] = [k \in Keys |-> IF k \in done THEN Null ELSE @[k]]]

\* System.exit(0).
exit(s) ==
    /\ proc[s] = "cleared"
    /\ ProcessEnds(s, {})
    /\ Interrupted(s)

\* The servers whose moveData is opening a connection to s.
MovesConnecting(s) ==
    {m \in Servers \ {s} :
        Listens(s) /\ apc[m] = "moveConnect" /\ pc[m] \notin Serving /\ areq[m].dest = s}

Crash(s) ==
    /\ MayCrash
    /\ proc[s] # "down"
    /\ \E cut \in SUBSET MovesConnecting(s) : ProcessEnds(s, cut)
    /\ Interrupted(s)

\* A peer goes away in the exchange of keys with the thread that accepts
\* connections, which stays in CommModule's constructor (or leaves run() with a
\* NullPointerException).  Connections that are open are served still.  Not
\* modelled: this happening while a SHUTDOWN is handled, after which the process
\* never ends (Handshake.ShutdownEnds).
Wedge(s) ==
    /\ MayCrash
    /\ proc[s] = "up" /\ ~(apc[s] = "adminServe" /\ areq[s].type = "SHUTDOWN")
    /\ proc' = [proc EXCEPT ![s] = "wedged"]
    /\ UNCHANGED <<znode, second, flags, data, topic, threads, admin>>

-----------------------------------------------------------------------------
(* Connections.                                                            *)

\* The thread p's connection belongs to ends: the peer reads end of file.
ThreadDies(p) ==
    /\ pc' = [pc EXCEPT ![p] = "closed"]
    /\ req' = [req EXCEPT ![p] = NoRequest]
    /\ UNCHANGED <<found, rep>>

\* The request's reply is computed and sent.
Reply(p, status, val, md) ==
    /\ pc' = [pc EXCEPT ![p] = "reply"]
    /\ rep' = [rep EXCEPT ![p] = [status |-> status, val |-> val, md |-> md]]
    /\ req' = [req EXCEPT ![p] = NoRequest]
    /\ found' = [found EXCEPT ![p] = FALSE]

Goto(p, l) ==
    /\ pc' = [pc EXCEPT ![p] = l]
    /\ UNCHANGED <<req, found, rep>>

\* p, connected, sends r.
Send(p, r) ==
    /\ pc' = [pc EXCEPT ![p] = "isStopped"]
    /\ req' = [req EXCEPT ![p] = r]
    /\ UNCHANGED <<found, rep>>

\* p has read its reply, or has no use for it: the request's data are dropped
\* and the connection is left open ("idle") or closed ("none").
Done(p, l) ==
    /\ pc' = [pc EXCEPT ![p] = l]
    /\ to' = IF l = "none" THEN [to EXCEPT ![p] = NoServer] ELSE to
    /\ rep' = [rep EXCEPT ![p] = NoReply]
    /\ UNCHANGED <<req, found>>

\* The thread serving p is at l and its process runs.
At(p, l) == pc[p] = l /\ Running(to[p])

-----------------------------------------------------------------------------
(* CommModule.serve: one action per access to shared state.                *)

serve(p) ==
    /\ At(p, "isStopped")
    /\ \/ stopped[to[p]] /\ Reply(p, "SERVER_STOPPED", Null, {})
       \/ ~stopped[to[p]] /\ req[p].type = "GET" /\ Goto(p, "inRangeGet")
       \/ ~stopped[to[p]] /\ req[p].type = "PUT" /\ Goto(p, "isWriteLock")
    /\ UNCHANGED <<process, flags, data, topic, to, admin>>

\* Fault seeded in isWriteLock: the write lock is not tested.
isWriteLock_Untested(p) ==
    /\ At(p, "isWriteLock")
    /\ \/ req[p].key \in LongKeys /\ Reply(p, "PUT_ERROR", Null, {})
       \/ req[p].key \notin LongKeys /\ Goto(p, "inRangePut")
    /\ UNCHANGED <<process, flags, data, topic, to, admin>>

\* val_len is computed from the key, so only the key's length is limited.
isWriteLock(p) ==
    /\ At(p, "isWriteLock")
    /\ \/ writeLock[to[p]] /\ Reply(p, "SERVER_WRITE_LOCK", Null, {})
       \/ ~writeLock[to[p]] /\ req[p].key \in LongKeys /\ Reply(p, "PUT_ERROR", Null, {})
       \/ ~writeLock[to[p]] /\ req[p].key \notin LongKeys /\ Goto(p, "inRangePut")
    /\ UNCHANGED <<process, flags, data, topic, to, admin>>

\* The metadata of s has no entry for s: KVServer.inRange throws, for a PUT and
\* a GET alike, and the thread closes the connection.
NoEntry(s) == s \notin metadata[s]

Responsible(s, k) == inRange(k, calc_metadata(metadata[s])[s])

\* Fault seeded in checkRange: the thread neither answers nor closes after the
\* exception.
checkRange_Swallows(p) ==
    /\ At(p, "inRangeGet") \/ At(p, "inRangePut")
    /\ LET s == to[p]
       IN  \/ ~NoEntry(s) /\ ~Responsible(s, req[p].key) /\ Goto(p, "getMetadata")
           \/ ~NoEntry(s) /\ Responsible(s, req[p].key)
                /\ Goto(p, IF pc[p] = "inRangeGet" THEN "getKV" ELSE "inStorage")
    /\ UNCHANGED <<process, flags, data, topic, to, admin>>

checkRange(p) ==
    /\ At(p, "inRangeGet") \/ At(p, "inRangePut")
    /\ LET s == to[p]
       IN  \/ NoEntry(s) /\ ThreadDies(p)
           \/ ~NoEntry(s) /\ ~Responsible(s, req[p].key) /\ Goto(p, "getMetadata")
           \/ ~NoEntry(s) /\ Responsible(s, req[p].key)
                /\ Goto(p, IF pc[p] = "inRangeGet" THEN "getKV" ELSE "inStorage")
    /\ UNCHANGED <<process, flags, data, topic, to, admin>>

\* The metadata that goes with the redirection is read after the range test.
getMetadata(p) ==
    /\ At(p, "getMetadata")
    /\ Reply(p, "SERVER_NOT_RESPONSIBLE", Null, metadata[to[p]])
    /\ UNCHANGED <<process, flags, data, topic, to, admin>>

getKV(p) ==
    /\ At(p, "getKV")
    /\ LET v == storage[to[p]][req[p].key]
       IN  Reply(p, IF v = Null THEN "GET_ERROR" ELSE "GET_SUCCESS", v, {})
    /\ UNCHANGED <<process, flags, data, topic, to, admin>>

inStorage(p) ==
    /\ At(p, "inStorage")
    /\ LET present == storage[to[p]][req[p].key] # Null
       IN  \/ /\ ~present /\ req[p].val = Null
              /\ Reply(p, "DELETE_ERROR", Null, {})
           \/ /\ present \/ req[p].val # Null
              /\ pc' = [pc EXCEPT ![p] = "pub"]
              /\ found' = [found EXCEPT ![p] = present]
              /\ UNCHANGED <<req, rep>>
    /\ UNCHANGED <<process, flags, data, topic, to, admin>>

\* Fault seeded in pub: a deletion is announced with the value deleted.
pub_OldValue(p) ==
    /\ At(p, "pub")
    /\ topic' = [topic EXCEPT ![req[p].key] =
                    [type |-> IF ~found[p] THEN "Put"
                              ELSE IF req[p].val = Null THEN "Delete" ELSE "Update",
                     val  |-> IF req[p].val = Null THEN storage[to[p]][req[p].key] ELSE req[p].val]]
    /\ Goto(p, "put")
    /\ UNCHANGED <<process, flags, data, to, admin>>

\* putKV announces the change.  Without a session, Publisher.pub throws a
\* NullPointerException, and the thread closes the connection ...
pub(p) ==
    /\ At(p, "pub")
    /\ \/ /\ to[p] \notin Brokerless
          /\ topic' = [topic EXCEPT ![req[p].key] =
                          [type |-> IF ~found[p] THEN "Put"
                                    ELSE IF req[p].val = Null THEN "Delete" ELSE "Update",
                           val  |-> req[p].val]]
          /\ Goto(p, "put")
       \/ /\ to[p] \in Brokerless
          /\ ThreadDies(p)
          /\ UNCHANGED topic
    /\ UNCHANGED <<process, flags, data, to, admin>>

\* Fault seeded in put: a key that is stored already is not overwritten.
put_KeepsOld(p) ==
    /\ At(p, "put")
    /\ storage' = [storage EXCEPT ![to[p]][req[p].key] = IF @ = Null THEN req[p].val ELSE @]
    /\ Reply(p, IF ~found[p] THEN "PUT_SUCCESS"
                ELSE IF req[p].val = Null THEN "DELETE_SUCCESS" ELSE "PUT_UPDATE",
             req[p].val, {})
    /\ UNCHANGED <<process, flags, dataToFlush, topic, to, admin>>

\* ... before it makes it.
put(p) ==
    /\ At(p, "put")
    /\ storage' = [storage EXCEPT ![to[p]][req[p].key] = req[p].val]
    /\ Reply(p, IF ~found[p] THEN "PUT_SUCCESS"
                ELSE IF req[p].val = Null THEN "DELETE_SUCCESS" ELSE "PUT_UPDATE",
             req[p].val, {})
    /\ UNCHANGED <<process, flags, dataToFlush, topic, to, admin>>

ServeStep(p) ==
    \/ serve(p) \/ isWriteLock(p) \/ checkRange(p) \/ getMetadata(p)
    \/ getKV(p) \/ inStorage(p) \/ pub(p) \/ put(p)

-----------------------------------------------------------------------------
(* CommModule.adminServe.                                                  *)

\* A new connection of the ECS to s carries the request m.  A thread that hangs in a
\* move does so for ever, and another serves the new connection.
AdminCall(s, m) ==
    /\ Accepts(s) /\ apc[s] \in {"none", "closed", "moveHangs"}
    /\ apc' = [apc EXCEPT ![s] = "adminServe"]
    /\ areq' = [areq EXCEPT ![s] = m]
    /\ UNCHANGED <<arep, snap>>

\* The ECS reads the reply and sends m on the same connection.
AdminNext(s, m) ==
    /\ apc[s] = "reply"
    /\ apc' = [apc EXCEPT ![s] = "adminServe"]
    /\ areq' = [areq EXCEPT ![s] = m]
    /\ arep' = [arep EXCEPT ![s] = "none"]
    /\ UNCHANGED snap

AdminAt(s, l) == apc[s] = l /\ Running(s)

\* A request of type t, handled in one step with reply status r.
Handle(s, t, r) ==
    /\ AdminAt(s, "adminServe") /\ areq[s].type = t
    /\ apc' = [apc EXCEPT ![s] = "reply"]
    /\ arep' = [arep EXCEPT ![s] = r]
    /\ UNCHANGED <<areq, snap, topic, znode, second, threads>>

\* A request of type t with metadata, which are stored unless they are null.
TakeMetadata(s, t, taken, refused) ==
    /\ Handle(s, t, IF areq[s].md = {} THEN refused ELSE taken)
    /\ metadata' = [metadata EXCEPT ![s] = IF areq[s].md = {} THEN @ ELSE areq[s].md]
    /\ UNCHANGED <<proc, stopped, writeLock, data>>

initKVServer(s) ==
    TakeMetadata(s, "INIT_SERVER", "INIT_SERVER_SUCCESS", "INIT_SERVER_FAILED")

setStart(s) ==
    /\ Handle(s, "START", "START_SUCCESS")
    /\ stopped' = [stopped EXCEPT ![s] = FALSE]
    /\ UNCHANGED <<proc, writeLock, metadata, data>>

setStop(s) ==
    /\ Handle(s, "STOP", "STOP_SUCCESS")
    /\ stopped' = [stopped EXCEPT ![s] = TRUE]
    /\ UNCHANGED <<proc, writeLock, metadata, data>>

\* close(): running is cleared and the listening socket closed; run() notices.
shutDown(s) ==
    /\ Handle(s, "SHUTDOWN", "SHUTDOWN_SUCCESS")
    /\ proc' = [proc EXCEPT ![s] = "closing"]
    /\ UNCHANGED <<flags, data>>

lockWrite(s) ==
    /\ Handle(s, "LOCK", "LOCK_SUCCESS")
    /\ writeLock' = [writeLock EXCEPT ![s] = TRUE]
    /\ UNCHANGED <<proc, stopped, metadata, data>>

unLockWrite(s) ==
    /\ Handle(s, "UNLOCK", "UNLOCK_SUCCESS")
    /\ writeLock' = [writeLock EXCEPT ![s] = FALSE]
    /\ UNCHANGED <<proc, stopped, metadata, data>>

update(s) == TakeMetadata(s, "UPDATE", "UPDATE_SUCCESS", "UPDATE_FAILED")

\* Fault seeded in FlushCollected: the list is emptied, the storage is not.
FlushCollected_KeepsData(s) ==
    /\ dataToFlush' = [dataToFlush EXCEPT ![s] = {}]
    /\ UNCHANGED storage

\* storage.flushData deletes the collected keys; the list starts afresh.
FlushCollected(s) ==
    /\ storage' = [storage EXCEPT ![s] =
                      [k \in Keys |-> IF k \in dataToFlush[s] THEN Null ELSE @[k]]]
    /\ dataToFlush' = [dataToFlush EXCEPT ![s] = {}]

\* The reply falls through to the empty default.  (FLUSH_FAILED is an I/O error.)
flushData(s) ==
    /\ Handle(s, "FLUSH", "FLUSH_SUCCESS")
    /\ FlushCollected(s)
    /\ UNCHANGED <<proc, flags>>

-----------------------------------------------------------------------------
(* KVServer.moveData, run by the thread that serves the ECS.               *)

MoveGoto(s, l) ==
    /\ apc' = [apc EXCEPT ![s] = l]
    /\ UNCHANGED <<areq, arep, process, topic, stopped, metadata>>

moveData(s) ==
    /\ areq[s].range # Null
    /\ AdminAt(s, "adminServe") /\ areq[s].type = "MOVE_DATA"
    /\ MoveGoto(s, "moveLock")
    /\ UNCHANGED <<snap, writeLock, data, threads>>

moveNothing(s) ==
    /\ areq[s].range = Null
    /\ Handle(s, "MOVE_DATA", "MOVE_DATA_FAILED")
    /\ UNCHANGED <<proc, flags, data>>

moveLock(s) ==
    /\ AdminAt(s, "moveLock")
    /\ writeLock' = [writeLock EXCEPT ![s] = TRUE]
    /\ MoveGoto(s, "moveSnapshot")
    /\ UNCHANGED <<snap, data, threads>>

\* The copy of the storage that moveData iterates over; what is out of the
\* range is skipped.
moveSnapshot(s) ==
    /\ AdminAt(s, "moveSnapshot")
    /\ snap' = [snap EXCEPT ![s] =
                   [k \in Keys |-> IF inRange(k, areq[s].range) THEN storage[s][k] ELSE Null]]
    /\ MoveGoto(s, "moveConnect")
    /\ UNCHANGED <<writeLock, data, threads>>

\* An exception leaves moveData without unlocking and without emptying
\* dataToFlush; the ECS is told that the move failed.
MoveFails(s) ==
    /\ apc' = [apc EXCEPT ![s] = "reply"]
    /\ arep' = [arep EXCEPT ![s] = "MOVE_DATA_FAILED"]
    /\ snap' = [snap EXCEPT ![s] = Empty]
    /\ UNCHANGED <<areq, process, topic, flags, data>>

\* The constructor of the new CommModule does not return: the lock is kept, nothing
\* is sent and the ECS gets no reply.
MoveHangs(s) ==
    /\ apc' = [apc EXCEPT ![s] = "moveHangs"]
    /\ snap' = [snap EXCEPT ![s] = Empty]
    /\ UNCHANGED <<areq, arep, process, topic, flags, data>>

\* The connection takes the place of one that an earlier process of s has left,
\* once a request still served on that one is done.
moveConnect(s) ==
    /\ AdminAt(s, "moveConnect")
    /\ pc[s] \notin Serving
    /\ \/ /\ Accepts(areq[s].dest)
          /\ pc' = [pc EXCEPT ![s] = "idle"]
          /\ to' = [to EXCEPT ![s] = areq[s].dest]
          /\ rep' = [rep EXCEPT ![s] = NoReply]
          /\ MoveGoto(s, "moveNext")
          /\ UNCHANGED <<snap, writeLock, data>>
       \/ /\ Refuses(areq[s].dest)
          /\ MoveFails(s)
          /\ UNCHANGED <<pc, to, rep>>
       \/ /\ Hangs(areq[s].dest)
          /\ MoveHangs(s)
          /\ UNCHANGED <<pc, to, rep>>
    /\ UNCHANGED <<req, found>>

\* The pairs of the snapshot that are still to be sent.
ToSend(s) == {k \in Keys : snap[s][k] # Null}

\* Faults seeded in moveNext: a pair is put on the list of what to delete and not
\* sent; or the request is forgotten and its reply awaited.
moveNext_SkipsSend(s) ==
    /\ AdminAt(s, "moveNext")
    /\ \/ /\ \E k \in ToSend(s) :
                /\ dataToFlush' = [dataToFlush EXCEPT ![s] = @ \cup {k}]
                /\ snap' = [snap EXCEPT ![s][k] = Null]
          /\ MoveGoto(s, "moveNext")
       \/ /\ ToSend(s) = {}
          /\ MoveGoto(s, "moveFlush")
          /\ UNCHANGED <<dataToFlush, snap>>
    /\ UNCHANGED <<writeLock, storage, threads>>
moveNext_AwaitsNothing(s) ==
    /\ AdminAt(s, "moveNext")
    /\ \/ /\ \E k \in ToSend(s) :
                /\ dataToFlush' = [dataToFlush EXCEPT ![s] = @ \cup {k}]
                /\ snap' = [snap EXCEPT ![s][k] = Null]
          /\ MoveGoto(s, "moveWait")
       \/ /\ ToSend(s) = {}
          /\ MoveGoto(s, "moveFlush")
          /\ UNCHANGED <<dataToFlush, snap>>
    /\ UNCHANGED <<writeLock, storage, threads>>

\* The next pair, in the arbitrary order of the JSON object's key set.
moveNext(s) ==
    /\ AdminAt(s, "moveNext")
    /\ \/ /\ \E k \in ToSend(s) :
                /\ dataToFlush' = [dataToFlush EXCEPT ![s] = @ \cup {k}]
                /\ snap' = [snap EXCEPT ![s][k] = Null]
                /\ \/ /\ pc[s] = "idle"
                      /\ Send(s, [type |-> "PUT", key |-> k, val |-> snap[s][k]])
                   \/ /\ pc[s] = "closed"
                      /\ UNCHANGED <<pc, req, found, rep>>
          /\ MoveGoto(s, "moveWait")
       \/ /\ ToSend(s) = {}
          /\ MoveGoto(s, "moveFlush")
          /\ UNCHANGED <<dataToFlush, snap, pc, req, found, rep>>
    /\ UNCHANGED <<writeLock, storage, to>>

\* Fault seeded in moveReply: a lost connection goes unnoticed.
moveReply_MissesLoss(s) ==
    /\ AdminAt(s, "moveWait") /\ pc[s] = "reply"
    /\ Done(s, "idle")
    /\ MoveGoto(s, "moveNext")
    /\ UNCHANGED <<snap, writeLock, data>>

\* Any reply will do: one that is not PUT_SUCCESS is only printed.  A lost
\* connection throws.
moveReply(s) ==
    /\ AdminAt(s, "moveWait")
    /\ \/ /\ pc[s] = "reply"
          /\ Done(s, "idle")
          /\ MoveGoto(s, "moveNext")
          /\ UNCHANGED <<snap, writeLock, data>>
       \/ /\ pc[s] = "closed"
          /\ Done(s, "none")
          /\ MoveFails(s)

moveFlush(s) ==
    /\ AdminAt(s, "moveFlush")
    /\ FlushCollected(s)
    /\ MoveGoto(s, "moveUnlock")
    /\ UNCHANGED <<snap, writeLock, threads>>

\* Fault seeded in moveUnlock: the lock is kept.
moveUnlock_KeepsLock(s) ==
    /\ AdminAt(s, "moveUnlock")
    /\ Done(s, "none")
    /\ snap' = [snap EXCEPT ![s] = Empty]
    /\ apc' = [apc EXCEPT ![s] = "reply"]
    /\ arep' = [arep EXCEPT ![s] = "MOVE_DATA_SUCCESS"]
    /\ UNCHANGED <<areq, process, topic, flags, data>>

moveUnlock(s) ==
    /\ AdminAt(s, "moveUnlock")
    /\ Done(s, "none")
    /\ writeLock' = [writeLock EXCEPT ![s] = FALSE]
    /\ snap' = [snap EXCEPT ![s] = Empty]
    /\ apc' = [apc EXCEPT ![s] = "reply"]
    /\ arep' = [arep EXCEPT ![s] = "MOVE_DATA_SUCCESS"]
    /\ UNCHANGED <<areq, process, topic, stopped, metadata, data>>

\* Points at which moveData holds a connection.
Connected == {"moveNext", "moveWait", "moveFlush", "moveUnlock"}

AdminStep(s) ==
    \/ initKVServer(s) \/ setStart(s) \/ setStop(s) \/ shutDown(s) \/ lockWrite(s)
    \/ unLockWrite(s) \/ update(s) \/ flushData(s) \/ moveData(s) \/ moveNothing(s)
    \/ moveLock(s) \/ moveSnapshot(s) \/ moveConnect(s) \/ moveNext(s) \/ moveReply(s)
    \/ moveFlush(s) \/ moveUnlock(s)

\* The main thread, and that of a second process.
RunStep(s) ==
    \/ initializeServer(s) \/ register(s) \/ clearKVStorage(s) \/ exit(s)
    \/ secondFails(s) \/ secondTakesOver(s)

\* The ECS reads the reply, or end of file.
AdminDone(s) ==
    /\ apc[s] \in {"reply", "closed"}
    /\ apc' = [apc EXCEPT ![s] = "none"]
    /\ areq' = [areq EXCEPT ![s] = NoAdminRequest]
    /\ arep' = [arep EXCEPT ![s] = "none"]
    /\ UNCHANGED snap

-----------------------------------------------------------------------------
(* Properties of the servers.                                              *)

ProcessOK ==
    /\ proc \in [Servers -> {"down", "launched", "bound", "up", "wedged", "closing", "cleared"}]
    /\ znode \in [Servers -> {"none", "live", "stale"}]
    /\ second \in [Servers -> BOOLEAN]
FlagsOK ==
    /\ stopped \in [Servers -> BOOLEAN]
    /\ writeLock \in [Servers -> BOOLEAN]
    /\ metadata \in [Servers -> SUBSET Servers]
DataOK ==
    /\ storage \in [Servers -> [Keys -> Stored]]
    /\ dataToFlush \in [Servers -> SUBSET Keys]
    /\ topic \in [Keys -> Announcements]
ThreadsOK ==
    /\ pc \in [Peers -> Serving \cup {"none", "idle", "reply", "closed"}]
    /\ to \in [Peers -> Servers]
    /\ req \in [Peers -> Requests]
    /\ found \in [Peers -> BOOLEAN]
    /\ rep \in [Peers -> Replies]
AdminOK ==
    /\ apc \in [Servers -> Moving \cup {"none", "adminServe", "reply", "closed"}]
    /\ areq \in [Servers -> AdminRequests]
    /\ arep \in [Servers -> AdminReplies]
    /\ snap \in [Servers -> [Keys -> Stored]]

TypeOK == ProcessOK /\ FlagsOK /\ DataOK /\ ThreadsOK /\ AdminOK

\* moveData has taken the write lock and not yet released it.
Locked == Moving \ {"moveLock"}

\* The write lock is set at these points.  (An UNLOCK that a second connection of an
\* administrator brought during a move would clear it: the ECS never sends one, and
\* AdminCall has one request in progress per server.)
MoveHoldsLock == \A s \in Servers : apc[s] \in Locked => writeLock[s]

\* The PUTs of s that have passed the write-lock test and not yet stored.
Writers(s) ==
    {p \in Peers : to[p] = s /\ pc[p] \in {"inRangePut", "inStorage", "pub", "put"}}

\* During a move the writers can only drain: the write lock keeps every new PUT
\* out, so the only writes that can slip under a move are those that were
\* already past the test in CommModule.serve when the lock was taken.
MoveDrainsWriters ==
    [][\A s \in Servers :
         apc[s] \in Locked /\ apc'[s] \in Locked => Writers(s)' \subseteq Writers(s)]_serverVars

\* While a move waits for the answer to one of its PUTs, that PUT is being
\* served at the destination, or answered, or the connection is lost: the
\* moving thread never waits for an answer that nobody is working on.
MoveAwaitsService ==
    \A s \in Servers :
        apc[s] = "moveWait" =>
            \/ pc[s] \in {"reply", "closed"}
            \/ pc[s] \in Serving /\ to[s] = areq[s].dest /\ proc[to[s]] # "down"

\* A connection is open, and a request is served, only at a process that runs.
ServedByRunning ==
    \A p \in Peers : pc[p] \in Serving \cup {"idle", "reply"} => Running(to[p])

\* The connection a move has opened is to its destination and stays there until
\* the move closes it; a request is on it exactly while the move waits.
MoveConnection ==
    \A s \in Servers :
        /\ apc[s] \in Connected => to[s] = areq[s].dest
        /\ apc[s] \in Connected \ {"moveWait"} => pc[s] \in {"idle", "closed"}
        /\ apc[s] = "moveWait" => pc[s] \in Serving \cup {"reply", "closed"}

\* The inductive invariant behind MoveAwaitsService and MoveDrainsWriters.
ServerInv == TypeOK /\ MoveHoldsLock /\ ServedByRunning /\ MoveConnection

\* IKVServer on moveData: "Transfer a subset (range) of the KVServer's data to
\* another KVServer".  What a move is about to delete, the destination has.
FlushedIsTransferred ==
    \A s \in Servers :
        apc[s] = "moveFlush" =>
            \A k \in dataToFlush[s] : storage[areq[s].dest][k] = storage[s][k]

\* The write lock is held only as long as a move is under way ("locked for
\* write due to reallocation of data", KVMessage): it is not left behind, which
\* would leave the server read-only.
LockOnlyWhileMoving == \A s \in Servers : writeLock[s] => apc[s] \in Moving

\* A request is answered, or its connection closed.
RequestAnswered ==
    \A p \in Clients : pc[p] = "isStopped" ~> pc[p] \in {"reply", "closed"}

\* A move ends, whatever the destination does meanwhile short of ending or being
\* wedged while it is connected to: also when it is itself moving data to this
\* server and holds its write lock.
MoveEnds ==
    \A s \in Servers : apc[s] \in Moving ~> apc[s] \in {"reply", "closed"}
=============================================================================
