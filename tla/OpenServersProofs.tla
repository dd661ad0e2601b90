------------------------- MODULE OpenServersProofs -------------------------
(***************************************************************************)
(* Proofs about the servers in an arbitrary environment: types, the write  *)
(* lock, the connection a move holds, and what that lock keeps out.        *)
(***************************************************************************)
EXTENDS OpenServers, TLAPS

-----------------------------------------------------------------------------
(* Types.                                                                  *)

\* The values of unused fields have the types of those fields.
LEMMA Defaults ==
    /\ NoServer \in Servers
    /\ NoRequest \in Requests
    /\ NoReply \in Replies
    /\ NoAdminRequest \in AdminRequests
    /\ Empty \in [Keys -> Stored]
  <1>1. NoServer \in Servers
    BY ServersAssumption DEF NoServer
  <1>2. NoRequest \in Requests
    <2>1. \E k \in Keys : TRUE
      BY KeysAssumption
    <2>2. (CHOOSE k \in Keys : TRUE) \in Keys
      BY <2>1
    <2> QED
      BY <2>2 DEF NoRequest, Requests, Stored
  <1>3. NoReply \in Replies
    BY DEF NoReply, Replies, Statuses, Stored
  <1>4. NoAdminRequest \in AdminRequests
    <2>1. 0 \in 0 .. RingSize
      BY RingSizeAssumption
    <2>2. NoServer \in Positions
      BY <1>1, ServersAssumption
    <2>3. [start |-> 0, end |-> NoServer] \in Ranges
      BY <2>1, <2>2 DEF Ranges
    <2> QED
      BY <1>1, <2>3 DEF NoAdminRequest, AdminRequests
  <1> QED
    BY <1>1, <1>2, <1>3, <1>4 DEF Empty, Stored

LEMMA InitTypes == ServerInit => TypeOK
  BY Defaults DEF ServerInit, TypeOK, ProcessOK, FlagsOK, DataOK, ThreadsOK, AdminOK,
                  Announcements, AdminReplies, Stored

\* What the steps of a connection do to the types of its fields.
LEMMA ReplyTypes ==
    ASSUME ThreadsOK, NEW p \in Peers, NEW status \in Statuses, NEW val \in Stored,
           NEW md \in SUBSET Servers, Reply(p, status, val, md), UNCHANGED to
    PROVE  ThreadsOK'
  <1>1. [status |-> status, val |-> val, md |-> md] \in Replies
    BY DEF Replies
  <1> QED
    BY <1>1, Defaults DEF Reply, ThreadsOK

LEMMA GotoTypes ==
    ASSUME ThreadsOK, NEW p \in Peers, NEW l \in Serving, Goto(p, l), UNCHANGED to
    PROVE  ThreadsOK'
  BY DEF Goto, ThreadsOK

LEMMA DoneTypes ==
    ASSUME ThreadsOK, NEW p \in Peers, NEW l \in {"none", "idle"}, Done(p, l)
    PROVE  ThreadsOK'
  BY Defaults DEF Done, ThreadsOK

LEMMA SendTypes ==
    ASSUME ThreadsOK, NEW p \in Peers, NEW r \in Requests, Send(p, r), UNCHANGED to
    PROVE  ThreadsOK'
  BY DEF Send, ThreadsOK, Serving

\* The request a thread serves, and the server it belongs to.
LEMMA RequestTypes ==
    ASSUME TypeOK, NEW p \in Peers
    PROVE  /\ to[p] \in Servers
           /\ req[p].key \in Keys
           /\ req[p].val \in Stored
           /\ found[p] \in BOOLEAN
           /\ storage[to[p]][req[p].key] \in Stored
           /\ metadata[to[p]] \in SUBSET Servers
  BY DEF TypeOK, FlagsOK, DataOK, ThreadsOK, Requests

\* A step of a thread that serves a request.
LEMMA ServeTypes ==
    ASSUME TypeOK, NEW p \in Peers, ServeStep(p)
    PROVE  TypeOK'
  <1> USE RequestTypes DEF TypeOK, process, flags, data, admin
  <1>1. CASE serve(p)
    <2>1. UNCHANGED <<process, flags, data, topic, to, admin>>
      BY <1>1 DEF serve
    <2>2. \/ Reply(p, "SERVER_STOPPED", Null, {})
          \/ Goto(p, "inRangeGet")
          \/ Goto(p, "isWriteLock")
      BY <1>1 DEF serve
    <2>3. ThreadsOK'
      BY <2>1, <2>2, ReplyTypes, GotoTypes DEF Statuses, Stored, Serving
    <2> QED
      BY <2>1, <2>3 DEF ProcessOK, FlagsOK, DataOK, AdminOK
  <1>2. CASE isWriteLock(p)
    <2>1. UNCHANGED <<process, flags, data, topic, to, admin>>
      BY <1>2 DEF isWriteLock
    <2>2. \/ Reply(p, "SERVER_WRITE_LOCK", Null, {})
          \/ Reply(p, "PUT_ERROR", Null, {})
          \/ Goto(p, "inRangePut")
      BY <1>2 DEF isWriteLock
    <2>3. ThreadsOK'
      BY <2>1, <2>2, ReplyTypes, GotoTypes DEF Statuses, Stored, Serving
    <2> QED
      BY <2>1, <2>3 DEF ProcessOK, FlagsOK, DataOK, AdminOK
  <1>3. CASE checkRange(p)
    <2>1. UNCHANGED <<process, flags, data, topic, to, admin>>
      BY <1>3 DEF checkRange
    <2>2. ThreadsOK'
      BY <1>3, <2>1, GotoTypes, Defaults DEF checkRange, ThreadDies, ThreadsOK, Serving
    <2> QED
      BY <2>1, <2>2 DEF ProcessOK, FlagsOK, DataOK, AdminOK
  <1>4. CASE getMetadata(p)
    <2>1. UNCHANGED <<process, flags, data, topic, to, admin>>
      BY <1>4 DEF getMetadata
    <2>2. ThreadsOK'
      BY <1>4, <2>1, ReplyTypes DEF getMetadata, Statuses, Stored
    <2> QED
      BY <2>1, <2>2 DEF ProcessOK, FlagsOK, DataOK, AdminOK
  <1>5. CASE getKV(p)
    <2>1. UNCHANGED <<process, flags, data, topic, to, admin>>
      BY <1>5 DEF getKV
    <2> DEFINE v == storage[to[p]][req[p].key]
    <2>2. Reply(p, IF v = Null THEN "GET_ERROR" ELSE "GET_SUCCESS", v, {})
      BY <1>5 DEF getKV
    <2>3. ThreadsOK'
      <3>1. (IF v = Null THEN "GET_ERROR" ELSE "GET_SUCCESS") \in Statuses
        BY DEF Statuses
      <3> HIDE DEF v
      <3>2. v \in Stored
        BY DEF v
      <3> QED
        BY <2>1, <2>2, <3>1, <3>2, ReplyTypes
    <2> QED
      BY <2>1, <2>3 DEF ProcessOK, FlagsOK, DataOK, AdminOK
  <1>6. CASE inStorage(p)
    <2>1. UNCHANGED <<process, flags, data, topic, to, admin>>
      BY <1>6 DEF inStorage
    <2>2. CASE Reply(p, "DELETE_ERROR", Null, {})
      <3>1. ThreadsOK'
        BY <2>1, <2>2, ReplyTypes DEF Statuses, Stored
      <3> QED
        BY <2>1, <3>1 DEF ProcessOK, FlagsOK, DataOK, AdminOK
    <2>3. CASE ~ Reply(p, "DELETE_ERROR", Null, {})
      <3>1. ThreadsOK'
        BY <1>6, <2>1, <2>3 DEF inStorage, ThreadsOK, Serving
      <3> QED
        BY <2>1, <3>1 DEF ProcessOK, FlagsOK, DataOK, AdminOK
    <2> QED
      BY <2>2, <2>3
  <1>7. CASE pub(p)
    <2>1. ThreadsOK'
      BY <1>7, GotoTypes, Defaults DEF pub, ThreadDies, ThreadsOK, Serving
    <2>2. DataOK'
      BY <1>7 DEF pub, DataOK, Announcements
    <2> QED
      BY <1>7, <2>1, <2>2 DEF pub, ProcessOK, FlagsOK, AdminOK
  <1>8. CASE put(p)
    <2>1. ThreadsOK'
      BY <1>8, ReplyTypes DEF put, Statuses
    <2>2. DataOK'
      BY <1>8 DEF put, DataOK
    <2> QED
      BY <1>8, <2>1, <2>2 DEF put, ProcessOK, FlagsOK, AdminOK
  <1> QED
    BY <1>1, <1>2, <1>3, <1>4, <1>5, <1>6, <1>7, <1>8 DEF ServeStep

\* The ECS's request.
LEMMA AdminRequestTypes ==
    ASSUME TypeOK, NEW s \in Servers
    PROVE  /\ areq[s].md \in SUBSET Servers
           /\ areq[s].dest \in Servers
  BY DEF TypeOK, AdminOK, AdminRequests

LEMMA HandleTypes ==
    ASSUME TypeOK, NEW s \in Servers, NEW t, NEW r \in AdminReplies, Handle(s, t, r)
    PROVE  AdminOK' /\ ThreadsOK'
  <1>1. AdminOK'
    BY DEF TypeOK, Handle, AdminOK
  <1>2. ThreadsOK'
    BY DEF TypeOK, Handle, ThreadsOK, threads
  <1> QED
    BY <1>1, <1>2

LEMMA MetadataTypes ==
    ASSUME TypeOK, NEW s \in Servers, NEW t, NEW taken \in AdminReplies,
           NEW refused \in AdminReplies, TakeMetadata(s, t, taken, refused)
    PROVE  TypeOK'
  <1> USE AdminRequestTypes DEF TypeOK, data
  <1> DEFINE r == IF areq[s].md = {} THEN refused ELSE taken
  <1>1. Handle(s, t, r)
    BY DEF TakeMetadata
  <1>2. r \in AdminReplies
    OBVIOUS
  <1>3. AdminOK' /\ ThreadsOK'
    <2> HIDE DEF r
    <2> QED
      BY <1>1, <1>2, HandleTypes
  <1>4. FlagsOK'
    BY DEF TakeMetadata, FlagsOK
  <1> QED
    BY <1>3, <1>4 DEF TakeMetadata, Handle, ProcessOK, DataOK

\* A command that is handled in one step.
LEMMA CommandTypes ==
    ASSUME TypeOK, NEW s \in Servers,
           \/ initKVServer(s) \/ setStart(s) \/ setStop(s) \/ shutDown(s)
           \/ lockWrite(s) \/ unLockWrite(s) \/ update(s) \/ flushData(s) \/ moveNothing(s)
    PROVE  TypeOK'
  <1> USE AdminRequestTypes DEF TypeOK, flags, data
  <1>1. CASE initKVServer(s)
    BY <1>1, MetadataTypes DEF initKVServer, AdminReplies
  <1>2. CASE setStart(s)
    <2>1. AdminOK' /\ ThreadsOK'
      BY <1>2, HandleTypes DEF setStart, AdminReplies
    <2>2. FlagsOK'
      BY <1>2 DEF setStart, Handle, FlagsOK
    <2> QED
      BY <1>2, <2>1, <2>2 DEF setStart, Handle, ProcessOK, DataOK
  <1>3. CASE setStop(s)
    <2>1. AdminOK' /\ ThreadsOK'
      BY <1>3, HandleTypes DEF setStop, AdminReplies
    <2>2. FlagsOK'
      BY <1>3 DEF setStop, Handle, FlagsOK
    <2> QED
      BY <1>3, <2>1, <2>2 DEF setStop, Handle, ProcessOK, DataOK
  <1>4. CASE shutDown(s)
    <2>1. AdminOK' /\ ThreadsOK'
      BY <1>4, HandleTypes DEF shutDown, AdminReplies
    <2>2. ProcessOK'
      BY <1>4 DEF shutDown, Handle, ProcessOK
    <2> QED
      BY <1>4, <2>1, <2>2 DEF shutDown, Handle, FlagsOK, DataOK
  <1>5. CASE lockWrite(s)
    <2>1. AdminOK' /\ ThreadsOK'
      BY <1>5, HandleTypes DEF lockWrite, AdminReplies
    <2>2. FlagsOK'
      BY <1>5 DEF lockWrite, Handle, FlagsOK
    <2> QED
      BY <1>5, <2>1, <2>2 DEF lockWrite, Handle, ProcessOK, DataOK
  <1>6. CASE unLockWrite(s)
    <2>1. AdminOK' /\ ThreadsOK'
      BY <1>6, HandleTypes DEF unLockWrite, AdminReplies
    <2>2. FlagsOK'
      BY <1>6 DEF unLockWrite, Handle, FlagsOK
    <2> QED
      BY <1>6, <2>1, <2>2 DEF unLockWrite, Handle, ProcessOK, DataOK
  <1>7. CASE update(s)
    BY <1>7, MetadataTypes DEF update, AdminReplies
  <1>8. CASE flushData(s)
    <2>1. AdminOK' /\ ThreadsOK'
      BY <1>8, HandleTypes DEF flushData, AdminReplies
    <2>2. DataOK'
      BY <1>8 DEF flushData, Handle, DataOK, FlushCollected, Stored
    <2> QED
      BY <1>8, <2>1, <2>2 DEF flushData, Handle, ProcessOK, FlagsOK
  <1>9. CASE moveNothing(s)
    <2>1. AdminOK' /\ ThreadsOK'
      BY <1>9, HandleTypes DEF moveNothing, AdminReplies
    <2> QED
      BY <1>9, <2>1 DEF moveNothing, Handle, ProcessOK, FlagsOK, DataOK
  <1> QED
    BY <1>1, <1>2, <1>3, <1>4, <1>5, <1>6, <1>7, <1>8, <1>9

\* The three ways a step of moveData ends.
LEMMA MoveGotoTypes ==
    ASSUME TypeOK, NEW s \in Servers, NEW l \in Moving, MoveGoto(s, l),
           snap' \in [Servers -> [Keys -> Stored]]
    PROVE  AdminOK'
  BY DEF TypeOK, AdminOK, MoveGoto

LEMMA MoveFailsTypes ==
    ASSUME TypeOK, NEW s \in Servers, MoveFails(s)
    PROVE  AdminOK'
  BY Defaults DEF TypeOK, AdminOK, MoveFails, AdminReplies

LEMMA MoveHangsTypes ==
    ASSUME TypeOK, NEW s \in Servers, MoveHangs(s)
    PROVE  AdminOK'
  BY Defaults DEF TypeOK, AdminOK, MoveHangs, Moving

\* A step of moveData.
LEMMA MoveTypes ==
    ASSUME TypeOK, NEW s \in Servers,
           \/ moveData(s) \/ moveLock(s) \/ moveSnapshot(s) \/ moveConnect(s)
           \/ moveNext(s) \/ moveReply(s) \/ moveFlush(s) \/ moveUnlock(s)
    PROVE  TypeOK'
  <1> USE AdminRequestTypes, Defaults DEF TypeOK, process, flags, data, threads
  <1>0. s \in Peers
    BY DEF Peers
  <1>1. CASE moveData(s)
    BY <1>1 DEF moveData, MoveGoto, ProcessOK, FlagsOK, DataOK, ThreadsOK, AdminOK, Moving
  <1>2. CASE moveLock(s)
    BY <1>2 DEF moveLock, MoveGoto, ProcessOK, FlagsOK, DataOK, ThreadsOK, AdminOK, Moving
  <1>3. CASE moveSnapshot(s)
    <2>1. AdminOK'
      <3>1. [k \in Keys |-> IF inRange(k, areq[s].range) THEN storage[s][k] ELSE Null]
              \in [Keys -> Stored]
        BY DEF DataOK, Stored
      <3> QED
        BY <1>3, <3>1 DEF moveSnapshot, MoveGoto, AdminOK, Moving
    <2> QED
      BY <1>3, <2>1 DEF moveSnapshot, MoveGoto, ProcessOK, FlagsOK, DataOK, ThreadsOK
  <1>4. CASE moveConnect(s)
    <2>1. ProcessOK' /\ FlagsOK' /\ DataOK'
      BY <1>4 DEF moveConnect, MoveGoto, MoveFails, MoveHangs, ProcessOK, FlagsOK, DataOK
    <2>2. AdminOK'
      <3>1. (MoveGoto(s, "moveNext") /\ UNCHANGED snap) \/ MoveFails(s) \/ MoveHangs(s)
        BY <1>4 DEF moveConnect
      <3>2. "moveNext" \in Moving
        BY DEF Moving
      <3> QED
        BY <3>1, <3>2, MoveGotoTypes, MoveFailsTypes, MoveHangsTypes DEF AdminOK
    <2>3. ThreadsOK'
      BY <1>0, <1>4 DEF moveConnect, ThreadsOK
    <2> QED
      BY <2>1, <2>2, <2>3
  <1>5. CASE moveNext(s)
    <2>1. ProcessOK' /\ FlagsOK' /\ DataOK'
      <3>1. ProcessOK' /\ FlagsOK'
        BY <1>5 DEF moveNext, MoveGoto, ProcessOK, FlagsOK
      <3>2. DataOK'
        <4>1. UNCHANGED <<storage, topic>>
          BY <1>5 DEF moveNext, MoveGoto
        <4>2. dataToFlush' \in [Servers -> SUBSET Keys]
          <5>1. \/ UNCHANGED dataToFlush
                \/ \E k \in Keys : dataToFlush' = [dataToFlush EXCEPT ![s] = @ \cup {k}]
            BY <1>5 DEF moveNext, ToSend
          <5> QED
            BY <5>1 DEF DataOK
        <4> QED
          BY <4>1, <4>2 DEF DataOK
      <3> QED
        BY <3>1, <3>2
    <2>2. AdminOK'
      <3>1. snap' \in [Servers -> [Keys -> Stored]]
        <4>1. \/ UNCHANGED snap
              \/ \E k \in Keys : snap' = [snap EXCEPT ![s][k] = Null]
          BY <1>5 DEF moveNext, ToSend
        <4> QED
          BY <4>1 DEF AdminOK, Stored
      <3>2. MoveGoto(s, "moveWait") \/ MoveGoto(s, "moveFlush")
        BY <1>5 DEF moveNext
      <3>3. "moveWait" \in Moving /\ "moveFlush" \in Moving
        BY DEF Moving
      <3> QED
        BY <3>1, <3>2, <3>3, MoveGotoTypes
    <2>3. CASE UNCHANGED <<pc, req, found, rep>>
      BY <1>5, <2>1, <2>2, <2>3 DEF moveNext, ThreadsOK
    <2>4. CASE ~ UNCHANGED <<pc, req, found, rep>>
      <3>1. PICK k \in ToSend(s) : Send(s, [type |-> "PUT", key |-> k, val |-> snap[s][k]])
        BY <1>5, <2>4 DEF moveNext
      <3>2. [type |-> "PUT", key |-> k, val |-> snap[s][k]] \in Requests
        BY DEF ToSend, Requests, AdminOK
      <3>3. ThreadsOK'
        BY <1>0, <1>5, <3>1, <3>2, SendTypes DEF moveNext
      <3> QED
        BY <2>1, <2>2, <3>3
    <2> QED
      BY <2>3, <2>4
  <1>6. CASE moveReply(s)
    <2>1. ProcessOK' /\ FlagsOK' /\ DataOK'
      BY <1>6 DEF moveReply, MoveGoto, MoveFails, ProcessOK, FlagsOK, DataOK
    <2>2. AdminOK'
      <3>1. (MoveGoto(s, "moveNext") /\ UNCHANGED snap) \/ MoveFails(s)
        BY <1>6 DEF moveReply
      <3>2. "moveNext" \in Moving
        BY DEF Moving
      <3> QED
        BY <3>1, <3>2, MoveGotoTypes, MoveFailsTypes DEF AdminOK
    <2>3. ThreadsOK'
      BY <1>0, <1>6, DoneTypes DEF moveReply
    <2> QED
      BY <2>1, <2>2, <2>3
  <1>7. CASE moveFlush(s)
    <2>1. DataOK'
      BY <1>7 DEF moveFlush, MoveGoto, FlushCollected, DataOK, Stored
    <2> QED
      BY <1>7, <2>1 DEF moveFlush, MoveGoto, ProcessOK, FlagsOK, ThreadsOK, AdminOK, Moving
  <1>8. CASE moveUnlock(s)
    <2>1. ThreadsOK'
      BY <1>0, <1>8, DoneTypes DEF moveUnlock
    <2> QED
      BY <1>8, <2>1 DEF moveUnlock, ProcessOK, FlagsOK, DataOK, AdminOK, AdminReplies
  <1> QED
    BY <1>1, <1>2, <1>3, <1>4, <1>5, <1>6, <1>7, <1>8

\* The end of a process.
LEMMA EndTypes ==
    ASSUME TypeOK, NEW s \in Servers, NEW cut \in SUBSET Servers, ProcessEnds(s, cut)
    PROVE  /\ ProcessOK' /\ FlagsOK' /\ ThreadsOK' /\ AdminOK'
           /\ storage' \in [Servers -> [Keys -> Stored]] => DataOK'
  <1> USE Defaults DEF TypeOK
  <1>1. ProcessOK'
    BY DEF ProcessEnds, ProcessOK
  <1>2. FlagsOK'
    BY DEF ProcessEnds, FlagsOK
  <1>3. ThreadsOK'
    BY DEF ProcessEnds, ThreadsOK
  <1>4. AdminOK'
    BY DEF ProcessEnds, AdminOK, AdminReplies, Moving
  <1>5. ASSUME storage' \in [Servers -> [Keys -> Stored]]
        PROVE  DataOK'
    BY <1>5 DEF ProcessEnds, DataOK
  <1> QED
    BY <1>1, <1>2, <1>3, <1>4, <1>5

\* What it leaves in the storage file.
LEMMA InterruptedTypes ==
    ASSUME TypeOK, NEW s \in Servers, Interrupted(s)
    PROVE  storage' \in [Servers -> [Keys -> Stored]]
  <1> USE Defaults DEF TypeOK, DataOK
  <1>1. CASE UNCHANGED storage
    BY <1>1
  <1>2. CASE storage' = [storage EXCEPT ![s] = Empty]
    BY <1>2
  <1>3. ASSUME NEW done \in SUBSET dataToFlush[s],
               storage' = [storage EXCEPT ![s] =
                              [k \in Keys |-> IF k \in done THEN Null ELSE @[k]]]
        PROVE  storage' \in [Servers -> [Keys -> Stored]]
    <2>1. [k \in Keys |-> IF k \in done THEN Null ELSE storage[s][k]] \in [Keys -> Stored]
      BY DEF Stored
    <2> QED
      BY <1>3, <2>1
  <1> QED
    BY <1>1, <1>2, <1>3 DEF Interrupted

\* The other steps of a process: its main thread, launch, crash, session.
LEMMA ProcessTypes ==
    ASSUME TypeOK, NEW s \in Servers,
           \/ RunStep(s) \/ SessionExpires(s) \/ main(s) \/ mainAgain(s) \/ Crash(s)
           \/ Wedge(s)
    PROVE  TypeOK'
  <1> USE Defaults DEF TypeOK, flags, data, threads, admin
  <1>1. CASE initializeServer(s)
    BY <1>1 DEF initializeServer, ProcessOK, FlagsOK, DataOK, ThreadsOK, AdminOK
  <1>2. CASE register(s)
    BY <1>2 DEF register, ProcessOK, FlagsOK, DataOK, ThreadsOK, AdminOK
  <1>3. CASE clearKVStorage(s)
    BY <1>3 DEF clearKVStorage, ProcessOK, FlagsOK, DataOK, ThreadsOK, AdminOK
  <1>4. CASE exit(s)
    BY <1>4, EndTypes, InterruptedTypes DEF exit
  <1>5. CASE SessionExpires(s)
    BY <1>5 DEF SessionExpires, ProcessOK, FlagsOK, DataOK, ThreadsOK, AdminOK
  <1>6. CASE main(s)
    BY <1>6 DEF main, Launch, ProcessOK, FlagsOK, DataOK, ThreadsOK, AdminOK
  <1>7. CASE Crash(s)
    <2>1. PICK cut \in SUBSET MovesConnecting(s) : ProcessEnds(s, cut)
      BY <1>7 DEF Crash
    <2>2. cut \in SUBSET Servers
      BY DEF MovesConnecting
    <2> QED
      BY <1>7, <2>1, <2>2, EndTypes, InterruptedTypes DEF Crash
  <1>8. CASE mainAgain(s)
    BY <1>8 DEF mainAgain, ProcessOK, FlagsOK, DataOK, ThreadsOK, AdminOK
  <1>9. CASE secondFails(s)
    <2>1. DataOK'
      <3>1. UNCHANGED storage \/ storage' = [storage EXCEPT ![s] = Empty]
        BY <1>9 DEF secondFails
      <3> QED
        BY <1>9, <3>1 DEF secondFails, DataOK
    <2>2. ProcessOK'
      BY <1>9 DEF secondFails, ProcessOK
    <2> QED
      BY <1>9, <2>1, <2>2 DEF secondFails, FlagsOK, ThreadsOK, AdminOK
  <1>10. CASE secondTakesOver(s)
    BY <1>10 DEF secondTakesOver, Launch, ProcessOK, FlagsOK, DataOK, ThreadsOK, AdminOK
  <1>11. CASE Wedge(s)
    BY <1>11 DEF Wedge, ProcessOK, FlagsOK, DataOK, ThreadsOK, AdminOK
  <1> QED
    BY <1>1, <1>2, <1>3, <1>4, <1>5, <1>6, <1>7, <1>8, <1>9, <1>10, <1>11 DEF RunStep

\* The environment's use of connections.
LEMMA ConnectionTypes ==
    ASSUME TypeOK,
           \/ \E s \in Servers : \/ AdminReceives(s)
                                 \/ \E m \in AdminMsgs : AdminSends(s, m)
           \/ \E c \in Clients :
                 \/ \E s \in Servers : ClientConnects(c, s)
                 \/ \E r \in ClientRequests : ClientSends(c, r)
                 \/ ClientReceives(c) \/ ClientCloses(c)
    PROVE  TypeOK'
  <1> USE Defaults DEF TypeOK, process, flags, data, admin
  <1>1. ASSUME NEW s \in Servers, AdminReceives(s)
        PROVE  TypeOK'
    BY <1>1 DEF AdminReceives, AdminDone, threads, ProcessOK, FlagsOK, DataOK, ThreadsOK,
                AdminOK, AdminReplies
  <1>2. ASSUME NEW s \in Servers, NEW m \in AdminMsgs, AdminSends(s, m)
        PROVE  TypeOK'
    <2>1. m \in AdminRequests
      BY AdminMsgsAssumption
    <2>2. AdminOK'
      <3>1. CASE AdminCall(s, m)
        BY <2>1, <3>1 DEF AdminCall, AdminOK
      <3>2. CASE AdminNext(s, m)
        BY <2>1, <3>2 DEF AdminNext, AdminOK, AdminReplies
      <3> QED
        BY <1>2, <3>1, <3>2 DEF AdminSends
    <2> QED
      BY <1>2, <2>2 DEF AdminSends, threads, ProcessOK, FlagsOK, DataOK, ThreadsOK
  <1>3. ASSUME NEW c \in Clients, NEW s \in Servers, ClientConnects(c, s)
        PROVE  TypeOK'
    BY <1>3 DEF ClientConnects, Peers, ProcessOK, FlagsOK, DataOK, ThreadsOK, AdminOK
  <1>4. ASSUME NEW c \in Clients, NEW r \in ClientRequests, ClientSends(c, r)
        PROVE  TypeOK'
    <2>1. ThreadsOK'
      BY <1>4, SendTypes, ClientRequestsAssumption DEF ClientSends, Peers
    <2> QED
      BY <1>4, <2>1 DEF ClientSends, ProcessOK, FlagsOK, DataOK, AdminOK
  <1>5. ASSUME NEW c \in Clients, ClientReceives(c) \/ ClientCloses(c)
        PROVE  TypeOK'
    <2>1. ThreadsOK'
      BY <1>5, DoneTypes DEF ClientReceives, ClientCloses, Peers
    <2> QED
      BY <1>5, <2>1 DEF ClientReceives, ClientCloses, ProcessOK, FlagsOK, DataOK, AdminOK
  <1> QED
    BY <1>1, <1>2, <1>3, <1>4, <1>5

LEMMA NextTypes ==
    ASSUME TypeOK, [Next]_serverVars
    PROVE  TypeOK'
  <1>1. CASE UNCHANGED serverVars
    BY <1>1 DEF serverVars, TypeOK, ProcessOK, FlagsOK, DataOK, ThreadsOK, AdminOK
  <1>2. CASE \E p \in Peers : ServeStep(p)
    BY <1>2, ServeTypes
  <1>3. CASE \E s \in Servers : AdminStep(s)
    BY <1>3, CommandTypes, MoveTypes DEF AdminStep
  <1>4. CASE \E s \in Servers : \/ RunStep(s) \/ SessionExpires(s) \/ main(s) \/ mainAgain(s)
                                \/ Crash(s) \/ Wedge(s)
    BY <1>4, ProcessTypes
  <1>5. CASE \/ \E s \in Servers : \/ AdminReceives(s)
                                   \/ \E m \in AdminMsgs : AdminSends(s, m)
             \/ \E c \in Clients :
                   \/ \E s \in Servers : ClientConnects(c, s)
                   \/ \E r \in ClientRequests : ClientSends(c, r)
                   \/ ClientReceives(c) \/ ClientCloses(c)
    BY <1>5, ConnectionTypes
  <1> QED
    BY <1>1, <1>2, <1>3, <1>4, <1>5 DEF Next, EnvironmentStep

\* Every variable of the servers keeps its type, whatever clients, other servers
\* and the administrator send (KVServer and CommModule's fields).
THEOREM TypeCorrect == Spec => []TypeOK
  <1>1. ServerInit => TypeOK
    BY InitTypes
  <1>2. TypeOK /\ [Next]_serverVars => TypeOK'
    BY NextTypes
  <1> QED
    BY <1>1, <1>2, PTL DEF Spec

-----------------------------------------------------------------------------
(* The inductive invariant.                                                *)

LEMMA InitInv == ServerInit => ServerInv
  <1> SUFFICES ASSUME ServerInit PROVE ServerInv
    OBVIOUS
  <1>1. TypeOK
    BY InitTypes
  <1>2. MoveHoldsLock
    BY DEF ServerInit, MoveHoldsLock, Locked, Moving
  <1>3. ServedByRunning
    BY DEF ServerInit, ServedByRunning, Serving
  <1>4. MoveConnection
    BY DEF ServerInit, MoveConnection, Connected
  <1> QED
    BY <1>1, <1>2, <1>3, <1>4 DEF ServerInv

\* A thread that serves a request goes on serving it, answers it or ends, and
\* leaves everything but its own connection, the storage and the topic alone.
LEMMA ServeOwn ==
    ASSUME TypeOK, NEW p \in Peers, ServeStep(p)
    PROVE  /\ pc[p] \in Serving
           /\ \E l \in Serving \cup {"reply", "closed"} : pc' = [pc EXCEPT ![p] = l]
           /\ UNCHANGED <<proc, writeLock, to, apc, areq>>
  <1> USE DEF Reply, Goto, ThreadDies, At, process, flags, admin, Serving
  <1>1. CASE serve(p)
    BY <1>1 DEF serve
  <1>2. CASE isWriteLock(p)
    BY <1>2 DEF isWriteLock
  <1>3. CASE checkRange(p)
    BY <1>3 DEF checkRange
  <1>4. CASE getMetadata(p)
    BY <1>4 DEF getMetadata
  <1>5. CASE getKV(p)
    BY <1>5 DEF getKV
  <1>6. CASE inStorage(p)
    BY <1>6 DEF inStorage
  <1>7. CASE pub(p)
    BY <1>7 DEF pub
  <1>8. CASE put(p)
    BY <1>8 DEF put
  <1> QED
    BY <1>1, <1>2, <1>3, <1>4, <1>5, <1>6, <1>7, <1>8 DEF ServeStep

LEMMA ServeInv ==
    ASSUME ServerInv, NEW p \in Peers, ServeStep(p)
    PROVE  ServerInv'
  <1> USE DEF ServerInv
  <1>1. TypeOK'
    BY ServeTypes
  <1>2. /\ pc[p] \in Serving
        /\ \E l \in Serving \cup {"reply", "closed"} : pc' = [pc EXCEPT ![p] = l]
        /\ UNCHANGED <<proc, writeLock, to, apc, areq>>
    BY ServeOwn
  <1>3. MoveHoldsLock'
    BY <1>2 DEF MoveHoldsLock
  <1>4. ServedByRunning'
    BY <1>2 DEF ServedByRunning, Running, TypeOK, ThreadsOK
  <1>5. MoveConnection'
    BY <1>2 DEF MoveConnection, TypeOK, ThreadsOK, Connected, Serving, Peers
  <1> QED
    BY <1>1, <1>3, <1>4, <1>5

LEMMA CommandInv ==
    ASSUME ServerInv, NEW s \in Servers,
           \/ initKVServer(s) \/ setStart(s) \/ setStop(s) \/ shutDown(s)
           \/ lockWrite(s) \/ unLockWrite(s) \/ update(s) \/ flushData(s) \/ moveNothing(s)
    PROVE  ServerInv'
  <1> USE DEF ServerInv
  <1>1. TypeOK'
    BY CommandTypes
  <1>2. apc' = [apc EXCEPT ![s] = "reply"] /\ UNCHANGED <<areq, pc, to>>
    BY DEF initKVServer, setStart, setStop, shutDown, lockWrite, unLockWrite, update,
           flushData, moveNothing, TakeMetadata, Handle, threads
  <1>3. UNCHANGED proc \/ proc' = [proc EXCEPT ![s] = "closing"]
    BY DEF initKVServer, setStart, setStop, shutDown, lockWrite, unLockWrite, update,
           flushData, moveNothing, TakeMetadata
  <1>4. \A t \in Servers \ {s} : writeLock'[t] = writeLock[t]
    BY DEF initKVServer, setStart, setStop, shutDown, lockWrite, unLockWrite, update,
           flushData, moveNothing, TakeMetadata, flags, TypeOK, FlagsOK
  <1>5. MoveHoldsLock'
    BY <1>2, <1>4 DEF MoveHoldsLock, Locked, Moving, TypeOK, AdminOK
  <1>6. ServedByRunning'
    BY <1>2, <1>3 DEF ServedByRunning, Running, TypeOK, ProcessOK, ThreadsOK
  <1>7. MoveConnection'
    BY <1>2 DEF MoveConnection, Connected, TypeOK, AdminOK
  <1> QED
    BY <1>1, <1>5, <1>6, <1>7

LEMMA MoveInv ==
    ASSUME ServerInv, NEW s \in Servers,
           \/ moveData(s) \/ moveLock(s) \/ moveSnapshot(s) \/ moveConnect(s)
           \/ moveNext(s) \/ moveReply(s) \/ moveFlush(s) \/ moveUnlock(s)
    PROVE  ServerInv'
  <1> USE DEF ServerInv
  <1>1. TypeOK'
    BY MoveTypes
  <1>2. s \in Peers
    BY DEF Peers
  <1>3. UNCHANGED <<proc, areq>>
    BY DEF moveData, moveLock, moveSnapshot, moveConnect, moveNext, moveReply, moveFlush,
           moveUnlock, MoveGoto, MoveFails, MoveHangs, process
  <1>4. MoveHoldsLock'
    <2>1. CASE moveLock(s)
      BY <2>1 DEF moveLock, MoveGoto, MoveHoldsLock, TypeOK, FlagsOK, AdminOK
    <2>2. CASE moveUnlock(s)
      BY <2>2 DEF moveUnlock, MoveHoldsLock, Locked, Moving, TypeOK, FlagsOK, AdminOK
    <2>3. CASE moveData(s)
      BY <2>3 DEF moveData, MoveGoto, MoveHoldsLock, Locked, TypeOK, AdminOK
    <2>4. CASE moveSnapshot(s) \/ moveConnect(s) \/ moveNext(s) \/ moveReply(s) \/ moveFlush(s)
      <3>1. apc[s] \in Locked /\ UNCHANGED writeLock
        BY <2>4 DEF moveSnapshot, moveConnect, moveNext, moveReply, moveFlush, MoveGoto,
                    MoveFails, MoveHangs, AdminAt, Locked, Moving, flags
      <3>2. \A t \in Servers \ {s} : apc'[t] = apc[t]
        BY <2>4 DEF moveSnapshot, moveConnect, moveNext, moveReply, moveFlush, MoveGoto,
                    MoveFails, MoveHangs, TypeOK, AdminOK
      <3> QED
        BY <3>1, <3>2 DEF MoveHoldsLock
    <2> QED
      BY <2>1, <2>2, <2>3, <2>4
  <1>5. \A p \in Peers \ {s} : pc'[p] = pc[p] /\ to'[p] = to[p]
    BY <1>2 DEF moveData, moveLock, moveSnapshot, moveConnect, moveNext, moveReply,
           moveFlush, moveUnlock, threads, Send, Done, TypeOK, ThreadsOK
  <1>6. \A t \in Servers \ {s} : apc'[t] = apc[t]
    BY DEF moveData, moveLock, moveSnapshot, moveConnect, moveNext, moveReply,
           moveFlush, moveUnlock, MoveGoto, MoveFails, MoveHangs, TypeOK, AdminOK
  <1>7. pc'[s] \in Serving \cup {"idle", "reply"} => Running(to'[s])
    <2>1. CASE moveData(s) \/ moveLock(s) \/ moveSnapshot(s) \/ moveFlush(s)
      BY <1>2, <2>1 DEF moveData, moveLock, moveSnapshot, moveFlush, threads, ServedByRunning
    <2>2. CASE moveConnect(s)
      BY <1>2, <2>2 DEF moveConnect, Accepts, Running, ServedByRunning, TypeOK, ThreadsOK
    <2>3. CASE moveNext(s)
      BY <1>2, <2>3 DEF moveNext, Send, ServedByRunning, TypeOK, ThreadsOK, Serving
    <2>4. CASE moveReply(s)
      BY <1>2, <2>4 DEF moveReply, Done, ServedByRunning, TypeOK, ThreadsOK, Serving
    <2>5. CASE moveUnlock(s)
      BY <1>2, <2>5 DEF moveUnlock, Done, TypeOK, ThreadsOK, Serving
    <2> QED
      BY <2>1, <2>2, <2>3, <2>4, <2>5
  <1>8. ServedByRunning'
    BY <1>3, <1>5, <1>7 DEF ServedByRunning, Running
  <1>9. /\ apc'[s] \in Connected => to'[s] = areq[s].dest
        /\ apc'[s] \in Connected \ {"moveWait"} => pc'[s] \in {"idle", "closed"}
        /\ apc'[s] = "moveWait" => pc'[s] \in Serving \cup {"reply", "closed"}
    <2> USE <1>2 DEF AdminAt, MoveGoto, MoveFails, MoveHangs, Connected, TypeOK, AdminOK,
                     ThreadsOK
    <2>1. CASE moveData(s) \/ moveLock(s) \/ moveSnapshot(s)
      BY <2>1 DEF moveData, moveLock, moveSnapshot
    <2>2. CASE moveConnect(s)
      BY <2>2 DEF moveConnect
    <2>3. CASE moveNext(s)
      BY <2>3 DEF moveNext, Send, MoveConnection, Serving
    <2>4. CASE moveReply(s)
      BY <2>4 DEF moveReply, Done, MoveConnection
    <2>5. CASE moveFlush(s)
      BY <2>5 DEF moveFlush, threads, MoveConnection
    <2>6. CASE moveUnlock(s)
      BY <2>6 DEF moveUnlock
    <2> QED
      BY <2>1, <2>2, <2>3, <2>4, <2>5, <2>6
  <1>10. MoveConnection'
    <2> SUFFICES ASSUME NEW t \in Servers
                 PROVE  /\ apc'[t] \in Connected => to'[t] = areq'[t].dest
                        /\ apc'[t] \in Connected \ {"moveWait"} => pc'[t] \in {"idle", "closed"}
                        /\ apc'[t] = "moveWait" => pc'[t] \in Serving \cup {"reply", "closed"}
      BY DEF MoveConnection
    <2>1. CASE t = s
      BY <1>3, <1>9, <2>1
    <2>2. CASE t # s
      BY <1>3, <1>5, <1>6, <2>2 DEF MoveConnection, Peers
    <2> QED
      BY <2>1, <2>2
  <1> QED
    BY <1>1, <1>4, <1>8, <1>10

\* When a process ends, its locks and moves end with it, and so do the
\* connections to it; a move that was connecting to it keeps its lock.
LEMMA EndInv ==
    ASSUME ServerInv, NEW s \in Servers, NEW cut \in SUBSET MovesConnecting(s),
           ProcessEnds(s, cut)
    PROVE  MoveHoldsLock' /\ ServedByRunning' /\ MoveConnection'
  <1> USE DEF ServerInv
  <1>0. s \notin cut /\ \A t \in cut : apc[t] = "moveConnect"
    BY DEF MovesConnecting
  <1>1. UNCHANGED to /\ apc'[s] \in {"none", "closed"}
    BY <1>0 DEF ProcessEnds, TypeOK, AdminOK
  <1>2. \A t \in Servers \ {s} : /\ areq'[t] = areq[t]
                                 /\ writeLock'[t] = writeLock[t] /\ proc'[t] = proc[t]
                                 /\ \/ apc'[t] = apc[t]
                                    \/ apc[t] = "moveConnect" /\ apc'[t] = "moveHangs"
    BY <1>0 DEF ProcessEnds, TypeOK, AdminOK, FlagsOK, ProcessOK
  <1>3. \A p \in Peers : to[p] = s => pc'[p] \in {"none", "closed"}
    BY DEF ProcessEnds
  <1>4. \A p \in Peers \ {s} : to[p] # s => pc'[p] = pc[p]
    BY DEF ProcessEnds
  <1>5. s \in Peers /\ to[s] # s => pc'[s] \in {pc[s], "none"}
    BY DEF ProcessEnds
  <1>6. \A p \in Peers \ {s} : to[p] = s => pc'[p] = IF pc[p] = "none" THEN "none" ELSE "closed"
    BY DEF ProcessEnds
  <1>7. MoveHoldsLock'
    BY <1>1, <1>2 DEF MoveHoldsLock, Locked, Moving
  <1>8. ServedByRunning'
    <2> SUFFICES ASSUME NEW p \in Peers, pc'[p] \in Serving \cup {"idle", "reply"}
                 PROVE  proc'[to[p]] \in {"up", "wedged", "closing", "cleared"}
      BY <1>1 DEF ServedByRunning, Running
    <2>1. to[p] # s
      BY <1>3 DEF Serving
    <2>2. pc'[p] = pc[p]
      BY <1>4, <1>5, <2>1 DEF Serving
    <2>3. to[p] \in Servers
      BY DEF TypeOK, ThreadsOK
    <2> QED
      BY <1>2, <2>1, <2>2, <2>3 DEF ServedByRunning, Running
  <1>9. MoveConnection'
    <2> SUFFICES ASSUME NEW t \in Servers
                 PROVE  /\ apc'[t] \in Connected => to'[t] = areq'[t].dest
                        /\ apc'[t] \in Connected \ {"moveWait"} => pc'[t] \in {"idle", "closed"}
                        /\ apc'[t] = "moveWait" => pc'[t] \in Serving \cup {"reply", "closed"}
      BY DEF MoveConnection
    <2>1. CASE t = s
      BY <1>1, <2>1 DEF Connected
    <2>2. CASE t # s
      <3>1. t \in Peers \ {s}
        BY <2>2 DEF Peers
      <3>2. pc'[t] = pc[t] \/ pc'[t] = IF pc[t] = "none" THEN "none" ELSE "closed"
        BY <1>4, <1>6, <3>1
      <3> QED
        BY <1>1, <1>2, <3>1, <3>2 DEF MoveConnection, Connected, Serving
    <2> QED
      BY <2>1, <2>2
  <1> QED
    BY <1>7, <1>8, <1>9

LEMMA ProcessInv ==
    ASSUME ServerInv, NEW s \in Servers,
           \/ RunStep(s) \/ SessionExpires(s) \/ main(s) \/ mainAgain(s) \/ Crash(s)
           \/ Wedge(s)
    PROVE  ServerInv'
  <1> USE DEF ServerInv
  <1>1. TypeOK'
    BY ProcessTypes
  <1>2. CASE exit(s) \/ Crash(s)
    <2>1. PICK cut \in SUBSET MovesConnecting(s) : ProcessEnds(s, cut)
      BY <1>2 DEF exit, Crash
    <2> QED
      BY <1>1, <2>1, EndInv
  <1>3. CASE \/ initializeServer(s) \/ register(s) \/ clearKVStorage(s)
             \/ SessionExpires(s) \/ main(s) \/ mainAgain(s)
             \/ secondFails(s) \/ secondTakesOver(s) \/ Wedge(s)
    <2>1. UNCHANGED <<writeLock, apc, areq, pc, to>>
      BY <1>3 DEF initializeServer, register, clearKVStorage, SessionExpires, main, mainAgain,
                  secondFails, secondTakesOver, Wedge, Launch, flags, threads, admin
    <2>2. MoveHoldsLock'
      BY <2>1 DEF MoveHoldsLock
    <2>3. \A t \in Servers : Running(t) => Running(t)'
      BY <1>3 DEF initializeServer, register, clearKVStorage, SessionExpires, main, mainAgain,
                  secondFails, secondTakesOver, Wedge, Launch, Running, TypeOK, ProcessOK
    <2>4. ServedByRunning'
      <3>1. \A p \in Peers : to[p] \in Servers
        BY DEF TypeOK, ThreadsOK
      <3> QED
        BY <2>1, <2>3, <3>1 DEF ServedByRunning, Running
    <2>5. MoveConnection'
      BY <2>1 DEF MoveConnection
    <2> QED
      BY <1>1, <2>2, <2>4, <2>5
  <1> QED
    BY <1>2, <1>3 DEF RunStep

LEMMA ConnectionInv ==
    ASSUME ServerInv,
           \/ \E s \in Servers : \/ AdminReceives(s)
                                 \/ \E m \in AdminMsgs : AdminSends(s, m)
           \/ \E c \in Clients :
                 \/ \E s \in Servers : ClientConnects(c, s)
                 \/ \E r \in ClientRequests : ClientSends(c, r)
                 \/ ClientReceives(c) \/ ClientCloses(c)
    PROVE  ServerInv'
  <1> USE DEF ServerInv
  <1>1. TypeOK'
    BY ConnectionTypes
  <1>2. ASSUME NEW s \in Servers,
               AdminReceives(s) \/ \E m \in AdminMsgs : AdminSends(s, m)
        PROVE  ServerInv'
    <2>1. /\ UNCHANGED <<proc, writeLock, pc, to>>
          /\ \E l \in {"none", "adminServe"} : apc' = [apc EXCEPT ![s] = l]
          /\ \E m \in AdminRequests : areq' = [areq EXCEPT ![s] = m]
      BY <1>2, AdminMsgsAssumption, Defaults
         DEF AdminReceives, AdminDone, AdminSends, AdminCall, AdminNext, process, flags,
             threads
    <2>2. MoveHoldsLock'
      BY <2>1 DEF MoveHoldsLock, Locked, Moving, TypeOK, AdminOK
    <2>3. ServedByRunning'
      BY <2>1 DEF ServedByRunning, Running
    <2>4. MoveConnection'
      BY <2>1 DEF MoveConnection, Connected, TypeOK, AdminOK
    <2> QED
      BY <1>1, <2>2, <2>3, <2>4
  <1>3. ASSUME NEW c \in Clients,
               \/ \E s \in Servers : ClientConnects(c, s)
               \/ \E r \in ClientRequests : ClientSends(c, r)
               \/ ClientReceives(c) \/ ClientCloses(c)
        PROVE  ServerInv'
    <2>1. c \in Peers /\ c \notin Servers
      BY ClientsAssumption DEF Peers
    <2>2. UNCHANGED <<proc, writeLock, apc, areq>>
      BY <1>3 DEF ClientConnects, ClientSends, ClientReceives, ClientCloses, process, flags,
                  admin
    <2>3. \A p \in Peers \ {c} : pc'[p] = pc[p] /\ to'[p] = to[p]
      BY <1>3, <2>1 DEF ClientConnects, ClientSends, ClientReceives, ClientCloses, Send, Done,
                        TypeOK, ThreadsOK
    <2>4. pc'[c] \in Serving \cup {"idle", "reply"} => Running(to'[c])
      <3>1. CASE \E s \in Servers : ClientConnects(c, s)
        BY <2>1, <3>1 DEF ClientConnects, Accepts, Running, TypeOK, ThreadsOK
      <3>2. CASE \E r \in ClientRequests : ClientSends(c, r)
        BY <2>1, <3>2 DEF ClientSends, Send, ServedByRunning, TypeOK, ThreadsOK
      <3>3. CASE ClientReceives(c)
        BY <2>1, <3>3 DEF ClientReceives, Done, ServedByRunning, TypeOK, ThreadsOK
      <3>4. CASE ClientCloses(c)
        BY <2>1, <3>4 DEF ClientCloses, Done, Serving, TypeOK, ThreadsOK
      <3> QED
        BY <1>3, <3>1, <3>2, <3>3, <3>4
    <2>5. MoveHoldsLock'
      BY <2>2 DEF MoveHoldsLock
    <2>6. ServedByRunning'
      BY <2>2, <2>3, <2>4 DEF ServedByRunning, Running
    <2>7. MoveConnection'
      BY <2>1, <2>2, <2>3 DEF MoveConnection, Peers
    <2> QED
      BY <1>1, <2>5, <2>6, <2>7
  <1> QED
    BY <1>2, <1>3

LEMMA NextInv ==
    ASSUME ServerInv, [Next]_serverVars
    PROVE  ServerInv'
  <1>1. CASE UNCHANGED serverVars
    <2>1. TypeOK'
      BY NextTypes DEF ServerInv
    <2> QED
      BY <1>1, <2>1 DEF serverVars, ServerInv, MoveHoldsLock, ServedByRunning, Running,
                        MoveConnection
  <1>2. CASE \E p \in Peers : ServeStep(p)
    BY <1>2, ServeInv
  <1>3. CASE \E s \in Servers : AdminStep(s)
    BY <1>3, CommandInv, MoveInv DEF AdminStep
  <1>4. CASE \E s \in Servers : \/ RunStep(s) \/ SessionExpires(s) \/ main(s) \/ mainAgain(s)
                                \/ Crash(s) \/ Wedge(s)
    BY <1>4, ProcessInv
  <1>5. CASE \/ \E s \in Servers : \/ AdminReceives(s)
                                   \/ \E m \in AdminMsgs : AdminSends(s, m)
             \/ \E c \in Clients :
                   \/ \E s \in Servers : ClientConnects(c, s)
                   \/ \E r \in ClientRequests : ClientSends(c, r)
                   \/ ClientReceives(c) \/ ClientCloses(c)
    BY <1>5, ConnectionInv
  <1> QED
    BY <1>1, <1>2, <1>3, <1>4, <1>5 DEF Next, EnvironmentStep

\* The invariant is inductive.
THEOREM Invariant == Spec => []ServerInv
  <1>1. ServerInit => ServerInv
    BY InitInv
  <1>2. ServerInv /\ [Next]_serverVars => ServerInv'
    BY NextInv
  <1> QED
    BY <1>1, <1>2, PTL DEF Spec

-----------------------------------------------------------------------------
(* What a move can rely on.                                                *)

\* A move that waits for the answer to a PUT waits for a thread of a process that
\* exists, or the answer or the end of the connection is there to be read
\* (KVServer.moveData, CommModule.receiveMsg).
THEOREM AwaitsService == Spec => []MoveAwaitsService
  <1>1. ServerInv => MoveAwaitsService
    <2> SUFFICES ASSUME ServerInv, NEW s \in Servers, apc[s] = "moveWait"
                 PROVE  \/ pc[s] \in {"reply", "closed"}
                        \/ pc[s] \in Serving /\ to[s] = areq[s].dest /\ proc[to[s]] # "down"
      BY DEF MoveAwaitsService
    <2>1. pc[s] \in Serving \cup {"reply", "closed"} /\ to[s] = areq[s].dest
      BY DEF ServerInv, MoveConnection, Connected
    <2>2. pc[s] \in Serving => Running(to[s])
      BY DEF ServerInv, ServedByRunning, Peers
    <2> QED
      BY <2>1, <2>2 DEF Running
  <1> QED
    BY <1>1, Invariant, PTL

\* The write lock keeps every new PUT out of a server for as long as a move is
\* under way there: the writes a move can race with are the ones that had passed
\* the test in CommModule.serve before moveData took the lock.
THEOREM DrainsWriters == Spec => MoveDrainsWriters
  <1>1. ASSUME ServerInv, [Next]_serverVars, NEW s \in Servers,
               apc[s] \in Locked, apc'[s] \in Locked
        PROVE  Writers(s)' \subseteq Writers(s)
    <2>1. writeLock[s]
      BY <1>1 DEF ServerInv, MoveHoldsLock
    <2> DEFINE W == {"inRangePut", "inStorage", "pub", "put"}
    <2> SUFFICES ASSUME NEW p \in Peers, to'[p] = s, pc'[p] \in W
                 PROVE  to[p] = s /\ pc[p] \in W
      BY DEF Writers
    <2>2. TypeOK
      BY <1>1 DEF ServerInv
    <2>3. CASE UNCHANGED serverVars
      BY <2>3 DEF serverVars
    <2>4. ASSUME NEW q \in Peers, ServeStep(q)
          PROVE  to[p] = s /\ pc[p] \in W
      <3>1. UNCHANGED to /\ \E l : pc' = [pc EXCEPT ![q] = l]
        BY <2>2, <2>4, ServeOwn
      <3>2. CASE q # p
        BY <2>2, <3>1, <3>2 DEF TypeOK, ThreadsOK
      <3>3. CASE q = p
        <4> USE <2>2, <2>4, <3>3 DEF TypeOK, ThreadsOK, At, Reply, Goto, ThreadDies
        <4>1. ~ isWriteLock(p)
          BY <2>1, <3>1 DEF isWriteLock
        <4>2. ~ (serve(p) \/ getMetadata(p) \/ getKV(p))
          BY DEF serve, getMetadata, getKV
        <4>3. CASE checkRange(p)
          BY <3>1, <4>3 DEF checkRange
        <4>4. CASE inStorage(p) \/ pub(p) \/ put(p)
          BY <3>1, <4>4 DEF inStorage, pub, put
        <4> QED
          BY <3>1, <4>1, <4>2, <4>3, <4>4 DEF ServeStep
      <3> QED
        BY <3>2, <3>3
    <2>5. ASSUME NEW t \in Servers, AdminStep(t)
          PROVE  to[p] = s /\ pc[p] \in W
      <3>1. CASE \/ initKVServer(t) \/ setStart(t) \/ setStop(t) \/ shutDown(t) \/ lockWrite(t)
                 \/ unLockWrite(t) \/ update(t) \/ flushData(t) \/ moveNothing(t) \/ moveData(t)
                 \/ moveLock(t) \/ moveSnapshot(t) \/ moveFlush(t)
        BY <3>1 DEF initKVServer, setStart, setStop, shutDown, lockWrite, unLockWrite, update,
                    TakeMetadata, flushData, moveNothing, Handle, moveData, moveLock,
                    moveSnapshot, moveFlush, threads
      <3>2. CASE moveConnect(t) \/ moveNext(t) \/ moveReply(t) \/ moveUnlock(t)
        BY <2>2, <3>2 DEF moveConnect, moveNext, moveReply, moveUnlock, Send, Done, TypeOK,
                          ThreadsOK
      <3> QED
        BY <2>5, <3>1, <3>2 DEF AdminStep
    <2>6. ASSUME NEW t \in Servers, \/ RunStep(t) \/ SessionExpires(t) \/ main(t)
                               \/ mainAgain(t) \/ Crash(t) \/ Wedge(t)
          PROVE  to[p] = s /\ pc[p] \in W
      BY <2>6 DEF RunStep, initializeServer, register, clearKVStorage, exit, secondFails,
                  secondTakesOver, SessionExpires, main, mainAgain, Launch, Crash, Wedge,
                  ProcessEnds, threads
    <2>7. CASE \/ \E t \in Servers : \/ AdminReceives(t)
                                     \/ \E m \in AdminMsgs : AdminSends(t, m)
               \/ \E c \in Clients :
                     \/ \E t \in Servers : ClientConnects(c, t)
                     \/ \E r \in ClientRequests : ClientSends(c, r)
                     \/ ClientReceives(c) \/ ClientCloses(c)
      BY <2>2, <2>7 DEF AdminReceives, AdminSends, ClientConnects, ClientSends,
                        ClientReceives, ClientCloses, Send, Done, threads, TypeOK, ThreadsOK
    <2> QED
      BY <1>1, <2>3, <2>4, <2>5, <2>6, <2>7 DEF Next, EnvironmentStep
  <1>2. ServerInv /\ [Next]_serverVars
          => [\A s \in Servers : apc[s] \in Locked /\ apc'[s] \in Locked
                => Writers(s)' \subseteq Writers(s)]_serverVars
    BY <1>1
  <1> QED
    BY <1>2, Invariant, PTL DEF Spec, MoveDrainsWriters
=============================================================================
