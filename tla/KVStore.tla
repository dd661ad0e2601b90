------------------------------ MODULE KVStore ------------------------------
(***************************************************************************)
(* The client library KVStore, driven by the command-line client: it       *)
(* routes a request by its own copy of the metadata, and takes the copy of *)
(* the server that redirects it.                                           *)
(*                                                                         *)
(* A client that meets an exception (a lost connection, a refused one) is  *)
(* "off": the program ends, or asks its user to connect again, which makes *)
(* a new KVStore.                                                          *)
(***************************************************************************)
EXTENDS KVServer

CONSTANT ClientRequests  \* what clients ask for
ASSUME ClientRequestsAssumption == ClientRequests \subseteq Requests

VARIABLES
    cst,    \* "off", "ready" (for a command), "route", "send", "wait" (for a reply), "hung"
    addr,   \* KVStore.address and port
    cmeta,  \* KVStore.metadata
    op      \* the request of the current command

clientVars == <<cst, addr, cmeta, op>>

StoreInit ==
    /\ cst = [c \in Clients |-> "off"]
    /\ addr = [c \in Clients |-> NoServer]
    /\ cmeta = [c \in Clients |-> {}]
    /\ op = [c \in Clients |-> NoRequest]

\* What a client's step leaves alone in the servers.
ClientOnly == UNCHANGED <<process, flags, data, topic, admin>>

\* A new KVStore and its connection.  Its metadata gives the server the whole
\* ring, which is what the metadata of a lone server says.  (One that is refused, or
\* whose constructor never returns, is a client that stays off.)
connect(c, s) ==
    /\ cst[c] = "off" /\ pc[c] = "none"
    /\ Accepts(s)
    /\ pc' = [pc EXCEPT ![c] = "idle"]
    /\ to' = [to EXCEPT ![c] = s]
    /\ cst' = [cst EXCEPT ![c] = "ready"]
    /\ addr' = [addr EXCEPT ![c] = s]
    /\ cmeta' = [cmeta EXCEPT ![c] = {s}]
    /\ UNCHANGED <<op, req, found, rep>>
    /\ ClientOnly

disconnect(c) ==
    /\ cst[c] = "ready"
    /\ Done(c, "none")
    /\ cst' = [cst EXCEPT ![c] = "off"]
    /\ addr' = [addr EXCEPT ![c] = NoServer]
    /\ cmeta' = [cmeta EXCEPT ![c] = {}]
    /\ UNCHANGED op
    /\ ClientOnly

\* A put or get is called.
request(c, r) ==
    /\ cst[c] = "ready"
    /\ op' = [op EXCEPT ![c] = r]
    /\ cst' = [cst EXCEPT ![c] = "route"]
    /\ UNCHANGED <<addr, cmeta, threads>>
    /\ ClientOnly

\* An exception ends the request and the connection.
Fails(c) ==
    /\ Done(c, "none")
    /\ cst' = [cst EXCEPT ![c] = "off"]
    /\ addr' = [addr EXCEPT ![c] = NoServer]
    /\ cmeta' = [cmeta EXCEPT ![c] = {}]
    /\ op' = [op EXCEPT ![c] = NoRequest]

\* Looks up the server of the key (a match is found, every position being
\* covered) and changes the connection if it is another one.  A connection that
\* is refused is only logged.
connectCorrServer(c) ==
    /\ cst[c] = "route"
    /\ \E s \in Owners(op[c].key, cmeta[c]) :
          /\ addr' = [addr EXCEPT ![c] = s]
          /\ \/ s = addr[c] /\ UNCHANGED <<pc, to, rep>>
             \/ /\ s # addr[c] /\ Accepts(s)
                /\ pc' = [pc EXCEPT ![c] = "idle"]
                /\ to' = [to EXCEPT ![c] = s]
                /\ UNCHANGED rep
             \/ s # addr[c] /\ Refuses(s) /\ Done(c, "none")
    /\ cst' = [cst EXCEPT ![c] = "send"]
    /\ UNCHANGED <<cmeta, op, req, found>>
    /\ ClientOnly

\* c is about to change its connection to s.
Routes(c, s) == cst[c] = "route" /\ s \in Owners(op[c].key, cmeta[c]) /\ s # addr[c]

\* The constructor of the new connection does not return: the call of put or get
\* never ends.  (The old connection, which it has closed first, is left as it is: it
\* is idle, and nobody uses it again.)
callHangs(c) ==
    /\ \E s \in Servers : Routes(c, s) /\ Hangs(s)
    /\ cst' = [cst EXCEPT ![c] = "hung"]
    /\ UNCHANGED <<addr, cmeta, op, threads>>
    /\ ClientOnly

\* Fault seeded in sendMsg: a closed connection is not noticed.
sendMsg_OnClosed(c) ==
    /\ cst[c] = "send"
    /\ Send(c, op[c])
    /\ cst' = [cst EXCEPT ![c] = "wait"]
    /\ UNCHANGED <<to, addr, cmeta, op>>
    /\ ClientOnly

\* The request is sent, which fails if the connection is closed.
sendMsg(c) ==
    /\ cst[c] = "send"
    /\ \/ /\ pc[c] = "idle"
          /\ Send(c, op[c])
          /\ cst' = [cst EXCEPT ![c] = "wait"]
          /\ UNCHANGED <<to, addr, cmeta, op>>
       \/ pc[c] # "idle" /\ Fails(c)
    /\ ClientOnly

\* Fault seeded in redirected: the client keeps its own metadata.
redirected_KeepsMetadata(c) ==
    /\ cst[c] = "wait" /\ pc[c] = "reply"
    /\ rep[c].status = "SERVER_NOT_RESPONSIBLE"
    /\ Done(c, "idle")
    /\ cst' = [cst EXCEPT ![c] = "route"]
    /\ UNCHANGED <<addr, cmeta, op>>
    /\ ClientOnly

\* SERVER_NOT_RESPONSIBLE: take the metadata that came with it and try again.
redirected(c) ==
    /\ cst[c] = "wait" /\ pc[c] = "reply"
    /\ rep[c].status = "SERVER_NOT_RESPONSIBLE"
    /\ cmeta' = [cmeta EXCEPT ![c] = rep[c].md]
    /\ Done(c, "idle")
    /\ cst' = [cst EXCEPT ![c] = "route"]
    /\ UNCHANGED <<addr, op>>
    /\ ClientOnly

\* Any other reply is returned to the caller.
replied(c) ==
    /\ cst[c] = "wait" /\ pc[c] = "reply"
    /\ rep[c].status # "SERVER_NOT_RESPONSIBLE"
    /\ Done(c, "idle")
    /\ cst' = [cst EXCEPT ![c] = "ready"]
    /\ op' = [op EXCEPT ![c] = NoRequest]
    /\ UNCHANGED <<addr, cmeta>>
    /\ ClientOnly

\* The connection is lost: receiveMsg returns null.
lost(c) ==
    /\ cst[c] = "wait" /\ pc[c] = "closed"
    /\ Fails(c)
    /\ ClientOnly

\* The steps a client takes by itself once a request is made.
StoreStep(c) ==
    connectCorrServer(c) \/ callHangs(c) \/ sendMsg(c) \/ redirected(c) \/ replied(c) \/ lost(c)

-----------------------------------------------------------------------------

StoreTypeOK ==
    /\ cst \in [Clients -> {"off", "ready", "route", "send", "wait", "hung"}]
    /\ addr \in [Clients -> Servers]
    /\ cmeta \in [Clients -> SUBSET Servers]
    /\ op \in [Clients -> Requests]
=============================================================================
