------------------------------ MODULE Cluster ------------------------------
(***************************************************************************)
(* The whole system: servers (KVServer), the configuration service         *)
(* (ECSClient) and the client library (KVStore), together with the map     *)
(* they implement (KVMap).                                                 *)
(***************************************************************************)
EXTENDS ECSClient, KVStore

CONSTANTS
    Overlap,          \* whether requests and reconfigurations may overlap
    ReplyBeforeExit   \* whether the reply to SHUTDOWN always precedes System.exit

ASSUME ClusterAssumption == Overlap \in BOOLEAN /\ ReplyBeforeExit \in BOOLEAN

VARIABLE known  \* history: the values a GET of the key may return, as far as the
                \* answers the client has seen tell (meaningful with one client)

vars == <<serverVars, ecsVars, faults, clientVars, known>>

Init ==
    /\ ServerInit
    /\ ECSInit
    /\ StoreInit
    /\ known = [k \in Keys |-> {Null}]

-----------------------------------------------------------------------------

ServersOnly == UNCHANGED <<ecsVars, faults, clientVars, known>>

ServeThread(p) == ServeStep(p) /\ ServersOnly
AdminThread(s) == AdminStep(s) /\ ServersOnly
MainThread(s) ==
    /\ RunStep(s)
    /\ ReplyBeforeExit /\ proc[s] = "cleared" => ~(asked = s /\ apc[s] = "reply")
    /\ ServersOnly
Expiry(s) == SessionExpires(s) /\ ServersOnly

\* A server is killed, with the ECS and any of the clients that connect to it at
\* that moment in its backlog or in the exchange of keys, or not.
Killed(s) ==
    /\ Crash(s) /\ Fault
    /\ UNCHANGED ecsVars \/ (Listens(s) /\ CutOff(s))
    /\ \E cut \in SUBSET {c \in Clients : Listens(s) /\ Routes(c, s)} :
          cst' = [c \in Clients |-> IF c \in cut THEN "hung" ELSE cst[c]]
    /\ UNCHANGED <<addr, cmeta, op, known>>

Wedged(s) == Wedge(s) /\ Fault /\ UNCHANGED <<ecsVars, clientVars, known>>

ECSOnly == UNCHANGED <<clientVars, known>>

\* (A call that hangs does nothing any more.)
NoRequestRuns == \A c \in Clients : cst[c] \in {"off", "ready", "hung"}

Command == NewCommand /\ (Overlap \/ NoRequestRuns) /\ ECSOnly
ECSThread == CommandStep /\ ECSOnly
ECSRestart == Restart /\ ECSOnly
ECSDies == ECSKilled /\ ECSOnly

ClientsOnly == UNCHANGED <<ecsVars, faults>>

ClientConnects(c, s) == connect(c, s) /\ ClientsOnly /\ UNCHANGED known
ClientDisconnects(c) == disconnect(c) /\ ClientsOnly /\ UNCHANGED known
ClientRequest(c, r) ==
    /\ Overlap \/ epc = "ready"
    /\ request(c, r)
    /\ ClientsOnly /\ UNCHANGED known

Effective == {"PUT_SUCCESS", "PUT_UPDATE", "DELETE_SUCCESS", "DELETE_ERROR",
              "GET_SUCCESS", "GET_ERROR"}

\* An answer settles the value; a PUT that fails without an answer may or may
\* not have been stored.
Learn(c) ==
    known' = [known EXCEPT ![op[c].key] =
                 IF pc[c] = "reply" /\ rep[c].status \in Effective THEN {rep[c].val}
                 ELSE IF cst'[c] = "off" /\ op[c].type = "PUT" THEN @ \cup {op[c].val}
                 ELSE @]

ClientThread(c) == StoreStep(c) /\ Learn(c) /\ ClientsOnly

Next ==
    \/ \E p \in Peers : ServeThread(p)
    \/ \E s \in Servers : \/ AdminThread(s) \/ MainThread(s) \/ Expiry(s) \/ Killed(s)
                           \/ Wedged(s)
    \/ Command \/ ECSThread \/ ECSRestart \/ ECSDies
    \/ \E c \in Clients :
          \/ \E s \in Servers : ClientConnects(c, s)
          \/ \E r \in ClientRequests : ClientRequest(c, r)
          \/ ClientDisconnects(c) \/ ClientThread(c)

Spec == Init /\ [][Next]_vars

\* Threads are scheduled, ZooKeeper expires dead sessions, the ECS goes on with
\* a command it has begun and a client with a request it has made.  Nobody has
\* to give a command, make a request, connect or restart the ECS.
Fairness ==
    /\ \A p \in Peers : WF_vars(ServeThread(p))
    /\ \A s \in Servers : /\ WF_vars(AdminThread(s))
                          /\ WF_vars(MainThread(s))
                          /\ WF_vars(Expiry(s))
    /\ WF_vars(ECSThread)
    /\ \A c \in Clients : WF_vars(ClientThread(c))

FairSpec == Spec /\ Fairness

-----------------------------------------------------------------------------
(* Properties.                                                             *)

ClusterTypeOK ==
    /\ TypeOK /\ ECSTypeOK /\ StoreTypeOK
    /\ known \in [Keys -> SUBSET Stored]

\* A GET returns what the last successful PUT stored, wherever the key has been
\* moved to in between (KVStore.get; one client).
ReadsLastWrite ==
    [][\A c \in Clients :
         replied(c) /\ op[c].type = "GET" /\ rep[c].status \in Effective
             => rep[c].val \in known[op[c].key]]_vars

\* Between commands every active server is up and holds the ECS's metadata,
\* which is that of the active servers; so any of them redirects a client to
\* the server that has the key (UpdateAllNodesMeta).
MetadataAgreement ==
    ECSIdle => /\ ecsMeta = activeServers \/ activeServers = {}
               /\ \A s \in activeServers : proc[s] = "up" /\ metadata[s] = activeServers

\* Between commands, with no request running, every pair is at one server
\* only, an active one that is responsible for it: moves leave no copy behind
\* that a later reconfiguration could bring back.
Placement ==
    ECSIdle /\ NoRequestRuns =>
        \A k \in Keys :
            LET holders == {s \in Servers : storage[s][k] # Null}
            IN  /\ \A s, t \in holders : s = t
                /\ \A s \in holders : s \in activeServers /\ s \in Owners(k, activeServers)

\* A condition on the operator, not on the code: when removeNode tells a server to move
\* its data to the heir, the heir has not been stopped (or has been started again).
\* moveData loses the data otherwise.
HeirStarted == epc = "leave" => ~stopped[peer]

\* The value of k, at whichever server it is.
View(k) ==
    IF \E s \in Servers : storage[s][k] # Null
    THEN storage[CHOOSE s \in Servers : storage[s][k] # Null][k]
    ELSE Null

\* The last notification about a key says what is stored (putKV).
LastAnnouncementIsCurrent ==
    NoRequestRuns => \A k \in Keys : topic[k].val = View(k)

NoCall == [type |-> "none", key |-> NoRequest.key, val |-> Null]
CallOf(c) == IF cst[c] \in {"route", "send", "wait", "hung"} THEN op[c] ELSE NoCall
AnswerOf(c) ==
    [kind |-> IF pc[c] # "reply" \/ rep[c].status = "SERVER_NOT_RESPONSIBLE" THEN "none"
              ELSE IF rep[c].status \in {"GET_SUCCESS", "GET_ERROR"} THEN "value"
              ELSE IF rep[c].status \in Effective THEN "stored" ELSE "refused",
     val  |-> IF pc[c] = "reply" /\ rep[c].status = "GET_SUCCESS" THEN rep[c].val ELSE Null]

Map == INSTANCE KVMap WITH
    Requests <- ClientRequests,
    map <- [k \in Keys |-> View(k)],
    call <- [c \in Clients |-> CallOf(c)],
    answer <- [c \in Clients |-> AnswerOf(c)]

\* The cluster implements the map: to its clients, requests are atomic, and
\* reconfigurations are invisible.
ImplementsMap == Map!Spec

Open == INSTANCE OpenServers WITH AdminMsgs <- ECSMessages, Relaunch <- TRUE

\* The servers, as the ECS and the client library use them, behave as servers do
\* in an arbitrary environment, so that what is proved there (OpenServersProofs)
\* holds here.
ServersAreOpen == Open!Spec

\* A request that is under way when reconfigurations have ceased, or is made then,
\* comes to an end: a client is not redirected to and fro for ever by servers whose
\* metadata differ, whatever it and they held when the last command ended (the loop
\* of KVStore.put and get), and does not hang connecting to one of them.  (A request
\* that connects to a server while removeNode shuts it down may hang, see
\* Handshake.ConnectReturns: it is then "hung" before the command ends.)
RequestEnds ==
    \A c \in Clients :
        []ECSIdle /\ cst[c] \in {"route", "send", "wait"} ~> cst[c] \in {"ready", "off"}

\* A command comes to an end, or the ECS hangs in the constructor of CommModule, its
\* own or that of a server it has told to move data (which it does, see
\* Handshake.ConnectReturns, when the other end is killed at that moment): there is
\* nothing else it waits for for ever, whichever process is killed when.
CommandEnds == epc \notin {"ready", "dead"} ~> epc \in {"ready", "dead"} \/ Hung
=============================================================================
