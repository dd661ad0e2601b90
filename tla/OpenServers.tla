---------------------------- MODULE OpenServers ----------------------------
(***************************************************************************)
(* The servers in an unconstrained environment: any client connects to any *)
(* server and asks for anything, the administrator sends any command to    *)
(* any server at any time (one at a time per server), processes start and  *)
(* are killed at will, peers go away while they connect.  What holds here  *)
(* holds whatever the ECS and the client library do.                       *)
(***************************************************************************)
EXTENDS KVServer

CONSTANTS
    ClientRequests,  \* what clients ask for
    AdminMsgs,       \* what the administrator asks for
    Relaunch         \* whether a server may be launched while its process runs

ASSUME ClientRequestsAssumption == ClientRequests \subseteq Requests
ASSUME AdminMsgsAssumption == AdminMsgs \subseteq AdminRequests
ASSUME RelaunchAssumption == Relaunch \in BOOLEAN

\* A new connection, in place of the one the client may have.
ClientConnects(c, s) ==
    /\ pc[c] \in {"none", "idle", "closed"} /\ Accepts(s)
    /\ pc' = [pc EXCEPT ![c] = "idle"]
    /\ to' = [to EXCEPT ![c] = s]
    /\ UNCHANGED <<process, flags, data, topic, req, found, rep, admin>>

ClientSends(c, r) ==
    /\ pc[c] = "idle"
    /\ Send(c, r)
    /\ UNCHANGED <<process, flags, data, topic, to, admin>>

ClientReceives(c) ==
    /\ pc[c] = "reply"
    /\ Done(c, "idle")
    /\ UNCHANGED <<process, flags, data, topic, admin>>

ClientCloses(c) ==
    /\ pc[c] \in {"idle", "closed"}
    /\ Done(c, "none")
    /\ UNCHANGED <<process, flags, data, topic, admin>>

\* On a new connection; a START may follow another request on its connection.
AdminSends(s, m) ==
    /\ AdminCall(s, m) \/ (m.type = "START" /\ AdminNext(s, m))
    /\ UNCHANGED <<process, flags, data, topic, threads>>

AdminReceives(s) ==
    /\ AdminDone(s)
    /\ UNCHANGED <<process, flags, data, topic, threads>>

EnvironmentStep ==
    \/ \E c \in Clients :
          \/ \E s \in Servers : ClientConnects(c, s)
          \/ \E r \in ClientRequests : ClientSends(c, r)
          \/ ClientReceives(c) \/ ClientCloses(c)
    \/ \E s \in Servers :
          \/ main(s) \/ Crash(s) \/ Wedge(s) \/ AdminReceives(s)
          \/ Relaunch /\ mainAgain(s)
          \/ \E m \in AdminMsgs : AdminSends(s, m)

Next ==
    \/ \E p \in Peers : ServeStep(p)
    \/ \E s \in Servers : AdminStep(s) \/ RunStep(s) \/ SessionExpires(s)
    \/ EnvironmentStep

Spec == ServerInit /\ [][Next]_serverVars

\* The threads of a process that is alive are scheduled, and ZooKeeper expires
\* the session of a dead one.  Nothing is asked of clients and administrator.
Fairness ==
    /\ \A p \in Peers : WF_serverVars(ServeStep(p))
    /\ \A s \in Servers : /\ WF_serverVars(AdminStep(s))
                           /\ WF_serverVars(RunStep(s))
                           /\ WF_serverVars(SessionExpires(s))

FairSpec == Spec /\ Fairness
=============================================================================
