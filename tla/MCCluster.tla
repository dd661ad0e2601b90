----------------------------- MODULE MCCluster -----------------------------
(***************************************************************************)
(* Instances of Cluster.                                                   *)
(***************************************************************************)
EXTENDS Cluster

AllRequests ==
    [type : {"PUT"}, key : Keys, val : Stored] \cup [type : {"GET"}, key : Keys, val : {Null}]
OnlyPuts == [type : {"PUT"}, key : Keys, val : Values]
PutsAndGets ==
    [type : {"PUT"}, key : Keys, val : Values] \cup [type : {"GET"}, key : Keys, val : {Null}]

\* Clients disconnect, or hang, before a command is given.
ClientsAway == epc \notin {"ready", "dead"} => \A c \in Clients : cst[c] \in {"off", "hung"}
=============================================================================
