--------------------------- MODULE MCOpenServers ---------------------------
(***************************************************************************)
(* Instances of OpenServers: servers at positions 4 and 8 of a ring of 12. *)
(***************************************************************************)
EXTENDS OpenServers

Msg(t) == [NoAdminRequest EXCEPT !.type = t]

\* The whole ring, as the range of a lone node at 4.
Everything == [start |-> 5, end |-> 4]

\* Keys 2 and 3: the range of 4 has both, that of 8 has 3.  A client writes 3, which
\* both servers take for theirs, and reads 2.  Either server can be told at any time
\* to move everything to the other, so that they send data to each other at once.
MoveRequests ==
    [type : {"PUT"}, key : {3}, val : Values] \cup [type : {"GET"}, key : {2}, val : {Null}]
MoveMsgs ==
    {Msg("START"), [Msg("INIT_SERVER") EXCEPT !.md = Servers]}
        \cup {[Msg("MOVE_DATA") EXCEPT !.dest = s, !.range = Everything] : s \in Servers}

\* Not to itself (OpenCommands has that).
ToOther ==
    \A s \in Servers : apc[s] = "adminServe" /\ areq[s].type = "MOVE_DATA" => areq[s].dest # s

\* Every request and every command to a lone server at 4, which can also be told
\* to move its data to itself; the commands with null arguments too.
AllRequests ==
    [type : {"PUT"}, key : Keys, val : Stored] \cup [type : {"GET"}, key : Keys, val : {Null}]
AllMsgs ==
    {Msg(t) : t \in {"START", "STOP", "SHUTDOWN", "LOCK", "UNLOCK", "FLUSH"}}
        \cup {[Msg(t) EXCEPT !.md = m] : t \in {"INIT_SERVER", "UPDATE"}, m \in {{}, {4}}}
        \cup {[Msg("MOVE_DATA") EXCEPT !.range = r] : r \in {Everything, Null}}
=============================================================================
