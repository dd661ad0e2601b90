------------------------------- MODULE KVMap -------------------------------
(***************************************************************************)
(* What the storage service promises its clients: one map from keys to     *)
(* values, on which every request that is answered takes effect at one     *)
(* moment between its call and its return.  A request may be refused, or   *)
(* lost with its client's connection, without effect.  Servers,            *)
(* reconfigurations and moves of data do not appear.                       *)
(***************************************************************************)
CONSTANTS Keys, Values, Null, Clients, Requests, NoCall

VARIABLES map, call, answer

vars == <<map, call, answer>>

None == [kind |-> "none", val |-> Null]
Value(v) == [kind |-> "value", val |-> v]
Stored == [kind |-> "stored", val |-> Null]
Refused == [kind |-> "refused", val |-> Null]

Init ==
    /\ map = [k \in Keys |-> Null]
    /\ call = [c \in Clients |-> NoCall]
    /\ answer = [c \in Clients |-> None]

Call(c, r) ==
    /\ call[c] = NoCall
    /\ call' = [call EXCEPT ![c] = r]
    /\ UNCHANGED <<map, answer>>

Pending(c) == call[c] # NoCall /\ answer[c] = None

Read(c) ==
    /\ Pending(c) /\ call[c].type = "GET"
    /\ answer' = [answer EXCEPT ![c] = Value(map[call[c].key])]
    /\ UNCHANGED <<map, call>>

Write(c) ==
    /\ Pending(c) /\ call[c].type = "PUT"
    /\ map' = [map EXCEPT ![call[c].key] = call[c].val]
    /\ answer' = [answer EXCEPT ![c] = Stored]
    /\ UNCHANGED call

Refuse(c) ==
    /\ Pending(c)
    /\ answer' = [answer EXCEPT ![c] = Refused]
    /\ UNCHANGED <<map, call>>

Return(c) ==
    /\ answer[c] # None
    /\ call' = [call EXCEPT ![c] = NoCall]
    /\ answer' = [answer EXCEPT ![c] = None]
    /\ UNCHANGED map

Abort(c) ==
    /\ Pending(c)
    /\ call' = [call EXCEPT ![c] = NoCall]
    /\ UNCHANGED <<map, answer>>

Next ==
    \E c \in Clients :
        \/ \E r \in Requests : Call(c, r)
        \/ Read(c) \/ Write(c) \/ Refuse(c) \/ Return(c) \/ Abort(c)

Spec == Init /\ [][Next]_vars
=============================================================================
