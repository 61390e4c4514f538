---------------------------- MODULE ConnectorSpec -----------------------------
(***************************************************************************)
(* What the remote connector promises its callers (spec 3 "Pool", 4.4),    *)
(* with the pool and the protocol left out: a set of redis nodes, one of   *)
(* which serves the requests (the master sentinel names, or the fixed     *)
(* address of a direct pool); a request either fails or is accepted, and  *)
(* it is accepted only while that node is running; at most bound          *)
(* connections are open at once; the serving node is replaced only when   *)
(* it is down, and only by a running node.                                 *)
(***************************************************************************)
EXTENDS Naturals

CONSTANTS Clients, Nodes

VARIABLES
    master,   \* the node that serves requests
    alive,    \* node -> running
    outcome,  \* client -> "none", "ok" or "err": its last request
    open,     \* connections open on the servers
    bound     \* the pool's MaxActive

vars == <<master, alive, outcome, open, bound>>

Init ==
    /\ master \in Nodes
    /\ alive = [n \in Nodes |-> TRUE]
    /\ outcome = [c \in Clients |-> "none"]
    /\ open = 0
    /\ bound \in Nat

(* A request completes; connections may be opened or closed meanwhile.    *)
Request(c) ==
    /\ outcome' \in {[outcome EXCEPT ![c] = r] :
                        r \in IF alive[master] THEN {"ok", "err"} ELSE {"err"}}
    /\ open' \in 0..bound
    /\ UNCHANGED <<master, alive, bound>>

(* Connections are opened or closed without a request completing.         *)
Connections ==
    /\ open' \in 0..bound
    /\ UNCHANGED <<master, alive, outcome, bound>>

(* A node stops; the connections to it are gone.                           *)
Stop(n) ==
    /\ alive[n]
    /\ alive' = [alive EXCEPT ![n] = FALSE]
    /\ open' \in 0..open
    /\ UNCHANGED <<master, outcome, bound>>

Start(n) ==
    /\ ~alive[n]
    /\ alive' = [alive EXCEPT ![n] = TRUE]
    /\ UNCHANGED <<master, outcome, open, bound>>

Promote ==
    /\ ~alive[master]
    /\ master' \in {n \in Nodes : alive[n]}
    /\ UNCHANGED <<alive, outcome, open, bound>>

Next ==
    \/ \E c \in Clients : Request(c)
    \/ \E n \in Nodes : Stop(n) \/ Start(n)
    \/ Connections \/ Promote

Spec == Init /\ [][Next]_vars
====
