------------------------------ MODULE Dashboards ------------------------------
(***************************************************************************)
(* The WebSocket pool: connections of dashboards and the broadcasts to     *)
(* them.  A broadcast sends to the connections that were in the pool when  *)
(* it began, one await each, and then removes those that failed.           *)
(***************************************************************************)
EXTENDS FiniteSets

CONSTANTS
    Clients,    \* connections; a name is used again when nothing holds it
    Pushers     \* callers of broadcast

VARIABLES
    conn,    \* client -> off, open, lost (nobody noticed yet) or closed
             \* (client_state says so, the handler has not run yet)
    pool,    \* WebSocketManager._connections
    push     \* caller -> its broadcast: connections to go, and dead ones

dashboards == <<conn, pool, push>>

DashboardsTypeOK ==
    /\ conn \in [Clients -> {"off", "open", "lost", "closed"}]
    /\ pool \subseteq Clients
    /\ push \in [Pushers -> [left : SUBSET Clients, dead : SUBSET Clients]]

NoPush == [left |-> {}, dead |-> {}]

DashboardsInit ==
    /\ conn = [k \in Clients |-> "off"]
    /\ pool = {}
    /\ push = [p \in Pushers |-> NoPush]

\* Names no connection and no broadcast refers to.
Free == {k \in Clients : /\ conn[k] = "off"
                         /\ \A p \in Pushers : k \notin push[p].left \cup push[p].dead}

\* websocket_events: accepted, pooled, snapshot sent, waiting to receive.
Connect(k) ==
    /\ k \in Free /\ k = CHOOSE free \in Free : TRUE
    /\ conn' = [conn EXCEPT ![k] = "open"]
    /\ pool' = pool \cup {k}
    /\ UNCHANGED push

\* The network or the browser is gone without a word.
Lose(k) ==
    /\ conn[k] = "open"
    /\ conn' = [conn EXCEPT ![k] = "lost"]
    /\ UNCHANGED <<pool, push>>

\* receive gets the client's disconnect.
Disconnected(k) ==
    /\ conn[k] \in {"open", "lost"}
    /\ conn' = [conn EXCEPT ![k] = "closed"]
    /\ UNCHANGED <<pool, push>>

\* The handler ends: it saw the disconnect, or nothing arrived in time.
HandlerEnds(k) ==
    /\ conn[k] # "off"
    /\ conn' = [conn EXCEPT ![k] = "off"]
    /\ pool' = pool \ {k}
    /\ UNCHANGED push

Begin(p) ==
    /\ push' = [push EXCEPT ![p] = [left |-> pool, dead |-> {}]]
    /\ UNCHANGED <<conn, pool>>

\* send_text returns; what is sent to a lost connection may seem to arrive.
SendReturns(p, k) ==
    /\ k \in push[p].left
    /\ conn[k] \in {"open", "lost"}
    /\ push' = [push EXCEPT ![p].left = @ \ {k}]
    /\ UNCHANGED <<conn, pool>>

\* Not connected any more, or send_text raises.
SendFails(p, k) ==
    /\ k \in push[p].left
    /\ conn[k] # "open"
    /\ push' = [push EXCEPT ![p] = [left |-> @.left \ {k}, dead |-> @.dead \cup {k}]]
    /\ UNCHANGED <<conn, pool>>

BugFinish(p) ==
    /\ push[p].left = {}
    /\ pool' = IF push[p].dead = {} THEN pool ELSE {}
    /\ push' = [push EXCEPT ![p] = NoPush]
    /\ UNCHANGED conn

\* After the last send: the dead connections are removed.
Finish(p) ==
    /\ push[p].left = {}
    /\ pool' = pool \ push[p].dead
    /\ push' = [push EXCEPT ![p] = NoPush]
    /\ UNCHANGED conn
=============================================================================
