----------------------------- MODULE NodeService -----------------------------
(***************************************************************************)
(* GatewayNodeService (services/gateway_node_service.py): _sync copies the *)
(* lanes of RuntimeManager into the node registry.  Every gateway request  *)
(* begins with a _sync of its own, and _sync awaits the pairing table      *)
(* after each connected lane, so several of them are under way at once,    *)
(* each with the list of lanes it took at its start.                       *)
(*                                                                         *)
(* A managed node has one connection, named after it, and its platform is  *)
(* the transport of the lane, so nothing is queued for the foreground; the *)
(* queues and subscriptions of the registry are left to NodeRegistry.      *)
(***************************************************************************)
EXTENDS NodeRegistry

CONSTANT Syncs     \* _sync tasks that may be under way

ASSUME NodeServiceAssumption ==
  /\ Nodes \subseteq Nat   \* ids of lanes, in the order they were created
  /\ Conns = Nodes /\ \A n \in Nodes : Owner[n] = n

VARIABLES
  lane,        \* external: what RuntimeManager knows of each lane
  managed,     \* _managed_node_ids
  remembered,  \* _remembered_nodes_by_id of the registry
  sync,        \* each _sync task
  clean,       \* history: syncs that ran alone and saw no change
  settled,     \* history: a clean sync was the last thing to happen
  overlapped,  \* history: requests have overlapped
  steady       \* history: invokes whose lane has stayed connected since

serviceVars == <<managed, remembered, sync>>
historyVars == <<clean, settled, overlapped, steady>>
vars == <<registryVars, lane, serviceVars, historyVars>>

Exists(l) == l \in {"down", "up"}
Idle == [pc |-> "idle", view |-> [n \in Nodes |-> "unborn"], next |-> 0]

Init ==
  /\ RegistryInit
  /\ lane \in [Nodes -> {"unborn", "down", "up"}]
  /\ managed = {} /\ remembered = {}
  /\ sync = [s \in Syncs |-> Idle]
  /\ clean = {} /\ settled = FALSE /\ overlapped = FALSE /\ steady = {}

---------------------------------------------------------------------------
(* _sync.  Between two awaits the loop unregisters the lanes it finds down *)
(* and registers the first it finds up.                                    *)

Todo(view, from) == {n \in Nodes : n >= from /\ Exists(view[n])}
NextUp(view, from) ==
  {n \in Todo(view, from) : view[n] = "up"
     /\ \A o \in Todo(view, from) : view[o] = "up" => n <= o}
Visited(view, from) ==
  {n \in Todo(view, from) : \A u \in NextUp(view, from) : n <= u}

\* Mutant: every node is dropped and registered anew.
DownAll(view, from) == Visited(view, from)
Down(view, from) == Visited(view, from) \ NextUp(view, from)

\* stale: lanes that are no longer listed.
Walk(s, view, from, stale) ==
  LET up == NextUp(view, from)
      gone == (stale \cup Down(view, from)) \cap nodesByConn
  IN  /\ nodesByConn' = (nodesByConn \ gone) \cup up
      /\ nodesById' = [n \in Nodes |->
                         IF n \in up THEN [conn |-> n, commands |-> {}]
                         ELSE IF n \in gone THEN NoSession ELSE nodesById[n]]
      /\ Lose(gone)
      /\ remembered' = (remembered \ stale) \cup Visited(view, from)
      /\ sync' = [sync EXCEPT ![s] =
                    IF up = {} THEN Idle
                    ELSE [pc |-> "updating", view |-> view,
                          next |-> 1 + CHOOSE n \in up : TRUE]]
      /\ UNCHANGED <<caller, queueVars, reported, lane, steady>>

Others(s) == {o \in Syncs \ {s} : sync[o].pc # "idle"}

\* Mutant: what is no longer listed stays.
SyncStartKeeping(s) ==
  /\ sync[s].pc = "idle"
  /\ managed' = {n \in Nodes : Exists(lane[n])}
  /\ Walk(s, lane, 0, {})
  /\ clean' = IF Others(s) = {} THEN {s} ELSE {}
  /\ settled' = (Others(s) = {} /\ sync'[s].pc = "idle")
  /\ overlapped' = (overlapped \/ Others(s) # {})

SyncStart(s) ==
  LET listed == {n \in Nodes : Exists(lane[n])}
  IN  /\ sync[s].pc = "idle"
      /\ managed' = listed
      /\ Walk(s, lane, 0, managed \ listed)
      /\ clean' = IF Others(s) = {} THEN {s} ELSE {}
      /\ settled' = (Others(s) = {} /\ sync'[s].pc = "idle")
      /\ overlapped' = (overlapped \/ Others(s) # {})

\* update_paired_node_metadata is back; the walk goes on with the old list.
SyncResume(s) ==
  /\ sync[s].pc = "updating"
  /\ Walk(s, sync[s].view, sync[s].next, {})
  /\ settled' = (s \in clean /\ sync'[s].pc = "idle")
  /\ UNCHANGED <<managed, clean, overlapped>>

---------------------------------------------------------------------------
(* What else happens: lanes change, a removed device is disconnected, and  *)
(* invokes run through the registry.                                       *)

Changes(n) ==
  /\ clean' = {} /\ settled' = FALSE /\ UNCHANGED overlapped
  /\ steady' = {r \in steady : Target[r] # n}

ChangeLane(n, from, to) ==
  /\ lane[n] \in from /\ lane' = [lane EXCEPT ![n] = to]
  /\ Changes(n)
  /\ UNCHANGED <<registryVars, serviceVars>>

CreateLane(n) == ChangeLane(n, {"unborn"}, "down")
ConnectLane(n) == ChangeLane(n, {"down"}, "up")
LaneDrops(n) == ChangeLane(n, {"up"}, "down")
DeleteLane(n) == ChangeLane(n, {"down", "up"}, "deleted")

\* _disconnect_clients_for_device.
DisconnectDevice(n) ==
  /\ Connected(n) /\ Unregister(nodesById[n].conn)
  /\ Changes(n)
  /\ UNCHANGED <<lane, serviceVars>>

\* A request handler invokes when its own sync is over.
InvokeStep ==
  LET sent == {r \in Requests : caller[r] = "new" /\ caller'[r] = "waiting"}
  IN  /\ InvokeNext
      /\ sent # {} => \E s \in Syncs : sync[s].pc = "idle"
      /\ steady' = steady \cup {r \in sent : lane[Target[r]] = "up"}
      /\ overlapped' = (overlapped \/ (sent # {} /\ \E s \in Syncs : sync[s].pc # "idle"))
      /\ UNCHANGED <<lane, serviceVars, clean, settled>>

Next ==
  \/ \E s \in Syncs : SyncStart(s) \/ SyncResume(s)
  \/ \E n \in Nodes : CreateLane(n) \/ ConnectLane(n) \/ LaneDrops(n) \/ DeleteLane(n)
                      \/ DisconnectDevice(n)
  \/ InvokeStep

Spec == Init /\ [][Next]_vars

---------------------------------------------------------------------------
(* Properties.                                                             *)

\* When a sync that nothing overlapped is over, the registry knows the lanes
\* that exist and is connected to the ones that are: the catalog view calls
\* them nodes "currently connected" and "saved in the lane roster".
SyncSettles ==
  settled => /\ {n \in Nodes : Connected(n)} = {n \in Nodes : lane[n] = "up"}
             /\ remembered = {n \in Nodes : Exists(lane[n])}

\* The same holds while requests have come one after the other, lanes coming
\* and going between the awaits of a _sync all the same.
SyncSettlesAlone == overlapped \/ SyncSettles

\* As long as they have, an invoke fails with "node disconnected" only if its
\* lane was.
DisconnectsAreReal == overlapped \/ \A r \in steady : future[r] # "disconnected"
=============================================================================
