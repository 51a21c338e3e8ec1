------------------------ MODULE RuntimeRefreshProofs ------------------------
(* Proofs about RuntimeRefresh for any connecting and disconnecting tasks  *)
(* and any number of clients, drains and events.                           *)
EXTENDS RuntimeRefresh, FiniteSetTheorems, TLAPS

\* The types of what the proofs are about.
LinkType == client \in 0..MaxClients /\ connected \in BOOLEAN /\ clients \in 0..MaxClients
DrainType ==
  /\ refreshTask \in 0..MaxDrains /\ drains \in 0..MaxDrains /\ clobbered \in BOOLEAN
  /\ DOMAIN drain = Drains /\ drain = [d \in Drains |-> drain[d]]

\* A drain at work is the one the runtime knows, unless fields were clobbered.
TheDrain == clobbered \/ \A d \in Drains : AtWork(d) => refreshTask = d

RuntimeInv == LinkType /\ DrainType /\ ConnectedHasClient /\ TheDrain

LEMMA Bounds == MaxClients \in Nat /\ MaxDrains \in Nat
BY RuntimeAssumption

LEMMA RuntimeStarts == RuntimeInit => RuntimeInv
<1> SUFFICES ASSUME RuntimeInit PROVE RuntimeInv
  OBVIOUS
<1>1. 0 \in 0..MaxClients /\ 0 \in 0..MaxDrains
  BY Bounds
<1>2. LinkType /\ ConnectedHasClient
  BY <1>1, Zenon DEF RuntimeInit, LinkType, ConnectedHasClient
<1>3. TheDrain
  BY DEF RuntimeInit, TheDrain, AtWork, Away
<1>4. DrainType
  <2>1. DOMAIN drain = Drains /\ drain = [d \in Drains |-> drain[d]]
    BY DEF RuntimeInit
  <2>2. refreshTask \in 0..MaxDrains /\ drains \in 0..MaxDrains /\ clobbered \in BOOLEAN
    BY <1>1, Zenon DEF RuntimeInit
  <2> QED
    BY <2>1, <2>2, Zenon DEF DrainType
<1> QED
  BY <1>2, <1>3, <1>4 DEF RuntimeInv

\* A step that leaves the drains alone keeps what is said of them.
LEMMA DrainsAlone ==
  ASSUME RuntimeInv, UNCHANGED <<drainVars, clobbered>>
  PROVE  DrainType' /\ TheDrain'
BY DEF RuntimeInv, DrainType, TheDrain, AtWork, drainVars

LEMMA CancelKeeps ==
  ASSUME RuntimeInv, CancelDrain, UNCHANGED clobbered
  PROVE  DrainType' /\ TheDrain'
<1>1. DrainType'
  BY Bounds DEF RuntimeInv, DrainType, CancelDrain
<1>2. ASSUME ~clobbered, NEW d \in Drains PROVE ~AtWork(d)'
  <2>1. AtWork(d) => refreshTask = d /\ Live(d)
    BY <1>2 DEF RuntimeInv, TheDrain, Live, Drains
  <2> QED
    BY <1>2, <2>1 DEF RuntimeInv, DrainType, CancelDrain, AtWork
<1> QED
  BY <1>1, <1>2 DEF TheDrain

LEMMA ScheduleKeeps ==
  ASSUME RuntimeInv, Schedule, UNCHANGED clobbered
  PROVE  DrainType' /\ TheDrain'
<1>1. CASE Live(refreshTask)
  BY <1>1 DEF RuntimeInv, DrainType, TheDrain, AtWork, Schedule
<1>2. CASE ~Live(refreshTask)
  <2>1. /\ drains + 1 \in Drains /\ drains + 1 \in 0..MaxDrains
        /\ drains' = drains + 1 /\ refreshTask' = drains + 1
        /\ drain' = [drain EXCEPT ![drains + 1] = [pc |-> "created"]]
    BY <1>2, Bounds DEF RuntimeInv, DrainType, Schedule, Drains
  <2>2. DrainType'
    BY <2>1 DEF RuntimeInv, DrainType
  <2>3. ASSUME ~clobbered, NEW d \in Drains, AtWork(d)' PROVE refreshTask' = d
    <3>1. ~AtWork(d)
      BY <1>2, <2>3 DEF RuntimeInv, TheDrain, Live, Drains
    <3> QED
      BY <2>1, <2>3, <3>1 DEF RuntimeInv, DrainType, AtWork
  <2> QED
    BY <2>2, <2>3 DEF TheDrain
<1> QED
  BY <1>1, <1>2

\* A drain that ends is at work no more, and any other would be the one the
\* runtime knew.
LEMMA OverKeeps ==
  ASSUME RuntimeInv, NEW d \in Drains, DrainOver(d), UNCHANGED drains
  PROVE  DrainType' /\ TheDrain'
<1>1. DrainType'
  BY Bounds DEF RuntimeInv, DrainType, DrainOver
<1>2. ASSUME ~clobbered', NEW e \in Drains PROVE ~AtWork(e)'
  <2>1. CASE e = d
    BY <2>1 DEF DrainOver, AtWork, RuntimeInv, DrainType
  <2>2. CASE e # d
    <3>1. ~clobbered /\ (refreshTask = d \/ ~Live(refreshTask))
      BY <1>2 DEF DrainOver, RuntimeInv, DrainType
    <3>2. ~AtWork(e)
      BY <2>2, <3>1 DEF RuntimeInv, TheDrain, Live, Drains
    <3> QED
      BY <2>2, <3>2 DEF DrainOver, AtWork, RuntimeInv, DrainType
  <2> QED
    BY <2>1, <2>2
<1> QED
  BY <1>1, <1>2 DEF TheDrain

\* A drain that goes on is the one it was.
LEMMA GoesOn ==
  ASSUME RuntimeInv, NEW d \in Drains, AtWork(d), NEW where,
         drain' = [drain EXCEPT ![d] = where],
         UNCHANGED <<refreshTask, drains, clobbered>>
  PROVE  DrainType' /\ TheDrain'
BY DEF RuntimeInv, DrainType, TheDrain, AtWork

LEMMA RuntimeStep == RuntimeInv /\ [RuntimeNext]_runtimeVars => RuntimeInv'
<1> SUFFICES ASSUME RuntimeInv, [RuntimeNext]_runtimeVars PROVE RuntimeInv'
  OBVIOUS
<1> USE DEF RuntimeInv
<1>1. ASSUME NEW c \in Connectors, Connect(c) PROVE RuntimeInv'
  <2>1. DrainType' /\ TheDrain'
    BY <1>1, DrainsAlone DEF Connect
  <2>2. client' \in 0..MaxClients /\ clients' \in 0..MaxClients /\ (client = 0 \/ client' # 0)
    BY <1>1, Bounds DEF Connect, LinkType
  <2>3. connected' = connected
    BY <1>1 DEF Connect
  <2> QED
    BY <2>1, <2>2, <2>3, Zenon DEF LinkType, ConnectedHasClient
<1>2. ASSUME NEW c \in Connectors, Spawned(c) \/ CopyInfo(c) \/ ConnectFails(c) \/ Refreshed(c)
      PROVE  RuntimeInv'
  <2>1. /\ UNCHANGED <<client, clients, drainVars, clobbered>>
        /\ \/ UNCHANGED connected
           \/ connected' = FALSE
           \/ connected' = (client # 0 /\ client \in up)
    BY <1>2 DEF Spawned, CopyInfo, ConnectFails, Refreshed, linkVars
  <2>2. LinkType' /\ ConnectedHasClient'
    <3>1. connected' \in BOOLEAN
      BY <2>1, Zenon DEF LinkType
    <3>2. connected' => client' # 0
      BY <2>1, Zenon DEF ConnectedHasClient
    <3> QED
      BY <2>1, <3>1, <3>2, Zenon DEF LinkType, ConnectedHasClient
  <2> QED
    BY <2>1, <2>2, DrainsAlone
<1>3. ASSUME NEW e \in Disconnectors, Disconnect(e) PROVE RuntimeInv'
  <2>1. DrainType' /\ TheDrain'
    BY <1>3, CancelKeeps DEF Disconnect
  <2> QED
    BY <1>3, <2>1 DEF Disconnect, BeginClose, LinkType, ConnectedHasClient
<1>4. ASSUME NEW e \in Disconnectors, DrainAwaited(e) PROVE RuntimeInv'
  BY <1>4, DrainsAlone DEF DrainAwaited, BeginClose, LinkType, ConnectedHasClient
<1>5. ASSUME NEW e \in Disconnectors, CloseEnds(e) PROVE RuntimeInv'
  <2>1. /\ client' = 0 /\ connected' = FALSE
        /\ UNCHANGED <<clients, refreshTask, drains, clobbered>>
    BY <1>5 DEF CloseEnds
  <2>2. DOMAIN drain' = Drains /\ drain' = [d \in Drains |-> drain'[d]]
    BY <1>5 DEF CloseEnds
  <2>3. \A d \in Drains : drain'[d] = drain[d] \/ drain'[d] = [pc |-> "dropped"]
    BY <1>5 DEF CloseEnds
  <2>4. \A d \in Drains : AtWork(d)' => AtWork(d)
    BY <2>3 DEF AtWork
  <2>5. LinkType' /\ ConnectedHasClient'
    <3>1. client' \in 0..MaxClients
      BY <2>1, Bounds
    <3> QED
      BY <2>1, <3>1, Zenon DEF LinkType, ConnectedHasClient
  <2>6. DrainType' /\ TheDrain'
    BY <2>1, <2>2, <2>4 DEF DrainType, TheDrain
  <2> QED
    BY <2>5, <2>6
<1>6. ASSUME NEW d \in Drains, DrainStarts(d) PROVE RuntimeInv'
  <2>1. CASE client # 0 /\ connected
    BY <1>6, <2>1, GoesOn DEF DrainStarts, AtWork, linkVars, LinkType, ConnectedHasClient
  <2>2. CASE ~(client # 0 /\ connected)
    BY <1>6, <2>2, OverKeeps DEF DrainStarts, linkVars, LinkType, ConnectedHasClient
  <2> QED
    BY <2>1, <2>2
<1>7. ASSUME NEW d \in Drains, DrainCalled(d) PROVE RuntimeInv'
  <2>1. CASE refreshPending
    BY <1>7, <2>1, GoesOn DEF DrainCalled, AtWork, linkVars, LinkType, ConnectedHasClient
  <2>2. CASE ~refreshPending
    BY <1>7, <2>2, OverKeeps DEF DrainCalled, linkVars, LinkType, ConnectedHasClient
  <2> QED
    BY <2>1, <2>2
<1>8. ASSUME NEW d \in Drains, DrainUnwinds(d) PROVE RuntimeInv'
  BY <1>8, OverKeeps DEF DrainUnwinds, linkVars, LinkType, ConnectedHasClient
<1>9. CASE Event
  <2>1. DrainType' /\ TheDrain'
    BY <1>9, ScheduleKeeps, DrainsAlone DEF Event
  <2>2. /\ UNCHANGED <<client, clients>>
        /\ \/ client # 0 /\ connected' = (client \in up)
           \/ client = 0 /\ connected' = connected
    BY <1>9 DEF Event
  <2>3. connected' \in BOOLEAN
    <3>1. (client \in up) \in BOOLEAN
      OBVIOUS
    <3>2. CASE connected' = (client \in up)
      BY <3>1, <3>2
    <3>3. CASE connected' = connected
      BY <3>3, Zenon DEF LinkType
    <3> QED
      BY <2>2, <3>2, <3>3
  <2>4. connected' => client' # 0
    BY <2>2, Zenon DEF ConnectedHasClient
  <2> QED
    BY <2>1, <2>2, <2>3, <2>4, Zenon DEF LinkType, ConnectedHasClient
<1>10. CASE ServerDies \/ RunnerCalls \/ RunnerReturns
  BY <1>10, DrainsAlone
     DEF ServerDies, RunnerCalls, RunnerReturns, LinkType, ConnectedHasClient, linkVars
<1>11. CASE UNCHANGED runtimeVars
  BY <1>11, DrainsAlone DEF runtimeVars, LinkType, ConnectedHasClient, linkVars
<1> QED
  BY <1>1, <1>2, <1>3, <1>4, <1>5, <1>6, <1>7, <1>8, <1>9, <1>10, <1>11
     DEF RuntimeNext, DrainStep

LEMMA RuntimeInvariant == RuntimeSpec => []RuntimeInv
BY RuntimeStarts, RuntimeStep, PTL DEF RuntimeSpec

\* Who finds the runtime connected finds a client, in every order of connects,
\* disconnects and late events.
THEOREM ClientWhenConnected == RuntimeSpec => []ConnectedHasClient
<1>1. RuntimeInv => ConnectedHasClient
  BY DEF RuntimeInv
<1> QED
  BY <1>1, RuntimeInvariant, PTL

\* One drain reads the instance at a time, as long as none has cleared the
\* fields of a later one.
THEOREM DrainsAreSingle == RuntimeSpec => []OneDrain
<1>1. RuntimeInv => OneDrain
  <2> SUFFICES ASSUME RuntimeInv, ~clobbered
               PROVE  Cardinality({d \in Drains : AtWork(d)}) <= 1
    BY DEF OneDrain
  <2>1. {d \in Drains : AtWork(d)} \in SUBSET {refreshTask}
    BY DEF RuntimeInv, TheDrain
  <2>2. IsFiniteSet({refreshTask}) /\ Cardinality({refreshTask}) = 1
    BY FS_Singleton
  <2> QED
    BY <2>1, <2>2, FS_Subset
<1> QED
  BY <1>1, RuntimeInvariant, PTL

---------------------------------------------------------------------------
(* Types *)

DrainPlace ==
  OnClient \cup [pc : {"idle", "created", "sleeping", "cancelling", "dropped", "over"}]
ConnectorPlace == OnClient \cup {Away}
DisconnectorPlace == OnClient \cup {Away} \cup [pc : {"waiting"}, for : Drains]
RunnerPlace == OnClient \cup {Away, [pc |-> "dead"]}

\* Who connects has a client.
ManagerTypes ==
  /\ up \subseteq Clientele
  /\ refreshPending \in BOOLEAN /\ stale \in BOOLEAN /\ events \in Nat
  /\ drain \in [Drains -> DrainPlace]
  /\ connector \in [Connectors -> ConnectorPlace]
  /\ \A c \in Connectors : connector[c].pc # "idle" => connector[c].on # 0
  /\ disconnector \in [Disconnectors -> DisconnectorPlace]
  /\ runner \in RunnerPlace

LEMMA CallPlaces ==
  ASSUME NEW k \in 0..MaxClients,
         NEW pc \in {"calling", "refreshing", "connected", "spawning", "closing"}
  PROVE  [pc |-> pc, on |-> k] \in OnClient /\ Calls(k) \in OnClient
BY DEF OnClient, Calls

LEMMA DrainOverType ==
  ASSUME ManagerTypes, NEW d \in Drains, DrainOver(d)
  PROVE  drain' \in [Drains -> DrainPlace] /\ refreshPending' \in BOOLEAN
BY DEF ManagerTypes, DrainOver, DrainPlace

LEMMA CloseBegins ==
  ASSUME RuntimeInv, ManagerTypes, NEW d \in Disconnectors, BeginClose(d)
  PROVE  /\ up' \subseteq Clientele /\ stale' \in BOOLEAN
         /\ disconnector' \in [Disconnectors -> DisconnectorPlace]
<1>1. [pc |-> "closing", on |-> client] \in OnClient
  BY CallPlaces DEF RuntimeInv, LinkType
<1>2. disconnector' \in [Disconnectors -> DisconnectorPlace]
  BY <1>1 DEF BeginClose, ManagerTypes, DisconnectorPlace
<1>3. stale' \in BOOLEAN
  BY Zenon DEF BeginClose, ManagerTypes
<1> QED
  BY <1>2, <1>3 DEF BeginClose, ManagerTypes

LEMMA ManagerStep == RuntimeInv /\ ManagerTypes /\ [RuntimeNext]_runtimeVars => ManagerTypes'
<1> SUFFICES ASSUME RuntimeInv, ManagerTypes, [RuntimeNext]_runtimeVars PROVE ManagerTypes'
  OBVIOUS
<1>0. client \in 0..MaxClients /\ MaxClients \in Nat
  BY Bounds DEF RuntimeInv, LinkType
<1>1. ASSUME NEW c \in Connectors, Connect(c) PROVE ManagerTypes'
  <2>1. client' \in 0..MaxClients /\ client' # 0
    BY <1>0, <1>1 DEF Connect, RuntimeInv, LinkType
  <2>2. PICK pc \in {"connected", "spawning"} :
          connector' = [connector EXCEPT ![c] = [pc |-> pc, on |-> client']]
    BY <1>1 DEF Connect, ConnectorGoes
  <2>3. [pc |-> pc, on |-> client'] \in OnClient
    BY <2>1, CallPlaces
  <2> QED
    BY <1>1, <2>1, <2>2, <2>3 DEF Connect, ManagerTypes, ConnectorPlace, drainVars
<1>2. ASSUME NEW c \in Connectors, Spawned(c) PROVE ManagerTypes'
  <2>1. connector[c] \in OnClient /\ connector[c].on # 0
    BY <1>2 DEF Spawned, ConnectorAt, ManagerTypes, ConnectorPlace, Away
  <2>2. connector[c].on \in Clientele /\ [connector[c] EXCEPT !.pc = "calling"] \in OnClient
        /\ [connector[c] EXCEPT !.pc = "calling"].on = connector[c].on
    BY <1>0, <2>1 DEF OnClient, Clientele
  <2> QED
    BY <1>2, <2>1, <2>2 DEF Spawned, ConnectorGoes, ManagerTypes, ConnectorPlace, drainVars
<1>3. ASSUME NEW c \in Connectors, CopyInfo(c) PROVE ManagerTypes'
  <2>1. stale' \in BOOLEAN
    BY <1>3, Zenon DEF CopyInfo, ManagerTypes
  <2>2. PICK where \in ConnectorPlace :
          connector' = [connector EXCEPT ![c] = where] /\ (where.pc # "idle" => where.on # 0)
    <3>1. [pc |-> "refreshing", on |-> client] \in ConnectorPlace /\ Away \in ConnectorPlace
      BY <1>0, CallPlaces DEF ConnectorPlace
    <3>2. CASE connected'
      <4>1. client # 0 /\ connector' = [connector EXCEPT ![c] = [pc |-> "refreshing", on |-> client]]
        BY <1>3, <3>2, Zenon DEF CopyInfo, ConnectorGoes
      <4>2. [pc |-> "refreshing", on |-> client].on = client
        OBVIOUS
      <4> QED
        BY <3>1, <4>1, <4>2
    <3>3. CASE ~connected'
      <4>1. connector' = [connector EXCEPT ![c] = Away] /\ Away.pc = "idle"
        BY <1>3, <3>3 DEF CopyInfo, ConnectorGoes, Away
      <4> QED
        BY <3>1, <4>1
    <3> QED
      BY <3>2, <3>3
  <2> QED
    BY <1>3, <2>1, <2>2 DEF CopyInfo, ManagerTypes, drainVars
<1>4. ASSUME NEW c \in Connectors, ConnectFails(c) \/ Refreshed(c) PROVE ManagerTypes'
  BY <1>4 DEF ConnectFails, Refreshed, ConnectorGoes, ManagerTypes, ConnectorPlace, linkVars, drainVars,
     Away
<1>5. ASSUME NEW e \in Disconnectors, Disconnect(e) PROVE ManagerTypes'
  <2>1. drain' \in [Drains -> DrainPlace] /\ refreshPending' \in BOOLEAN
    BY <1>5 DEF Disconnect, CancelDrain, ManagerTypes, DrainPlace
  <2>2. CASE Live(refreshTask)
    <3>1. refreshTask \in Drains
      BY <2>2, Bounds DEF RuntimeInv, DrainType, Live, Drains
    <3>2. [pc |-> "waiting", for |-> refreshTask] \in DisconnectorPlace
      BY <3>1 DEF DisconnectorPlace
    <3> QED
      BY <1>5, <2>1, <2>2, <3>2 DEF Disconnect, ManagerTypes
  <2>3. CASE ~Live(refreshTask)
    <3>1. BeginClose(e)
      BY <1>5, <2>3 DEF Disconnect
    <3> QED
      BY <1>5, <2>1, <3>1, CloseBegins DEF Disconnect, ManagerTypes
  <2> QED
    BY <2>2, <2>3
<1>6. ASSUME NEW e \in Disconnectors, DrainAwaited(e) PROVE ManagerTypes'
  BY <1>6, CloseBegins DEF DrainAwaited, ManagerTypes, drainVars
<1>7. ASSUME NEW e \in Disconnectors, CloseEnds(e) PROVE ManagerTypes'
  <2>1. drain' \in [Drains -> DrainPlace]
    BY <1>7 DEF CloseEnds, ManagerTypes, DrainPlace
  <2>2. connector' \in [Connectors -> ConnectorPlace]
        /\ \A c \in Connectors : connector'[c].pc # "idle" => connector'[c].on # 0
    <3>1. \A c \in Connectors : connector'[c] = Away \/ connector'[c] = connector[c]
      BY <1>7 DEF CloseEnds
    <3>2. connector' = [c \in Connectors |-> connector'[c]]
      BY <1>7 DEF CloseEnds
    <3> QED
      BY <3>1, <3>2 DEF ManagerTypes, ConnectorPlace, Away
  <2>3. runner' \in RunnerPlace /\ disconnector' \in [Disconnectors -> DisconnectorPlace]
    BY <1>7 DEF CloseEnds, ManagerTypes, RunnerPlace, DisconnectorPlace
  <2> QED
    BY <1>7, <2>1, <2>2, <2>3 DEF CloseEnds, ManagerTypes
<1>8. ASSUME NEW d \in Drains, DrainStep(d) PROVE ManagerTypes'
  <2>1. UNCHANGED <<up, connector, disconnector, runner, events>> /\ stale' \in BOOLEAN
    BY <1>8 DEF DrainStep, DrainStarts, DrainCalled, DrainUnwinds, ManagerTypes, linkVars
  <2>2. Calls(client) \in DrainPlace
    BY <1>0, CallPlaces DEF DrainPlace
  <2>3. \/ DrainOver(d)
        \/ /\ drain' \in {[drain EXCEPT ![d] = Calls(client)], [drain EXCEPT ![d] = [pc |-> "sleeping"]]}
           /\ refreshPending' \in {refreshPending, FALSE}
    BY <1>8 DEF DrainStep, DrainStarts, DrainCalled, DrainUnwinds
  <2>4. [pc |-> "sleeping"] \in DrainPlace
    BY DEF DrainPlace
  <2>5. drain' \in [Drains -> DrainPlace]
    BY <2>2, <2>3, <2>4, DrainOverType DEF ManagerTypes
  <2>6. refreshPending' \in BOOLEAN
    BY <2>3, DrainOverType DEF ManagerTypes
  <2> QED
    BY <2>1, <2>5, <2>6 DEF ManagerTypes
<1>9. ASSUME Event PROVE ManagerTypes'
  <2>1. drain' \in [Drains -> DrainPlace] /\ refreshPending' \in BOOLEAN
    <3>1. CASE UNCHANGED drainVars
      BY <3>1 DEF drainVars, ManagerTypes
    <3>2. CASE Schedule
      BY <3>2 DEF Schedule, ManagerTypes, DrainPlace
    <3> QED
      BY <1>9, <3>1, <3>2 DEF Event
  <2>2. stale' \in BOOLEAN
    BY <1>9, Zenon DEF Event, ManagerTypes
  <2> QED
    BY <1>9, <2>1, <2>2 DEF Event, ManagerTypes
<1>10. ASSUME ServerDies \/ RunnerCalls \/ RunnerReturns PROVE ManagerTypes'
  <2>1. Calls(client) \in RunnerPlace /\ Away \in RunnerPlace
    BY <1>0, CallPlaces DEF RunnerPlace
  <2> QED
    BY <1>10, <2>1 DEF ServerDies, RunnerCalls, RunnerReturns, ManagerTypes, linkVars, drainVars
<1>11. CASE UNCHANGED runtimeVars
  BY <1>11 DEF runtimeVars, ManagerTypes, linkVars, drainVars
<1> QED
  BY <1>1, <1>2, <1>3, <1>4, <1>5, <1>6, <1>7, <1>8, <1>9, <1>10, <1>11 DEF RuntimeNext

LEMMA ManagerStarts == RuntimeInit => ManagerTypes
<1> SUFFICES ASSUME RuntimeInit PROVE ManagerTypes
  OBVIOUS
<1>1. Away \in DrainPlace /\ Away \in ConnectorPlace /\ Away \in DisconnectorPlace
      /\ Away \in RunnerPlace /\ Away.pc = "idle"
  BY DEF DrainPlace, ConnectorPlace, DisconnectorPlace, RunnerPlace, Away
<1>2. up \subseteq Clientele /\ events \in Nat /\ runner \in RunnerPlace
  BY <1>1 DEF RuntimeInit
<1>3. refreshPending \in BOOLEAN /\ stale \in BOOLEAN
  BY Zenon DEF RuntimeInit
<1>4. /\ drain \in [Drains -> DrainPlace] /\ disconnector \in [Disconnectors -> DisconnectorPlace]
      /\ connector \in [Connectors -> ConnectorPlace]
      /\ \A c \in Connectors : connector[c].pc = "idle"
  BY <1>1 DEF RuntimeInit
<1> QED
  BY <1>2, <1>3, <1>4 DEF ManagerTypes

\* The runtime's fields, its drains and the tasks that call its client keep
\* their types; no task calls a client that was never made.
THEOREM RuntimeTypeCorrect == RuntimeSpec => []RuntimeTypeOK
<1>1. RuntimeInv /\ ManagerTypes => RuntimeTypeOK
  <2>1. RuntimeInv /\ ManagerTypes => {connected, refreshPending, stale, clobbered} \subseteq BOOLEAN
    BY Zenon DEF RuntimeInv, ManagerTypes, LinkType, DrainType
  <2> QED
    BY <2>1 DEF RuntimeInv, ManagerTypes, LinkType, DrainType, RuntimeTypeOK, DrainPlace, ConnectorPlace,
       DisconnectorPlace, RunnerPlace
<1> QED
  BY <1>1, RuntimeStarts, RuntimeStep, ManagerStarts, ManagerStep, PTL DEF RuntimeSpec

---------------------------------------------------------------------------
(* A change that was announced is come to                                  *)

\* Somebody is on the way to read the instance for a change nobody has come
\* to: a drain about to read it or told to read it again, or a disconnect
\* that ends in a close().
SomebodyComes ==
  stale =>
    \/ \E d \in Drains : drain[d].pc \in {"created", "sleeping"}
    \/ refreshPending /\ \E d \in Drains : drain[d].pc = "calling"
    \/ \E e \in Disconnectors : disconnector[e].pc \in {"waiting", "closing"}

\* A drain that was cancelled and unwinds is awaited by who cancelled it.
AwaitsDrain(e, d) == disconnector[e].pc = "waiting" /\ disconnector[e].for = d
CancelsAreAwaited ==
  \A d \in Drains : drain[d].pc = "cancelling" => \E e \in Disconnectors : AwaitsDrain(e, d)

\* While a drain whose future was cancelled unwinds, there is no connection.
DroppedMeansClosed ==
  (\E d \in Drains : drain[d].pc = "dropped") => ~stale /\ client \notin up

\* A client that is up or about to be was made, so the next one is new.
ClientsWereMade ==
  /\ client <= clients /\ \A k \in up : k <= clients
  /\ \A c \in Connectors : connector[c].pc # "idle" => connector[c].on <= clients

TendInv ==
  /\ RuntimeInv /\ ManagerTypes
  /\ SomebodyComes /\ CancelsAreAwaited /\ DroppedMeansClosed /\ ClientsWereMade

\* The type of what the steps below look at.
LEMMA Numbers ==
  ASSUME TendInv
  PROVE  /\ client \in Nat /\ clients \in Nat /\ \A k \in up : k \in Nat
         /\ \A c \in Connectors : connector[c].pc # "idle" => connector[c].on \in Nat
<1>1. client \in Nat /\ clients \in Nat /\ \A k \in up : k \in Nat
  BY Bounds DEF TendInv, RuntimeInv, LinkType, ManagerTypes, Clientele
<1>2. ASSUME NEW c \in Connectors, connector[c].pc # "idle" PROVE connector[c].on \in Nat
  BY <1>2, Bounds DEF TendInv, ManagerTypes, ConnectorPlace, OnClient, Away
<1> QED
  BY <1>1, <1>2

LEMMA MadeStep ==
  ASSUME TendInv, [RuntimeNext]_runtimeVars
  PROVE  ClientsWereMade'
<1> USE Numbers DEF TendInv, ClientsWereMade
<1>1. ASSUME NEW c \in Connectors, Connect(c) PROVE ClientsWereMade'
  <2>1. client' <= clients' /\ clients <= clients' /\ up' = up /\ clients' \in Nat
    BY <1>1 DEF Connect
  <2>2. \A b \in Connectors : connector'[b].pc # "idle" =>
          connector'[b] = connector[b] \/ connector'[b].on = client'
    BY <1>1 DEF Connect, ConnectorGoes, ManagerTypes
  <2> QED
    BY <2>1, <2>2
<1>2. ASSUME NEW c \in Connectors, Spawned(c) PROVE ClientsWereMade'
  <2>1. /\ UNCHANGED <<client, clients>> /\ up' = up \cup {connector[c].on}
        /\ connector[c].pc # "idle"
    BY <1>2 DEF Spawned, ConnectorAt
  <2>2. \A b \in Connectors : connector'[b].pc # "idle" =>
          connector'[b].on = connector[b].on /\ connector[b].pc # "idle"
    BY <1>2 DEF Spawned, ConnectorAt, ConnectorGoes, ManagerTypes
  <2> QED
    BY <2>1, <2>2
<1>3. ASSUME NEW c \in Connectors, CopyInfo(c) \/ ConnectFails(c) \/ Refreshed(c)
      PROVE  ClientsWereMade'
  <2>1. UNCHANGED <<client, clients, up>>
    BY <1>3 DEF CopyInfo, ConnectFails, Refreshed, linkVars
  <2>2. \A b \in Connectors : connector'[b].pc # "idle" =>
          connector'[b] = connector[b] \/ connector'[b].on = client
    BY <1>3 DEF CopyInfo, ConnectFails, Refreshed, ConnectorGoes, ManagerTypes, Away
  <2> QED
    BY <2>1, <2>2
<1>4. ASSUME NEW e \in Disconnectors, Disconnect(e) \/ DrainAwaited(e) PROVE ClientsWereMade'
  BY <1>4 DEF Disconnect, DrainAwaited, BeginClose
<1>5. ASSUME NEW e \in Disconnectors, CloseEnds(e) PROVE ClientsWereMade'
  <2>1. client' = 0 /\ UNCHANGED <<clients, up>>
    BY <1>5 DEF CloseEnds
  <2>2. \A b \in Connectors : connector'[b] = connector[b] \/ connector'[b].pc = "idle"
    BY <1>5 DEF CloseEnds, Away
  <2> QED
    BY <2>1, <2>2
<1>6. ASSUME NEW d \in Drains, DrainStep(d) PROVE ClientsWereMade'
  BY <1>6 DEF DrainStep, DrainStarts, DrainCalled, DrainUnwinds, linkVars
<1>7. CASE Event \/ ServerDies \/ RunnerCalls \/ RunnerReturns \/ UNCHANGED runtimeVars
  BY <1>7 DEF Event, ServerDies, RunnerCalls, RunnerReturns, runtimeVars, linkVars
<1> QED
  BY <1>1, <1>2, <1>3, <1>4, <1>5, <1>6, <1>7 DEF RuntimeNext

LEMMA DroppedStep ==
  ASSUME TendInv, [RuntimeNext]_runtimeVars
  PROVE  DroppedMeansClosed'
<1> USE DEF TendInv, DroppedMeansClosed
\* A step that drops no drain, announces nothing and brings no client up.
<1>0. ASSUME \A d \in Drains : drain'[d].pc = "dropped" => drain[d].pc = "dropped",
             stale' => stale, client \notin up => client' \notin up'
      PROVE  DroppedMeansClosed'
  BY <1>0
<1>1. ASSUME NEW c \in Connectors, Connect(c) PROVE DroppedMeansClosed'
  <2>1. UNCHANGED <<drain, stale, up>> /\ client' \in {client, clients + 1}
    BY <1>1 DEF Connect, drainVars
  <2>2. clients + 1 \notin up
    BY Numbers DEF ClientsWereMade
  <2> QED
    BY <1>0, <2>1, <2>2
<1>2. ASSUME NEW c \in Connectors, Spawned(c) PROVE DroppedMeansClosed'
  BY <1>2 DEF Spawned, drainVars
<1>3. ASSUME NEW c \in Connectors, CopyInfo(c) \/ ConnectFails(c) \/ Refreshed(c)
      PROVE  DroppedMeansClosed'
  <2>1. UNCHANGED <<drain, client, up>>
    BY <1>3 DEF CopyInfo, ConnectFails, Refreshed, linkVars, drainVars
  <2>2. stale' => stale
    BY <1>3, Zenon DEF CopyInfo, ConnectFails, Refreshed
  <2> QED
    BY <1>0, <2>1, <2>2
<1>4. ASSUME NEW e \in Disconnectors, Disconnect(e) PROVE DroppedMeansClosed'
  <2>1. \A d \in Drains : drain'[d].pc = "dropped" => drain[d].pc = "dropped"
    BY <1>4 DEF Disconnect, CancelDrain, ManagerTypes
  <2>2. (stale' => stale) /\ client' = client /\ up' \subseteq up
    BY <1>4, Zenon DEF Disconnect, BeginClose
  <2> QED
    BY <1>0, <2>1, <2>2
<1>5. ASSUME NEW e \in Disconnectors, DrainAwaited(e) PROVE DroppedMeansClosed'
  <2>1. drain' = drain /\ (stale' => stale) /\ client' = client /\ up' \subseteq up
    BY <1>5, Zenon DEF DrainAwaited, BeginClose, drainVars
  <2> QED
    BY <1>0, <2>1
<1>6. ASSUME NEW e \in Disconnectors, CloseEnds(e) PROVE DroppedMeansClosed'
  <2>1. client' = 0 /\ up' = up /\ stale' = FALSE
    BY <1>6 DEF CloseEnds
  <2>2. 0 \notin up
    BY DEF ManagerTypes, Clientele
  <2> QED
    BY <2>1, <2>2
<1>7. ASSUME NEW d \in Drains, DrainStep(d) PROVE DroppedMeansClosed'
  <2>1. \A o \in Drains : drain'[o].pc = "dropped" => drain[o].pc = "dropped"
    BY <1>7 DEF DrainStep, DrainStarts, DrainCalled, DrainUnwinds, DrainOver, ManagerTypes, Calls
  <2>2. (stale' => stale) /\ UNCHANGED <<client, up>>
    BY <1>7 DEF DrainStep, DrainStarts, DrainCalled, DrainUnwinds, linkVars
  <2> QED
    BY <1>0, <2>1, <2>2
<1>8. CASE Event
  <2>1. \A d \in Drains : drain'[d].pc = "dropped" => drain[d].pc = "dropped"
    BY <1>8 DEF Event, Schedule, drainVars, ManagerTypes
  <2>2. UNCHANGED <<client, up>>
    BY <1>8 DEF Event
  <2>3. stale' => stale \/ client \in up
    <3>1. stale' = stale \/ stale' = (stale \/ client \in up)
      BY <1>8 DEF Event
    <3> QED
      BY <3>1, Zenon
  <2> QED
    BY <2>1, <2>2, <2>3
<1>9. CASE ServerDies
  <2>1. drain' = drain /\ stale' = stale /\ client' = client /\ up' \subseteq up
    BY <1>9 DEF ServerDies, drainVars
  <2> QED
    BY <1>0, <2>1
<1>10. CASE RunnerCalls \/ RunnerReturns \/ UNCHANGED runtimeVars
  BY <1>0, <1>10 DEF RunnerCalls, RunnerReturns, runtimeVars, linkVars, drainVars
<1> QED
  BY <1>1, <1>2, <1>3, <1>4, <1>5, <1>6, <1>7, <1>8, <1>9, <1>10 DEF RuntimeNext

LEMMA AwaitedStep ==
  ASSUME TendInv, [RuntimeNext]_runtimeVars
  PROVE  CancelsAreAwaited'
<1> USE DEF TendInv, CancelsAreAwaited
\* A step that cancels no drain and takes no disconnect from its wait.
<1>0. ASSUME \A d \in Drains : drain'[d].pc = "cancelling" => drain[d].pc = "cancelling",
             UNCHANGED disconnector
      PROVE  CancelsAreAwaited'
  BY <1>0 DEF AwaitsDrain
<1>1. ASSUME NEW c \in Connectors,
             Connect(c) \/ Spawned(c) \/ CopyInfo(c) \/ ConnectFails(c) \/ Refreshed(c)
      PROVE  CancelsAreAwaited'
  BY <1>0, <1>1 DEF Connect, Spawned, CopyInfo, ConnectFails, Refreshed, drainVars
<1>2. ASSUME NEW e \in Disconnectors, Disconnect(e) PROVE CancelsAreAwaited'
  <2>1. disconnector[e].pc = "idle" /\ \A o \in Disconnectors \ {e} : disconnector'[o] = disconnector[o]
    BY <1>2 DEF Disconnect, BeginClose, ManagerTypes
  <2>2. \A d \in Drains, o \in Disconnectors : AwaitsDrain(o, d) => AwaitsDrain(o, d)'
    BY <2>1 DEF AwaitsDrain
  <2>3. CASE Live(refreshTask)
    <3>1. refreshTask \in Drains
      BY <2>3, Bounds DEF RuntimeInv, DrainType, Live, Drains
    <3>2. disconnector'[e] = [pc |-> "waiting", for |-> refreshTask]
      BY <1>2, <2>3 DEF Disconnect, ManagerTypes
    <3>3. \A d \in Drains \ {refreshTask} : drain'[d] = drain[d]
      BY <1>2, <2>3 DEF Disconnect, CancelDrain, ManagerTypes
    <3> SUFFICES ASSUME NEW d \in Drains, drain'[d].pc = "cancelling"
                 PROVE  \E o \in Disconnectors : AwaitsDrain(o, d)'
      BY DEF AwaitsDrain
    <3>4. CASE d = refreshTask
      BY <3>2, <3>4 DEF AwaitsDrain
    <3>5. CASE d # refreshTask
      BY <2>2, <3>3, <3>5
    <3> QED
      BY <3>4, <3>5
  <2>4. CASE ~Live(refreshTask)
    <3>1. drain' = drain
      BY <1>2, <2>4 DEF Disconnect, CancelDrain
    <3> QED
      BY <2>2, <3>1
  <2> QED
    BY <2>3, <2>4
<1>3. ASSUME NEW e \in Disconnectors, DrainAwaited(e) PROVE CancelsAreAwaited'
  <2>1. /\ drain' = drain /\ drain[disconnector[e].for].pc = "over"
        /\ \A o \in Disconnectors \ {e} : disconnector'[o] = disconnector[o]
    BY <1>3 DEF DrainAwaited, BeginClose, ManagerTypes, drainVars
  <2> QED
    BY <2>1 DEF AwaitsDrain
<1>4. ASSUME NEW e \in Disconnectors, CloseEnds(e) PROVE CancelsAreAwaited'
  <2>1. \A d \in Drains : drain'[d].pc = "cancelling" => drain[d].pc = "cancelling"
    BY <1>4 DEF CloseEnds
  <2>2. /\ disconnector[e].pc = "closing"
        /\ \A o \in Disconnectors \ {e} : disconnector'[o] = disconnector[o]
    BY <1>4 DEF CloseEnds, ManagerTypes
  <2> QED
    BY <2>1, <2>2 DEF AwaitsDrain
<1>5. ASSUME NEW d \in Drains, DrainStep(d) PROVE CancelsAreAwaited'
  <2>1. \A o \in Drains : drain'[o].pc = "cancelling" => drain[o].pc = "cancelling"
    BY <1>5 DEF DrainStep, DrainStarts, DrainCalled, DrainUnwinds, DrainOver, ManagerTypes, Calls
  <2>2. UNCHANGED disconnector
    BY <1>5 DEF DrainStep, DrainStarts, DrainCalled, DrainUnwinds
  <2> QED
    BY <1>0, <2>1, <2>2
<1>6. CASE Event
  <2>1. \A d \in Drains : drain'[d].pc = "cancelling" => drain[d].pc = "cancelling"
    BY <1>6 DEF Event, Schedule, drainVars, ManagerTypes
  <2> QED
    BY <1>0, <1>6, <2>1 DEF Event
<1>7. CASE ServerDies \/ RunnerCalls \/ RunnerReturns \/ UNCHANGED runtimeVars
  BY <1>0, <1>7 DEF ServerDies, RunnerCalls, RunnerReturns, runtimeVars, drainVars
<1> QED
  BY <1>1, <1>2, <1>3, <1>4, <1>5, <1>6, <1>7 DEF RuntimeNext

\* A close() that begins is on the way, or ends what was stale.
LEMMA CloseComes ==
  ASSUME TendInv, NEW e \in Disconnectors, BeginClose(e)
  PROVE  SomebodyComes'
<1>1. CASE client = 0
  BY <1>1 DEF BeginClose, SomebodyComes
<1>2. CASE client # 0
  <2>1. disconnector'[e].pc = "closing"
    BY <1>2 DEF BeginClose, TendInv, ManagerTypes
  <2> QED
    BY <2>1 DEF SomebodyComes
<1> QED
  BY <1>1, <1>2

\* A drain that ends: what another scheduled in its calls it has seen, and if
\* it was cancelled, who cancelled it is still there.
LEMMA OverComes ==
  ASSUME TendInv, NEW d \in Drains, DrainOver(d), UNCHANGED <<stale, disconnector>>,
         \/ drain[d].pc = "calling" /\ ~refreshPending
         \/ Unwinding(d)
  PROVE  SomebodyComes'
<1> SUFFICES ASSUME stale
             PROVE  \/ \E o \in Drains : drain'[o].pc \in {"created", "sleeping"}
                    \/ \E e \in Disconnectors : disconnector[e].pc \in {"waiting", "closing"}
  BY DEF SomebodyComes
<1>1. \A o \in Drains \ {d} : drain'[o] = drain[o]
  BY DEF DrainOver, TendInv, ManagerTypes
<1>2. CASE drain[d].pc = "calling" /\ ~refreshPending
  BY <1>1, <1>2 DEF TendInv, SomebodyComes
<1>3. CASE drain[d].pc = "cancelling"
  BY <1>3 DEF TendInv, CancelsAreAwaited, AwaitsDrain
<1>4. CASE drain[d].pc = "dropped"
  BY <1>4 DEF TendInv, DroppedMeansClosed
<1> QED
  BY <1>2, <1>3, <1>4 DEF Unwinding

LEMMA ComesStep ==
  ASSUME TendInv, [RuntimeNext]_runtimeVars
  PROVE  SomebodyComes'
<1>0. ASSUME stale' => stale, UNCHANGED <<refreshPending, drain, disconnector>>
      PROVE  SomebodyComes'
  BY <1>0 DEF TendInv, SomebodyComes
<1>1. ASSUME NEW c \in Connectors,
             Connect(c) \/ Spawned(c) \/ CopyInfo(c) \/ ConnectFails(c) \/ Refreshed(c)
      PROVE  SomebodyComes'
  BY <1>0, <1>1 DEF Connect, Spawned, CopyInfo, ConnectFails, Refreshed, drainVars
<1>2. ASSUME NEW e \in Disconnectors, Disconnect(e) PROVE SomebodyComes'
  <2>1. CASE Live(refreshTask)
    <3>1. disconnector'[e].pc = "waiting"
      BY <1>2, <2>1 DEF Disconnect, TendInv, ManagerTypes
    <3> QED
      BY <3>1 DEF SomebodyComes
  <2>2. CASE ~Live(refreshTask)
    BY <1>2, <2>2, CloseComes DEF Disconnect
  <2> QED
    BY <2>1, <2>2
<1>3. ASSUME NEW e \in Disconnectors, DrainAwaited(e) PROVE SomebodyComes'
  BY <1>3, CloseComes DEF DrainAwaited
<1>4. ASSUME NEW e \in Disconnectors, CloseEnds(e) PROVE SomebodyComes'
  BY <1>4 DEF CloseEnds, SomebodyComes
<1>5. ASSUME NEW d \in Drains, DrainStarts(d) PROVE SomebodyComes'
  BY <1>5 DEF DrainStarts, SomebodyComes
<1>6. ASSUME NEW d \in Drains, DrainCalled(d) PROVE SomebodyComes'
  <2>1. CASE refreshPending
    <3>1. drain'[d].pc = "sleeping"
      BY <1>6, <2>1 DEF DrainCalled, TendInv, ManagerTypes
    <3> QED
      BY <3>1 DEF SomebodyComes
  <2>2. CASE ~refreshPending
    BY <1>6, <2>2, OverComes DEF DrainCalled
  <2> QED
    BY <2>1, <2>2
<1>7. ASSUME NEW d \in Drains, DrainUnwinds(d) PROVE SomebodyComes'
  BY <1>7, OverComes DEF DrainUnwinds
\* What is scheduled finds a drain that reads once more, or makes one.
<1>8. CASE Event
  <2>1. CASE UNCHANGED <<drainVars, stale>>
    BY <1>0, <1>8, <2>1 DEF Event, drainVars
  <2>2. CASE Schedule /\ ~Live(refreshTask)
    <3>1. drains + 1 \in Drains
      BY <2>2, Bounds DEF Schedule, TendInv, RuntimeInv, DrainType, Drains
    <3>2. drain'[drains + 1].pc = "created"
      BY <2>2, <3>1 DEF Schedule, TendInv, ManagerTypes
    <3> QED
      BY <3>1, <3>2 DEF SomebodyComes
  <2>3. CASE Schedule /\ Live(refreshTask) /\ stale' = (stale \/ client \in up)
    <3>1. UNCHANGED <<drain, disconnector>> /\ refreshPending' = TRUE
      BY <1>8, <2>3 DEF Schedule, Event
    <3>2. refreshTask \in Drains
      BY <2>3, Bounds DEF Live, TendInv, RuntimeInv, DrainType, Drains
    <3>3. CASE AtWork(refreshTask)
      BY <3>1, <3>2, <3>3 DEF AtWork, SomebodyComes
    <3>4. CASE drain[refreshTask].pc = "cancelling"
      BY <3>1, <3>2, <3>4 DEF TendInv, CancelsAreAwaited, AwaitsDrain, SomebodyComes
    <3>5. CASE drain[refreshTask].pc = "dropped"
      <4>1. ~stale /\ client \notin up
        BY <3>2, <3>5 DEF TendInv, DroppedMeansClosed
      <4>2. ~stale'
        BY <2>3, <4>1, Zenon
      <4> QED
        BY <4>2 DEF SomebodyComes
    <3> QED
      BY <2>3, <3>3, <3>4, <3>5 DEF Live, Unwinding
  <2> QED
    BY <1>8, <2>1, <2>2, <2>3 DEF Event
<1>9. CASE ServerDies \/ RunnerCalls \/ RunnerReturns \/ UNCHANGED runtimeVars
  BY <1>0, <1>9 DEF ServerDies, RunnerCalls, RunnerReturns, runtimeVars, drainVars
<1> QED
  BY <1>1, <1>2, <1>3, <1>4, <1>5, <1>6, <1>7, <1>8, <1>9 DEF RuntimeNext, DrainStep

\* For any number of drains, disconnects and clients: a change the server
\* announced while it was connected is never forgotten.  A drain is about to
\* read the instance or was told to read it again, or a disconnect closes it.
\* What is left of RefreshFollows is that those tasks go on.
THEOREM ChangesAreComeTo == RuntimeSpec => []SomebodyComes
<1>1. RuntimeInit => TendInv
  <2> SUFFICES ASSUME RuntimeInit PROVE TendInv
    OBVIOUS
  <2>1. SomebodyComes /\ CancelsAreAwaited /\ DroppedMeansClosed
    BY DEF RuntimeInit, SomebodyComes, CancelsAreAwaited, DroppedMeansClosed, Away
  <2>2. ClientsWereMade
    BY DEF RuntimeInit, ClientsWereMade, Away
  <2> QED
    BY <2>1, <2>2, RuntimeStarts, ManagerStarts DEF TendInv
<1>2. TendInv /\ [RuntimeNext]_runtimeVars => TendInv'
  <2>1. TendInv => RuntimeInv /\ ManagerTypes
    BY DEF TendInv
  <2> QED
    BY <2>1, RuntimeStep, ManagerStep, MadeStep, DroppedStep, AwaitedStep, ComesStep
       DEF TendInv
<1>3. TendInv => SomebodyComes
  BY DEF TendInv
<1> QED
  BY <1>1, <1>2, <1>3, PTL DEF RuntimeSpec

=============================================================================
