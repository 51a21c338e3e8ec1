---------------------------- MODULE RuntimeRefresh ----------------------------
(***************************************************************************)
(* One instance of RuntimeManager (services/manager.py): connecting and    *)
(* disconnecting it, the copies the runtime keeps of its client's state,   *)
(* and the background task ("drain") that reads an instance again after    *)
(* its server announced a change.  Tasks that call the client await a      *)
(* future; close() cancels it, which looks to them like being cancelled    *)
(* themselves.  The poll loop of MissionService is one of those tasks.     *)
(***************************************************************************)
EXTENDS Naturals, FiniteSets

CONSTANTS
  Connectors,    \* tasks in connect_instance
  Disconnectors, \* tasks in disconnect_instance
  MaxClients,    \* bound: clients made
  MaxDrains,     \* bound: drains made
  MaxEvents      \* bound: events of the server

ASSUME RuntimeAssumption == {MaxClients, MaxDrains, MaxEvents} \subseteq Nat

Clientele == 1..MaxClients
Drains == 1..MaxDrains

VARIABLES
  client,         \* runtime.client, 0 for None
  clients,        \* clients made so far
  up,             \* clients whose info.connected is set
  connected,      \* runtime.connected
  refreshTask,    \* runtime.refresh_task, 0 for None
  refreshPending, \* runtime.refresh_pending
  drain,          \* where each drain is
  drains,         \* drains made so far
  connector, disconnector, \* where those tasks are
  runner,         \* where the mission runner's loop is
  stale,          \* history: a change was announced that nobody has come to; over with a close()
  clobbered,      \* history: a drain cleared the fields of a later one
  events          \* bound: events so far

linkVars == <<client, clients, up, connected>>
drainVars == <<refreshTask, refreshPending, drain, drains>>
runtimeVars == <<linkVars, drainVars, connector, disconnector, runner, stale, clobbered, events>>

Away == [pc |-> "idle"]
Calls(k) == [pc |-> "calling", on |-> k]

RuntimeInit ==
  /\ client = 0 /\ clients = 0 /\ up = {} /\ connected = FALSE
  /\ refreshTask = 0 /\ refreshPending = FALSE
  /\ drain = [d \in Drains |-> Away] /\ drains = 0
  /\ connector = [c \in Connectors |-> Away]
  /\ disconnector = [c \in Disconnectors |-> Away]
  /\ runner = Away
  /\ stale = FALSE /\ clobbered = FALSE /\ events = 0

AtWork(d) == drain[d].pc \in {"created", "calling", "sleeping"}
Unwinding(d) == drain[d].pc \in {"cancelling", "dropped"}
Live(d) == d # 0 /\ (AtWork(d) \/ Unwinding(d)) \* not done()

---------------------------------------------------------------------------
(* connect_instance                                                        *)

ConnectorAt(c, pc) == connector[c].pc = pc
ConnectorGoes(c, where) == connector' = [connector EXCEPT ![c] = where]

Connect(c) ==
  /\ ConnectorAt(c, "idle")
  /\ \/ /\ client = 0 /\ clients < MaxClients
        /\ clients' = clients + 1 /\ client' = clients + 1
     \/ client # 0 /\ UNCHANGED <<client, clients>>
  /\ ConnectorGoes(c, [pc |-> IF client' \in up THEN "connected" ELSE "spawning", on |-> client'])
  /\ UNCHANGED <<up, connected, drainVars, disconnector, runner, stale, clobbered, events>>

\* The server is there; its answer to "initialize" is awaited.  A drain whose
\* future was cancelled has unwound in the turn of the loop before.
Spawned(c) ==
  /\ ConnectorAt(c, "spawning") /\ \A d \in Drains : drain[d].pc # "dropped"
  /\ up' = up \cup {connector[c].on}
  /\ ConnectorGoes(c, [connector[c] EXCEPT !.pc = "calling"])
  /\ UNCHANGED <<client, clients, connected, drainVars, disconnector, runner, stale,
                 clobbered, events>>

\* Mutant: the copy is taken from the client that was connected.
CopyInfoOfOwn(c) ==
  /\ connector[c].pc \in {"calling", "connected"}
  /\ connected' = (connector[c].on \in up)
  /\ ConnectorGoes(c, IF connected' THEN [pc |-> "refreshing", on |-> client] ELSE Away)
  /\ stale' = (stale /\ ~connected')
  /\ UNCHANGED <<client, clients, up, drainVars, disconnector, runner, clobbered, events>>

\* connect() has returned: the runtime copies the info of the client it has
\* now, and reads the instance.  Without a client it is an error.
CopyInfo(c) ==
  /\ connector[c].pc \in {"calling", "connected"}
  /\ connected' = (client # 0 /\ client \in up)
  /\ ConnectorGoes(c, IF connected' THEN [pc |-> "refreshing", on |-> client] ELSE Away)
  /\ stale' = (stale /\ ~connected')
  /\ UNCHANGED <<client, clients, up, drainVars, disconnector, runner, clobbered, events>>

ConnectFails(c) ==
  /\ connector[c].pc \in {"spawning", "calling"}
  /\ connected' = FALSE /\ ConnectorGoes(c, Away)
  /\ UNCHANGED <<client, clients, up, drainVars, disconnector, runner, stale, clobbered, events>>

Refreshed(c) ==
  /\ ConnectorAt(c, "refreshing") /\ ConnectorGoes(c, Away)
  /\ UNCHANGED <<linkVars, drainVars, disconnector, runner, stale, clobbered, events>>

---------------------------------------------------------------------------
(* disconnect_instance                                                     *)

\* _cancel_refresh_task.  A drain that has not started never runs its finally.
CancelDrain ==
  /\ drain' = IF Live(refreshTask)
              THEN [drain EXCEPT ![refreshTask] =
                      IF @.pc = "created" THEN [pc |-> "over"] ELSE [pc |-> "cancelling"]]
              ELSE drain
  /\ refreshTask' = 0 /\ refreshPending' = FALSE /\ UNCHANGED drains

\* close() begins with the client's own flags; then it waits for the process.
\* Without a client there is nothing to wait for.
BeginClose(d) ==
  /\ disconnector' = [disconnector EXCEPT ![d] =
                        IF client = 0 THEN Away ELSE [pc |-> "closing", on |-> client]]
  /\ up' = up \ {client}
  /\ connected' = (connected /\ client # 0) /\ stale' = (stale /\ client # 0)

Disconnect(d) ==
  /\ disconnector[d].pc = "idle" /\ CancelDrain
  /\ IF Live(refreshTask)
     THEN /\ disconnector' = [disconnector EXCEPT ![d] = [pc |-> "waiting", for |-> refreshTask]]
          /\ UNCHANGED <<up, connected, stale>>
     ELSE BeginClose(d)
  /\ UNCHANGED <<client, clients, connector, runner, clobbered, events>>

DrainAwaited(d) ==
  /\ disconnector[d].pc = "waiting" /\ drain[disconnector[d].for].pc = "over"
  /\ BeginClose(d)
  /\ UNCHANGED <<client, clients, drainVars, connector, runner, clobbered, events>>

\* close() ends by cancelling the futures of its client.
CloseEnds(d) ==
  LET k == disconnector[d].on
      cancelled(where) == "on" \in DOMAIN where /\ where.on = k
                          /\ where.pc \in {"calling", "refreshing"}
  IN
  /\ disconnector[d].pc = "closing"
  /\ client' = 0 /\ connected' = FALSE /\ stale' = FALSE
  /\ drain' = [i \in Drains |-> IF cancelled(drain[i]) THEN [pc |-> "dropped"] ELSE drain[i]]
  /\ connector' = [c \in Connectors |-> IF cancelled(connector[c]) THEN Away ELSE connector[c]]
  /\ runner' = IF cancelled(runner) THEN [pc |-> "dead"] ELSE runner
  /\ disconnector' = [disconnector EXCEPT ![d] = Away]
  /\ UNCHANGED <<clients, up, refreshTask, refreshPending, drains, clobbered, events>>

---------------------------------------------------------------------------
(* handle_event and the drain.                                             *)

\* Mutant: a drain is made although one is at work.
ScheduleAlways ==
  /\ refreshPending' = TRUE /\ drains < MaxDrains
  /\ drains' = drains + 1 /\ refreshTask' = drains + 1
  /\ drain' = [drain EXCEPT ![drains + 1] = [pc |-> "created"]]

\* _schedule_refresh_instance.
Schedule ==
  /\ refreshPending' = TRUE
  /\ IF Live(refreshTask)
     THEN UNCHANGED <<refreshTask, drain, drains>>
     ELSE /\ drains < MaxDrains
          /\ drains' = drains + 1 /\ refreshTask' = drains + 1
          /\ drain' = [drain EXCEPT ![drains + 1] = [pc |-> "created"]]

\* An event of a client that lives, though it may not be the runtime's any
\* more or be in its close().
Event ==
  /\ up # {} \/ \E d \in Disconnectors : disconnector[d].pc = "closing"
  /\ events < MaxEvents /\ events' = events + 1
  /\ connected' = IF client # 0 THEN client \in up ELSE connected
  /\ \/ Schedule /\ stale' = (stale \/ client \in up)
     \/ UNCHANGED <<drainVars, stale>>
  /\ UNCHANGED <<client, clients, up, connector, disconnector, runner, clobbered>>

DrainOver(d) ==
  /\ drain' = [drain EXCEPT ![d] = [pc |-> "over"]]
  /\ refreshTask' = 0 /\ refreshPending' = FALSE
  /\ clobbered' = (clobbered \/ (refreshTask # d /\ Live(refreshTask)))

\* The head of the loop.
DrainStarts(d) ==
  /\ drain[d].pc \in {"created", "sleeping"}
  /\ IF client # 0 /\ connected
     THEN /\ drain' = [drain EXCEPT ![d] = Calls(client)]
          /\ refreshPending' = FALSE /\ UNCHANGED <<refreshTask, clobbered>>
     ELSE DrainOver(d)
  /\ stale' = FALSE
  /\ UNCHANGED <<linkVars, drains, connector, disconnector, runner, events>>

\* Mutant: what was scheduled during the calls is left alone.
DrainEndsAtOnce(d) ==
  /\ drain[d].pc = "calling" /\ DrainOver(d)
  /\ UNCHANGED <<linkVars, drains, connector, disconnector, runner, stale, events>>

\* The calls were answered, timed out or failed.
DrainCalled(d) ==
  /\ drain[d].pc = "calling"
  /\ IF refreshPending
     THEN /\ drain' = [drain EXCEPT ![d] = [pc |-> "sleeping"]]
          /\ UNCHANGED <<refreshTask, refreshPending, clobbered>>
     ELSE DrainOver(d)
  /\ UNCHANGED <<linkVars, drains, connector, disconnector, runner, stale, events>>

DrainUnwinds(d) ==
  /\ Unwinding(d) /\ DrainOver(d)
  /\ UNCHANGED <<linkVars, drains, connector, disconnector, runner, stale, events>>

---------------------------------------------------------------------------

\* The reader found the end of the stream.
ServerDies ==
  /\ \E k \in up : up' = up \ {k}
  /\ UNCHANGED <<client, clients, connected, drainVars, connector, disconnector, runner,
                 stale, clobbered, events>>

\* _runner_loop of the missions starts a thread or a turn.  It survives any
\* exception but goes down with a cancellation.
RunnerCalls ==
  /\ runner.pc = "idle" /\ client # 0 /\ connected /\ runner' = Calls(client)
  /\ UNCHANGED <<linkVars, drainVars, connector, disconnector, stale, clobbered, events>>
RunnerReturns ==
  /\ runner.pc = "calling" /\ runner' = Away
  /\ UNCHANGED <<linkVars, drainVars, connector, disconnector, stale, clobbered, events>>

DrainStep(d) == DrainStarts(d) \/ DrainCalled(d) \/ DrainUnwinds(d)

RuntimeNext ==
  \/ \E c \in Connectors : Connect(c) \/ Spawned(c) \/ CopyInfo(c) \/ ConnectFails(c) \/ Refreshed(c)
  \/ \E d \in Disconnectors : Disconnect(d) \/ DrainAwaited(d) \/ CloseEnds(d)
  \/ \E d \in Drains : DrainStep(d)
  \/ Event \/ ServerDies \/ RunnerCalls \/ RunnerReturns

RuntimeSpec == RuntimeInit /\ [][RuntimeNext]_runtimeVars

---------------------------------------------------------------------------

OnClient == [pc : {"calling", "refreshing", "connected", "spawning", "closing"}, on : 0..MaxClients]
RuntimeTypeOK ==
  /\ client \in 0..MaxClients /\ clients \in 0..MaxClients /\ up \subseteq Clientele
  /\ {connected, refreshPending, stale, clobbered} \subseteq BOOLEAN
  /\ refreshTask \in 0..MaxDrains /\ drains \in 0..MaxDrains
  /\ drain \in [Drains -> OnClient \cup [pc : {"idle", "created", "sleeping",
                                      "cancelling", "dropped", "over"}]]
  /\ connector \in [Connectors -> OnClient \cup {Away}]
  /\ disconnector \in [Disconnectors ->
                         OnClient \cup {Away} \cup [pc : {"waiting"}, for : Drains]]
  /\ runner \in OnClient \cup {Away, [pc |-> "dead"]} /\ events \in Nat

\* Whoever finds the runtime connected finds a client, whatever connects and
\* disconnects overlap and whatever events come late: callers test the flag and
\* use the client.
ConnectedHasClient == connected => client # 0

\* One drain at a time reads the instance, unless one that was cancelled ended
\* after the next was made and cleared its fields.
OneDrain == clobbered \/ Cardinality({d \in Drains : AtWork(d)}) <= 1

\* For a change the server announced while it was connected, somebody comes to read the instance
\* afterwards, unless the connection is closed: nothing scheduled is lost to a
\* drain that is about to end, sleeps or was cancelled.
RefreshFollows == stale ~> ~stale

\* The loop of the missions stays alive: they are kept "moving until blocked,
\* paused, or complete".  It does not hold: a disconnect ends it.
RunnerSurvives == runner.pc # "dead"

=============================================================================
