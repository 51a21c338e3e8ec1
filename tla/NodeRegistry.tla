---------------------------- MODULE NodeRegistry ----------------------------
(***************************************************************************)
(* GatewayNodeRegistry (services/gateway_node_registry.py) and the queue   *)
(* of foreground actions it owns (gateway_node_pending_actions.py): node   *)
(* sessions and their connections, invokes that wait for the result a node *)
(* reports, their timers, the session subscriptions, and the actions an    *)
(* iOS node in the background left to be pulled later.                     *)
(*                                                                         *)
(* Every method but invoke runs without an await, so it is one action.     *)
(* invoke is two: up to `await future`, and from there when the loop       *)
(* resumes the caller, which is later than the moment the future is set.   *)
(* A pending action is named by the invoke that made it.                   *)
(***************************************************************************)
EXTENDS Naturals, Sequences, FiniteSets

CONSTANTS
  Nodes, Conns, Sessions, Commands,
  Requests,    \* invokes
  Owner,       \* the node a connection registers
  Target,      \* the node an invoke is for
  Command,     \* its command
  Key,         \* its idempotency key, or a key of its own if it has none
  Foreground,  \* invokes of foreground commands of iOS nodes
  NoConn,      \* no connection
  MaxQueue     \* PENDING_NODE_ACTION_MAX_PER_NODE

ASSUME NodeRegistryAssumption ==
  /\ Owner \in [Conns -> Nodes]
  /\ Target \in [Requests -> Nodes]
  /\ Command \in [Requests -> Commands]
  /\ DOMAIN Key = Requests
  /\ Foreground \subseteq Requests
  /\ NoConn \notin Conns
  /\ MaxQueue \in Nat \ {0}

VARIABLES
  nodesById,     \* _nodes_by_id: the session of each node
  nodesByConn,   \* connections in _nodes_by_conn
  pending,       \* _pending_invokes
  timers,        \* invokes whose timer is armed
  future,        \* what the future of each invoke holds
  caller,        \* what the caller of each invoke has
  actions,       \* _actions_by_node_id
  expired,       \* actions older than PENDING_NODE_ACTION_TTL_MS
  nodeSessions,  \* _node_session_subscriptions
  sessionNodes,  \* _session_node_subscribers
  reported       \* external: what the node says of each invoke it was sent

sessionVars == <<nodesById, nodesByConn>>
invokeVars == <<pending, timers, future, caller>>
queueVars == <<actions, expired>>
subscriptionVars == <<nodeSessions, sessionNodes>>
registryVars == <<sessionVars, invokeVars, queueVars, subscriptionVars, reported>>

NoSession == [conn |-> NoConn, commands |-> {}]
Session == [conn : Conns, commands : SUBSET Commands]
Results == {"ok", "error", "background"}

RegistryInit ==
  /\ nodesById = [n \in Nodes |-> NoSession]
  /\ nodesByConn = {}
  /\ pending = {} /\ timers = {}
  /\ future = [r \in Requests |-> "none"]
  /\ caller = [r \in Requests |-> "new"]
  /\ actions = [n \in Nodes |-> <<>>] /\ expired = {}
  /\ nodeSessions = [n \in Nodes |-> {}]
  /\ sessionNodes = [s \in Sessions |-> {}]
  /\ reported = [r \in Requests |-> "unsent"]

Connected(n) == nodesById[n] # NoSession

---------------------------------------------------------------------------
(* Sessions.                                                               *)

Register(c, commands) ==
  /\ nodesById' = [nodesById EXCEPT ![Owner[c]] = [conn |-> c, commands |-> commands]]
  /\ nodesByConn' = nodesByConn \cup {c}
  /\ UNCHANGED <<invokeVars, queueVars, subscriptionVars, reported>>

\* Mutant: only the subscriptions go.
LoseSubscriptions(gone) ==
  /\ UNCHANGED <<pending, timers, future>>
  /\ nodeSessions' = [n \in Nodes |-> IF n \in gone THEN {} ELSE nodeSessions[n]]
  /\ sessionNodes' = [s \in Sessions |->
                        sessionNodes[s] \ {n \in gone : s \in nodeSessions[n]}]

\* Mutant: one of the two maps of subscriptions is left alone.
LoseOneMap(gone) ==
  LET failed == {r \in pending : Target[r] \in gone}
  IN  /\ pending' = pending \ failed
      /\ timers' = timers \ failed
      /\ future' = [r \in Requests |-> IF r \in failed /\ future[r] = "unset"
                                       THEN "disconnected" ELSE future[r]]
      /\ nodeSessions' = [n \in Nodes |-> IF n \in gone THEN {} ELSE nodeSessions[n]]
      /\ UNCHANGED sessionNodes

\* What a lost session takes along: subscriptions and pending invokes.
Lose(gone) ==
  LET failed == {r \in pending : Target[r] \in gone}
  IN  /\ pending' = pending \ failed
      /\ timers' = timers \ failed
      /\ future' = [r \in Requests |-> IF r \in failed /\ future[r] = "unset"
                                       THEN "disconnected" ELSE future[r]]
      /\ nodeSessions' = [n \in Nodes |-> IF n \in gone THEN {} ELSE nodeSessions[n]]
      /\ sessionNodes' = [s \in Sessions |->
                            sessionNodes[s] \ {n \in gone : s \in nodeSessions[n]}]

\* Mutant: the session is kept.
UnregisterConn(c) ==
  /\ c \in nodesByConn
  /\ nodesByConn' = nodesByConn \ {c}
  /\ Lose({Owner[c]})
  /\ UNCHANGED <<nodesById, caller, queueVars, reported>>

\* Whatever session the node has goes, be it of this connection or another.
Unregister(c) ==
  /\ c \in nodesByConn
  /\ nodesByConn' = nodesByConn \ {c}
  /\ nodesById' = [nodesById EXCEPT ![Owner[c]] = NoSession]
  /\ Lose({Owner[c]})
  /\ UNCHANGED <<caller, queueVars, reported>>

---------------------------------------------------------------------------
(* Invokes.                                                                *)

\* NOT_CONNECTED, or UNAVAILABLE when the connection cannot send.
InvokeRefused(r) ==
  /\ caller[r] = "new"
  /\ caller' = [caller EXCEPT ![r] = "refused"]
  /\ UNCHANGED <<sessionVars, pending, timers, future, queueVars, subscriptionVars,
                 reported>>

Invoke(r) ==
  /\ caller[r] = "new" /\ Connected(Target[r])
  /\ caller' = [caller EXCEPT ![r] = "waiting"]
  /\ reported' = [reported EXCEPT ![r] = "nothing"]
  /\ future' = [future EXCEPT ![r] = "unset"]
  /\ timers' = timers \cup {r}
  /\ pending' = pending \cup {r}
  /\ UNCHANGED <<sessionVars, queueVars, subscriptionVars>>

Settle(r, value) ==
  /\ pending' = pending \ {r}
  /\ future' = [future EXCEPT ![r] = IF @ = "unset" THEN value ELSE @]

\* _expire_pending_invoke, called by the timer.
TimerFires(r) ==
  /\ r \in timers
  /\ timers' = timers \ {r}
  /\ Settle(r, "timeout")
  /\ UNCHANGED <<sessionVars, caller, queueVars, subscriptionVars, reported>>

\* Mutant: a result settles whatever the node has pending.
HandleAnyResult(r, result) ==
  LET settled == {q \in pending : Target[q] = Target[r]}
  IN  /\ reported[r] \in {"nothing", result}
      /\ reported' = [reported EXCEPT ![r] = result]
      /\ timers' = timers \ settled
      /\ pending' = pending \ settled
      /\ future' = [q \in Requests |-> IF q \in settled /\ future[q] = "unset"
                                       THEN result ELSE future[q]]
      /\ UNCHANGED <<sessionVars, caller, queueVars, subscriptionVars>>

\* A node reports one result for an invoke, late or more than once.
HandleInvokeResult(r, result) ==
  /\ reported[r] \in {"nothing", result}
  /\ reported' = [reported EXCEPT ![r] = result]
  /\ IF r \in pending
     THEN timers' = timers \ {r} /\ Settle(r, result)
     ELSE UNCHANGED <<timers, pending, future>>
  /\ UNCHANGED <<sessionVars, caller, queueVars, subscriptionVars>>

\* The task that awaits the invoke is cancelled; the registry is not told.
CancelCaller(r) ==
  /\ caller[r] = "waiting"
  /\ caller' = [caller EXCEPT ![r] = "raised"]
  /\ future' = [future EXCEPT ![r] = IF @ = "unset" THEN "cancelled" ELSE @]
  /\ UNCHANGED <<sessionVars, pending, timers, queueVars, subscriptionVars, reported>>

---------------------------------------------------------------------------
(* The queue of foreground actions.                                        *)

\* What is left of the queue q when only members of S stay, in their order.
Kept(q, S) ==
  LET kept[i \in 0..Len(q)] ==
        IF i = 0 THEN <<>>
        ELSE IF q[i] \in S THEN Append(kept[i - 1], q[i]) ELSE kept[i - 1]
  IN  kept[Len(q)]

Live(n) == Kept(actions[n], Requests \ expired)
IdsOf(q) == {q[i] : i \in DOMAIN q}

\* Mutant: the key is queued for the action.
EnqueueKey(n, r) == Append(Live(n), Key[r])

\* Mutant: the queue is never cut.
EnqueueUncut(n, r) ==
  LET q == Live(n)
  IN  IF \E a \in IdsOf(q) : Key[a] = Key[r] THEN q ELSE Append(q, r)

Enqueue(n, r) ==
  LET live == Live(n)
      q == Append(live, r)
  IN  IF \E a \in IdsOf(live) : Key[a] = Key[r] THEN live
      ELSE SubSeq(q, 1 + (IF Len(q) > MaxQueue THEN Len(q) - MaxQueue ELSE 0), Len(q))

\* What invoke does when the loop resumes its caller.
Resume(r) ==
  /\ caller[r] = "waiting" /\ future[r] # "unset"
  /\ LET queues == future[r] = "background" /\ r \in Foreground
     IN  /\ caller' = [caller EXCEPT ![r] =
                         IF future[r] \in {"timeout", "disconnected"} THEN "raised"
                         ELSE IF queues THEN "queued" ELSE "answer"]
         /\ actions' = [actions EXCEPT ![Target[r]] =
                          IF queues THEN Enqueue(Target[r], r) ELSE @]
  /\ UNCHANGED <<sessionVars, pending, timers, future, expired, subscriptionVars, reported>>

\* Ten minutes have passed since the oldest live action was queued.
GrowOld(n) ==
  /\ Live(n) # <<>>
  /\ expired' = expired \cup {Head(Live(n))}
  /\ UNCHANGED <<sessionVars, invokeVars, actions, subscriptionVars, reported>>

Peek(n) ==
  /\ actions' = [actions EXCEPT ![n] = Live(n)]
  /\ UNCHANGED <<sessionVars, invokeVars, expired, subscriptionVars, reported>>

\* A connected node drops what it does not declare.
Pull(n) ==
  /\ actions' = [actions EXCEPT ![n] =
                   IF Connected(n)
                   THEN Kept(Live(n), {a \in Requests : Command[a] \in nodesById[n].commands})
                   ELSE Live(n)]
  /\ UNCHANGED <<sessionVars, invokeVars, expired, subscriptionVars, reported>>

Ack(n, ids) ==
  /\ actions' = [actions EXCEPT ![n] = Kept(Live(n), Requests \ ids)]
  /\ UNCHANGED <<sessionVars, invokeVars, expired, subscriptionVars, reported>>

---------------------------------------------------------------------------
(* Subscriptions of nodes to the messages of a session.                    *)

Subscribe(n, s) ==
  /\ nodeSessions' = [nodeSessions EXCEPT ![n] = @ \cup {s}]
  /\ sessionNodes' = [sessionNodes EXCEPT ![s] = @ \cup {n}]
  /\ UNCHANGED <<sessionVars, invokeVars, queueVars, reported>>

Unsubscribe(n, s) ==
  /\ nodeSessions' = [nodeSessions EXCEPT ![n] = @ \ {s}]
  /\ sessionNodes' = [sessionNodes EXCEPT ![s] = @ \ {n}]
  /\ UNCHANGED <<sessionVars, invokeVars, queueVars, reported>>

---------------------------------------------------------------------------

InvokeNext ==
  \E r \in Requests :
    \/ InvokeRefused(r) \/ Invoke(r) \/ TimerFires(r) \/ CancelCaller(r) \/ Resume(r)
    \/ \E result \in Results : HandleInvokeResult(r, result)

QueueNext ==
  \E n \in Nodes :
    \/ GrowOld(n) \/ Peek(n) \/ Pull(n)
    \/ \E ids \in SUBSET IdsOf(actions[n]) : Ack(n, ids)
    \/ \E s \in Sessions : Subscribe(n, s) \/ Unsubscribe(n, s)

RegistryNext ==
  \/ \E c \in Conns : (\E cmds \in SUBSET Commands : Register(c, cmds)) \/ Unregister(c)
  \/ InvokeNext
  \/ QueueNext

RegistrySpec == RegistryInit /\ [][RegistryNext]_registryVars

\* The event loop calls a timer that is due and resumes a task that is ready.
RegistryFairness ==
  \A r \in Requests : WF_registryVars(TimerFires(r)) /\ WF_registryVars(Resume(r))
FairRegistrySpec == RegistrySpec /\ RegistryFairness

---------------------------------------------------------------------------
(* Properties.                                                             *)

\* What each variable holds.
RegistryTypeOK ==
  /\ nodesById \in [Nodes -> Session \cup {NoSession}]
  /\ nodesByConn \subseteq Conns
  /\ pending \subseteq Requests /\ timers \subseteq Requests
  /\ future \in [Requests -> Results \cup {"none", "unset", "timeout", "disconnected",
                                           "cancelled"}]
  /\ caller \in [Requests -> {"new", "refused", "waiting", "answer", "queued", "raised"}]
  /\ actions \in [Nodes -> Seq(Requests)]
  /\ expired \subseteq Requests
  /\ nodeSessions \in [Nodes -> SUBSET Sessions]
  /\ sessionNodes \in [Sessions -> SUBSET Nodes]
  /\ reported \in [Requests -> Results \cup {"unsent", "nothing"}]

\* Nobody waits for what cannot come: an invoke whose future is unset is in
\* the table of pending invokes, its timer is armed and its node is connected,
\* however results, timers, disconnects and cancelled callers are interleaved;
\* and an entry is never left behind without its timer.
InvokesAreTracked ==
  /\ \A r \in Requests : future[r] = "unset" => r \in pending
  /\ pending = timers
  /\ \A r \in pending : Connected(Target[r]) /\ future[r] \in {"unset", "cancelled"}

\* A node can be disconnected: the connection of every session is in the map
\* that unregister looks it up in.
SessionsAreReachable ==
  \A n \in Nodes : Connected(n) =>
    nodesById[n].conn \in nodesByConn /\ Owner[nodesById[n].conn] = n

\* The two maps of subscriptions mirror each other.
SubscriptionsMirror ==
  \A n \in Nodes, s \in Sessions : s \in nodeSessions[n] <=> n \in sessionNodes[s]

\* The queue of a node is bounded, holds its own actions, and holds one action
\* for an idempotency key however often the invoke is retried.
QueuesAreSound ==
  \A n \in Nodes :
    /\ Len(actions[n]) <= MaxQueue
    /\ \A i, j \in DOMAIN actions[n] :
         /\ Target[actions[n][i]] = n
         /\ Key[actions[n][i]] = Key[actions[n][j]] => i = j

\* invoke keeps the promise of a ledger of calls: its caller is given a result
\* only if the node reported one for that very invoke, and is given something.
Outcome(r) ==
  CASE caller[r] \in {"new", "refused"} -> "unused"
    [] caller[r] = "waiting" -> "open"
    [] caller[r] \in {"answer", "queued"} -> "answer"
    [] caller[r] = "raised" -> "raised"
Ledger == INSTANCE CallLedger WITH
  Ids <- Requests,
  outcome <- [r \in Requests |-> Outcome(r)],
  answered <- {r \in Requests : reported[r] \in Results}

\* The refinement above, with its liveness.
InvokeLedger == Ledger!LedgerSpec
=============================================================================
