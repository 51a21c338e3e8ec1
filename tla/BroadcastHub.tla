---------------------------- MODULE BroadcastHub ----------------------------
(***************************************************************************)
(* BroadcastHub (services/hub.py): websockets subscribe under the name of  *)
(* a client, the gateway methods set what a client wants to hear of        *)
(* sessions, and everything in the process publishes.  No method awaits    *)
(* anything, so each is one step; a socket that is gone is noticed by the  *)
(* next event that is sent to it (app.py).                                 *)
(***************************************************************************)
EXTENDS Naturals, Sequences, FiniteSets

CONSTANTS
  Clients,     \* client ids
  Sockets,     \* websocket connections, each with a queue of its own
  Sessions,    \* canonical session keys
  MaxPublished \* bound: events published

ASSUME HubAssumption ==
  /\ IsFiniteSet(Sockets) /\ MaxPublished \in Nat
  /\ {"absent", "anonymous"} \cap Clients = {}

VARIABLES
  subscriber,  \* _subscribers: who listens on each queue
  listeners,   \* _client_subscriber_counts, 0 for no entry
  toSessions,  \* clients with sessions_subscribed
  toMessages,  \* session_message_aliases of each client
  heard,       \* the queues
  gone,        \* sockets whose other end is gone
  published    \* bound: events published so far

hubVars == <<subscriber, listeners, toSessions, toMessages, heard, gone, published>>

HubEvent == [kind : {"runtime", "sessions"}] \cup [kind : {"message"}, of : Sessions]

HubInit ==
  /\ subscriber = [s \in Sockets |-> "absent"]
  /\ listeners = [c \in Clients |-> 0]
  /\ toSessions = {} /\ toMessages = [c \in Clients |-> {}]
  /\ heard = [s \in Sockets |-> <<>>]
  /\ gone = {} /\ published = 0

---------------------------------------------------------------------------

Listens(c) == \E s \in Sockets : subscriber[s] = c

\* Mutant: a client that listens already is not counted again.
SubscribeOnce(s, c) ==
  /\ subscriber[s] = "absent"
  /\ subscriber' = [subscriber EXCEPT ![s] = c]
  /\ listeners' = IF c \in Clients THEN [listeners EXCEPT ![c] = 1] ELSE listeners
  /\ UNCHANGED <<toSessions, toMessages, heard, gone, published>>

\* The entry of subscribe().
Subscribe(s, c) ==
  /\ subscriber[s] = "absent"
  /\ subscriber' = [subscriber EXCEPT ![s] = c]
  /\ listeners' = IF c \in Clients THEN [listeners EXCEPT ![c] = @ + 1] ELSE listeners
  /\ UNCHANGED <<toSessions, toMessages, heard, gone, published>>

\* Mutant: whoever leaves takes the client's subscriptions along.
LeaveForgets(s) ==
  LET c == subscriber[s]
  IN  /\ subscriber' = [subscriber EXCEPT ![s] = "absent"]
      /\ heard' = [heard EXCEPT ![s] = <<>>] /\ gone' = gone \ {s}
      /\ listeners' = IF c \in Clients THEN [listeners EXCEPT ![c] = @ - 1] ELSE listeners
      /\ toSessions' = toSessions \ {c}
      /\ toMessages' = IF c \in Clients THEN [toMessages EXCEPT ![c] = {}] ELSE toMessages
      /\ UNCHANGED published

\* Its finally: the last listener of a client takes its subscriptions along.
Leave(s) ==
  LET c == subscriber[s]
      last == c \in Clients /\ listeners[c] <= 1
  IN  /\ subscriber' = [subscriber EXCEPT ![s] = "absent"]
      /\ heard' = [heard EXCEPT ![s] = <<>>] /\ gone' = gone \ {s}
      /\ listeners' = IF c \in Clients THEN [listeners EXCEPT ![c] = @ - 1] ELSE listeners
      /\ toSessions' = IF last THEN toSessions \ {c} ELSE toSessions
      /\ toMessages' = IF last THEN [toMessages EXCEPT ![c] = {}] ELSE toMessages
      /\ UNCHANGED published

SetSessions(c, on) ==
  /\ toSessions' = IF on THEN toSessions \cup {c} ELSE toSessions \ {c}
  /\ UNCHANGED <<subscriber, listeners, toMessages, heard, gone, published>>

SetMessages(c, k, on) ==
  /\ toMessages' = [toMessages EXCEPT ![c] = IF on THEN @ \cup {k} ELSE @ \ {k}]
  /\ UNCHANGED <<subscriber, listeners, toSessions, heard, gone, published>>

\* _event_visible_to_subscriber.
Visible(c, e) ==
  \/ c = "anonymous" \/ e.kind = "runtime"
  \/ c \in toSessions
  \/ c \in Clients /\ e.kind = "message" /\ e.of \in toMessages[c]

\* The queues have no limit, so no subscriber is dropped for a full one.
Publish(e) ==
  /\ published < MaxPublished /\ published' = published + 1
  /\ heard' = [s \in Sockets |->
                 IF subscriber[s] # "absent" /\ Visible(subscriber[s], e)
                 THEN Append(heard[s], e) ELSE heard[s]]
  /\ UNCHANGED <<subscriber, listeners, toSessions, toMessages, gone>>

\* The websocket handler sends the next event.
Send(s) ==
  /\ heard[s] # <<>> /\ s \notin gone
  /\ heard' = [heard EXCEPT ![s] = Tail(@)]
  /\ UNCHANGED <<subscriber, listeners, toSessions, toMessages, gone, published>>

SendFails(s) == heard[s] # <<>> /\ s \in gone /\ Leave(s)

\* External: the other end of a socket goes away.
HangUp(s) ==
  /\ subscriber[s] # "absent" /\ s \notin gone
  /\ gone' = gone \cup {s}
  /\ UNCHANGED <<subscriber, listeners, toSessions, toMessages, heard, published>>

HubNext ==
  \/ \E s \in Sockets :
       \/ \E c \in Clients \cup {"anonymous"} : Subscribe(s, c)
       \/ Send(s) \/ SendFails(s) \/ HangUp(s)
  \/ \E c \in Clients, on \in BOOLEAN :
       SetSessions(c, on) \/ \E k \in Sessions : SetMessages(c, k, on)
  \/ \E e \in HubEvent : Publish(e)

HubSpec == HubInit /\ [][HubNext]_hubVars

---------------------------------------------------------------------------

HubTypeOK ==
  /\ subscriber \in [Sockets -> Clients \cup {"anonymous", "absent"}]
  /\ listeners \in [Clients -> Nat]
  /\ toSessions \subseteq Clients
  /\ toMessages \in [Clients -> SUBSET Sessions]
  /\ heard \in [Sockets -> Seq(HubEvent)]
  /\ gone \subseteq Sockets /\ published \in Nat

\* The count that decides whether a client's subscriptions are dropped is the
\* number of its queues, over any order of arrivals, failed sends and hang-ups.
CountsMatch ==
  \A c \in Clients : listeners[c] = Cardinality({s \in Sockets : subscriber[s] = c})

\* A change in who listens never touches the subscriptions of a client that
\* still listens, and leaves none behind of a client that stopped (hub.py's
\* subscriptions of a client outlive one of its tabs, not the last).
SubscriptionsFollowListeners ==
  [][subscriber' # subscriber =>
       \A c \in Clients :
         IF Listens(c)'
         THEN /\ toMessages'[c] = toMessages[c]
              /\ (c \in toSessions') = (c \in toSessions)
         ELSE Listens(c) => c \notin toSessions' /\ toMessages'[c] = {}]_hubVars

=============================================================================
