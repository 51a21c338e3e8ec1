----------------------------- MODULE PendingWork -----------------------------
(***************************************************************************)
(* GatewayNodePendingWorkStore (services/gateway_node_pending_work.py):    *)
(* requests that wait for a node to ask for them, at most one of a type.   *)
(* Its methods await nothing, so each is one step; what races is the order *)
(* of enqueues, drains, acknowledgements and the clock.  A node here keeps *)
(* the answer of its last drain, which is what it may acknowledge.         *)
(***************************************************************************)
EXTENDS Naturals, FiniteSets

CONSTANTS
  WorkNodes,  \* node ids
  WorkTypes,  \* types of requests; "status.request" is one
  MaxItems,   \* what max_items a drain may ask for, after its clamping
  MaxEnqueued \* bound: items created

ASSUME PendingWorkAssumption ==
  /\ MaxItems \subseteq Nat \ {0} /\ MaxEnqueued \in Nat
  /\ "status.request" \in WorkTypes

VARIABLES
  queued,    \* items_by_id of each node
  states,    \* nodes that have an entry in _state_by_node_id
  revision,  \* revision of that entry
  outdated,  \* items past expires_at_ms that nobody has pruned
  created,   \* ids given out so far, in the order of created_at_ms
  answer     \* the last drain of each node

workVars == <<queued, states, revision, outdated, created, answer>>

Priorities == {"high", "normal", "default"}
Rank == [high |-> 3, normal |-> 2, default |-> 1]
Item == [id : Nat, type : WorkTypes, priority : Priorities, expires : BOOLEAN]
NoAnswer == [items |-> {}, more |-> FALSE, baseline |-> FALSE, revision |-> 0]

WorkInit ==
  /\ queued = [n \in WorkNodes |-> {}] /\ states = {}
  /\ revision = [n \in WorkNodes |-> 0]
  /\ outdated = {} /\ created = 0
  /\ answer = [n \in WorkNodes |-> NoAnswer]

---------------------------------------------------------------------------

Fresh(n) == {i \in queued[n] : i.id \notin outdated}
\* revision after _prune_expired; the entry of a node without one is new.
Pruned(n) ==
  (IF n \in states THEN revision[n] ELSE 0) + (IF Fresh(n) = queued[n] THEN 0 ELSE 1)

\* _prune_state_if_empty.
Keep(n, items) ==
  /\ queued' = [queued EXCEPT ![n] = items]
  /\ states' = IF items = {} THEN states \ {n} ELSE states \cup {n}
  /\ outdated' = outdated \ {i.id : i \in queued[n] \ items}

\* An item of the same type that waits already is the answer.
Enqueue(n, t, p, mortal) ==
  LET item == [id |-> created + 1, type |-> t, priority |-> p, expires |-> mortal]
      known == \E i \in Fresh(n) : i.type = t
  IN  /\ created < MaxEnqueued
      /\ IF known
         THEN /\ Keep(n, Fresh(n)) /\ UNCHANGED created
              /\ revision' = [revision EXCEPT ![n] = Pruned(n)]
         ELSE /\ Keep(n, Fresh(n) \cup {item}) /\ created' = created + 1
              /\ revision' = [revision EXCEPT ![n] = Pruned(n) + 1]
      /\ UNCHANGED answer

Before(i, j) ==
  \/ Rank[i.priority] > Rank[j.priority]
  \/ Rank[i.priority] = Rank[j.priority] /\ i.id < j.id
FirstOf(S, k) == {i \in S : Cardinality({j \in S : Before(j, i)}) < k}

\* The revision in the answer is the one before the prune.
Drain(n, k, withStatus) ==
  LET items == FirstOf(Fresh(n), k)
      wanted == withStatus /\ \A i \in Fresh(n) : i.type # "status.request"
      given == wanted /\ Cardinality(items) < k
  IN  /\ Keep(n, Fresh(n)) /\ UNCHANGED created
      /\ revision' = [revision EXCEPT ![n] = Pruned(n)]
      /\ answer' = [answer EXCEPT ![n] =
                      [items |-> items, baseline |-> given,
                       more |-> Fresh(n) # items \/ (wanted /\ ~given),
                       revision |-> IF n \in states THEN revision[n] ELSE 0]]

\* Mutant: an acknowledgement is not a new revision.
AcknowledgeQuietly(n, ids) ==
  LET kept == {i \in queued[n] : i.id \notin ids}
  IN  /\ n \in states /\ Keep(n, kept)
      /\ UNCHANGED <<revision, created, answer>>

\* Ids that are not queued any more are skipped.
Acknowledge(n, ids) ==
  LET kept == {i \in queued[n] : i.id \notin ids}
  IN  /\ n \in states /\ Keep(n, kept)
      /\ revision' = [revision EXCEPT ![n] = IF kept = queued[n] THEN @ ELSE @ + 1]
      /\ UNCHANGED <<created, answer>>

\* The clock.
Outlive(n) ==
  \E i \in queued[n] :
    /\ i.expires /\ i.id \notin outdated /\ outdated' = outdated \cup {i.id}
    /\ UNCHANGED <<queued, states, revision, created, answer>>

WorkNext ==
  \E n \in WorkNodes :
    \/ \E t \in WorkTypes, p \in Priorities, mortal \in BOOLEAN : Enqueue(n, t, p, mortal)
    \/ \E k \in MaxItems, withStatus \in BOOLEAN : Drain(n, k, withStatus)
    \/ \E items \in SUBSET answer[n].items : Acknowledge(n, {i.id : i \in items})
    \/ Outlive(n)

WorkSpec == WorkInit /\ [][WorkNext]_workVars

---------------------------------------------------------------------------

WorkTypeOK ==
  /\ queued \in [WorkNodes -> SUBSET Item]
  /\ states \subseteq WorkNodes /\ revision \in [WorkNodes -> Nat]
  /\ outdated \subseteq Nat /\ created \in Nat
  /\ answer \in [WorkNodes -> [items : SUBSET Item, more : BOOLEAN,
                              baseline : BOOLEAN, revision : Nat]]

\* A node is asked for a thing once at a time, although requests come from
\* any side and the old ones expire and are pruned only now and then; and an
\* empty entry is not kept, so the table does not grow with nodes ever seen.
OneRequestPerType ==
  \A n \in WorkNodes :
    /\ \A i, j \in queued[n] : i.type = j.type => i = j
    /\ (n \in states) = (queued[n] # {})

\* While a node has an entry, no two contents of it have one revision.
RevisionGrows ==
  [][\A n \in WorkNodes :
       /\ n \in states /\ n \in states' => revision'[n] >= revision[n]
       /\ n \in states /\ n \in states' /\ queued'[n] # queued[n]
            => revision'[n] > revision[n]]_workVars

=============================================================================
