------------------------ MODULE GatewayServicesProofs ------------------------
(***************************************************************************)
(* Proofs about the services of GatewayServices for any values of their    *)
(* constants: here the hub, pending work, probes and pairing; the others   *)
(* have modules of their own, and at the end all run in one process.       *)
(***************************************************************************)
EXTENDS GatewayServices, DeliveriesProofs, ScheduledJobsProofs, WakeQueueProofs,
        RuntimeRefreshProofs, FiniteSetTheorems, TLAPS

---------------------------------------------------------------------------
(* The broadcast hub: any clients, sockets and sessions *)

Queues(c) == {s \in Sockets : subscriber[s] = c}

HubInv == HubTypeOK /\ CountsMatch

LEMMA QueuesAreFinite ==
  ASSUME NEW c
  PROVE  IsFiniteSet(Queues(c)) /\ Cardinality(Queues(c)) \in Nat
<1>1. IsFiniteSet(Queues(c))
  BY FS_Subset, HubAssumption DEF Queues
<1> QED
  BY <1>1, FS_CardinalityType

LEMMA HubStarts == HubInit => HubInv
<1> SUFFICES ASSUME HubInit PROVE HubInv
  OBVIOUS
<1>1. HubTypeOK
  <2>1. heard \in [Sockets -> Seq(HubEvent)]
    <3>1. <<>> \in Seq(HubEvent)
      OBVIOUS
    <3> QED
      BY <3>1 DEF HubInit
  <2> QED
    BY <2>1 DEF HubInit, HubTypeOK
<1>2. CountsMatch
  <2> SUFFICES ASSUME NEW c \in Clients
               PROVE  listeners[c] = Cardinality({s \in Sockets : subscriber[s] = c})
    BY DEF CountsMatch
  <2>1. {s \in Sockets : subscriber[s] = c} = {}
    BY HubAssumption DEF HubInit
  <2> QED
    BY <2>1, FS_EmptySet DEF HubInit
<1> QED
  BY <1>1, <1>2 DEF HubInv

\* A new queue is counted for its client and no other.
LEMMA SubscribeKeeps ==
  ASSUME HubInv, NEW s \in Sockets, NEW c \in Clients \cup {"anonymous"}, Subscribe(s, c)
  PROVE  HubInv'
<1>1. HubTypeOK'
  BY DEF HubInv, HubTypeOK, Subscribe
<1>2. CountsMatch'
  <2> SUFFICES ASSUME NEW d \in Clients
               PROVE  listeners'[d] = Cardinality(Queues(d)')
    BY DEF CountsMatch, Queues
  <2>1. listeners[d] = Cardinality(Queues(d)) /\ IsFiniteSet(Queues(d))
    BY QueuesAreFinite DEF HubInv, CountsMatch, Queues
  <2>2. CASE d = c
    <3>1. Queues(d)' = Queues(d) \cup {s} /\ s \notin Queues(d)
      BY <2>2, HubAssumption DEF HubInv, HubTypeOK, Subscribe, Queues
    <3>2. Cardinality(Queues(d) \cup {s}) = Cardinality(Queues(d)) + 1
      BY <2>1, <3>1, FS_AddElement
    <3> QED
      BY <2>1, <2>2, <3>1, <3>2 DEF HubInv, HubTypeOK, Subscribe
  <2>3. CASE d # c
    <3>1. Queues(d)' = Queues(d)
      BY <2>3, HubAssumption DEF HubInv, HubTypeOK, Subscribe, Queues
    <3> QED
      BY <2>1, <2>3, <3>1 DEF HubInv, HubTypeOK, Subscribe
  <2> QED
    BY <2>2, <2>3
<1> QED
  BY <1>1, <1>2 DEF HubInv

\* What a departure does to the queues of each client.
LEMMA LeaveQueues ==
  ASSUME HubInv, NEW s \in Sockets, Leave(s), NEW d \in Clients
  PROVE  /\ listeners[d] = Cardinality(Queues(d)) /\ IsFiniteSet(Queues(d))
         /\ d = subscriber[s] => /\ Queues(d)' = Queues(d) \ {s} /\ s \in Queues(d)
                                 /\ Cardinality(Queues(d) \ {s}) = listeners[d] - 1
                                 /\ listeners[d] - 1 \in Nat
         /\ d # subscriber[s] => Queues(d)' = Queues(d)
<1>1. listeners[d] = Cardinality(Queues(d)) /\ IsFiniteSet(Queues(d))
  BY QueuesAreFinite DEF HubInv, CountsMatch, Queues
<1>2. ASSUME d = subscriber[s]
      PROVE  /\ Queues(d)' = Queues(d) \ {s} /\ s \in Queues(d)
             /\ Cardinality(Queues(d) \ {s}) = listeners[d] - 1
             /\ listeners[d] - 1 \in Nat
  <2>1. Queues(d)' = Queues(d) \ {s} /\ s \in Queues(d)
    BY <1>2, HubAssumption DEF HubInv, HubTypeOK, Leave, Queues
  <2>2. /\ IsFiniteSet(Queues(d) \ {s})
        /\ Cardinality(Queues(d) \ {s}) = Cardinality(Queues(d)) - 1
    BY <1>1, <2>1, FS_RemoveElement
  <2>3. Cardinality(Queues(d) \ {s}) \in Nat
    BY <2>2, FS_CardinalityType
  <2> QED
    BY <1>1, <2>1, <2>2, <2>3
<1>3. ASSUME d # subscriber[s] PROVE Queues(d)' = Queues(d)
  BY <1>3, HubAssumption DEF HubInv, HubTypeOK, Leave, Queues
<1> QED
  BY <1>1, <1>2, <1>3

LEMMA LeaveKeeps ==
  ASSUME HubInv, NEW s \in Sockets, Leave(s)
  PROVE  HubInv'
<1>1. ASSUME NEW d \in Clients
      PROVE  listeners'[d] = Cardinality(Queues(d)') /\ listeners'[d] \in Nat
  <2>1. CASE d = subscriber[s]
    BY <2>1, LeaveQueues DEF HubInv, HubTypeOK, Leave
  <2>2. CASE d # subscriber[s]
    BY <2>2, LeaveQueues DEF HubInv, HubTypeOK, Leave
  <2> QED
    BY <2>1, <2>2
<1>2. HubTypeOK'
  <2>1. listeners' \in [Clients -> Nat]
    <3>1. DOMAIN listeners' = Clients /\ listeners' = [c \in Clients |-> listeners'[c]]
      BY DEF HubInv, HubTypeOK, Leave
    <3> QED
      BY <1>1, <3>1
  <2>2. heard' \in [Sockets -> Seq(HubEvent)]
    BY DEF HubInv, HubTypeOK, Leave
  <2>3. toSessions' \subseteq Clients /\ toMessages' \in [Clients -> SUBSET Sessions]
    BY DEF HubInv, HubTypeOK, Leave
  <2>4. subscriber' \in [Sockets -> Clients \cup {"anonymous", "absent"}]
    BY DEF HubInv, HubTypeOK, Leave
  <2> QED
    BY <2>1, <2>2, <2>3, <2>4 DEF HubInv, HubTypeOK, Leave
<1> QED
  BY <1>1, <1>2 DEF HubInv, CountsMatch, Queues

LEMMA HubStep == HubInv /\ [HubNext]_hubVars => HubInv'
<1> SUFFICES ASSUME HubInv, [HubNext]_hubVars PROVE HubInv'
  OBVIOUS
<1>1. ASSUME NEW s \in Sockets, NEW c \in Clients \cup {"anonymous"}, Subscribe(s, c)
      PROVE  HubInv'
  BY <1>1, SubscribeKeeps
<1>2. ASSUME NEW s \in Sockets, Send(s) PROVE HubInv'
  <2>1. Tail(heard[s]) \in Seq(HubEvent)
    BY <1>2 DEF HubInv, HubTypeOK, Send
  <2> QED
    BY <1>2, <2>1 DEF HubInv, HubTypeOK, CountsMatch, Send
<1>3. ASSUME NEW s \in Sockets, SendFails(s) PROVE HubInv'
  BY <1>3, LeaveKeeps DEF SendFails
<1>4. ASSUME NEW s \in Sockets, HangUp(s) PROVE HubInv'
  BY <1>4 DEF HubInv, HubTypeOK, CountsMatch, HangUp
<1>5. ASSUME NEW c \in Clients, NEW on \in BOOLEAN, SetSessions(c, on) PROVE HubInv'
  BY <1>5 DEF HubInv, HubTypeOK, CountsMatch, SetSessions
<1>6. ASSUME NEW c \in Clients, NEW on \in BOOLEAN, NEW k \in Sessions, SetMessages(c, k, on)
      PROVE  HubInv'
  BY <1>6 DEF HubInv, HubTypeOK, CountsMatch, SetMessages
<1>7. ASSUME NEW e \in HubEvent, Publish(e) PROVE HubInv'
  <2>1. heard' \in [Sockets -> Seq(HubEvent)]
    <3>1. \A s \in Sockets : Append(heard[s], e) \in Seq(HubEvent)
      BY DEF HubInv, HubTypeOK
    <3> QED
      BY <1>7, <3>1 DEF HubInv, HubTypeOK, Publish
  <2> QED
    BY <1>7, <2>1 DEF HubInv, HubTypeOK, CountsMatch, Publish
<1>8. CASE UNCHANGED hubVars
  BY <1>8 DEF HubInv, HubTypeOK, CountsMatch, hubVars
<1> QED
  BY <1>1, <1>2, <1>3, <1>4, <1>5, <1>6, <1>7, <1>8 DEF HubNext

\* Types and counts are right after any sequence of calls: the count of a
\* client is the number of its queues.
THEOREM HubCounts == HubSpec => [](HubTypeOK /\ CountsMatch)
<1>1. HubInit => HubInv
  BY HubStarts
<1>2. HubInv /\ [HubNext]_hubVars => HubInv'
  BY HubStep
<1> QED
  BY <1>1, <1>2, PTL DEF HubSpec, HubInv

\* With that, the last queue of a client is what its count says it is.
LEMMA DepartureFollows ==
  ASSUME HubInv, NEW s \in Sockets, Leave(s), NEW c \in Clients
  PROVE  IF Listens(c)'
         THEN /\ toMessages'[c] = toMessages[c]
              /\ (c \in toSessions') = (c \in toSessions)
         ELSE Listens(c) => c \notin toSessions' /\ toMessages'[c] = {}
<1>1. /\ Listens(c) <=> Queues(c) # {}
      /\ Listens(c)' <=> Queues(c)' # {}
  BY DEF Listens, Queues
<1>2. CASE c = subscriber[s]
  <2>1. /\ Queues(c)' = Queues(c) \ {s}
        /\ Cardinality(Queues(c) \ {s}) = listeners[c] - 1
        /\ listeners[c] - 1 \in Nat /\ IsFiniteSet(Queues(c))
    BY <1>2, LeaveQueues
  <2>2. IsFiniteSet(Queues(c) \ {s})
    BY <2>1, FS_RemoveElement
  <2>3. Listens(c)' <=> listeners[c] - 1 # 0
    BY <1>1, <2>1, <2>2, FS_EmptySet
  <2>4. listeners[c] \in Nat
    BY DEF HubInv, HubTypeOK
  <2> QED
    BY <1>2, <2>1, <2>3, <2>4 DEF Leave, HubInv, HubTypeOK
<1>3. CASE c # subscriber[s]
  <2>1. Listens(c)' <=> Listens(c)
    BY <1>1, <1>3, LeaveQueues
  <2>2. toMessages'[c] = toMessages[c] /\ (c \in toSessions') = (c \in toSessions)
    BY <1>3 DEF Leave, HubInv, HubTypeOK
  <2> QED
    BY <2>1, <2>2
<1> QED
  BY <1>2, <1>3

\* Subscriptions are touched by who listens in two ways only: they stay while
\* a client listens and go with its last queue.
THEOREM SubscriptionsFollow == HubSpec => SubscriptionsFollowListeners
<1>1. HubInv /\ [HubNext]_hubVars
        => [subscriber' # subscriber =>
              \A c \in Clients :
                IF Listens(c)'
                THEN /\ toMessages'[c] = toMessages[c]
                     /\ (c \in toSessions') = (c \in toSessions)
                ELSE Listens(c) => c \notin toSessions' /\ toMessages'[c] = {}]_hubVars
  <2> SUFFICES ASSUME HubInv, HubNext, subscriber' # subscriber, NEW c \in Clients
               PROVE  IF Listens(c)'
                      THEN /\ toMessages'[c] = toMessages[c]
                           /\ (c \in toSessions') = (c \in toSessions)
                      ELSE Listens(c) => c \notin toSessions' /\ toMessages'[c] = {}
    OBVIOUS
  <2>1. ASSUME NEW s \in Sockets, NEW d \in Clients \cup {"anonymous"}, Subscribe(s, d)
        PROVE  /\ Listens(c) => Listens(c)'
               /\ toMessages'[c] = toMessages[c]
               /\ (c \in toSessions') = (c \in toSessions)
    BY <2>1, HubAssumption DEF Listens, Subscribe, HubInv, HubTypeOK
  <2>2. ASSUME NEW s \in Sockets, SendFails(s) PROVE Leave(s)
    BY <2>2 DEF SendFails
  <2> QED
    BY <2>1, <2>2, DepartureFollows DEF HubNext, Send, HangUp, SetSessions, SetMessages, Publish
<1>2. HubSpec => []HubInv
  BY HubStarts, HubStep, PTL DEF HubSpec
<1> QED
  BY <1>1, <1>2, PTL DEF HubSpec, SubscriptionsFollowListeners

---------------------------------------------------------------------------
(* Pending work: any nodes, types and limits *)

WorkInv == WorkTypeOK /\ OneRequestPerType

LEMMA WorkStarts == WorkInit => WorkInv
BY DEF WorkInit, WorkInv, WorkTypeOK, OneRequestPerType, NoAnswer

\* What Keep leaves is sound if the items kept are.
LEMMA KeepSound ==
  ASSUME WorkInv, NEW n \in WorkNodes, NEW items \in SUBSET Item, Keep(n, items),
         \A i, j \in items : i.type = j.type => i = j
  PROVE  /\ OneRequestPerType'
         /\ queued' \in [WorkNodes -> SUBSET Item]
         /\ states' \subseteq WorkNodes /\ outdated' \subseteq Nat
<1>1. /\ queued' \in [WorkNodes -> SUBSET Item]
      /\ states' \subseteq WorkNodes /\ outdated' \subseteq Nat
  BY DEF WorkInv, WorkTypeOK, Keep
<1>2. ASSUME NEW m \in WorkNodes
      PROVE  /\ \A i, j \in queued'[m] : i.type = j.type => i = j
             /\ (m \in states') = (queued'[m] # {})
  <2>1. CASE m = n
    BY <2>1 DEF WorkInv, WorkTypeOK, Keep
  <2>2. CASE m # n
    BY <2>2 DEF WorkInv, WorkTypeOK, OneRequestPerType, Keep
  <2> QED
    BY <2>1, <2>2
<1> QED
  BY <1>1, <1>2 DEF OneRequestPerType

LEMMA PrunedType ==
  ASSUME WorkTypeOK, NEW n \in WorkNodes
  PROVE  Pruned(n) \in Nat
BY DEF WorkTypeOK, Pruned

LEMMA EnqueueKeeps ==
  ASSUME WorkInv, NEW n \in WorkNodes, NEW t \in WorkTypes, NEW p \in Priorities,
         NEW mortal \in BOOLEAN, Enqueue(n, t, p, mortal)
  PROVE  WorkInv'
<1> DEFINE item == [id |-> created + 1, type |-> t, priority |-> p, expires |-> mortal]
<1>1. item \in Item /\ Fresh(n) \in SUBSET Item /\ Fresh(n) \subseteq queued[n]
  BY DEF WorkInv, WorkTypeOK, Item, Fresh
<1>2. \A i, j \in Fresh(n) : i.type = j.type => i = j
  BY <1>1 DEF WorkInv, OneRequestPerType
<1>3. created' \in Nat /\ revision' \in [WorkNodes -> Nat] /\ UNCHANGED answer
  BY PrunedType DEF WorkInv, WorkTypeOK, Enqueue
<1>4. CASE \E i \in Fresh(n) : i.type = t
  <2>1. Keep(n, Fresh(n))
    BY <1>4 DEF Enqueue
  <2> QED
    BY <1>1, <1>2, <1>3, <2>1, KeepSound DEF WorkInv, WorkTypeOK
<1>5. CASE ~ \E i \in Fresh(n) : i.type = t
  <2>1. Keep(n, Fresh(n) \cup {item})
    BY <1>5 DEF Enqueue
  <2>2. \A i, j \in Fresh(n) \cup {item} : i.type = j.type => i = j
    <3>1. item.type = t
      OBVIOUS
    <3> QED
      BY <1>2, <1>5, <3>1
  <2>3. Fresh(n) \cup {item} \in SUBSET Item
    BY <1>1
  <2> QED
    BY <1>3, <2>1, <2>2, <2>3, KeepSound DEF WorkInv, WorkTypeOK
<1> QED
  BY <1>4, <1>5

LEMMA DrainKeeps ==
  ASSUME WorkInv, NEW n \in WorkNodes, NEW k \in MaxItems, NEW withStatus \in BOOLEAN,
         Drain(n, k, withStatus)
  PROVE  WorkInv'
<1>1. Fresh(n) \in SUBSET Item /\ Fresh(n) \subseteq queued[n]
  BY DEF WorkInv, WorkTypeOK, Fresh
<1>2. \A i, j \in Fresh(n) : i.type = j.type => i = j
  BY <1>1 DEF WorkInv, OneRequestPerType
<1>3. Keep(n, Fresh(n)) /\ created' = created
  BY DEF Drain
<1>4. revision' \in [WorkNodes -> Nat]
  BY PrunedType DEF WorkInv, WorkTypeOK, Drain
<1>5. answer' \in [WorkNodes -> [items : SUBSET Item, more : BOOLEAN,
                                baseline : BOOLEAN, revision : Nat]]
  <2>1. FirstOf(Fresh(n), k) \in SUBSET Item
    BY <1>1 DEF FirstOf
  <2>2. (IF n \in states THEN revision[n] ELSE 0) \in Nat
    BY DEF WorkInv, WorkTypeOK
  <2> QED
    BY <2>1, <2>2 DEF WorkInv, WorkTypeOK, Drain
<1> QED
  BY <1>1, <1>2, <1>3, <1>4, <1>5, KeepSound DEF WorkInv, WorkTypeOK

LEMMA AcknowledgeKeeps ==
  ASSUME WorkInv, NEW n \in WorkNodes, NEW ids, Acknowledge(n, ids)
  PROVE  WorkInv'
<1> DEFINE kept == {i \in queued[n] : i.id \notin ids}
<1>1. kept \in SUBSET Item /\ \A i, j \in kept : i.type = j.type => i = j
  BY DEF WorkInv, WorkTypeOK, OneRequestPerType
<1>2. Keep(n, kept) /\ revision' \in [WorkNodes -> Nat] /\ UNCHANGED <<created, answer>>
  BY DEF WorkInv, WorkTypeOK, Acknowledge
<1> QED
  BY <1>1, <1>2, KeepSound DEF WorkInv, WorkTypeOK

LEMMA WorkStep == WorkInv /\ [WorkNext]_workVars => WorkInv'
<1> SUFFICES ASSUME WorkInv, [WorkNext]_workVars PROVE WorkInv'
  OBVIOUS
<1>1. ASSUME NEW n \in WorkNodes, Outlive(n) PROVE WorkInv'
  <2>1. PICK i \in queued[n] : outdated' = outdated \cup {i.id}
    BY <1>1 DEF Outlive
  <2>2. i.id \in Nat
    BY <2>1 DEF WorkInv, WorkTypeOK, Item
  <2>3. UNCHANGED <<queued, states, revision, created, answer>>
    BY <1>1 DEF Outlive
  <2>4. OneRequestPerType'
    BY <2>3 DEF WorkInv, OneRequestPerType
  <2>5. outdated' \subseteq Nat
    BY <2>1, <2>2 DEF WorkInv, WorkTypeOK
  <2> QED
    BY <2>3, <2>4, <2>5 DEF WorkInv, WorkTypeOK
<1>2. CASE UNCHANGED workVars
  BY <1>2 DEF WorkInv, WorkTypeOK, OneRequestPerType, workVars
<1> QED
  BY <1>1, <1>2, EnqueueKeeps, DrainKeeps, AcknowledgeKeeps DEF WorkNext

LEMMA WorkInvariant == WorkSpec => []WorkInv
BY WorkStarts, WorkStep, PTL DEF WorkSpec

\* A node has one request of a type at most, and no entry without a request.
THEOREM RequestsAreSingle == WorkSpec => []OneRequestPerType
<1>1. WorkInv => OneRequestPerType
  BY DEF WorkInv
<1> QED
  BY <1>1, WorkInvariant, PTL

\* Every variable of the model keeps its type.
THEOREM WorkTypeCorrect == WorkSpec => []WorkTypeOK
<1>1. WorkInv => WorkTypeOK
  BY DEF WorkInv
<1> QED
  BY <1>1, WorkInvariant, PTL

\* Two contents of one entry have two revisions, and the later is the greater.
THEOREM RevisionsGrow == WorkSpec => RevisionGrows
<1> DEFINE Grows(n) ==
      /\ n \in states /\ n \in states' => revision'[n] >= revision[n]
      /\ n \in states /\ n \in states' /\ queued'[n] # queued[n]
           => revision'[n] > revision[n]
<1>1. WorkInv /\ [WorkNext]_workVars => [\A n \in WorkNodes : Grows(n)]_workVars
  <2> SUFFICES ASSUME WorkInv, WorkNext, NEW n \in WorkNodes PROVE Grows(n)
    OBVIOUS
  <2> USE DEF WorkInv, WorkTypeOK
  <2>1. ASSUME NEW m \in WorkNodes, NEW t \in WorkTypes, NEW p \in Priorities,
               NEW mortal \in BOOLEAN, Enqueue(m, t, p, mortal)
        PROVE  Grows(n)
    BY <2>1 DEF Enqueue, Keep, Pruned
  <2>2. ASSUME NEW m \in WorkNodes, NEW k \in MaxItems, NEW withStatus \in BOOLEAN,
               Drain(m, k, withStatus)
        PROVE  Grows(n)
    BY <2>2 DEF Drain, Keep, Pruned
  <2>3. ASSUME NEW m \in WorkNodes, NEW ids, Acknowledge(m, ids) PROVE Grows(n)
    BY <2>3 DEF Acknowledge, Keep
  <2>4. ASSUME NEW m \in WorkNodes, Outlive(m) PROVE Grows(n)
    BY <2>4 DEF Outlive
  <2> QED
    BY <2>1, <2>2, <2>3, <2>4 DEF WorkNext
<1> QED
  BY <1>1, WorkInvariant, PTL DEF WorkSpec, RevisionGrows

---------------------------------------------------------------------------
(* Probes: any nodes, callers and number of probes *)

ProbeInv == ProbeTypeOK /\ OneProbePerNode

LEMMA ProbeStarts == ProbeInit => ProbeInv
BY ProbeAssumption DEF ProbeInit, ProbeInv, ProbeTypeOK, OneProbePerNode, Running, Probes

\* Each step keeps the types.
LEMMA ProbeTypes ==
  ASSUME ProbeTypeOK, [ProbeNext]_probeVars
  PROVE  ProbeTypeOK'
<1> USE ProbeAssumption DEF ProbeTypeOK
<1>1. ASSUME NEW a \in Askers, NEW n \in ProbeNodes, JoinProbe(a, n) PROVE ProbeTypeOK'
  <2>1. inflight[n] \in Probes
    BY <1>1 DEF JoinProbe, Probes
  <2> QED
    BY <1>1, <2>1 DEF JoinProbe
<1>2. ASSUME NEW a \in Askers, NEW n \in ProbeNodes, Create(a, n) PROVE ProbeTypeOK'
  <2>1. probes + 1 \in Probes
    BY <1>2 DEF Create, Probes
  <2>2. probes' \in 0..MaxProbes /\ inflight' \in [ProbeNodes -> 0..MaxProbes]
    BY <1>2 DEF Create
  <2> QED
    BY <1>2, <2>1, <2>2 DEF Create
<1>3. ASSUME NEW a \in Askers, CancelAsker(a) PROVE ProbeTypeOK'
  <2>1. probe' = [probe EXCEPT ![asker[a].in] = "cancelling"] /\ cancels' = cancels + 1
        /\ UNCHANGED <<inflight, probes, asker>>
    BY <1>3 DEF CancelAsker
  <2>2. probe' \in [Probes -> {"none", "running", "cancelling", "done", "cancelled"}]
    BY <2>1
  <2> QED
    BY <2>1, <2>2
<1>4. ASSUME NEW a \in Askers, ReturnFromProbe(a) PROVE ProbeTypeOK'
  <2>1. asker' = [asker EXCEPT ![a] = IdleAsker] /\ UNCHANGED <<probe, probes, cancels>>
    BY <1>4 DEF ReturnFromProbe
  <2>2. inflight' = inflight \/ inflight' = [inflight EXCEPT ![asker[a].node] = 0]
    BY <1>4 DEF ReturnFromProbe
  <2>3. inflight' \in [ProbeNodes -> 0..MaxProbes]
    BY <2>2
  <2>4. asker' \in [Askers -> {IdleAsker} \cup [pc : {"joined", "created"}, in : Probes,
                                               node : ProbeNodes]]
    BY <2>1
  <2> QED
    BY <2>1, <2>3, <2>4
<1>5. ASSUME NEW p \in Probes, Finish(p) \/ Die(p) PROVE ProbeTypeOK'
  BY <1>5 DEF Finish, Die
<1>6. CASE UNCHANGED probeVars
  BY <1>6 DEF probeVars
<1> QED
  BY <1>1, <1>2, <1>3, <1>4, <1>5, <1>6 DEF ProbeNext

LEMMA ProbeStep == ProbeInv /\ [ProbeNext]_probeVars => ProbeInv'
<1> SUFFICES ASSUME ProbeInv, [ProbeNext]_probeVars PROVE OneProbePerNode'
  BY ProbeTypes DEF ProbeInv
<1> USE DEF ProbeInv, ProbeTypeOK, OneProbePerNode, Running
<1>1. ASSUME NEW a \in Askers, NEW n \in ProbeNodes, JoinProbe(a, n) PROVE OneProbePerNode'
  BY <1>1 DEF JoinProbe
\* The entry that is made overwrites none.
<1>2. ASSUME NEW a \in Askers, NEW n \in ProbeNodes, Create(a, n) PROVE OneProbePerNode'
  <2> SUFFICES ASSUME NEW p \in Probes, Running(p)'
               PROVE  \E m \in ProbeNodes : inflight'[m] = p
    OBVIOUS
  <2>1. CASE p = probes + 1
    BY <1>2, <2>1 DEF Create
  <2>2. CASE p # probes + 1
    <3>1. Running(p)
      BY <1>2, <2>2 DEF Create
    <3>2. PICK m \in ProbeNodes : inflight[m] = p
      BY <3>1
    <3>3. p # 0
      BY ProbeAssumption DEF Probes
    <3>4. m # n
      BY <1>2, <3>2, <3>3 DEF Create
    <3> QED
      BY <1>2, <3>2, <3>4 DEF Create
  <2> QED
    BY <2>1, <2>2
<1>3. ASSUME NEW a \in Askers, CancelAsker(a) PROVE OneProbePerNode'
  BY <1>3 DEF CancelAsker
\* The entry that goes was that of a probe that is over.
<1>4. ASSUME NEW a \in Askers, ReturnFromProbe(a) PROVE OneProbePerNode'
  <2> SUFFICES ASSUME NEW p \in Probes, Running(p)'
               PROVE  \E m \in ProbeNodes : inflight'[m] = p
    OBVIOUS
  <2>1. Running(p)
    BY <1>4 DEF ReturnFromProbe
  <2>2. PICK m \in ProbeNodes : inflight[m] = p
    BY <2>1
  <2>3. p # asker[a].in
    BY <1>4, <2>1 DEF ReturnFromProbe, Over
  <2> QED
    BY <1>4, <2>2, <2>3 DEF ReturnFromProbe
<1>5. ASSUME NEW p \in Probes, Finish(p) \/ Die(p) PROVE OneProbePerNode'
  BY <1>5 DEF Finish, Die
<1>6. CASE UNCHANGED probeVars
  BY <1>6 DEF probeVars
<1> QED
  BY <1>1, <1>2, <1>3, <1>4, <1>5, <1>6 DEF ProbeNext

\* A probe that runs is in the table under its node, whoever is cancelled: so
\* the next caller joins it, and a node has one at a time.
THEOREM ProbesAreShared == ProbeSpec => []OneProbePerNode
<1>1. ProbeInv => OneProbePerNode
  BY DEF ProbeInv
<1> QED
  BY <1>1, ProbeStarts, ProbeStep, PTL DEF ProbeSpec

\* Every variable of the model keeps its type.
THEOREM ProbeTypeCorrect == ProbeSpec => []ProbeTypeOK
<1>1. ProbeInv => ProbeTypeOK
  BY DEF ProbeInv
<1> QED
  BY <1>1, ProbeStarts, ProbeStep, PTL DEF ProbeSpec

\* The caller that made an entry and is to remove it: nobody else would.
Maker(a, n) ==
  asker[a].pc = "created" /\ asker[a].in = inflight[n] /\ asker[a].node = n
EntriesHaveMakers ==
  \A n \in ProbeNodes : inflight[n] # 0 => \E a \in Askers : Maker(a, n)

\* Whoever awaits a probe awaits one that runs, and will end, or has ended.
ProbesWereStarted ==
  \A a \in Askers : asker[a].pc # "idle" => Running(asker[a].in) \/ Over(asker[a].in)

EntryInv == ProbeInv /\ EntriesHaveMakers /\ ProbesWereStarted

LEMMA EntryStarts == ProbeInit => EntryInv
<1> SUFFICES ASSUME ProbeInit PROVE EntriesHaveMakers /\ ProbesWereStarted
  BY ProbeStarts DEF EntryInv
<1> QED
  BY DEF ProbeInit, EntriesHaveMakers, ProbesWereStarted, IdleAsker

LEMMA EntryStep == EntryInv /\ [ProbeNext]_probeVars => EntryInv'
<1> SUFFICES ASSUME EntryInv, [ProbeNext]_probeVars
             PROVE  EntriesHaveMakers' /\ ProbesWereStarted'
  BY ProbeStep DEF EntryInv
<1> USE DEF EntryInv, ProbeInv, ProbeTypeOK
<1>0. IdleAsker.pc = "idle"
  BY DEF IdleAsker
\* Whoever joins finds a probe that the maker of the entry awaits.
<1>1. ASSUME NEW a \in Askers, NEW n \in ProbeNodes, JoinProbe(a, n)
      PROVE  EntriesHaveMakers' /\ ProbesWereStarted'
  <2>1. \A b \in Askers : asker'[b] = IF b = a THEN [pc |-> "joined", in |-> inflight[n], node |-> n]
                                      ELSE asker[b]
    BY <1>1 DEF JoinProbe
  <2>2. PICK o \in Askers : Maker(o, n)
    BY <1>1 DEF JoinProbe, EntriesHaveMakers
  <2>3. Running(inflight[n]) \/ Over(inflight[n])
    BY <2>2 DEF Maker, ProbesWereStarted
  <2>4. ProbesWereStarted'
    BY <1>1, <2>1, <2>3 DEF JoinProbe, ProbesWereStarted, Running, Over
  <2>5. EntriesHaveMakers'
    BY <1>1, <2>1 DEF JoinProbe, EntriesHaveMakers, Maker
  <2> QED
    BY <2>4, <2>5
<1>2. ASSUME NEW a \in Askers, NEW n \in ProbeNodes, Create(a, n)
      PROVE  EntriesHaveMakers' /\ ProbesWereStarted'
  <2>0. probes + 1 \in Probes /\ asker[a].pc = "idle"
    BY <1>2, ProbeAssumption DEF Create, Probes
  <2>1. \A b \in Askers : asker'[b] = IF b = a THEN [pc |-> "created", in |-> probes + 1, node |-> n]
                                      ELSE asker[b]
    BY <1>2 DEF Create
  <2>2. \A m \in ProbeNodes : inflight'[m] = IF m = n THEN probes + 1 ELSE inflight[m]
    BY <1>2 DEF Create
  <2>3. \A p \in Probes : probe'[p] = IF p = probes + 1 THEN "running" ELSE probe[p]
    BY <1>2 DEF Create
  <2>4. \A b \in Askers : asker[b].pc # "idle" => asker[b].in \in Probes
    BY <1>0
  <2>5. ProbesWereStarted'
    BY <2>0, <2>1, <2>3, <2>4 DEF ProbesWereStarted, Running, Over
  <2>6. EntriesHaveMakers'
    <3> SUFFICES ASSUME NEW m \in ProbeNodes, inflight'[m] # 0
                 PROVE  \E b \in Askers : Maker(b, m)'
      BY DEF EntriesHaveMakers
    <3>1. CASE m = n
      BY <2>1, <2>2, <3>1 DEF Maker
    <3>2. CASE m # n
      <4>1. PICK b \in Askers : Maker(b, m)
        BY <2>2, <3>2 DEF EntriesHaveMakers
      <4> QED
        BY <2>0, <2>1, <2>2, <3>2, <4>1 DEF Maker
    <3> QED
      BY <3>1, <3>2
  <2> QED
    BY <2>5, <2>6
<1>3. ASSUME NEW a \in Askers, CancelAsker(a)
      PROVE  EntriesHaveMakers' /\ ProbesWereStarted'
  <2>1. UNCHANGED <<inflight, asker>>
    BY <1>3 DEF CancelAsker
  <2>2. \A p \in Probes : Running(p) \/ Over(p) => Running(p)' \/ Over(p)'
    BY <1>3 DEF CancelAsker, Running, Over
  <2>3. \A b \in Askers : asker[b].pc # "idle" => asker[b].in \in Probes
    BY <1>0
  <2>4. ProbesWereStarted'
    BY <2>1, <2>2, <2>3 DEF ProbesWereStarted, Running, Over
  <2> QED
    BY <2>1, <2>4 DEF EntriesHaveMakers, Maker
\* The maker goes: so does its entry, if it is there still.
<1>4. ASSUME NEW a \in Askers, ReturnFromProbe(a)
      PROVE  EntriesHaveMakers' /\ ProbesWereStarted'
  <2>1. \A b \in Askers : asker'[b] = IF b = a THEN IdleAsker ELSE asker[b]
    BY <1>4 DEF ReturnFromProbe
  <2>2. \A m \in ProbeNodes : inflight'[m] # 0 => inflight'[m] = inflight[m]
    BY <1>4 DEF ReturnFromProbe
  <2>3. ASSUME NEW m \in ProbeNodes, Maker(a, m), inflight[m] # 0 PROVE inflight'[m] = 0
    BY <1>4, <2>3 DEF ReturnFromProbe, Maker
  <2>4. EntriesHaveMakers'
    BY <2>1, <2>2, <2>3 DEF EntriesHaveMakers, Maker
  <2>5. ProbesWereStarted'
    BY <1>0, <1>4, <2>1 DEF ReturnFromProbe, ProbesWereStarted, Running, Over
  <2> QED
    BY <2>4, <2>5
<1>5. ASSUME NEW p \in Probes, Finish(p) \/ Die(p)
      PROVE  EntriesHaveMakers' /\ ProbesWereStarted'
  <2>1. UNCHANGED <<inflight, asker>>
    BY <1>5 DEF Finish, Die
  <2>2. \A r \in Probes : Running(r) \/ Over(r) => Running(r)' \/ Over(r)'
    BY <1>5 DEF Finish, Die, Running, Over
  <2>3. \A b \in Askers : asker[b].pc # "idle" => asker[b].in \in Probes
    BY <1>0
  <2>4. ProbesWereStarted'
    BY <2>1, <2>2, <2>3 DEF ProbesWereStarted, Running, Over
  <2> QED
    BY <2>1, <2>4 DEF EntriesHaveMakers, Maker
<1>6. CASE UNCHANGED probeVars
  BY <1>6 DEF probeVars, EntriesHaveMakers, Maker, ProbesWereStarted, Running, Over
<1> QED
  BY <1>1, <1>2, <1>3, <1>4, <1>5, <1>6 DEF ProbeNext

\* No entry is without the caller that will remove it, however callers are
\* cancelled, and no caller waits for a probe that was never started: what
\* EntriesGo needs to be true beyond fairness.
THEOREM EntriesAreTended == ProbeSpec => [](EntriesHaveMakers /\ ProbesWereStarted)
<1>1. EntryInv => EntriesHaveMakers /\ ProbesWereStarted
  BY DEF EntryInv
<1> QED
  BY <1>1, EntryStarts, EntryStep, PTL DEF ProbeSpec

---------------------------------------------------------------------------
(* Node pairing: any roles, tasks and number of deaths *)

RequestRow == [id : 0..MaxPairIds, roles : SUBSET PairRoles]
PairedRow == [there : BOOLEAN, roles : SUBSET PairRoles]

PairingTasks ==
  /\ requester \in [Requesters -> {AtEase} \cup [pc : {"writing", "replacing", "replaced"},
                                                 old : RequestRow, roles : SUBSET PairRoles]]
  /\ approver \in [Approvers -> {AtEase} \cup [pc : {"read"}, request : RequestRow]
                                \cup [pc : {"pairing"}, request : RequestRow, old : PairedRow]
                                \cup [pc : {"granting"}, request : RequestRow,
                                      todo : SUBSET PairRoles]]
  /\ keeper \in [Keepers -> {AtEase} \cup [pc : {"refreshing"}, old : PairedRow]
                            \cup [pc : {"rotating", "revoking"}, role : PairRoles]]

PairingType ==
  /\ pairRequest \in RequestRow /\ pairIds \in 0..MaxPairIds
  /\ paired \in PairedRow /\ roleToken \in [PairRoles -> {"none", "valid", "revoked"}]
  /\ owed \in SUBSET PairRoles /\ lost \in SUBSET PairRoles
  /\ pairDeaths \in 0..MaxPairDeaths
  /\ PairingTasks

\* A request adds to the roles of the row it read.
AskedAddsUp == \A q \in Requesters : requester[q].pc # "idle" =>
                                        requester[q].old.roles \subseteq requester[q].roles

Approving(a) == approver[a].pc \in {"read", "pairing", "granting"}

\* What an approval has read is asked for until it is granted, whoever replaces
\* the request or approves it beside.
ReadIsAsked ==
  \A a \in Approvers : Approving(a) =>
    \A r \in approver[a].request.roles \ lost :
      r \in pairRequest.roles \cup InHand \/ roleToken[r] # "none"

\* An approval at work has paired what it grants, and granted what is not to do.
GrantedIsPaired ==
  \A a \in Approvers : approver[a].pc = "granting" =>
    /\ approver[a].todo \subseteq approver[a].request.roles
    /\ approver[a].request.roles \subseteq paired.roles \cup lost
    /\ \A r \in approver[a].request.roles \ (approver[a].todo \cup lost) : roleToken[r] # "none"

\* Tokens are of roles the device has.
TokensArePaired ==
  /\ \A r \in PairRoles : roleToken[r] # "none" => r \in paired.roles \cup lost
  /\ \A k \in Keepers : keeper[k].pc \in {"rotating", "revoking"} =>
                          keeper[k].role \in paired.roles \cup lost

PairingInv ==
  /\ PairingType /\ owed \cap lost = {}
  /\ AskedAddsUp /\ ReadIsAsked /\ GrantedIsPaired /\ TokensArePaired
  /\ AskedRolesStay /\ GrantsHaveTokens

LEMMA InHandMeans ==
  ASSUME NEW r
  PROVE  /\ r \in InHand <=> \E q \in Requesters : /\ requester[q].pc = "replaced"
                                                   /\ r \in requester[q].roles
         /\ r \in InHand' <=> \E q \in Requesters : /\ requester'[q].pc = "replaced"
                                                    /\ r \in requester'[q].roles
BY DEF InHand

LEMMA PairingStarts == PairingInit => PairingInv
<1> SUFFICES ASSUME PairingInit PROVE PairingInv
  OBVIOUS
<1> USE DEF PairingInit, AtEase, Nothing, Unpaired
<1>1. PairingType
  BY PairingAssumption DEF PairingType, PairingTasks, RequestRow, PairedRow
<1>2. AskedAddsUp /\ ReadIsAsked /\ GrantedIsPaired /\ TokensArePaired
  BY DEF AskedAddsUp, ReadIsAsked, Approving, GrantedIsPaired, TokensArePaired
<1>3. AskedRolesStay /\ GrantsHaveTokens
  BY DEF AskedRolesStay, GrantsHaveTokens
<1> QED
  BY <1>1, <1>2, <1>3 DEF PairingInv

\* Each step keeps the types of the rows and of the tasks.
LEMMA PairingTypes ==
  ASSUME PairingType, [PairingNext]_pairingVars
  PROVE  PairingType'
<1> USE PairingAssumption DEF PairingType, PairingTasks, RequestRow, PairedRow, AtEase,
                              Nothing, Unpaired, pairingRows
<1>1. ASSUME NEW q \in Requesters, NEW roles \in SUBSET PairRoles, NEW differs \in BOOLEAN,
             AskPairing(q, roles, differs)
      PROVE  PairingType'
  BY <1>1 DEF AskPairing
<1>2. ASSUME NEW q \in Requesters, Replace(q) PROVE PairingType'
  BY <1>2 DEF Replace, Discard, Lose, Since
<1>3. ASSUME NEW q \in Requesters, WriteRequest(q) PROVE PairingType'
  BY <1>3 DEF WriteRequest
<1>4. ASSUME NEW a \in Approvers, Approve(a) \/ ReadPaired(a) PROVE PairingType'
  BY <1>4 DEF Approve, ReadPaired
<1>5. ASSUME NEW a \in Approvers, Pair(a) PROVE PairingType'
  BY <1>5 DEF Pair, Lose, Outdated
<1>6. ASSUME NEW a \in Approvers, Grant(a) PROVE PairingType'
  BY <1>6 DEF Grant
<1>7. ASSUME NEW a \in Approvers, Approved(a) PROVE PairingType'
  BY <1>7 DEF Approved, EndApproval, Discard, Lose, Since
<1>8. ASSUME NEW k \in Keepers, ReadToKeep(k) PROVE PairingType'
  BY <1>8 DEF ReadToKeep
<1>9. ASSUME NEW k \in Keepers, RefreshPaired(k) PROVE PairingType'
  BY <1>9 DEF RefreshPaired, Lose, Outdated
<1>10. ASSUME NEW k \in Keepers, ChangeToken(k) PROVE PairingType'
  <2>1. keeper[k].role \in PairRoles
    BY <1>10 DEF ChangeToken
  <2>2. roleToken' \in [PairRoles -> {"none", "valid", "revoked"}]
    BY <1>10, <2>1 DEF ChangeToken
  <2>3. keeper' = [keeper EXCEPT ![k] = AtEase]
    BY <1>10 DEF ChangeToken
  <2> QED
    BY <1>10, <2>2, <2>3 DEF ChangeToken
<1>11. CASE Reject
  BY <1>11 DEF Reject, Lose
<1>12. CASE Unpair
  BY <1>12 DEF Unpair, Lose
<1>13. CASE PairingDies
  <2>1. InHand \subseteq PairRoles
    BY InHandMeans
  <2>2. owed' \in SUBSET PairRoles /\ lost' \in SUBSET PairRoles
    BY <1>13, <2>1 DEF PairingDies, Lose
  <2> QED
    BY <1>13, <2>2 DEF PairingDies
<1>14. CASE UNCHANGED pairingVars
  <2>1. /\ UNCHANGED <<pairRequest, pairIds, paired, roleToken>>
        /\ UNCHANGED <<requester, approver, keeper, owed, lost, pairDeaths>>
    BY <1>14 DEF pairingVars
  <2> QED
    BY <2>1
<1> HIDE DEF PairingType, PairingTasks
<1> QED
  BY <1>1, <1>2, <1>3, <1>4, <1>5, <1>6, <1>7, <1>8, <1>9, <1>10, <1>11, <1>12, <1>13, <1>14
  DEF PairingNext

LEMMA AskedAddsUpStep ==
  ASSUME PairingType, AskedAddsUp, [PairingNext]_pairingVars
  PROVE  AskedAddsUp'
<1>1. \/ \E q \in Requesters :
           \/ \E roles \in SUBSET PairRoles, differs \in BOOLEAN : AskPairing(q, roles, differs)
           \/ Replace(q) \/ WriteRequest(q)
      \/ PairingDies \/ UNCHANGED requester
  BY DEF PairingNext, pairingVars, Approve, ReadPaired, Pair, Grant, Approved, EndApproval,
         ReadToKeep, RefreshPaired, ChangeToken, Reject, Unpair
<1> USE DEF AskedAddsUp, PairingType, PairingTasks, RequestRow, AtEase, Nothing, pairingRows
<1>2. ASSUME NEW q \in Requesters, NEW roles \in SUBSET PairRoles, NEW differs \in BOOLEAN,
             AskPairing(q, roles, differs)
      PROVE  AskedAddsUp'
  BY <1>2 DEF AskPairing
<1>3. ASSUME NEW q \in Requesters, Replace(q) \/ WriteRequest(q) PROVE AskedAddsUp'
  BY <1>3 DEF Replace, WriteRequest
<1>4. CASE PairingDies
  BY <1>4 DEF PairingDies
<1>5. CASE UNCHANGED requester
  BY <1>5
<1> HIDE DEF AskedAddsUp, PairingType, PairingTasks
<1> QED
  BY <1>1, <1>2, <1>3, <1>4, <1>5

\* Roles that a device loses are in "lost".
LEMMA LostIsKept ==
  ASSUME PairingType, [PairingNext]_pairingVars
  PROVE  lost \subseteq lost' /\ paired.roles \subseteq paired'.roles \cup lost'
<1> USE DEF PairingType, PairingTasks, PairedRow, RequestRow, AtEase, pairingRows
<1>1. ASSUME NEW a \in Approvers, Pair(a)
      PROVE  lost \subseteq lost' /\ paired.roles \subseteq paired'.roles \cup lost'
  BY <1>1 DEF Pair, Lose, Outdated
<1>2. ASSUME NEW k \in Keepers, RefreshPaired(k)
      PROVE  lost \subseteq lost' /\ paired.roles \subseteq paired'.roles \cup lost'
  BY <1>2 DEF RefreshPaired, Lose, Outdated
<1>3. CASE Unpair
  BY <1>3 DEF Unpair, Lose
<1>4. CASE UNCHANGED paired /\ lost \subseteq lost'
  BY <1>4
<1> QED
  BY <1>1, <1>2, <1>3, <1>4
  DEF PairingNext, pairingVars, AskPairing, Replace, WriteRequest, Approve, ReadPaired, Grant,
      Approved, EndApproval, ReadToKeep, ChangeToken, Reject, PairingDies, Lose

LEMMA GrantedIsPairedStep ==
  ASSUME PairingType, GrantedIsPaired, [PairingNext]_pairingVars
  PROVE  GrantedIsPaired'
<1> USE LostIsKept, PairingTypes DEF GrantedIsPaired, PairingType, PairingTasks, PairedRow, RequestRow, AtEase, pairingRows
<1>1. ASSUME NEW a \in Approvers, Pair(a) PROVE GrantedIsPaired'
  BY <1>1 DEF Pair
<1>2. ASSUME NEW a \in Approvers, Grant(a) PROVE GrantedIsPaired'
  BY <1>2 DEF Grant
<1>3. ASSUME NEW a \in Approvers, Approve(a) \/ ReadPaired(a) \/ Approved(a)
      PROVE  GrantedIsPaired'
  BY <1>3 DEF Approve, ReadPaired, Approved, EndApproval
<1>4. ASSUME NEW k \in Keepers, ChangeToken(k) PROVE GrantedIsPaired'
  BY <1>4 DEF ChangeToken
\* A removal takes the tokens along with the roles.
<1>5. CASE Unpair
  BY <1>5 DEF Unpair, Lose
<1>6. CASE PairingDies
  BY <1>6 DEF PairingDies
<1>7. CASE UNCHANGED <<approver, roleToken>>
  BY <1>7
<1> QED
  BY <1>1, <1>2, <1>3, <1>4, <1>5, <1>6, <1>7
  DEF PairingNext, pairingVars, AskPairing, Replace, WriteRequest, ReadToKeep, RefreshPaired, Reject

\* A role that is pending stays so, but for an approval that has granted it.
LEMMA PendingStays ==
  ASSUME PairingType, AskedAddsUp, [PairingNext]_pairingVars,
         NEW r \in pairRequest.roles \cup InHand
  PROVE  \/ r \in pairRequest'.roles \cup InHand' \cup lost'
         \/ \E a \in Approvers : Approved(a) /\ r \in approver[a].request.roles
<1> DEFINE Stays == r \in pairRequest'.roles \cup InHand' \cup lost'
<1> USE InHandMeans DEF PairingType, PairingTasks, RequestRow, AskedAddsUp, AtEase, Nothing,
                        pairingRows
<1>1. ASSUME NEW q \in Requesters, NEW roles \in SUBSET PairRoles, NEW differs \in BOOLEAN,
             AskPairing(q, roles, differs)
      PROVE  Stays
  BY <1>1 DEF AskPairing
<1>2. ASSUME NEW q \in Requesters, Replace(q) PROVE Stays
  BY <1>2 DEF Replace, Discard, Lose, Since
<1>3. ASSUME NEW q \in Requesters, WriteRequest(q) PROVE Stays
  BY <1>3 DEF WriteRequest
<1>4. ASSUME NEW a \in Approvers, Approved(a)
      PROVE  Stays \/ r \in approver[a].request.roles
  BY <1>4 DEF Approved, EndApproval, Discard, Lose, Since
<1>5. CASE Reject
  BY <1>5 DEF Reject, Lose
<1>6. CASE PairingDies
  BY <1>6 DEF PairingDies, Lose
<1>7. CASE UNCHANGED <<pairRequest, requester>>
  BY <1>7
<1> HIDE DEF Stays, PairingType, PairingTasks, AskedAddsUp
<1>8. \/ \E q \in Requesters :
           \/ \E roles \in SUBSET PairRoles, differs \in BOOLEAN : AskPairing(q, roles, differs)
           \/ Replace(q) \/ WriteRequest(q)
      \/ \E a \in Approvers : Approved(a)
      \/ Reject \/ PairingDies \/ UNCHANGED <<pairRequest, requester>>
  BY DEF PairingNext, pairingVars, Approve, ReadPaired, Pair, Grant,
         ReadToKeep, RefreshPaired, ChangeToken, Unpair
<1> QED
  BY <1>1, <1>2, <1>3, <1>4, <1>5, <1>6, <1>7, <1>8 DEF Stays

\* A token goes only with the device that has the role.
LEMMA TokensStay ==
  ASSUME PairingType, TokensArePaired, [PairingNext]_pairingVars, NEW r \in PairRoles,
         roleToken[r] # "none"
  PROVE  roleToken'[r] # "none" \/ r \in lost'
<1> USE DEF PairingType, PairingTasks, PairedRow, TokensArePaired, AtEase, pairingRows
<1>1. ASSUME NEW a \in Approvers, Grant(a) PROVE roleToken'[r] # "none"
  BY <1>1 DEF Grant
<1>2. ASSUME NEW k \in Keepers, ChangeToken(k) PROVE roleToken'[r] # "none"
  BY <1>2 DEF ChangeToken
<1>3. CASE Unpair
  BY <1>3 DEF Unpair, Lose
<1>4. CASE UNCHANGED roleToken
  BY <1>4
<1> HIDE DEF PairingType, PairingTasks, TokensArePaired
<1>5. \/ \E a \in Approvers : Grant(a)
      \/ \E k \in Keepers : ChangeToken(k)
      \/ Unpair \/ UNCHANGED roleToken
  BY DEF PairingNext, pairingVars, AskPairing, Replace, WriteRequest, Approve, ReadPaired, Pair,
         Approved, EndApproval, ReadToKeep, RefreshPaired, Reject, PairingDies
<1> QED
  BY <1>1, <1>2, <1>3, <1>4, <1>5

LEMMA TokensArePairedStep ==
  ASSUME PairingType, TokensArePaired, GrantedIsPaired, [PairingNext]_pairingVars
  PROVE  TokensArePaired'
<1>1. lost \subseteq lost' /\ paired.roles \subseteq paired'.roles \cup lost'
  BY LostIsKept
<1> USE <1>1 DEF PairingType, PairingTasks, PairedRow, RequestRow, TokensArePaired, AtEase,
                 pairingRows
<1>2. ASSUME NEW a \in Approvers, Grant(a) PROVE TokensArePaired'
  BY <1>2 DEF Grant, GrantedIsPaired
<1>3. ASSUME NEW k \in Keepers, ReadToKeep(k) PROVE TokensArePaired'
  BY <1>3 DEF ReadToKeep
<1>4. ASSUME NEW k \in Keepers, RefreshPaired(k) PROVE TokensArePaired'
  BY <1>4 DEF RefreshPaired
<1>5. ASSUME NEW k \in Keepers, ChangeToken(k) PROVE TokensArePaired'
  BY <1>5 DEF ChangeToken
<1>6. CASE Unpair
  BY <1>6 DEF Unpair
<1>7. CASE PairingDies
  BY <1>7 DEF PairingDies
<1>8. CASE UNCHANGED <<roleToken, keeper>>
  BY <1>8
<1> HIDE DEF PairingType, PairingTasks, TokensArePaired
<1>9. \/ \E a \in Approvers : Grant(a)
      \/ \E k \in Keepers : ReadToKeep(k) \/ RefreshPaired(k) \/ ChangeToken(k)
      \/ Unpair \/ PairingDies \/ UNCHANGED <<roleToken, keeper>>
  BY DEF PairingNext, pairingVars, AskPairing, Replace, WriteRequest, Approve, ReadPaired, Pair,
         Approved, EndApproval, Reject
<1> QED
  BY <1>2, <1>3, <1>4, <1>5, <1>6, <1>7, <1>8, <1>9

\* What an approval has read: it has just read it, it is pending still, or an
\* approval beside it has granted it.
LEMMA ReadIsAskedStep ==
  ASSUME PairingInv, [PairingNext]_pairingVars
  PROVE  ReadIsAsked'
<1> SUFFICES ASSUME NEW a \in Approvers, Approving(a)',
                    NEW r \in approver'[a].request.roles \ lost'
             PROVE  r \in pairRequest'.roles \cup InHand' \/ roleToken'[r] # "none"
  BY DEF ReadIsAsked
<1>1. lost \subseteq lost'
  BY LostIsKept DEF PairingInv
<1>2. r \in PairRoles
  BY PairingTypes DEF PairingInv, PairingType, PairingTasks, RequestRow, Approving, AtEase
<1>3. CASE Approve(a)
  BY <1>3 DEF Approve, PairingInv, PairingType, PairingTasks, pairingRows
<1>4. ASSUME ~Approve(a)
      PROVE  Approving(a) /\ approver'[a].request = approver[a].request
  <2> USE <1>4 DEF Approving, PairingInv, PairingType, PairingTasks, AtEase
  <2>1. ASSUME NEW b \in Approvers, ReadPaired(b) \/ Pair(b) \/ Grant(b) \/ Approved(b)
        PROVE  Approving(a) /\ approver'[a].request = approver[a].request
    BY <2>1 DEF ReadPaired, Pair, Grant, Approved, EndApproval
  <2>2. ASSUME NEW b \in Approvers, Approve(b)
        PROVE  Approving(a) /\ approver'[a].request = approver[a].request
    BY <2>2 DEF Approve
  <2>3. CASE PairingDies
    BY <2>3 DEF PairingDies
  <2>4. CASE UNCHANGED approver
    BY <2>4
  <2> HIDE DEF Approving, PairingInv, PairingType, PairingTasks
  <2>5. \/ \E b \in Approvers : ReadPaired(b) \/ Pair(b) \/ Grant(b) \/ Approved(b) \/ Approve(b)
        \/ PairingDies \/ UNCHANGED approver
    BY DEF PairingNext, pairingVars, AskPairing, Replace, WriteRequest,
           ReadToKeep, RefreshPaired, ChangeToken, Reject, Unpair
  <2> QED
    BY <2>1, <2>2, <2>3, <2>4, <2>5
<1>5. CASE ~Approve(a)
  <2>1. r \in pairRequest.roles \cup InHand \/ roleToken[r] # "none"
    BY <1>1, <1>4, <1>5 DEF PairingInv, ReadIsAsked
  <2>2. CASE roleToken[r] # "none"
    BY <1>2, <2>2, TokensStay DEF PairingInv
  <2>3. CASE r \in pairRequest.roles \cup InHand
    <3>1. CASE r \in pairRequest'.roles \cup InHand' \cup lost'
      BY <3>1
    <3>2. ASSUME NEW b \in Approvers, Approved(b), r \in approver[b].request.roles
          PROVE  roleToken'[r] # "none"
      <4>1. roleToken[r] # "none"
        BY <1>1, <3>2 DEF PairingInv, GrantedIsPaired, Approved, EndApproval
      <4> QED
        BY <1>2, <4>1, TokensStay DEF PairingInv
    <3> QED
      BY <2>3, <3>1, <3>2, PendingStays DEF PairingInv
  <2> QED
    BY <2>1, <2>2, <2>3
<1> QED
  BY <1>3, <1>5

\* What is owed now was owed before, or has just been asked for.
LEMMA OwedStep ==
  ASSUME PairingInv, [PairingNext]_pairingVars
  PROVE  owed' \cap lost' = {} /\ owed' \subseteq owed \cup pairRequest'.roles
<1> USE DEF PairingInv, PairingType, PairingTasks, RequestRow, AtEase, pairingRows
<1>1. ASSUME NEW q \in Requesters, WriteRequest(q)
      PROVE  owed' \cap lost' = {} /\ owed' \subseteq owed \cup pairRequest'.roles
  BY <1>1 DEF WriteRequest
<1>2. CASE \E roles : Lose(roles)
  BY <1>2 DEF Lose
<1>3. CASE UNCHANGED <<owed, lost>>
  BY <1>3
<1> HIDE DEF PairingInv, PairingType, PairingTasks
<1>4. (\E q \in Requesters : WriteRequest(q)) \/ (\E roles : Lose(roles)) \/ UNCHANGED <<owed, lost>>
  BY DEF PairingNext, pairingVars, AskPairing, Replace, Approve, ReadPaired, Pair, Grant,
         Approved, EndApproval, ReadToKeep, RefreshPaired, ChangeToken, Reject, Unpair, PairingDies
<1> QED
  BY <1>1, <1>2, <1>3, <1>4

\* A role that an approval takes out of the request is the device's, with a token.
LEMMA ApprovedIsGranted ==
  ASSUME PairingInv, [PairingNext]_pairingVars, NEW a \in Approvers, Approved(a),
         NEW r \in approver[a].request.roles \ lost'
  PROVE  r \in paired'.roles /\ roleToken'[r] # "none"
<1>1. lost \subseteq lost' /\ paired.roles \subseteq paired'.roles \cup lost'
  BY LostIsKept DEF PairingInv
<1>2. r \in paired.roles /\ roleToken[r] # "none"
  BY <1>1 DEF PairingInv, GrantedIsPaired, Approved, EndApproval
<1>3. r \in PairRoles
  BY <1>2 DEF PairingInv, PairingType, PairedRow
<1> QED
  BY <1>1, <1>2, <1>3, TokensStay DEF PairingInv

LEMMA AskedRolesStep ==
  ASSUME PairingInv, [PairingNext]_pairingVars
  PROVE  AskedRolesStay'
<1> SUFFICES ASSUME NEW r \in owed'
             PROVE  r \in pairRequest'.roles \cup paired'.roles \cup InHand'
  BY DEF AskedRolesStay
<1>1. r \notin lost' /\ (r \in owed \/ r \in pairRequest'.roles)
  BY OwedStep
<1>2. CASE r \in paired.roles
  BY <1>1, <1>2, LostIsKept DEF PairingInv
<1>3. CASE r \in pairRequest.roles \cup InHand
  BY <1>1, <1>3, PendingStays, ApprovedIsGranted DEF PairingInv
<1> QED
  BY <1>1, <1>2, <1>3 DEF PairingInv, AskedRolesStay

\* A role that the device has now and that is not lost, it had, or an approval
\* has just given it.
LEMMA NewRoleIsAsked ==
  ASSUME PairingType, [PairingNext]_pairingVars, NEW r \in paired'.roles \ lost'
  PROVE  \/ r \in paired.roles
         \/ \E a \in Approvers : Pair(a) /\ r \in approver[a].request.roles
<1> USE DEF PairingType, PairingTasks, PairedRow, RequestRow, AtEase, pairingRows
<1>1. ASSUME NEW a \in Approvers, Pair(a)
      PROVE  r \in paired.roles \/ r \in approver[a].request.roles
  BY <1>1 DEF Pair, Lose, Outdated
<1>2. ASSUME NEW k \in Keepers, RefreshPaired(k) PROVE r \in paired.roles
  BY <1>2 DEF RefreshPaired, Lose, Outdated
<1>3. CASE Unpair
  BY <1>3 DEF Unpair, Unpaired
<1>4. CASE UNCHANGED paired
  BY <1>4
<1> HIDE DEF PairingType, PairingTasks
<1>5. \/ \E a \in Approvers : Pair(a)
      \/ \E k \in Keepers : RefreshPaired(k)
      \/ Unpair \/ UNCHANGED paired
  BY DEF PairingNext, pairingVars, AskPairing, Replace, WriteRequest, Approve, ReadPaired, Grant,
         Approved, EndApproval, ReadToKeep, ChangeToken, Reject, PairingDies
<1> QED
  BY <1>1, <1>2, <1>3, <1>4, <1>5

LEMMA GrantsHaveTokensStep ==
  ASSUME PairingInv, [PairingNext]_pairingVars
  PROVE  GrantsHaveTokens'
<1> SUFFICES ASSUME NEW r \in paired'.roles, r \in owed'
             PROVE  roleToken'[r] # "none" \/ r \in pairRequest'.roles \cup InHand'
  BY DEF GrantsHaveTokens
<1>1. r \notin lost' /\ (r \in owed \/ r \in pairRequest'.roles)
  BY OwedStep
<1>2. r \in PairRoles /\ lost \subseteq lost'
  BY PairingTypes, LostIsKept DEF PairingInv, PairingType, PairedRow
<1>3. CASE r \in pairRequest'.roles
  BY <1>3
<1>4. ASSUME r \in owed
      PROVE  roleToken[r] # "none" \/ r \in pairRequest.roles \cup InHand
  <2>1. CASE r \in paired.roles
    BY <1>4, <2>1 DEF PairingInv, GrantsHaveTokens
  <2>2. ASSUME NEW a \in Approvers, Pair(a), r \in approver[a].request.roles
        PROVE  roleToken[r] # "none" \/ r \in pairRequest.roles \cup InHand
    BY <1>1, <1>2, <2>2 DEF PairingInv, ReadIsAsked, Approving, Pair
  <2> QED
    BY <1>1, <2>1, <2>2, NewRoleIsAsked DEF PairingInv
<1>5. CASE roleToken[r] # "none"
  BY <1>1, <1>2, <1>5, TokensStay DEF PairingInv
<1>6. CASE r \in pairRequest.roles \cup InHand
  BY <1>1, <1>6, PendingStays, ApprovedIsGranted DEF PairingInv
<1> QED
  BY <1>1, <1>3, <1>4, <1>5, <1>6

LEMMA PairingStep == PairingInv /\ [PairingNext]_pairingVars => PairingInv'
<1> SUFFICES ASSUME PairingInv, [PairingNext]_pairingVars PROVE PairingInv'
  OBVIOUS
<1>1. PairingType' /\ AskedAddsUp' /\ GrantedIsPaired' /\ TokensArePaired'
  BY PairingTypes, AskedAddsUpStep, GrantedIsPairedStep, TokensArePairedStep DEF PairingInv
<1>2. ReadIsAsked' /\ AskedRolesStay' /\ GrantsHaveTokens' /\ (owed \cap lost = {})'
  BY ReadIsAskedStep, AskedRolesStep, GrantsHaveTokensStep, OwedStep
<1> QED
  BY <1>1, <1>2 DEF PairingInv

\* What a device was told is pending stays pending until the device has it,
\* through requests that replace it, approvals that overlap, and deaths of the
\* process: no order of the reads and the writes drops it.
THEOREM RolesStayAsked == PairingSpec => []AskedRolesStay
<1>1. PairingInv => AskedRolesStay
  BY DEF PairingInv
<1> QED
  BY <1>1, PairingStarts, PairingStep, PTL DEF PairingSpec

\* A granted role has a token, or is pending still, to be approved again.
THEOREM GrantedWithToken == PairingSpec => []GrantsHaveTokens
<1>1. PairingInv => GrantsHaveTokens
  BY DEF PairingInv
<1> QED
  BY <1>1, PairingStarts, PairingStep, PTL DEF PairingSpec

\* Every variable of the model keeps its type.
THEOREM PairingTypeCorrect == PairingSpec => []PairingTypeOK
<1>1. PairingInv => PairingTypeOK
  BY DEF PairingInv, PairingType, PairingTasks, PairingTypeOK, RequestRow, PairedRow, AtEase
<1> QED
  BY <1>1, PairingStarts, PairingStep, PTL DEF PairingSpec

---------------------------------------------------------------------------
(* The services beside each other *)

\* A step of the services is a step of one of them and leaves the others alone.
LEMMA StepsAreTheirs ==
  ASSUME [ServicesNext]_servicesVars
  PROVE  /\ [HubNext]_hubVars /\ [WorkNext]_workVars /\ [ProbeNext]_probeVars
         /\ [DeliveryNext]_deliveryVars /\ [CronNext]_cronVars /\ [QueueNext]_queueVars
         /\ [RuntimeNext]_runtimeVars /\ [PairingNext]_pairingVars
         /\ UNCHANGED focus
BY DEF ServicesNext, servicesVars, HubMoves, WorkMoves, ProbesMove, DeliveriesMove, JobsMove,
       QueueMoves, RuntimeMoves, PairingMoves

\* Services that share no state do what each does alone, so whatever is proved
\* of one of them holds of all that run in the process.
THEOREM ServicesAreTheirOwn ==
  ServicesSafety => /\ HubSpec /\ WorkSpec /\ ProbeSpec /\ DeliverySpec
                    /\ CronSpec /\ QueueSpec /\ RuntimeSpec /\ PairingSpec
<1>1. ServicesInit => /\ HubInit /\ WorkInit /\ ProbeInit /\ DeliveryInit /\ CronInit /\ QueueInit
                      /\ RuntimeInit /\ PairingInit
  BY DEF ServicesInit
<1>2. [ServicesNext]_servicesVars =>
        /\ [HubNext]_hubVars /\ [WorkNext]_workVars /\ [ProbeNext]_probeVars
        /\ [DeliveryNext]_deliveryVars /\ [CronNext]_cronVars /\ [QueueNext]_queueVars
        /\ [RuntimeNext]_runtimeVars /\ [PairingNext]_pairingVars
  BY StepsAreTheirs
<1> QED
  BY <1>1, <1>2, PTL DEF ServicesSafety, HubSpec, WorkSpec, ProbeSpec, DeliverySpec, CronSpec, QueueSpec,
     RuntimeSpec, PairingSpec

\* The state of every service keeps its type in the process they share.
THEOREM ServicesTypeCorrect == ServicesSafety => []ServicesTypeOK
<1> DEFINE AllTypes == /\ HubTypeOK /\ WorkTypeOK /\ ProbeTypeOK /\ DeliveryTypeOK /\ CronTypeOK
                       /\ QueueTypeOK /\ RuntimeTypeOK /\ PairingTypeOK
<1>1. ServicesInit => focus \in Services
  BY DEF ServicesInit
<1>2. focus \in Services /\ [ServicesNext]_servicesVars => (focus \in Services)'
  BY StepsAreTheirs
<1>3. focus \in Services /\ AllTypes => ServicesTypeOK
  BY ServicesAssumption DEF ServicesTypeOK
<1>4. HubSpec => []HubTypeOK
  BY HubCounts, PTL
<1> HIDE DEF AllTypes
<1>5. ServicesSafety => []AllTypes
  BY <1>4, ServicesAreTheirOwn, WorkTypeCorrect, ProbeTypeCorrect, DeliveryTypeCorrect,
     CronTypeCorrect, QueueTypeCorrect, RuntimeTypeCorrect, PairingTypeCorrect, PTL DEF AllTypes
<1> QED
  BY <1>1, <1>2, <1>3, <1>5, PTL DEF ServicesSafety

=============================================================================
