-------------------------- MODULE DeliveriesProofs --------------------------
(* Proofs about Deliveries for any keys, senders and replays.              *)
EXTENDS Deliveries, FiniteSetTheorems, TLAPS

\* The types of what the proofs are about: rows and direct deliveries.
RowType ==
  /\ saved \in [Keys -> SavedRow]
  /\ direct \in [Keys -> Nat]
  /\ \A r \in Replayers :
       /\ \A k \in DOMAIN replay[r] : replay[r][k] \in SavedRow
       /\ replaying[r].pc # "idle" => replaying[r].attempts \in Nat
DirectType ==
  /\ entry \in [Keys -> Senders \cup {"nobody"}]
  /\ task \in [Senders -> {Resting} \cup [pc : {"creating", "sending", "sent", "over"},
                                          key : Keys]]
  /\ sender \in [Senders -> {Resting} \cup [pc : {"lookup"}, key : Keys]
                            \cup [pc : {"awaits"}, key : Keys, of : Senders]]

TaskWorks(t) == task[t].pc \in {"creating", "sending", "sent"}

\* Who looks a key up holds the lock, and nobody has an entry for it.
LookUpsAreLocked ==
  \A s \in Senders : sender[s].pc = "lookup" =>
    lock = s /\ entry[sender[s].key] = "nobody" /\ task[s].pc = "idle"

\* A task that works is the one of the entry of its key.
WorkersAreEntered == \A t \in Senders : TaskWorks(t) => entry[task[t].key] = t

\* A task has inserted its row before it calls the provider, and found none.
CallsHaveRows ==
  /\ \A k \in Keys : direct[k] > 0 => saved[k].state # "none"
  /\ \A t \in Senders :
       /\ task[t].pc = "creating" => direct[task[t].key] = 0
       /\ task[t].pc = "sending" =>
            direct[task[t].key] = 0 /\ saved[task[t].key].state # "none"

\* An entry is awaited by who made it; a task that is awaited is not forgotten.
AwaitsAreTasks ==
  /\ \A k \in Keys : entry[k] # "nobody" =>
       sender[entry[k]] = [pc |-> "awaits", key |-> k, of |-> entry[k]]
  /\ \A s \in Senders : sender[s].pc = "awaits" => task[sender[s].of].pc # "idle"

DirectInv ==
  /\ AwaitsAreTasks
  /\ RowType /\ DirectType /\ LookUpsAreLocked /\ WorkersAreEntered /\ CallsHaveRows
  /\ DirectOnce

LEMMA DirectStarts == DeliveryInit => DirectInv
<1> SUFFICES ASSUME DeliveryInit PROVE DirectInv
  OBVIOUS
<1>1. RowType
  <2>1. NoRow \in SavedRow
    BY DEF NoRow, SavedRow
  <2>2. \A r \in Replayers : DOMAIN replay[r] = {} /\ replaying[r].pc = "idle"
    BY DEF DeliveryInit, Resting
  <2>3. saved \in [Keys -> SavedRow] /\ direct \in [Keys -> Nat]
    BY <2>1 DEF DeliveryInit
  <2> QED
    BY <2>2, <2>3 DEF RowType
<1>2. DirectType /\ DirectOnce
  BY DEF DeliveryInit, DirectType, DirectOnce
<1>3. LookUpsAreLocked /\ WorkersAreEntered /\ AwaitsAreTasks /\ CallsHaveRows
  BY DEF DeliveryInit, LookUpsAreLocked, WorkersAreEntered, AwaitsAreTasks, CallsHaveRows,
         TaskWorks, Resting
<1> QED
  BY <1>1, <1>2, <1>3 DEF DirectInv

\* Who awaits nothing has made no entry.
LEMMA NotEntered ==
  ASSUME DirectInv, NEW s \in Senders, sender[s].pc # "awaits", NEW k \in Keys
  PROVE  entry[k] # s
<1> SUFFICES ASSUME entry[k] = s PROVE FALSE
  OBVIOUS
<1>1. sender[s] = [pc |-> "awaits", key |-> k, of |-> s]
  BY DeliveriesAssumption DEF DirectInv, AwaitsAreTasks
<1> QED
  BY <1>1

\* A step that leaves the direct deliveries alone, and no row without a state.
LEMMA RowsOnly ==
  ASSUME DirectInv, UNCHANGED <<directVars, direct>>, RowType',
         \A k \in Keys : saved[k].state # "none" => saved'[k].state # "none"
  PROVE  DirectInv'
<1> USE DEF DirectInv, directVars
<1>1. DirectType' /\ LookUpsAreLocked' /\ WorkersAreEntered' /\ AwaitsAreTasks' /\ DirectOnce'
  BY DEF DirectType, LookUpsAreLocked, WorkersAreEntered, AwaitsAreTasks, DirectOnce, TaskWorks
<1>2. CallsHaveRows'
  <2>1. ASSUME NEW t \in Senders, task[t].pc = "sending" PROVE task[t].key \in Keys
    BY <2>1 DEF DirectType, Resting
  <2> QED
    BY <2>1 DEF CallsHaveRows
<1> QED
  BY <1>1, <1>2

LEMMA LookUpKeeps ==
  ASSUME DirectInv, NEW s \in Senders, NEW k \in Keys, LookUp(s, k)
  PROVE  DirectInv'
<1> USE DEF DirectInv
<1>1. sender' = [sender EXCEPT ![s] = [pc |-> "lookup", key |-> k]] /\ lock' = s
      /\ UNCHANGED <<saved, entry, task, replay, replaying, direct>>
  BY DEF LookUp, rowVars, replayVars, callVars
<1>2. RowType' /\ DirectType'
  BY <1>1 DEF RowType, DirectType
\* The lock was free: nobody else is looking up.
<1>3. LookUpsAreLocked'
  <2> SUFFICES ASSUME NEW q \in Senders, sender'[q].pc = "lookup"
               PROVE  lock' = q /\ entry'[sender'[q].key] = "nobody" /\ task'[q].pc = "idle"
    BY DEF LookUpsAreLocked
  <2>1. CASE q = s
    BY <1>1, <2>1 DEF LookUp, DirectType
  <2>2. CASE q # s
    <3>1. sender[q].pc = "lookup" /\ lock = "nobody"
      BY <1>1, <2>2 DEF LookUp, DirectType
    <3> QED
      BY <3>1, DeliveriesAssumption DEF LookUpsAreLocked
  <2> QED
    BY <2>1, <2>2
<1>4. WorkersAreEntered' /\ CallsHaveRows' /\ DirectOnce'
  BY <1>1 DEF WorkersAreEntered, CallsHaveRows, DirectOnce, TaskWorks
<1>5. AwaitsAreTasks'
  <2>1. sender[s].pc = "idle"
    BY DEF LookUp
  <2> QED
    BY <1>1, <2>1 DEF AwaitsAreTasks, DirectType
<1> QED
  BY <1>2, <1>3, <1>4, <1>5

LEMMA LookedUpKeeps ==
  ASSUME DirectInv, NEW s \in Senders, LookedUp(s)
  PROVE  DirectInv'
<1> USE DEF DirectInv
<1> DEFINE k == sender[s].key
<1>1. /\ k \in Keys /\ lock = s /\ entry[k] = "nobody" /\ task[s].pc = "idle"
      /\ UNCHANGED <<saved, replay, replaying, direct>>
  BY DEF LookedUp, DirectType, LookUpsAreLocked, rowVars, replayVars, callVars, Resting
<1>2. \A q \in Senders : sender[q].pc = "lookup" => q = s
  BY <1>1 DEF LookUpsAreLocked
<1>3. CASE saved[k].state # "none"
  <2>1. sender' = [sender EXCEPT ![s] = Resting] /\ UNCHANGED <<entry, task>>
    BY <1>3 DEF LookedUp
  <2>2. RowType' /\ DirectType'
    BY <1>1, <2>1 DEF RowType, DirectType
  <2>3. \A q \in Senders : sender'[q].pc # "lookup"
    BY <1>2, <2>1 DEF DirectType, Resting
  <2>4. AwaitsAreTasks'
    BY <1>1, <2>1 DEF LookedUp, AwaitsAreTasks, DirectType, Resting
  <2> QED
    BY <1>1, <2>1, <2>2, <2>3, <2>4
       DEF LookUpsAreLocked, WorkersAreEntered, CallsHaveRows, DirectOnce, TaskWorks
<1>4. CASE saved[k].state = "none"
  <2>1. /\ entry' = [entry EXCEPT ![k] = s]
        /\ task' = [task EXCEPT ![s] = [pc |-> "creating", key |-> k]]
        /\ sender' = [sender EXCEPT ![s] = [pc |-> "awaits", key |-> k, of |-> s]]
    BY <1>4 DEF LookedUp, Await
  <2>2. RowType' /\ DirectType'
    BY <1>1, <2>1 DEF RowType, DirectType
  <2>3. \A q \in Senders : sender'[q].pc # "lookup"
    BY <1>2, <2>1 DEF DirectType
  <2>4. WorkersAreEntered'
    <3> SUFFICES ASSUME NEW t \in Senders, TaskWorks(t)' PROVE entry'[task'[t].key] = t
      BY DEF WorkersAreEntered
    <3>1. CASE t = s
      BY <1>1, <2>1, <3>1 DEF DirectType
    <3>2. CASE t # s
      <4>1. task'[t] = task[t] /\ TaskWorks(t) /\ task[t].key \in Keys
        BY <2>1, <3>2 DEF DirectType, TaskWorks, Resting
      <4>2. entry[task[t].key] = t /\ task[t].key # k
        BY <1>1, <4>1, DeliveriesAssumption DEF WorkersAreEntered
      <4> QED
        BY <2>1, <4>1, <4>2 DEF DirectType
    <3> QED
      BY <3>1, <3>2
  \* Without a row nothing was ever sent for the key.
  <2>5. CallsHaveRows'
    <3>1. direct[k] = 0
      BY <1>1, <1>4 DEF CallsHaveRows, RowType
    <3> QED
      BY <1>1, <2>1, <3>1 DEF CallsHaveRows, DirectType
  <2>6. AwaitsAreTasks'
    <3>1. sender[s].pc = "lookup" /\ \A j \in Keys : entry[j] # s
      BY NotEntered DEF LookedUp
    <3>2. \A j \in Keys : entry'[j] # "nobody" =>
            sender'[entry'[j]] = [pc |-> "awaits", key |-> j, of |-> entry'[j]]
      BY <1>1, <2>1, <3>1 DEF AwaitsAreTasks, DirectType
    <3>3. \A q \in Senders : sender'[q].pc = "awaits" => task'[sender'[q].of].pc # "idle"
      BY <1>1, <2>1 DEF AwaitsAreTasks, DirectType, Resting
    <3> QED
      BY <3>2, <3>3 DEF AwaitsAreTasks
  <2> QED
    BY <1>1, <2>2, <2>3, <2>4, <2>5, <2>6 DEF LookUpsAreLocked, DirectOnce
<1> QED
  BY <1>3, <1>4

\* What a task does on its way keeps its key, and the look-ups of others.
LEMMA TaskKeeps ==
  ASSUME DirectInv, NEW t \in Senders, TaskWorks(t), NEW pc \in {"sending", "sent", "over"},
         task' = [task EXCEPT ![t].pc = pc],
         UNCHANGED <<lock, entry, sender>>
  PROVE  /\ DirectType' /\ LookUpsAreLocked' /\ WorkersAreEntered' /\ AwaitsAreTasks'
         /\ task[t].key \in Keys /\ task'[t] = [pc |-> pc, key |-> task[t].key]
         /\ \A q \in Senders \ {t} : task'[q] = task[q]
         /\ \A q \in Senders \ {t} : TaskWorks(q) => task[q].key # task[t].key
<1> USE DEF DirectInv
<1>1. task[t] \in [pc : {"creating", "sending", "sent", "over"}, key : Keys]
  BY DEF DirectType, TaskWorks, Resting
<1>2. /\ task[t].key \in Keys /\ task'[t] = [pc |-> pc, key |-> task[t].key]
      /\ \A q \in Senders \ {t} : task'[q] = task[q]
  BY <1>1 DEF DirectType
<1>3. \A q \in Senders \ {t} : TaskWorks(q) => task[q].key # task[t].key
  BY DEF WorkersAreEntered
<1>4. DirectType'
  BY <1>1 DEF DirectType
<1>5. LookUpsAreLocked'
  <2>1. sender[t].pc # "lookup"
    BY DEF LookUpsAreLocked, TaskWorks
  <2> QED
    BY <1>2, <2>1 DEF LookUpsAreLocked
<1>6. WorkersAreEntered'
  BY <1>2 DEF WorkersAreEntered, TaskWorks
<1>7. AwaitsAreTasks'
  <2>1. \A q \in Senders : task[q].pc # "idle" => task'[q].pc # "idle"
    BY <1>2
  <2> QED
    BY <2>1 DEF AwaitsAreTasks, DirectType, Resting
<1> QED
  BY <1>2, <1>3, <1>4, <1>5, <1>6, <1>7

LEMMA CreateRowKeeps ==
  ASSUME DirectInv, NEW t \in Senders, CreateRow(t)
  PROVE  DirectInv'
<1> USE DEF DirectInv
<1>1. /\ TaskWorks(t) /\ task' = [task EXCEPT ![t].pc = "sending"]
      /\ UNCHANGED <<lock, entry, sender, direct, replay, replaying>>
      /\ saved' = [saved EXCEPT ![task[t].key] = [state |-> "pending", attempts |-> 0]]
  BY DEF CreateRow, TaskWorks, Write, replayVars, callVars
<1>2. /\ DirectType' /\ LookUpsAreLocked' /\ WorkersAreEntered' /\ AwaitsAreTasks'
      /\ task[t].key \in Keys /\ task'[t] = [pc |-> "sending", key |-> task[t].key]
      /\ \A q \in Senders \ {t} : task'[q] = task[q]
      /\ \A q \in Senders \ {t} : TaskWorks(q) => task[q].key # task[t].key
  BY <1>1, TaskKeeps
<1>3. RowType'
  BY <1>1, <1>2 DEF RowType, SavedRow
<1>4. saved'[task[t].key].state # "none"
      /\ \A k \in Keys : k # task[t].key => saved'[k] = saved[k]
  BY <1>1, <1>2 DEF RowType
<1>5. CallsHaveRows'
  BY <1>1, <1>2, <1>4 DEF CallsHaveRows, CreateRow, TaskWorks
<1> QED
  BY <1>1, <1>2, <1>3, <1>5 DEF DirectOnce

\* The one step that sends: nothing was sent for the key before.
LEMMA CallProviderKeeps ==
  ASSUME DirectInv, NEW t \in Senders, CallProvider(t)
  PROVE  DirectInv'
<1> USE DEF DirectInv
<1>1. /\ TaskWorks(t) /\ task' = [task EXCEPT ![t].pc = "sent"]
      /\ UNCHANGED <<lock, entry, sender, saved, replay, replaying>>
      /\ direct' = [direct EXCEPT ![task[t].key] = @ + 1]
  BY DEF CallProvider, TaskWorks, rowVars, replayVars
<1>2. /\ DirectType' /\ LookUpsAreLocked' /\ WorkersAreEntered' /\ AwaitsAreTasks'
      /\ task[t].key \in Keys /\ task'[t] = [pc |-> "sent", key |-> task[t].key]
      /\ \A q \in Senders \ {t} : task'[q] = task[q]
      /\ \A q \in Senders \ {t} : TaskWorks(q) => task[q].key # task[t].key
  BY <1>1, TaskKeeps
<1>3. direct[task[t].key] = 0 /\ saved[task[t].key].state # "none"
  BY DEF CallProvider, CallsHaveRows
<1>4. direct'[task[t].key] = 1 /\ \A k \in Keys : k # task[t].key => direct'[k] = direct[k]
  BY <1>1, <1>2, <1>3 DEF RowType
<1>5. RowType'
  BY <1>1, <1>2 DEF RowType
<1>6. CallsHaveRows'
  BY <1>1, <1>2, <1>3, <1>4 DEF CallsHaveRows, TaskWorks
<1>7. DirectOnce'
  BY <1>4 DEF DirectOnce
<1> QED
  BY <1>2, <1>5, <1>6, <1>7

\* A task ends, with its outcome written or not.
LEMMA TaskEnds ==
  ASSUME DirectInv, NEW t \in Senders, TaskWorks(t), task' = [task EXCEPT ![t].pc = "over"],
         UNCHANGED <<lock, entry, sender, direct>>, RowType',
         \A k \in Keys : saved[k].state # "none" => saved'[k].state # "none"
  PROVE  DirectInv'
<1> USE DEF DirectInv
<1>1. /\ DirectType' /\ LookUpsAreLocked' /\ WorkersAreEntered' /\ AwaitsAreTasks'
      /\ task'[t].pc = "over"
      /\ \A q \in Senders \ {t} : task'[q] = task[q]
  <2>1. UNCHANGED <<lock, entry, sender>>
    OBVIOUS
  <2>2. DirectType' /\ LookUpsAreLocked' /\ WorkersAreEntered' /\ AwaitsAreTasks'
    BY <2>1, TaskKeeps
  <2>3. task'[t] = [pc |-> "over", key |-> task[t].key]
    BY <2>1, TaskKeeps
  <2>4. \A q \in Senders \ {t} : task'[q] = task[q]
    BY <2>1, TaskKeeps
  <2> QED
    BY <2>2, <2>3, <2>4
<1>2. CallsHaveRows'
  <2>1. \A k \in Keys : direct'[k] > 0 => saved'[k].state # "none"
    BY DEF CallsHaveRows
  <2>2. ASSUME NEW q \in Senders, task'[q].pc \in {"creating", "sending"}
        PROVE  task'[q] = task[q] /\ task[q].key \in Keys
    BY <1>1, <2>2 DEF DirectType, Resting
  <2> QED
    BY <2>1, <2>2 DEF CallsHaveRows
<1> QED
  BY <1>1, <1>2 DEF DirectOnce

LEMMA ReturnKeeps ==
  ASSUME DirectInv, NEW s \in Senders, ReturnFromDelivery(s)
  PROVE  DirectInv'
<1> USE DEF DirectInv
<1>1. /\ sender' = [sender EXCEPT ![s] = Resting]
      /\ UNCHANGED <<saved, lock, task, replay, replaying, direct>>
  BY DEF ReturnFromDelivery, rowVars, replayVars, callVars
<1>2. /\ sender[s].key \in Keys /\ sender[s].of \in Senders
      /\ \/ entry' = entry
         \/ /\ entry' = [entry EXCEPT ![sender[s].key] = "nobody"]
            /\ entry[sender[s].key] = s /\ task[s].pc = "over"
  BY DEF ReturnFromDelivery, TaskOver, DirectType, Resting
<1>3. RowType' /\ DirectType'
  BY <1>1, <1>2 DEF RowType, DirectType
<1>4. LookUpsAreLocked'
  BY <1>1, <1>2 DEF LookUpsAreLocked, DirectType, Resting
<1>5. WorkersAreEntered'
  BY <1>1, <1>2 DEF WorkersAreEntered, DirectType, TaskWorks, Resting
<1>6. CallsHaveRows' /\ DirectOnce'
  BY <1>1 DEF CallsHaveRows, DirectOnce
\* The entry of a creator goes with its wait.
<1>7. AwaitsAreTasks'
  <2>1. \A k \in Keys : entry[k] = s => sender[s] = [pc |-> "awaits", key |-> k, of |-> s]
    BY DeliveriesAssumption DEF AwaitsAreTasks
  <2>2. ASSUME NEW k \in Keys PROVE entry'[k] # s
    <3>1. CASE entry[k] = s
      <4>1. sender[s].key = k /\ sender[s].of = s
        <5>1. sender[s] = [pc |-> "awaits", key |-> k, of |-> s]
          BY <2>1, <3>1
        <5> QED
          BY <5>1
      <4>2. entry' = [entry EXCEPT ![k] = "nobody"]
        BY <3>1, <4>1 DEF ReturnFromDelivery
      <4> QED
        BY <4>2, DeliveriesAssumption DEF DirectType
    <3>2. CASE entry[k] # s
      BY <1>2, <3>2, DeliveriesAssumption DEF DirectType
    <3> QED
      BY <3>1, <3>2
  <2>3. \A k \in Keys : entry'[k] # "nobody" =>
          sender'[entry'[k]] = [pc |-> "awaits", key |-> k, of |-> entry'[k]]
    BY <1>1, <1>2, <2>2 DEF AwaitsAreTasks, DirectType
  <2>4. \A q \in Senders : sender'[q].pc = "awaits" => task'[sender'[q].of].pc # "idle"
    BY <1>1 DEF AwaitsAreTasks, DirectType, Resting
  <2> QED
    BY <2>3, <2>4 DEF AwaitsAreTasks
<1> QED
  BY <1>3, <1>4, <1>5, <1>6, <1>7

LEMMA JoinKeeps ==
  ASSUME DirectInv, NEW s \in Senders, NEW k \in Keys, JoinDelivery(s, k)
  PROVE  DirectInv'
<1> USE DEF DirectInv
<1>1. /\ entry[k] \in Senders /\ sender[s].pc = "idle"
      /\ sender' = [sender EXCEPT ![s] = [pc |-> "awaits", key |-> k, of |-> entry[k]]]
      /\ UNCHANGED <<saved, lock, entry, task, replay, replaying, direct>>
  BY DEF JoinDelivery, Await, DirectType, rowVars, replayVars, callVars
<1>2. RowType' /\ DirectType'
  BY <1>1 DEF RowType, DirectType
<1>3. LookUpsAreLocked' /\ WorkersAreEntered' /\ CallsHaveRows' /\ DirectOnce'
  BY <1>1 DEF LookUpsAreLocked, WorkersAreEntered, CallsHaveRows, DirectOnce, DirectType, TaskWorks
<1>4. AwaitsAreTasks'
  <2>1. task[entry[k]].pc # "idle"
    <3>1. sender[entry[k]] = [pc |-> "awaits", key |-> k, of |-> entry[k]]
      BY <1>1, DeliveriesAssumption DEF AwaitsAreTasks
    <3> QED
      BY <1>1, <3>1 DEF AwaitsAreTasks
  <2>2. \A j \in Keys : entry[j] # s
    BY <1>1, NotEntered
  <2> QED
    BY <1>1, <2>1, <2>2 DEF AwaitsAreTasks, DirectType
<1> QED
  BY <1>2, <1>3, <1>4

LEMMA ForgetKeeps ==
  ASSUME DirectInv, NEW t \in Senders, Forget(t)
  PROVE  DirectInv'
<1> USE DEF DirectInv
<1>1. /\ task' = [task EXCEPT ![t] = Resting] /\ task[t].pc = "over"
      /\ UNCHANGED <<saved, lock, entry, sender, replay, replaying, direct>>
      /\ \A s \in Senders : sender[s].pc = "awaits" => sender[s].of # t
  BY DEF Forget, TaskOver, rowVars, replayVars, callVars
<1>2. RowType' /\ DirectType'
  BY <1>1 DEF RowType, DirectType
<1>3. LookUpsAreLocked'
  BY <1>1 DEF LookUpsAreLocked, DirectType
<1>4. WorkersAreEntered' /\ CallsHaveRows' /\ DirectOnce'
  BY <1>1 DEF WorkersAreEntered, CallsHaveRows, DirectOnce, DirectType, TaskWorks, Resting
<1>5. AwaitsAreTasks'
  BY <1>1 DEF AwaitsAreTasks, DirectType
<1> QED
  BY <1>2, <1>3, <1>4, <1>5

LEMMA AbortKeeps ==
  ASSUME DirectInv, NEW s \in Senders, Abort(s)
  PROVE  DirectInv'
<1> USE DEF DirectInv
<1>1. UNCHANGED <<saved, entry, replay, replaying, direct>>
  BY DEF Abort, rowVars, replayVars
<1>2. RowType'
  BY <1>1 DEF RowType
<1>3. CASE sender[s].pc = "lookup" /\ sender' = [sender EXCEPT ![s] = Resting] /\ UNCHANGED task
  <2>1. \A q \in Senders : sender[q].pc = "lookup" => q = s
    BY <1>3 DEF LookUpsAreLocked
  <2>2. DirectType' /\ \A q \in Senders : sender'[q].pc # "lookup"
    BY <1>1, <1>3, <2>1 DEF DirectType, Resting
  <2>3. AwaitsAreTasks'
    BY <1>1, <1>3 DEF AwaitsAreTasks, DirectType, Resting
  <2> QED
    BY <1>1, <1>2, <1>3, <2>2, <2>3
       DEF LookUpsAreLocked, WorkersAreEntered, CallsHaveRows, DirectOnce, TaskWorks
<1>4. CASE /\ sender[s].pc = "awaits" /\ ~TaskOver(sender[s].of)
           /\ task' = [task EXCEPT ![sender[s].of].pc = "over"] /\ UNCHANGED <<lock, sender>>
  <2>1. sender[s].of \in Senders
    BY <1>4 DEF DirectType, Resting
  <2>2. TaskWorks(sender[s].of)
    <3>1. task[sender[s].of].pc \notin {"idle", "over"}
      BY <1>4, <2>1 DEF AwaitsAreTasks, TaskOver
    <3> QED
      BY <2>1, <3>1 DEF DirectType, TaskWorks, Resting
  <2> QED
    BY <1>1, <1>2, <1>4, <2>1, <2>2, TaskEnds
<1> QED
  BY <1>3, <1>4 DEF Abort

\* A replay writes rows that are there, and leaves a state in them.
LEMMA ReplayKeeps ==
  ASSUME DirectInv, NEW r \in Replayers,
         \/ List(r) \/ GiveUp(r) \/ Resend(r) \/ RecordReplay(r)
         \/ \E k \in Keys : Defer(r, k) \/ Attempt(r, k)
  PROVE  DirectInv'
<1> USE DEF DirectInv, RowType
<1>1. CASE List(r)
  <2>1. UNCHANGED <<directVars, saved, direct, replaying>>
    BY <1>1 DEF List, rowVars, callVars
  <2>2. \A q \in Replayers : \A k \in DOMAIN replay'[q] : replay'[q][k] \in SavedRow
    BY <1>1 DEF List
  <2> QED
    BY <2>1, <2>2, RowsOnly
<1>2. ASSUME NEW k \in Keys, Defer(r, k) PROVE DirectInv'
  BY <1>2, RowsOnly DEF Defer, Strike, rowVars, callVars
<1>3. ASSUME NEW k \in Keys, Attempt(r, k) PROVE DirectInv'
  <2>1. UNCHANGED <<directVars, saved, direct>>
    BY <1>3 DEF Attempt, rowVars, callVars
  <2>2. \A q \in Replayers : \A j \in DOMAIN replay'[q] : replay'[q][j] \in SavedRow
    BY <1>3 DEF Attempt, Strike
  <2>3. replay[r][k].attempts \in Nat
    BY <1>3 DEF Attempt, SavedRow
  <2>4. \A q \in Replayers : replaying'[q].pc # "idle" => replaying'[q].attempts \in Nat
    BY <1>3, <2>3 DEF Attempt
  <2> QED
    BY <2>1, <2>2, <2>4, RowsOnly
<1>4. CASE Resend(r)
  BY <1>4, RowsOnly DEF Resend, rowVars
<1>5. CASE GiveUp(r)
  <2>1. UNCHANGED <<directVars, direct, replay>>
    BY <1>5 DEF GiveUp, callVars
  <2>2. saved' \in [Keys -> SavedRow]
    BY <1>5, DeliveriesAssumption DEF GiveUp, Write, SavedRow
  <2> QED
    BY <1>5, <2>1, <2>2, RowsOnly DEF GiveUp, Write, Resting
<1>6. CASE RecordReplay(r)
  <2>1. UNCHANGED <<directVars, direct, replay>> /\ replaying[r].attempts \in Nat
    BY <1>6 DEF RecordReplay, callVars
  <2>2. PICK state \in {"delivered", "failed"}, attempts \in Nat :
          Write(replaying[r].key, state, attempts)
    BY <1>6, <2>1, DeliveriesAssumption DEF RecordReplay
  <2>3. saved' \in [Keys -> SavedRow]
    BY <2>2 DEF Write, SavedRow
  <2>4. replaying' = [replaying EXCEPT ![r] = Resting]
    BY <1>6 DEF RecordReplay
  <2> QED
    BY <2>1, <2>2, <2>3, <2>4, RowsOnly DEF Write, Resting
<1> QED
  BY <1>1, <1>2, <1>3, <1>4, <1>5, <1>6

\* A crash leaves the rows, which is what the retries go by.
LEMMA CrashKeeps ==
  ASSUME DirectInv, Crash
  PROVE  DirectInv'
BY DEF DirectInv, Crash, RowType, DirectType, LookUpsAreLocked, WorkersAreEntered,
       CallsHaveRows, DirectOnce, AwaitsAreTasks, TaskWorks, Resting, rowVars

LEMMA DirectStep == DirectInv /\ [DeliveryNext]_deliveryVars => DirectInv'
<1> SUFFICES ASSUME DirectInv, [DeliveryNext]_deliveryVars PROVE DirectInv'
  OBVIOUS
<1>1. ASSUME NEW t \in Senders, RecordDirect(t) PROVE DirectInv'
  <2>1. /\ TaskWorks(t) /\ task' = [task EXCEPT ![t].pc = "over"]
        /\ UNCHANGED <<lock, entry, sender, direct, replay, replaying>>
        /\ \E state \in {"delivered", "failed"} : Write(task[t].key, state, 1)
    BY <1>1 DEF RecordDirect, TaskWorks, replayVars, callVars
  <2>2. RowType' /\ \A k \in Keys : saved[k].state # "none" => saved'[k].state # "none"
    <3>1. PICK state \in {"delivered", "failed"} :
            saved' = [saved EXCEPT ![task[t].key] = [state |-> state, attempts |-> 1]]
      BY <2>1 DEF Write
    <3>2. [state |-> state, attempts |-> 1] \in SavedRow
      BY DEF SavedRow
    <3>3. saved' \in [Keys -> SavedRow]
      BY <3>1, <3>2 DEF DirectInv, RowType
    <3>4. \A k \in Keys : saved[k].state # "none" => saved'[k].state # "none"
      BY <3>1 DEF DirectInv, RowType
    <3> QED
      BY <2>1, <3>3, <3>4 DEF DirectInv, RowType
  <2> QED
    BY <2>1, <2>2, TaskEnds
<1>2. CASE UNCHANGED deliveryVars
  BY <1>2, RowsOnly DEF DirectInv, RowType, deliveryVars, rowVars, replayVars, callVars
<1> QED
  BY <1>1, <1>2, JoinKeeps, LookUpKeeps, LookedUpKeeps, ReturnKeeps, ForgetKeeps, AbortKeeps,
     CreateRowKeeps, CallProviderKeeps, ReplayKeeps, CrashKeeps
     DEF DeliveryNext, DeliveryStep

\* Whoever retries, is cancelled or crashes: the direct delivery of a key
\* calls the provider once at most.
THEOREM SentOnce == DeliverySpec => []DirectOnce
<1>1. DirectInv => DirectOnce
  BY DEF DirectInv
<1> QED
  BY <1>1, DirectStarts, DirectStep, PTL DEF DeliverySpec

---------------------------------------------------------------------------
(* Attempts are counted *)

Direct(t, k) == task[t].pc \in {"sending", "sent"} /\ task[t].key = k
Listed(r, k) == k \in DOMAIN replay[r]
Resending(r, k) == replaying[r].pc # "idle" /\ replaying[r].key = k

ReplayType ==
  /\ replay = [r \in Replayers |-> replay[r]]
  /\ \A r \in Replayers : DOMAIN replay[r] \subseteq Keys
  /\ replaying \in [Replayers -> {Resting} \cup [pc : {"sending", "sent"}, key : Keys,
                                                 attempts : Nat]]
  /\ sent \in [Keys -> Nat] /\ unwritten \in [Keys -> Nat] /\ overlapped \in SUBSET Keys

\* A replay has rows in hand that are there; the one it sends it has struck off.
RowsInHand ==
  /\ \A r \in Replayers, k \in Keys :
       /\ Listed(r, k) => /\ saved[k].state # "none" /\ ~Resending(r, k)
                          /\ replay[r][k].state \in {"pending", "failed"}
       /\ Resending(r, k) => saved[k].state # "none"
  /\ \A t \in Senders : task[t].pc = "creating" => saved[task[t].key].state = "none"
  /\ \A k \in Keys : saved[k].state = "none" => saved[k].attempts = 0

Out(k) == IF Calling(k) = {} THEN 0 ELSE 1

\* Who has a row in hand alone has it as it was read.
KeyInv(k) ==
  /\ \A x, y \in Holders(k) : x = y
  /\ \A t \in Senders : Direct(t, k) => saved[k] = [state |-> "pending", attempts |-> 0]
  /\ \A r \in Replayers :
       /\ Listed(r, k) => replay[r][k] = saved[k]
       /\ Resending(r, k) => /\ saved[k].state \in {"pending", "failed"}
                             /\ replaying[r].attempts = saved[k].attempts
                             /\ saved[k].attempts < MaxRetries
  /\ saved[k].attempts <= MaxRetries
  /\ sent[k] <= saved[k].attempts + unwritten[k] + Out(k)

CountInv ==
  /\ DirectInv /\ ReplayType /\ RowsInHand
  /\ \A k \in Keys \ overlapped : KeyInv(k)

LEMMA OneAtMost ==
  ASSUME NEW S, IsFiniteSet(S), ~(Cardinality(S) > 1)
  PROVE  \A x, y \in S : x = y
<1> SUFFICES ASSUME NEW x \in S, NEW y \in S, x # y PROVE FALSE
  OBVIOUS
<1>1. Cardinality({x, y}) = 2
  <2>1. Cardinality({x}) = 1 /\ IsFiniteSet({x})
    BY FS_Singleton
  <2>2. Cardinality({x} \cup {y}) = 2
    BY <2>1, FS_AddElement
  <2>3. {x} \cup {y} = {x, y}
    OBVIOUS
  <2> QED
    BY <2>2, <2>3
<1>2. Cardinality({x, y}) <= Cardinality(S) /\ Cardinality(S) \in Nat
  <2>1. {x, y} \subseteq S
    OBVIOUS
  <2> QED
    BY <2>1, FS_Subset, FS_CardinalityType
<1> QED
  BY <1>1, <1>2

LEMMA OutCounts ==
  ASSUME NEW S, \A x, y \in S : x = y
  PROVE  Cardinality(S) = IF S = {} THEN 0 ELSE 1
<1>1. CASE S = {}
  BY <1>1, FS_EmptySet
<1>2. CASE S # {}
  <2>1. PICK x \in S : TRUE
    BY <1>2
  <2>2. S = {x}
    BY <2>1
  <2> QED
    BY <1>2, <2>2, FS_Singleton
<1> QED
  BY <1>1, <1>2

\* The tasks that have a row in hand are counted: more than one is in "overlapped".
LEMMA OneHolds ==
  ASSUME DeliveryNext, overlapped \in SUBSET Keys, NEW k \in Keys, k \notin overlapped'
  PROVE  k \notin overlapped /\ \A x, y \in Holders(k)' : x = y
<1>1. k \notin overlapped /\ ~(Cardinality(Holders(k)') > 1)
  BY DEF DeliveryNext
<1>2. IsFiniteSet(Holders(k)')
  <2>1. Holders(k)' \subseteq Senders \cup Replayers
    BY DEF Holders
  <2>2. IsFiniteSet(Senders \cup Replayers)
    BY DeliveriesAssumption, FS_Union
  <2> QED
    BY <2>1, <2>2, FS_Subset
<1> QED
  BY <1>1, <1>2, OneAtMost

LEMMA HoldersAre ==
  ASSUME NEW k
  PROVE  /\ Holders(k) = {t \in Senders : Direct(t, k)}
                         \cup {r \in Replayers : Listed(r, k) \/ Resending(r, k)}
         /\ \A t \in Senders : t \in Calling(k) <=> task[t].pc = "sent" /\ task[t].key = k
         /\ \A r \in Replayers : r \in Calling(k) <=> replaying[r].pc = "sent"
                                                      /\ replaying[r].key = k
         /\ Calling(k) \subseteq Holders(k)
BY DeliveriesAssumption DEF Holders, Direct, Listed, Resending, Calling

LEMMA CountStarts == DeliveryInit => CountInv
<1> SUFFICES ASSUME DeliveryInit PROVE CountInv
  OBVIOUS
<1>1. DirectInv
  BY DirectStarts
<1>2. \A r \in Replayers : DOMAIN replay[r] = {} /\ replaying[r] = Resting
  BY DEF DeliveryInit
<1>3. ReplayType
  BY <1>2 DEF DeliveryInit, ReplayType
<1>4. RowsInHand
  BY <1>2 DEF DeliveryInit, RowsInHand, Listed, Resending, Resting, NoRow
<1>5. ASSUME NEW k \in Keys PROVE KeyInv(k)
  <2>1. Holders(k) = {} /\ Calling(k) = {}
    BY <1>2 DEF DeliveryInit, Holders, Calling, Resting
  <2>2. \A t \in Senders : ~Direct(t, k)
    BY DEF DeliveryInit, Direct, Resting
  <2>3. \A r \in Replayers : ~Listed(r, k) /\ ~Resending(r, k)
    BY <1>2 DEF Listed, Resending, Resting
  <2> QED
    BY <2>1, <2>2, <2>3, DeliveriesAssumption DEF KeyInv, DeliveryInit, NoRow, Out
<1> QED
  BY <1>1, <1>3, <1>4, <1>5 DEF CountInv

LEMMA SendingKeys ==
  ASSUME DirectInv, ReplayType
  PROVE  /\ \A t \in Senders : task[t].pc # "idle" => task[t].key \in Keys
         /\ \A r \in Replayers : replaying[r].pc # "idle" =>
              replaying[r].key \in Keys /\ replaying[r].attempts \in Nat
BY DEF DirectInv, DirectType, ReplayType, Resting

LEMMA ReplayTypeStep ==
  ASSUME DirectInv, ReplayType, [DeliveryNext]_deliveryVars
  PROVE  ReplayType'
<1> USE DEF ReplayType
<1> DEFINE Calls == sent' \in [Keys -> Nat] /\ unwritten' \in [Keys -> Nat]
           Plays == /\ replay' = [r \in Replayers |-> replay'[r]]
                    /\ \A r \in Replayers : DOMAIN replay'[r] \subseteq Keys
                    /\ replaying' \in [Replayers -> {Resting} \cup [pc : {"sending", "sent"},
                                                      key : Keys, attempts : Nat]]
<1>1. ASSUME UNCHANGED <<replay, replaying, sent, unwritten>> PROVE Calls /\ Plays
  BY <1>1
<1>2. ASSUME NEW t \in Senders, CallProvider(t) PROVE Calls /\ Plays
  BY <1>2, SendingKeys DEF CallProvider, replayVars
<1>3. ASSUME NEW s \in Senders, Abort(s) PROVE Calls /\ Plays
  <2>1. ASSUME NEW t \in Senders, task[t].pc = "sent" PROVE task[t].key \in Keys
    BY <2>1, SendingKeys
  <2>2. sender[s].pc = "awaits" => sender[s].of \in Senders
    BY DEF DirectInv, DirectType, Resting
  <2>3. unwritten' \in [Keys -> Nat]
    BY <1>3, <2>1, <2>2 DEF Abort
  <2> QED
    BY <1>3, <2>3 DEF Abort, replayVars
<1>4. ASSUME NEW r \in Replayers, List(r) PROVE Calls /\ Plays
  BY <1>4 DEF List, callVars
<1>5. ASSUME NEW r \in Replayers, NEW k \in Keys, Defer(r, k) \/ Attempt(r, k) PROVE Calls /\ Plays
  <2>1. k \in DOMAIN replay[r] => replay[r][k].attempts \in Nat
    BY DEF DirectInv, RowType, SavedRow
  <2>2. /\ replay' = [q \in Replayers |-> replay'[q]]
        /\ \A q \in Replayers : DOMAIN replay'[q] \subseteq Keys
    <3> DEFINE rest == [j \in DOMAIN replay[r] \ {k} |-> replay[r][j]]
    <3>1. DOMAIN rest \subseteq Keys
      OBVIOUS
    <3>2. replay' = [replay EXCEPT ![r] = rest]
      BY <1>5 DEF Defer, Attempt, Strike
    <3> HIDE DEF rest
    <3> QED
      BY <3>1, <3>2
  <2>3. Calls
    BY <1>5 DEF Defer, Attempt, callVars
  <2>4. CASE Defer(r, k)
    BY <2>2, <2>3, <2>4 DEF Defer
  <2>5. CASE Attempt(r, k)
    <3>1. replaying' = [replaying EXCEPT ![r] = [pc |-> "sending", key |-> k,
                                                 attempts |-> replay[r][k].attempts]]
          /\ replay[r][k].attempts \in Nat
      BY <2>1, <2>5 DEF Attempt
    <3> QED
      BY <2>2, <2>3, <3>1
  <2> QED
    BY <1>5, <2>4, <2>5
<1>6. ASSUME NEW r \in Replayers, GiveUp(r) \/ RecordReplay(r) PROVE Calls /\ Plays
  BY <1>6 DEF GiveUp, RecordReplay, callVars
<1>7. ASSUME NEW r \in Replayers, Resend(r) PROVE Calls /\ Plays
  <2>1. replaying[r] \in [pc : {"sending", "sent"}, key : Keys, attempts : Nat]
    BY <1>7 DEF Resend, Resting
  <2>2. /\ replaying' = [replaying EXCEPT ![r].pc = "sent"] /\ UNCHANGED <<replay, unwritten>>
        /\ sent' = [sent EXCEPT ![replaying[r].key] = @ + 1]
    BY <1>7 DEF Resend
  <2>3. Calls
    BY <2>1, <2>2
  <2>4. Plays
    BY <2>1, <2>2
  <2> QED
    BY <2>3, <2>4
<1>8. ASSUME Crash PROVE Calls /\ Plays
  <2>1. \A k \in Keys : Cardinality(Calling(k)) \in Nat
    <3>1. \A k : Calling(k) \subseteq Senders \cup Replayers
      BY DEF Calling
    <3>2. IsFiniteSet(Senders \cup Replayers)
      BY DeliveriesAssumption, FS_Union
    <3> QED
      BY <3>1, <3>2, FS_Subset, FS_CardinalityType
  <2>2. unwritten' = [k \in Keys |-> unwritten[k] + Cardinality(Calling(k))]
    BY <1>8 DEF Crash, Calling
  <2>3. Calls
    <3>1. \A k \in Keys : unwritten[k] + Cardinality(Calling(k)) \in Nat
      BY <2>1
    <3>2. unwritten' \in [Keys -> Nat]
      BY <2>2, <3>1
    <3> QED
      BY <1>8, <3>2 DEF Crash
  <2>4. Plays
    BY <1>8 DEF Crash
  <2> QED
    BY <2>3, <2>4
<1>9. overlapped' \in SUBSET Keys
  BY DEF DeliveryNext, deliveryVars
<1> HIDE DEF ReplayType
<1>10. Calls /\ Plays
  <2> HIDE DEF Calls, Plays
  <2>1. ASSUME NEW s \in Senders,
               (\E k \in Keys : JoinDelivery(s, k) \/ LookUp(s, k)) \/ LookedUp(s)
               \/ ReturnFromDelivery(s) \/ Forget(s) \/ CreateRow(s) \/ RecordDirect(s)
        PROVE  UNCHANGED <<replay, replaying, sent, unwritten>>
    BY <2>1 DEF JoinDelivery, LookUp, LookedUp, ReturnFromDelivery, Forget, CreateRow,
       RecordDirect, replayVars, callVars
  <2>2. CASE UNCHANGED deliveryVars
    BY <1>1, <2>2 DEF deliveryVars, replayVars, callVars
  <2>3. DeliveryStep \/ UNCHANGED deliveryVars
    BY DEF DeliveryNext
  <2>4. CASE DeliveryStep
    BY <1>1, <1>2, <1>3, <1>4, <1>5, <1>6, <1>7, <1>8, <2>1, <2>4 DEF DeliveryStep
  <2> QED
    BY <2>2, <2>3, <2>4
<1> QED
  BY <1>9, <1>10 DEF ReplayType

\* Rows that are in hand are there, and a task that is to create one finds none.
LEMMA RowsInHandStep ==
  ASSUME DirectInv, ReplayType, RowsInHand, [DeliveryNext]_deliveryVars
  PROVE  RowsInHand'
<1> USE DEF ReplayType
<1> DEFINE Held == /\ \A r \in Replayers, k \in Keys :
                        /\ Listed(r, k)' => /\ saved[k].state # "none" /\ ~Resending(r, k)'
                                            /\ replay'[r][k].state \in {"pending", "failed"}
                        /\ Resending(r, k)' => saved[k].state # "none"
           Written == /\ \A k \in Keys : saved[k].state # "none" => saved'[k].state # "none"
                      /\ \A k \in Keys : saved'[k].state = "none" => saved'[k].attempts = 0
           Made == \A t \in Senders : task'[t].pc = "creating" => saved'[task'[t].key].state = "none"
<1>0. ASSUME UNCHANGED <<replay, replaying>> PROVE Held
  BY <1>0 DEF RowsInHand, Listed, Resending
<1>1. ASSUME UNCHANGED saved PROVE Written
  BY <1>1 DEF RowsInHand
<1>2. ASSUME UNCHANGED <<saved, task>> PROVE Made
  BY <1>2 DEF RowsInHand
<1>3. ASSUME NEW k \in Keys, NEW state \in {"pending", "delivered", "failed"}, NEW n \in Nat,
             Write(k, state, n)
      PROVE  Written
  BY <1>3 DEF Write, RowsInHand, DirectInv, RowType, SavedRow

<1>4. ASSUME NEW t \in Senders, TaskWorks(t), NEW pc \in {"sending", "sent", "over"},
             task' = [task EXCEPT ![t].pc = pc],
             \A k \in Keys : k # task[t].key => saved'[k] = saved[k]
      PROVE  Made
  <2> SUFFICES ASSUME NEW q \in Senders, task'[q].pc = "creating"
               PROVE  saved'[task'[q].key].state = "none"
    OBVIOUS
  <2>1. task[t] \in [pc : {"creating", "sending", "sent", "over"}, key : Keys]
    BY <1>4 DEF DirectInv, DirectType, TaskWorks, Resting
  <2>2. q # t /\ task'[q] = task[q]
    BY <1>4, <2>1 DEF DirectInv, DirectType
  <2>3. task[q].key \in Keys /\ task[q].key # task[t].key
    BY <1>4, <2>2, SendingKeys DEF DirectInv, WorkersAreEntered, TaskWorks
  <2> QED
    BY <1>4, <2>2, <2>3 DEF RowsInHand
<1>5. ASSUME NEW s \in Senders, LookedUp(s) PROVE Held /\ Written /\ Made
  <2>1. UNCHANGED <<saved, replay, replaying>>
    BY <1>5 DEF LookedUp, rowVars, replayVars
  <2>2. Made
    <3>1. sender[s].key \in Keys
      BY <1>5 DEF LookedUp, DirectInv, DirectType, Resting
    <3>2. CASE saved[sender[s].key].state # "none"
      BY <1>2, <1>5, <2>1, <3>2 DEF LookedUp
    <3>3. CASE saved[sender[s].key].state = "none"
      <4>1. task' = [task EXCEPT ![s] = [pc |-> "creating", key |-> sender[s].key]]
        BY <1>5, <3>3 DEF LookedUp
      <4> QED
        BY <2>1, <3>3, <4>1 DEF RowsInHand, DirectInv, DirectType
    <3> QED
      BY <3>2, <3>3
  <2> QED
    BY <1>0, <1>1, <2>1, <2>2
<1>6. ASSUME NEW t \in Senders, Forget(t) PROVE Held /\ Written /\ Made
  <2>1. UNCHANGED <<saved, replay, replaying>> /\ task' = [task EXCEPT ![t] = Resting]
    BY <1>6 DEF Forget, rowVars, replayVars
  <2>2. Made
    BY <2>1 DEF RowsInHand, Resting, DirectInv, DirectType
  <2> QED
    BY <1>0, <1>1, <2>1, <2>2
<1>7. ASSUME NEW t \in Senders, CreateRow(t) PROVE Held /\ Written /\ Made
  <2>1. /\ TaskWorks(t) /\ task' = [task EXCEPT ![t].pc = "sending"] /\ task[t].key \in Keys
        /\ Write(task[t].key, "pending", 0) /\ UNCHANGED <<replay, replaying>>
    BY <1>7, SendingKeys DEF CreateRow, TaskWorks, replayVars
  <2>2. \A k \in Keys : k # task[t].key => saved'[k] = saved[k]
    BY <2>1 DEF Write, DirectInv, RowType
  <2> QED
    BY <1>0, <1>3, <1>4, <2>1, <2>2
<1>8. ASSUME NEW t \in Senders, CallProvider(t) PROVE Held /\ Written /\ Made
  <2>1. /\ TaskWorks(t) /\ task' = [task EXCEPT ![t].pc = "sent"]
        /\ UNCHANGED <<saved, replay, replaying>>
    BY <1>8 DEF CallProvider, TaskWorks, rowVars, replayVars
  <2> QED
    BY <1>0, <1>1, <1>4, <2>1
<1>9. ASSUME NEW t \in Senders, RecordDirect(t) PROVE Held /\ Written /\ Made
  <2>1. /\ TaskWorks(t) /\ task' = [task EXCEPT ![t].pc = "over"] /\ task[t].key \in Keys
        /\ UNCHANGED <<replay, replaying>>
    BY <1>9, SendingKeys DEF RecordDirect, TaskWorks, replayVars
  <2>2. PICK state \in {"delivered", "failed"} : Write(task[t].key, state, 1)
    BY <1>9 DEF RecordDirect
  <2>3. \A k \in Keys : k # task[t].key => saved'[k] = saved[k]
    BY <2>2 DEF Write, DirectInv, RowType
  <2>4. Written
    BY <1>3, <2>1, <2>2
  <2>5. Made
    BY <1>4, <2>1, <2>3
  <2> QED
    BY <1>0, <2>1, <2>4, <2>5
<1>10. ASSUME NEW s \in Senders, Abort(s) PROVE Held /\ Written /\ Made
  <2>1. UNCHANGED <<saved, replay, replaying>>
    BY <1>10 DEF Abort, rowVars, replayVars
  <2>2. CASE UNCHANGED task
    BY <1>0, <1>1, <1>2, <2>1, <2>2
  <2>3. CASE /\ sender[s].pc = "awaits" /\ ~TaskOver(sender[s].of)
             /\ task' = [task EXCEPT ![sender[s].of].pc = "over"]
    <3>1. sender[s].of \in Senders
      BY <2>3 DEF DirectInv, DirectType, Resting
    <3>2. TaskWorks(sender[s].of)
      BY <2>3, <3>1 DEF DirectInv, DirectType, AwaitsAreTasks, TaskOver, TaskWorks, Resting
    <3> QED
      BY <1>0, <1>1, <1>4, <2>1, <2>3, <3>1, <3>2
  <2> QED
    BY <1>10, <2>2, <2>3 DEF Abort
<1>11. ASSUME NEW r \in Replayers, List(r) PROVE Held /\ Written /\ Made
  <2>1. UNCHANGED <<saved, task, replaying>> /\ replaying[r].pc = "idle"
    BY <1>11 DEF List, directVars, rowVars
  <2>2. Held
    <3> DEFINE rows == [k \in {k \in Keys : saved[k].state \in {"pending", "failed"}} |-> saved[k]]
    <3>1. replay' = [replay EXCEPT ![r] = rows]
      BY <1>11 DEF List
    <3>2. \A k \in DOMAIN rows : rows[k].state \in {"pending", "failed"} /\ rows[k] = saved[k]
      OBVIOUS
    <3> HIDE DEF rows
    <3> QED
      BY <2>1, <3>1, <3>2 DEF RowsInHand, Listed, Resending
  <2> QED
    BY <1>1, <1>2, <2>1, <2>2
<1>12. ASSUME NEW r \in Replayers, NEW k \in Keys, Defer(r, k) \/ Attempt(r, k)
       PROVE  Held /\ Written /\ Made
  <2>1. UNCHANGED <<saved, task>> /\ replaying[r].pc = "idle" /\ k \in DOMAIN replay[r]
    BY <1>12 DEF Defer, Attempt, directVars, rowVars
  <2>2. Held
    <3> DEFINE rows == [j \in DOMAIN replay[r] \ {k} |-> replay[r][j]]
    <3>1. replay' = [replay EXCEPT ![r] = rows]
      BY <1>12 DEF Defer, Attempt, Strike
    <3>2. DOMAIN rows = DOMAIN replay[r] \ {k} /\ \A j \in DOMAIN rows : rows[j] = replay[r][j]
      OBVIOUS
    <3> HIDE DEF rows
    <3>3. \/ UNCHANGED replaying
          \/ replaying' = [replaying EXCEPT ![r] =
               [pc |-> "sending", key |-> k, attempts |-> replay[r][k].attempts]]
      BY <1>12 DEF Defer, Attempt
    <3> QED
      BY <2>1, <3>1, <3>2, <3>3 DEF RowsInHand, Listed, Resending
  <2> QED
    BY <1>1, <1>2, <2>1, <2>2
<1>13. ASSUME NEW r \in Replayers, GiveUp(r) \/ RecordReplay(r) PROVE Held /\ Written /\ Made
  <2> DEFINE key == replaying[r].key
  <2>1. /\ key \in Keys /\ replaying[r].attempts \in Nat /\ replaying[r].pc # "idle"
        /\ replaying' = [replaying EXCEPT ![r] = Resting] /\ UNCHANGED <<task, replay>>
    BY <1>13, SendingKeys DEF GiveUp, RecordReplay, directVars
  <2>2. PICK state \in {"pending", "delivered", "failed"}, n \in Nat : Write(key, state, n)
    BY <1>13, <2>1, DeliveriesAssumption DEF GiveUp, RecordReplay
  <2>3. Held
    BY <2>1 DEF RowsInHand, Listed, Resending, Resting
  <2>4. Made
    <3>1. saved[key].state # "none"
      BY <2>1 DEF RowsInHand, Resending
    <3>2. \A t \in Senders : task[t].pc = "creating" => task[t].key \in Keys
      BY SendingKeys
    <3> QED
      BY <2>1, <2>2, <3>1, <3>2 DEF Write, RowsInHand, DirectInv, RowType
  <2> QED
    BY <1>3, <2>1, <2>2, <2>3, <2>4
<1>14. ASSUME NEW r \in Replayers, Resend(r) PROVE Held /\ Written /\ Made
  <2>1. replaying[r] \in [pc : {"sending", "sent"}, key : Keys, attempts : Nat]
    BY <1>14 DEF Resend, Resting
  <2>2. replaying' = [replaying EXCEPT ![r].pc = "sent"] /\ UNCHANGED <<saved, task, replay>>
    BY <1>14 DEF Resend, directVars, rowVars
  <2>3. Held
    BY <2>1, <2>2 DEF RowsInHand, Listed, Resending
  <2> QED
    BY <1>1, <1>2, <2>2, <2>3
<1>15. ASSUME Crash PROVE Held /\ Written /\ Made
  <2>1. Held
    <3>1. \A r \in Replayers : DOMAIN replay'[r] = {} /\ replaying'[r].pc = "idle"
      BY <1>15 DEF Crash, Resting
    <3> QED
      BY <3>1 DEF Listed, Resending
  <2>2. Made
    BY <1>15 DEF Crash, Resting
  <2> QED
    BY <1>1, <1>15, <2>1, <2>2 DEF Crash, rowVars
<1>16. ASSUME UNCHANGED <<saved, task, replay, replaying>> PROVE Held /\ Written /\ Made
  BY <1>0, <1>1, <1>2, <1>16
<1> HIDE DEF ReplayType
<1>17. Held /\ Written /\ Made
  <2> HIDE DEF Held, Written, Made
  <2>1. ASSUME NEW s \in Senders,
               (\E k \in Keys : JoinDelivery(s, k) \/ LookUp(s, k)) \/ ReturnFromDelivery(s)
        PROVE  UNCHANGED <<saved, task, replay, replaying>>
    BY <2>1 DEF JoinDelivery, LookUp, ReturnFromDelivery, rowVars, replayVars
  <2>2. CASE UNCHANGED deliveryVars
    BY <1>16, <2>2 DEF deliveryVars, rowVars, directVars, replayVars
  <2>3. DeliveryStep \/ UNCHANGED deliveryVars
    BY DEF DeliveryNext
  <2>4. CASE DeliveryStep
    BY <1>5, <1>6, <1>7, <1>8, <1>9, <1>10, <1>11, <1>12, <1>13, <1>14, <1>15, <1>16, <2>1, <2>4
    DEF DeliveryStep
  <2> QED
    BY <2>2, <2>3, <2>4
<1> QED
  BY <1>17 DEF RowsInHand, Listed, Resending

\* A step that leaves the row of k alone, and who has it in hand.
LEMMA KeyAlone ==
  ASSUME NEW k \in Keys, KeyInv(k), \A x, y \in Holders(k)' : x = y,
         saved'[k] = saved[k], sent'[k] = sent[k], unwritten'[k] = unwritten[k],
         \A t \in Senders : Direct(t, k)' => Direct(t, k),
         \A r \in Replayers :
           /\ Listed(r, k)' => Listed(r, k) /\ replay'[r][k] = replay[r][k]
           /\ Resending(r, k)' => \/ /\ Resending(r, k)
                                     /\ replaying'[r].attempts = replaying[r].attempts
                                  \/ /\ Listed(r, k) /\ replay[r][k].attempts < MaxRetries
                                     /\ replay[r][k].state \in {"pending", "failed"}
                                     /\ replaying'[r].attempts = replay[r][k].attempts,
         Calling(k)' = Calling(k)
  PROVE  KeyInv(k)'
BY DEF KeyInv, Out

\* Who has the row of k in hand by now is the only one.
LEMMA Alone ==
  ASSUME DirectInv, ReplayType, NEW k \in Keys, KeyInv(k), NEW x \in Holders(k)
  PROVE  /\ \A t \in Senders : Direct(t, k) => t = x
         /\ \A r \in Replayers : Listed(r, k) \/ Resending(r, k) => r = x
         /\ Calling(k) \subseteq {x}
  BY HoldersAre DEF KeyInv

LEMMA KeyTasks ==
  ASSUME DirectInv, ReplayType, RowsInHand, NEW k \in Keys, KeyInv(k),
         \A x, y \in Holders(k)' : x = y, NEW t \in Senders,
         CreateRow(t) \/ CallProvider(t) \/ RecordDirect(t)
  PROVE  KeyInv(k)'
<1> DEFINE pc == IF CreateRow(t) THEN "sending" ELSE IF CallProvider(t) THEN "sent" ELSE "over"
<1>1. /\ TaskWorks(t) /\ UNCHANGED <<lock, entry, sender, replay, replaying, unwritten>>
      /\ pc \in {"sending", "sent", "over"} /\ task' = [task EXCEPT ![t].pc = pc]
  BY DEF CreateRow, CallProvider, RecordDirect, TaskWorks, replayVars, callVars
<1> HIDE DEF pc
<1>2. /\ task[t].key \in Keys /\ task'[t] = [pc |-> pc, key |-> task[t].key]
      /\ \A q \in Senders \ {t} : task'[q] = task[q]
  BY <1>1, TaskKeeps
<1>3. /\ saved' = saved \/ (\E state, n : Write(task[t].key, state, n))
      /\ sent' = sent \/ sent' = [sent EXCEPT ![task[t].key] = @ + 1]
  BY DEF CreateRow, CallProvider, RecordDirect, callVars, rowVars
<1>4. \A r \in Replayers : /\ Listed(r, k)' = Listed(r, k) /\ Resending(r, k)' = Resending(r, k)
                           /\ replay'[r] = replay[r] /\ replaying'[r] = replaying[r]
  BY <1>1 DEF Listed, Resending
<1>5. CASE task[t].key # k
  <2>1. \A q \in Senders : Direct(q, k)' = Direct(q, k)
    BY <1>2, <1>5 DEF Direct
  <2>2. Calling(k)' = Calling(k)
    BY <1>1, <1>2, <1>5 DEF Calling
  <2>3. saved'[k] = saved[k] /\ sent'[k] = sent[k]
    BY <1>2, <1>3, <1>5 DEF Write, DirectInv, RowType, ReplayType
  <2> QED
    BY <1>1, <1>4, <2>1, <2>2, <2>3, KeyAlone
<1>6. CASE task[t].key = k /\ CreateRow(t)
  <2>1. saved[k].state = "none" /\ saved[k].attempts = 0
    BY <1>6 DEF CreateRow, RowsInHand
  <2>2. \A q \in Senders : ~Direct(q, k)
    <3>1. [state |-> "pending", attempts |-> 0].state # "none"
      OBVIOUS
    <3> QED
      BY <2>1, <3>1 DEF KeyInv
  <2>3. \A r \in Replayers : ~Listed(r, k) /\ ~Resending(r, k)
    BY <2>1 DEF RowsInHand
  <2>4. Calling(k) = {}
    <3>1. Holders(k) = {}
      BY <2>2, <2>3, HoldersAre
    <3> QED
      BY <3>1, HoldersAre
  <2>5. saved'[k] = [state |-> "pending", attempts |-> 0] /\ sent'[k] = sent[k] /\ pc = "sending"
    <3>1. saved'[k] = [state |-> "pending", attempts |-> 0] /\ sent'[k] = sent[k]
      BY <1>6 DEF CreateRow, Write, callVars, DirectInv, RowType
    <3>2. pc = "sending"
      BY <1>6 DEF pc
    <3> QED
      BY <3>1, <3>2
  <2>6. Calling(k)' = {}
    BY <1>1, <1>2, <2>4, <2>5 DEF Calling
  <2> QED
    BY <1>1, <1>4, <2>1, <2>3, <2>4, <2>5, <2>6 DEF KeyInv, Out
<1>7. CASE task[t].key = k /\ CallProvider(t)
  <2>1. t \in Holders(k) /\ t \notin Calling(k) /\ Direct(t, k)
    BY <1>7, HoldersAre DEF CallProvider, Direct
  <2>2. Calling(k) = {} /\ \A r \in Replayers : ~Listed(r, k) /\ ~Resending(r, k)
    BY <2>1, Alone, DeliveriesAssumption
  <2>3. sent'[k] = sent[k] + 1 /\ saved'[k] = saved[k] /\ pc = "sent"
    BY <1>7 DEF CallProvider, ReplayType, rowVars, CreateRow, pc
  <2>4. t \in Calling(k)'
    BY <1>2, <1>7, <2>3 DEF Calling
  <2>5. sent[k] \in Nat /\ unwritten[k] \in Nat /\ saved[k].attempts \in Nat
    BY DEF ReplayType, DirectInv, RowType, SavedRow
  <2>6. Out(k)' = 1 /\ Out(k) = 0
    BY <2>2, <2>4 DEF Out
  <2>7. saved[k] = [state |-> "pending", attempts |-> 0]
    BY <2>1 DEF KeyInv
  <2> QED
    BY <1>1, <1>4, <2>2, <2>3, <2>5, <2>6, <2>7 DEF KeyInv
<1>8. CASE task[t].key = k /\ RecordDirect(t)
  <2>1. t \in Holders(k) /\ Direct(t, k)
    BY <1>8, HoldersAre DEF RecordDirect, Direct
  <2>2. /\ \A r \in Replayers : ~Listed(r, k) /\ ~Resending(r, k)
        /\ \A q \in Senders \ {t} : ~Direct(q, k)
    BY <2>1, Alone, DeliveriesAssumption
  <2>3. PICK state \in {"delivered", "failed"} : saved'[k] = [state |-> state, attempts |-> 1]
    BY <1>8 DEF RecordDirect, Write, DirectInv, RowType
  <2>4. sent'[k] = sent[k] /\ pc = "over"
    BY <1>8 DEF RecordDirect, callVars, CreateRow, CallProvider, pc
  <2>5. \A q \in Senders : ~Direct(q, k)'
    BY <1>2, <2>2, <2>4 DEF Direct
  <2>6. saved[k].attempts = 0
    BY <2>1 DEF KeyInv
  <2>7. sent[k] \in Nat /\ unwritten[k] \in Nat /\ Out(k) \in 0..1 /\ Out(k)' \in 0..1
    BY DEF ReplayType, Out
  <2>8. sent'[k] <= 1 + unwritten'[k] + Out(k)'
    BY <1>1, <2>4, <2>6, <2>7 DEF KeyInv
  <2> QED
    BY <1>4, <2>2, <2>3, <2>5, <2>8, DeliveriesAssumption DEF KeyInv
<1> QED
  BY <1>5, <1>6, <1>7, <1>8

LEMMA KeySenders ==
  ASSUME DirectInv, ReplayType, NEW k \in Keys, KeyInv(k),
         \A x, y \in Holders(k)' : x = y, NEW s \in Senders,
         (\E j \in Keys : JoinDelivery(s, j) \/ LookUp(s, j)) \/ LookedUp(s)
         \/ ReturnFromDelivery(s) \/ Forget(s) \/ Abort(s)
  PROVE  KeyInv(k)'
<1>1. UNCHANGED <<saved, replay, replaying, sent>>
  BY DEF JoinDelivery, LookUp, LookedUp, ReturnFromDelivery, Forget, Abort, rowVars, replayVars,
     callVars
<1>2. \A r \in Replayers : /\ Listed(r, k)' = Listed(r, k) /\ Resending(r, k)' = Resending(r, k)
                           /\ replay'[r] = replay[r] /\ replaying'[r] = replaying[r]
  BY <1>1 DEF Listed, Resending
\* A task comes or goes that had no row in hand.
<1>3. ASSUME UNCHANGED unwritten, NEW t \in Senders, task[t].pc \notin {"sending", "sent"},
             NEW new, new.pc \notin {"sending", "sent"}, task' \in {task, [task EXCEPT ![t] = new]}
      PROVE  KeyInv(k)'
  <2>1. \A q \in Senders : task'[q] = task[q] \/ (q = t /\ task'[q] = new)
    BY <1>3 DEF DirectInv, DirectType
  <2>2. \A q \in Senders : Direct(q, k)' => Direct(q, k)
    BY <1>3, <2>1 DEF Direct
  <2>3. Calling(k)' = Calling(k)
    BY <1>1, <1>3, <2>1 DEF Calling
  <2> QED
    BY <1>1, <1>2, <1>3, <2>2, <2>3, KeyAlone
<1>4. CASE UNCHANGED <<unwritten, task>>
  <2>1. Calling(k)' = Calling(k) /\ \A q \in Senders : Direct(q, k)' => Direct(q, k)
    BY <1>1, <1>4 DEF Calling, Direct
  <2> QED
    BY <1>1, <1>2, <1>4, <2>1, KeyAlone
<1>5. CASE LookedUp(s)
  <2> DEFINE new == [pc |-> "creating", key |-> sender[s].key]
  <2>1. task[s].pc = "idle" /\ UNCHANGED unwritten
    BY <1>5 DEF LookedUp, DirectInv, LookUpsAreLocked, callVars
  <2>2. task' \in {task, [task EXCEPT ![s] = new]} /\ new.pc = "creating"
    BY <1>5 DEF LookedUp
  <2> HIDE DEF new
  <2> QED
    BY <1>3, <2>1, <2>2
<1>6. CASE Forget(s)
  <2>1. task[s].pc = "over" /\ UNCHANGED unwritten /\ task' = [task EXCEPT ![s] = Resting]
        /\ Resting.pc = "idle"
    BY <1>6 DEF Forget, TaskOver, callVars, Resting
  <2> QED
    BY <1>3, <2>1
\* The call of a task that is cancelled stays out.
<1>7. CASE Abort(s) /\ ~UNCHANGED <<task, unwritten>>
  <2> DEFINE t == sender[s].of
  <2>1. /\ t \in Senders /\ task' = [task EXCEPT ![t].pc = "over"] /\ ~TaskOver(t)
        /\ sender[s].pc = "awaits" /\ UNCHANGED <<lock, sender, entry>>
        /\ unwritten' = IF task[t].pc = "sent"
                        THEN [unwritten EXCEPT ![task[t].key] = @ + 1] ELSE unwritten
    BY <1>7 DEF Abort, DirectInv, DirectType, Resting
  <2>2. TaskWorks(t)
    BY <2>1 DEF DirectInv, DirectType, AwaitsAreTasks, TaskOver, TaskWorks, Resting
  <2> HIDE DEF t
  <2>3. task[t].key \in Keys /\ task'[t].pc = "over" /\ \A q \in Senders \ {t} : task'[q] = task[q]
    <3>1. task[t] \in [pc : {"creating", "sending", "sent", "over"}, key : Keys]
      BY <2>1, <2>2 DEF DirectInv, DirectType, TaskWorks, Resting
    <3> QED
      BY <2>1, <3>1 DEF DirectInv, DirectType
  <2>4. \A q \in Senders : Direct(q, k)' => Direct(q, k)
    BY <2>3 DEF Direct
  <2>5. CASE task[t].pc = "sent" /\ task[t].key = k
    <3>1. t \in Calling(k) /\ unwritten'[k] = unwritten[k] + 1
      BY <2>1, <2>5 DEF Calling, ReplayType
    <3>2. Out(k) = 1 /\ Out(k)' \in 0..1 /\ sent[k] \in Nat /\ unwritten[k] \in Nat
          /\ saved[k].attempts \in Nat
      BY <3>1 DEF Out, ReplayType, DirectInv, RowType, SavedRow
    <3> QED
      BY <1>1, <1>2, <2>4, <3>1, <3>2 DEF KeyInv
  <2>6. CASE ~(task[t].pc = "sent" /\ task[t].key = k)
    <3>1. unwritten'[k] = unwritten[k]
      BY <2>1, <2>3, <2>6 DEF ReplayType
    <3>2. Calling(k)' = Calling(k)
      BY <1>1, <2>1, <2>3, <2>6 DEF Calling
    <3> QED
      BY <1>1, <1>2, <2>4, <3>1, <3>2, KeyAlone
  <2> QED
    BY <2>5, <2>6
<1> QED
  BY <1>4, <1>5, <1>6, <1>7 DEF JoinDelivery, LookUp, ReturnFromDelivery, callVars

LEMMA KeyReplays ==
  ASSUME DirectInv, ReplayType, RowsInHand, NEW k \in Keys, KeyInv(k),
         \A x, y \in Holders(k)' : x = y, NEW r \in Replayers,
         List(r) \/ (\E j \in Keys : Defer(r, j) \/ Attempt(r, j))
         \/ GiveUp(r) \/ Resend(r) \/ RecordReplay(r)
  PROVE  KeyInv(k)'
<1>1. UNCHANGED <<task, unwritten>> /\ \A t \in Senders : Direct(t, k)' = Direct(t, k)
  BY DEF List, Defer, Attempt, GiveUp, Resend, RecordReplay, directVars, callVars, Direct
<1>2. CASE List(r)
  <2> DEFINE rows == [j \in {j \in Keys : saved[j].state \in {"pending", "failed"}} |-> saved[j]]
  <2>1. UNCHANGED <<saved, replaying, sent>> /\ replay' = [replay EXCEPT ![r] = rows]
    BY <1>2 DEF List, rowVars, callVars
  <2>2. k \in DOMAIN rows => rows[k] = saved[k]
    OBVIOUS
  <2> HIDE DEF rows
  <2>3. Out(k)' = Out(k)
    BY <1>1, <2>1 DEF Out, Calling
  <2> QED
    BY <1>1, <2>1, <2>2, <2>3 DEF KeyInv, Listed, Resending, ReplayType
<1>3. ASSUME NEW j \in Keys, Defer(r, j) \/ Attempt(r, j) PROVE KeyInv(k)'
  <2> DEFINE rows == [i \in DOMAIN replay[r] \ {j} |-> replay[r][i]]
  <2>1. /\ UNCHANGED <<saved, sent>> /\ replaying[r].pc = "idle" /\ Listed(r, j)
        /\ replay' = [replay EXCEPT ![r] = rows]
        /\ \/ UNCHANGED replaying
           \/ /\ replaying' = [replaying EXCEPT ![r] =
                   [pc |-> "sending", key |-> j, attempts |-> replay[r][j].attempts]]
              /\ replay[r][j].attempts < MaxRetries
    BY <1>3 DEF Defer, Attempt, Strike, Listed, rowVars, callVars
  <2>2. DOMAIN rows = DOMAIN replay[r] \ {j} /\ \A i \in DOMAIN rows : rows[i] = replay[r][i]
    OBVIOUS
  <2> HIDE DEF rows
  <2>3. \A q \in Replayers : Listed(q, k)' => Listed(q, k) /\ replay'[q][k] = replay[q][k]
    BY <2>1, <2>2 DEF Listed, ReplayType
  <2>4. Calling(k)' = Calling(k)
    BY <1>1, <2>1 DEF Calling, ReplayType
  <2>5. \A q \in Replayers : Resending(q, k)' =>
          \/ Resending(q, k) /\ replaying'[q].attempts = replaying[q].attempts
          \/ /\ Listed(q, k) /\ replay[q][k].attempts < MaxRetries
             /\ replay[q][k].state \in {"pending", "failed"}
             /\ replaying'[q].attempts = replay[q][k].attempts
    BY <2>1 DEF Resending, ReplayType, RowsInHand
  <2> QED
    BY <1>1, <2>1, <2>3, <2>4, <2>5, KeyAlone
<1>4. ASSUME Resend(r) PROVE KeyInv(k)'
  <2>1. /\ UNCHANGED <<saved, replay>> /\ replaying[r].pc = "sending"
        /\ sent' = [sent EXCEPT ![replaying[r].key] = @ + 1]
        /\ replaying' = [replaying EXCEPT ![r].pc = "sent"]
    BY <1>4 DEF Resend, rowVars
  <2>2. replaying[r] \in [pc : {"sending", "sent"}, key : Keys, attempts : Nat]
    BY <2>1 DEF ReplayType, Resting
  <2>3. /\ replaying'[r] = [pc |-> "sent", key |-> replaying[r].key,
                            attempts |-> replaying[r].attempts]
        /\ \A q \in Replayers \ {r} : replaying'[q] = replaying[q]
    BY <2>1, <2>2 DEF ReplayType
  <2>4. \A q \in Replayers : /\ Listed(q, k)' = Listed(q, k) /\ replay'[q] = replay[q]
                             /\ Resending(q, k)' = Resending(q, k)
                             /\ Resending(q, k) => replaying'[q].attempts = replaying[q].attempts
    BY <2>1, <2>3 DEF Listed, Resending
  <2>5. CASE replaying[r].key # k
    <3>1. Calling(k)' = Calling(k) /\ sent'[k] = sent[k]
      BY <1>1, <2>1, <2>2, <2>3, <2>5 DEF Calling, ReplayType
    <3> QED
      BY <1>1, <2>1, <2>4, <3>1, KeyAlone
  <2>6. CASE replaying[r].key = k
    <3>1. r \in Holders(k) /\ r \notin Calling(k)
      BY <2>1, <2>6, HoldersAre DEF Resending
    <3>2. Calling(k) = {}
      BY <3>1, Alone
    <3>3. r \in Calling(k)'
      BY <2>3, <2>6 DEF Calling
    <3>4. Out(k) = 0 /\ Out(k)' = 1 /\ sent'[k] = sent[k] + 1 /\ sent[k] \in Nat
          /\ unwritten[k] \in Nat /\ saved[k].attempts \in Nat
      BY <2>1, <2>6, <3>2, <3>3 DEF Out, ReplayType, DirectInv, RowType, SavedRow
    <3> QED
      BY <1>1, <2>1, <2>4, <3>4 DEF KeyInv
  <2> QED
    BY <2>5, <2>6
<1>5. ASSUME GiveUp(r) \/ RecordReplay(r) PROVE KeyInv(k)'
  <2> DEFINE key == replaying[r].key
  <2>1. /\ replaying[r].pc # "idle" /\ replaying' = [replaying EXCEPT ![r] = Resting]
        /\ UNCHANGED <<replay, sent>>
    BY <1>5 DEF GiveUp, RecordReplay, callVars
  <2>2. key \in Keys /\ replaying[r].attempts \in Nat /\ Resending(r, key)
    BY <2>1, SendingKeys DEF Resending
  <2>3. PICK state \in {"delivered", "failed"}, n \in Nat :
          /\ Write(key, state, n)
          /\ n = MaxRetries \/ (replaying[r].pc = "sent" /\ n = replaying[r].attempts + 1)
          /\ replaying[r].pc = "sending" => n = MaxRetries
    BY <1>5, <2>2, DeliveriesAssumption DEF GiveUp, RecordReplay
  <2>4. \A q \in Replayers : /\ Listed(q, k)' = Listed(q, k) /\ replay'[q] = replay[q]
                             /\ Resending(q, k)' => q # r /\ Resending(q, k)
                                                    /\ replaying'[q] = replaying[q]
    BY <2>1 DEF Listed, Resending, Resting, ReplayType
  <2>5. CASE key # k
    <3>1. Calling(k)' = Calling(k) /\ saved'[k] = saved[k]
      BY <1>1, <2>1, <2>3, <2>5 DEF Calling, Write, ReplayType, Resting, DirectInv, RowType
    <3> QED
      BY <1>1, <2>1, <2>4, <3>1, KeyAlone
  <2>6. CASE key = k
    <3>1. r \in Holders(k)
      BY <2>2, <2>6, HoldersAre
    <3>2. /\ \A t \in Senders : ~Direct(t, k)
          /\ \A q \in Replayers \ {r} : ~Listed(q, k) /\ ~Resending(q, k)
      BY <3>1, Alone, DeliveriesAssumption
    <3>3. ~Listed(r, k)
      BY <2>2, <2>6 DEF RowsInHand
    <3>4. saved'[k] = [state |-> state, attempts |-> n]
      BY <2>3, <2>6 DEF Write, DirectInv, RowType
    <3>5. saved[k].attempts < n /\ n <= MaxRetries /\ replaying[r].attempts = saved[k].attempts
      BY <2>2, <2>3, <2>6, DeliveriesAssumption DEF KeyInv
    <3>6. sent[k] \in Nat /\ unwritten[k] \in Nat /\ Out(k) \in 0..1 /\ Out(k)' \in 0..1
          /\ saved[k].attempts \in Nat
      BY DEF Out, ReplayType, DirectInv, RowType, SavedRow
    <3>7. sent'[k] <= n + unwritten'[k] + Out(k)'
      BY <1>1, <2>1, <3>5, <3>6 DEF KeyInv
    <3> QED
      BY <1>1, <2>4, <3>2, <3>3, <3>4, <3>5, <3>7 DEF KeyInv
  <2> QED
    BY <2>5, <2>6
<1> QED
  BY <1>2, <1>3, <1>4, <1>5

LEMMA KeyCrash ==
  ASSUME DirectInv, ReplayType, NEW k \in Keys, KeyInv(k), \A x, y \in Holders(k)' : x = y, Crash
  PROVE  KeyInv(k)'
<1>1. \A x, y \in Calling(k) : x = y
  BY HoldersAre DEF KeyInv
<1>2. Cardinality(Calling(k)) = Out(k)
  BY <1>1, OutCounts DEF Out
<1>3. unwritten'[k] = unwritten[k] + Out(k)
  BY <1>2 DEF Crash, Calling
<1>4. /\ \A t \in Senders : ~Direct(t, k)'
      /\ \A r \in Replayers : ~Listed(r, k)' /\ ~Resending(r, k)'
  BY DEF Crash, Direct, Listed, Resending, Resting
<1>5. Calling(k)' = {}
  BY DEF Crash, Calling, Resting
<1>6. UNCHANGED <<saved, sent>> /\ Out(k)' = 0 /\ Out(k) \in 0..1
  BY <1>5 DEF Crash, rowVars, Out
<1>7. sent[k] \in Nat /\ unwritten[k] \in Nat /\ saved[k].attempts \in Nat
  BY DEF ReplayType, DirectInv, RowType, SavedRow
<1>8. sent'[k] <= saved'[k].attempts + unwritten'[k] + Out(k)'
  BY <1>3, <1>6, <1>7 DEF KeyInv
<1> QED
  BY <1>4, <1>6, <1>8 DEF KeyInv

LEMMA CountStep == CountInv /\ [DeliveryNext]_deliveryVars => CountInv'
<1> SUFFICES ASSUME CountInv, [DeliveryNext]_deliveryVars PROVE CountInv'
  OBVIOUS
<1>1. DirectInv /\ ReplayType /\ RowsInHand
  BY DEF CountInv
<1>2. DirectInv' /\ ReplayType' /\ RowsInHand'
  BY <1>1, DirectStep, ReplayTypeStep, RowsInHandStep
<1>3. ASSUME NEW k \in Keys, k \notin overlapped' PROVE KeyInv(k)'
  <2>1. CASE DeliveryNext
    <3>1. k \notin overlapped /\ \A x, y \in Holders(k)' : x = y
      BY <1>1, <1>3, <2>1, OneHolds DEF ReplayType
    <3>2. KeyInv(k)
      BY <3>1 DEF CountInv
    <3> QED
      BY <1>1, <2>1, <3>1, <3>2, KeyTasks, KeySenders, KeyReplays, KeyCrash
      DEF DeliveryNext, DeliveryStep
  <2>2. CASE UNCHANGED deliveryVars
    <3>1. UNCHANGED <<saved, task, replay, replaying, sent, unwritten, overlapped>>
      BY <2>2 DEF deliveryVars, rowVars, directVars, replayVars, callVars
    <3>2. KeyInv(k)
      BY <1>3, <3>1 DEF CountInv
    <3> QED
      BY <3>1, <3>2 DEF KeyInv, Holders, Direct, Listed, Resending, Out, Calling
  <2> QED
    BY <2>1, <2>2
<1> QED
  BY <1>2, <1>3 DEF CountInv

\* The calls that are out are those of tasks with the row in hand.
LEMMA CountsAre ==
  ASSUME CountInv
  PROVE  SendsAreCounted
<1> SUFFICES ASSUME NEW k \in Keys, k \notin overlapped
             PROVE  /\ sent[k] <= saved[k].attempts + unwritten[k] + Cardinality(Calling(k))
                    /\ saved[k].attempts <= MaxRetries
  BY DEF SendsAreCounted
<1>1. KeyInv(k)
  BY DEF CountInv
<1>2. \A x, y \in Calling(k) : x = y
  BY <1>1, HoldersAre DEF CountInv, KeyInv
<1>3. Cardinality(Calling(k)) = Out(k)
  BY <1>2, OutCounts DEF Out
<1> QED
  BY <1>1, <1>3 DEF KeyInv

\* Whatever is cancelled, replayed or lost in a crash: the provider was called
\* for a row that no two tasks had in hand at once as often as the row and
\* the calls nobody lived to write down say, and no row has more than
\* MaxRetries attempts.
THEOREM AttemptsAreCounted == DeliverySpec => []SendsAreCounted
BY CountStarts, CountStep, CountsAre, PTL DEF DeliverySpec

\* Nobody has a delivered row in hand.
LEMMA NobodyHas ==
  ASSUME CountInv, NEW k \in Keys, KeyInv(k), saved[k].state = "delivered"
  PROVE  /\ \A t \in Senders : ~Direct(t, k) /\ (task[t].pc = "creating" => task[t].key # k)
         /\ \A r \in Replayers : ~Resending(r, k)
<1>1. \A t \in Senders : ~Direct(t, k)
  BY DEF KeyInv
<1>2. \A t \in Senders : task[t].pc = "creating" => task[t].key # k
  BY DEF CountInv, RowsInHand
<1>3. \A r \in Replayers : ~Resending(r, k)
  BY DEF KeyInv
<1> QED
  BY <1>1, <1>2, <1>3

LEMMA StaysDelivered ==
  ASSUME CountInv, [DeliveryNext]_deliveryVars, NEW k \in Keys, k \notin overlapped',
         saved[k].state = "delivered"
  PROVE  saved'[k] = saved[k] /\ sent'[k] = sent[k]
<1>1. CASE UNCHANGED deliveryVars
  BY <1>1 DEF deliveryVars, rowVars, callVars
<1>2. CASE DeliveryNext
  <2>1. k \notin overlapped
    BY <1>2, OneHolds DEF CountInv, ReplayType
  <2>2. KeyInv(k)
    BY <2>1 DEF CountInv
  <2>3. /\ \A t \in Senders : task[t].pc \in {"creating", "sending", "sent"} => task[t].key # k
        /\ \A r \in Replayers : replaying[r].pc # "idle" => replaying[r].key # k
    BY <2>2, NobodyHas DEF Direct, Resending
  <2>4. saved \in [Keys -> SavedRow] /\ sent \in [Keys -> Nat]
    BY DEF CountInv, DirectInv, RowType, ReplayType
  <2>5. ASSUME NEW t \in Senders, CreateRow(t) \/ CallProvider(t) \/ RecordDirect(t)
        PROVE  saved'[k] = saved[k] /\ sent'[k] = sent[k]
    BY <2>3, <2>4, <2>5 DEF CreateRow, CallProvider, RecordDirect, Write, callVars, rowVars
  <2>6. ASSUME NEW r \in Replayers, GiveUp(r) \/ Resend(r) \/ RecordReplay(r)
        PROVE  saved'[k] = saved[k] /\ sent'[k] = sent[k]
    BY <2>3, <2>4, <2>6 DEF GiveUp, Resend, RecordReplay, Write, callVars, rowVars
  <2>7. ASSUME NEW s \in Senders,
               (\E j \in Keys : JoinDelivery(s, j) \/ LookUp(s, j)) \/ LookedUp(s)
               \/ ReturnFromDelivery(s) \/ Forget(s) \/ Abort(s)
        PROVE  saved'[k] = saved[k] /\ sent'[k] = sent[k]
    BY <2>7 DEF JoinDelivery, LookUp, LookedUp, ReturnFromDelivery, Forget, Abort, rowVars, callVars
  <2>8. ASSUME NEW r \in Replayers, List(r) \/ \E j \in Keys : Defer(r, j) \/ Attempt(r, j)
        PROVE  saved'[k] = saved[k] /\ sent'[k] = sent[k]
    BY <2>8 DEF List, Defer, Attempt, rowVars, callVars
  <2>9. ASSUME Crash PROVE saved'[k] = saved[k] /\ sent'[k] = sent[k]
    BY <2>9 DEF Crash, rowVars
  <2> QED
    BY <1>2, <2>5, <2>6, <2>7, <2>8, <2>9 DEF DeliveryNext, DeliveryStep
<1> QED
  BY <1>1, <1>2

\* What was delivered is not sent again and not called failed, unless two
\* tasks have the row in hand at once.
THEOREM DeliveredIsOver == DeliverySpec => DeliveredStays
<1>1. CountInv /\ [DeliveryNext]_deliveryVars =>
        [\A k \in Keys : k \notin overlapped' /\ saved[k].state = "delivered"
           => saved'[k] = saved[k] /\ sent'[k] = sent[k]]_deliveryVars
  BY StaysDelivered
<1> QED
  BY <1>1, CountStarts, CountStep, PTL DEF DeliverySpec, DeliveredStays

---------------------------------------------------------------------------
(* Types *)

BoundsType ==
  /\ lock \in Senders \cup {"nobody"}
  /\ spent \in [{"crashes", "aborts", "replays"} -> Nat]

LEMMA BoundsStep == BoundsType /\ [DeliveryNext]_deliveryVars => BoundsType'
<1> SUFFICES ASSUME BoundsType, [DeliveryNext]_deliveryVars PROVE BoundsType'
  OBVIOUS
<1> USE DEF BoundsType
<1>1. ASSUME NEW what \in {"crashes", "aborts", "replays"}, NEW limit, Spend(what, limit)
      PROVE  spent' \in [{"crashes", "aborts", "replays"} -> Nat]
  BY <1>1 DEF Spend
<1>2. ASSUME NEW s \in Senders, Abort(s) PROVE BoundsType'
  <2>1. Spend("aborts", MaxAborts) /\ lock' \in {lock, "nobody"}
    BY <1>2 DEF Abort
  <2> QED
    BY <1>1, <2>1
<1>3. ASSUME NEW r \in Replayers, List(r) PROVE BoundsType'
  BY <1>1, <1>3 DEF List, directVars
<1>4. ASSUME Crash PROVE BoundsType'
  <2>1. Spend("crashes", MaxCrashes) /\ lock' = "nobody"
    BY <1>4 DEF Crash
  <2> QED
    BY <1>1, <2>1
<1>5. ASSUME NEW s \in Senders,
             \/ \E k \in Keys : JoinDelivery(s, k) \/ LookUp(s, k)
             \/ LookedUp(s) \/ ReturnFromDelivery(s) \/ Forget(s)
             \/ CreateRow(s) \/ CallProvider(s) \/ RecordDirect(s)
      PROVE  BoundsType'
  BY <1>5 DEF JoinDelivery, LookUp, LookedUp, ReturnFromDelivery, Forget, CreateRow,
     CallProvider, RecordDirect
<1>6. ASSUME NEW r \in Replayers,
             (\E k \in Keys : Defer(r, k) \/ Attempt(r, k)) \/ GiveUp(r) \/ Resend(r)
             \/ RecordReplay(r)
      PROVE  BoundsType'
  BY <1>6 DEF Defer, Attempt, GiveUp, Resend, RecordReplay, directVars
<1>7. CASE UNCHANGED deliveryVars
  BY <1>7 DEF deliveryVars, directVars
<1> HIDE DEF BoundsType
<1> QED
  BY <1>2, <1>3, <1>4, <1>5, <1>6, <1>7 DEF DeliveryNext, DeliveryStep

\* Rows, the lock, the table of deliveries in flight, tasks and replays keep
\* their types.
THEOREM DeliveryTypeCorrect == DeliverySpec => []DeliveryTypeOK
<1>1. CountInv /\ BoundsType => DeliveryTypeOK
  BY DEF CountInv, BoundsType, DeliveryTypeOK, DirectInv, RowType, DirectType, ReplayType
<1>2. DeliveryInit => BoundsType
  BY DEF DeliveryInit, BoundsType
<1> QED
  BY <1>1, <1>2, CountStarts, CountStep, BoundsStep, PTL DEF DeliverySpec

=============================================================================
