----------------------------- MODULE Deliveries -----------------------------
(***************************************************************************)
(* Outbound messages of OpsMeshService (services/ops_mesh.py): the direct  *)
(* delivery of a message under an idempotency key, and the replay of saved *)
(* deliveries that an operator asks for.  A delivery is a row, inserted    *)
(* before the provider is called and updated when it has answered.  The    *)
(* process may die at any moment; only the rows stay.                      *)
(*                                                                         *)
(* Backoff is the clock: a row that may be attempted is ready or deferred. *)
(***************************************************************************)
EXTENDS Naturals, FiniteSets

CONSTANTS
  Keys,       \* (event type, idempotency key) pairs
  Senders,    \* callers of a direct delivery
  Replayers,  \* tasks in replay_outbound_deliveries
  MaxRetries, \* OUTBOUND_DELIVERY_MAX_RETRIES
  MaxCrashes, \* bound: times the process dies
  MaxAborts,  \* bound: callers cancelled
  MaxReplays  \* bound: replays asked for

ASSUME DeliveriesAssumption ==
  /\ MaxRetries \in Nat \ {0}
  /\ {MaxCrashes, MaxAborts, MaxReplays} \subseteq Nat
  /\ Replayers \cap Senders = {} /\ "nobody" \notin Senders
  /\ IsFiniteSet(Senders) /\ IsFiniteSet(Replayers)

VARIABLES
  saved,       \* the row of each key in outbound_deliveries
  lock,        \* who holds _direct_delivery_inflight_lock
  entry,       \* _direct_delivery_inflight: whose task each key has
  task,        \* the delivery task each sender created
  sender,      \* where each sender is: its key and the task it awaits
  replay,      \* the rows each replay listed and has not come to
  replaying,   \* the attempt each replay is in
  sent,        \* history: times the provider was called
  direct,      \* history: those of them by a delivery task
  overlapped,  \* history: rows two tasks had in hand at once
  unwritten,   \* history: calls whose outcome no update tells
  spent        \* bounds: crashes, aborts and replays so far

rowVars == saved
directVars == <<lock, entry, task, sender>>
replayVars == <<replay, replaying>>
callVars == <<sent, direct, unwritten>>
deliveryVars == <<saved, directVars, replayVars, callVars, overlapped, spent>>

SavedRow == [state : {"none", "pending", "failed", "delivered"}, attempts : Nat]
NoRow == [state |-> "none", attempts |-> 0]
Resting == [pc |-> "idle"]

DeliveryInit ==
  /\ saved = [k \in Keys |-> NoRow]
  /\ lock = "nobody" /\ entry = [k \in Keys |-> "nobody"]
  /\ task = [s \in Senders |-> Resting] /\ sender = [s \in Senders |-> Resting]
  /\ replay = [r \in Replayers |-> [k \in {} |-> NoRow]]
  /\ replaying = [r \in Replayers |-> Resting]
  /\ sent = [k \in Keys |-> 0] /\ direct = [k \in Keys |-> 0]
  /\ unwritten = [k \in Keys |-> 0]
  /\ overlapped = {}
  /\ spent = [crashes |-> 0, aborts |-> 0, replays |-> 0]

Write(k, state, attempts) ==
  saved' = [saved EXCEPT ![k] = [state |-> state, attempts |-> attempts]]
Spend(what, limit) ==
  spent[what] < limit /\ spent' = [spent EXCEPT ![what] = @ + 1]

---------------------------------------------------------------------------
(* _run_idempotent_direct_channel_delivery.                                *)

Await(s, k, t) == sender' = [sender EXCEPT ![s] = [pc |-> "awaits", key |-> k, of |-> t]]

JoinDelivery(s, k) ==
  /\ sender[s].pc = "idle" /\ lock = "nobody" /\ entry[k] # "nobody"
  /\ Await(s, k, entry[k])
  /\ UNCHANGED <<rowVars, lock, entry, task, replayVars, callVars, spent>>

\* Mutant: the lock is not held over the read of the table.
LookUpUnlocked(s, k) ==
  /\ sender[s].pc = "idle" /\ entry[k] = "nobody" /\ task[s].pc = "idle"
  /\ sender' = [sender EXCEPT ![s] = [pc |-> "lookup", key |-> k]]
  /\ UNCHANGED <<rowVars, lock, entry, task, replayVars, callVars, spent>>

LookUp(s, k) ==
  /\ sender[s].pc = "idle" /\ lock = "nobody" /\ entry[k] = "nobody"
  /\ task[s].pc = "idle"
  /\ lock' = s
  /\ sender' = [sender EXCEPT ![s] = [pc |-> "lookup", key |-> k]]
  /\ UNCHANGED <<rowVars, entry, task, replayVars, callVars, spent>>

\* A row of any state is the answer; without one a task delivers the message.
LookedUp(s) ==
  LET k == sender[s].key
  IN  /\ sender[s].pc = "lookup" /\ lock' = "nobody"
      /\ IF saved[k].state # "none"
         THEN /\ sender' = [sender EXCEPT ![s] = Resting]
              /\ UNCHANGED <<entry, task>>
         ELSE /\ entry' = [entry EXCEPT ![k] = s]
              /\ task' = [task EXCEPT ![s] = [pc |-> "creating", key |-> k]]
              /\ Await(s, k, s)
      /\ UNCHANGED <<rowVars, replayVars, callVars, spent>>

TaskOver(t) == task[t].pc = "over"

\* A sender is resumed when the task is over; its creator takes the lock to
\* remove the entry.
ReturnFromDelivery(s) ==
  /\ sender[s].pc = "awaits" /\ TaskOver(sender[s].of)
  /\ sender[s].of = s => lock = "nobody"
  /\ sender' = [sender EXCEPT ![s] = Resting]
  /\ entry' = IF sender[s].of = s /\ entry[sender[s].key] = s
              THEN [entry EXCEPT ![sender[s].key] = "nobody"] ELSE entry
  /\ UNCHANGED <<rowVars, lock, task, replayVars, callVars, spent>>

\* Nobody refers to the task any more.
Forget(t) ==
  /\ TaskOver(t) /\ \A s \in Senders : sender[s].pc = "awaits" => sender[s].of # t
  /\ task' = [task EXCEPT ![t] = Resting]
  /\ UNCHANGED <<rowVars, lock, entry, sender, replayVars, callVars, spent>>

---------------------------------------------------------------------------
(* _deliver_direct_channel_message_once, in the task of t.                 *)

CreateRow(t) ==
  /\ task[t].pc = "creating"
  /\ Write(task[t].key, "pending", 0)
  /\ task' = [task EXCEPT ![t].pc = "sending"]
  /\ UNCHANGED <<lock, entry, sender, replayVars, callVars, spent>>

CallProvider(t) ==
  /\ task[t].pc = "sending"
  /\ task' = [task EXCEPT ![t].pc = "sent"]
  /\ sent' = [sent EXCEPT ![task[t].key] = @ + 1]
  /\ direct' = [direct EXCEPT ![task[t].key] = @ + 1]
  /\ UNCHANGED <<rowVars, lock, entry, sender, replayVars, unwritten, spent>>

RecordDirect(t) ==
  /\ task[t].pc = "sent"
  /\ \E state \in {"delivered", "failed"} : Write(task[t].key, state, 1)
  /\ task' = [task EXCEPT ![t].pc = "over"]
  /\ UNCHANGED <<lock, entry, sender, replayVars, callVars, spent>>

\* A sender is cancelled, and with it the task it awaits: a call of the
\* provider that is out stays out.
Abort(s) ==
  /\ Spend("aborts", MaxAborts)
  /\ \/ /\ sender[s].pc = "lookup" /\ lock' = "nobody"
        /\ sender' = [sender EXCEPT ![s] = Resting] /\ UNCHANGED <<task, unwritten>>
     \/ /\ sender[s].pc = "awaits" /\ ~TaskOver(sender[s].of)
        /\ LET t == sender[s].of IN
             /\ task' = [task EXCEPT ![t].pc = "over"]
             /\ unwritten' = IF task[t].pc = "sent"
                             THEN [unwritten EXCEPT ![task[t].key] = @ + 1] ELSE unwritten
        /\ UNCHANGED <<lock, sender>>
  /\ UNCHANGED <<rowVars, entry, replayVars, sent, direct>>

---------------------------------------------------------------------------
(* replay_outbound_deliveries: one row after the other, as it was listed.  *)

\* Mutant: a row is listed whatever its state.
ListAll(r) ==
  /\ replaying[r].pc = "idle" /\ replay[r] = [k \in {} |-> NoRow]
  /\ Spend("replays", MaxReplays)
  /\ replay' = [replay EXCEPT ![r] =
                  [k \in {k \in Keys : saved[k] # NoRow} |-> saved[k]]]
  /\ UNCHANGED <<rowVars, directVars, replaying, callVars>>

List(r) ==
  /\ replaying[r].pc = "idle" /\ replay[r] = [k \in {} |-> NoRow]
  /\ Spend("replays", MaxReplays)
  /\ replay' = [replay EXCEPT ![r] =
                  [k \in {k \in Keys : saved[k].state \in {"pending", "failed"}} |-> saved[k]]]
  /\ UNCHANGED <<rowVars, directVars, replaying, callVars>>

Strike(r, k) == replay' = [replay EXCEPT ![r] = [j \in DOMAIN @ \ {k} |-> @[j]]]

\* Not ready, or out of retries.
Defer(r, k) ==
  /\ replaying[r].pc = "idle" /\ k \in DOMAIN replay[r]
  /\ Strike(r, k)
  /\ UNCHANGED <<rowVars, directVars, replaying, callVars, spent>>

Attempt(r, k) ==
  /\ replaying[r].pc = "idle" /\ k \in DOMAIN replay[r]
  /\ replay[r][k].attempts < MaxRetries
  /\ Strike(r, k)
  /\ replaying' = [replaying EXCEPT ![r] =
                     [pc |-> "sending", key |-> k, attempts |-> replay[r][k].attempts]]
  /\ UNCHANGED <<rowVars, directVars, callVars, spent>>

\* Its route is gone or disabled, or it has no runtime: it is given up.
GiveUp(r) ==
  /\ replaying[r].pc = "sending"
  /\ Write(replaying[r].key, "failed", MaxRetries)
  /\ replaying' = [replaying EXCEPT ![r] = Resting]
  /\ UNCHANGED <<directVars, replay, callVars, spent>>

Resend(r) ==
  /\ replaying[r].pc = "sending"
  /\ replaying' = [replaying EXCEPT ![r].pc = "sent"]
  /\ sent' = [sent EXCEPT ![replaying[r].key] = @ + 1]
  /\ UNCHANGED <<rowVars, directVars, replay, direct, unwritten, spent>>

\* Mutant: a failure does not count as an attempt.
RecordUncounted(r) ==
  LET a == replaying[r]
  IN  /\ a.pc = "sent"
      /\ \/ Write(a.key, "delivered", a.attempts + 1)
         \/ Write(a.key, "failed", a.attempts)
      /\ replaying' = [replaying EXCEPT ![r] = Resting]
      /\ UNCHANGED <<directVars, replay, callVars, spent>>

\* Delivered, failed, or failed in a way that is not tried again.
RecordReplay(r) ==
  LET a == replaying[r]
  IN  /\ a.pc = "sent"
      /\ \/ Write(a.key, "delivered", a.attempts + 1)
         \/ Write(a.key, "failed", a.attempts + 1)
         \/ Write(a.key, "failed", MaxRetries)
      /\ replaying' = [replaying EXCEPT ![r] = Resting]
      /\ UNCHANGED <<directVars, replay, callVars, spent>>

---------------------------------------------------------------------------

\* The process dies.
Crash ==
  LET lost(k) == {s \in Senders : task[s].pc = "sent" /\ task[s].key = k}
                 \cup {r \in Replayers : replaying[r].pc = "sent" /\ replaying[r].key = k}
  IN  /\ Spend("crashes", MaxCrashes)
      /\ lock' = "nobody" /\ entry' = [k \in Keys |-> "nobody"]
      /\ task' = [s \in Senders |-> Resting] /\ sender' = [s \in Senders |-> Resting]
      /\ replay' = [r \in Replayers |-> [k \in {} |-> NoRow]]
      /\ replaying' = [r \in Replayers |-> Resting]
      /\ unwritten' = [k \in Keys |-> unwritten[k] + Cardinality(lost(k))]
      /\ UNCHANGED <<rowVars, sent, direct>>

\* The tasks that have the row of k in hand.
Holders(k) ==
  {s \in Senders : task[s].pc \in {"sending", "sent"} /\ task[s].key = k}
  \cup {r \in Replayers : \/ k \in DOMAIN replay[r]
                          \/ replaying[r].pc # "idle" /\ replaying[r].key = k}

DeliveryStep ==
  \/ \E s \in Senders :
       \/ \E k \in Keys : JoinDelivery(s, k) \/ LookUp(s, k)
       \/ LookedUp(s) \/ ReturnFromDelivery(s) \/ Forget(s) \/ Abort(s)
       \/ CreateRow(s) \/ CallProvider(s) \/ RecordDirect(s)
  \/ \E r \in Replayers :
       \/ List(r) \/ \E k \in Keys : Defer(r, k) \/ Attempt(r, k)
       \/ GiveUp(r) \/ Resend(r) \/ RecordReplay(r)
  \/ Crash

DeliveryNext ==
  /\ DeliveryStep
  /\ overlapped' = overlapped \cup {k \in Keys : Cardinality(Holders(k)') > 1}

DeliverySpec == DeliveryInit /\ [][DeliveryNext]_deliveryVars

---------------------------------------------------------------------------

DeliveryTypeOK ==
  /\ saved \in [Keys -> SavedRow]
  /\ lock \in Senders \cup {"nobody"} /\ entry \in [Keys -> Senders \cup {"nobody"}]
  /\ task \in [Senders -> {Resting} \cup [pc : {"creating", "sending", "sent", "over"},
                                          key : Keys]]
  /\ sender \in [Senders -> {Resting} \cup [pc : {"lookup"}, key : Keys]
                            \cup [pc : {"awaits"}, key : Keys, of : Senders]]
  /\ \A r \in Replayers :
       DOMAIN replay[r] \subseteq Keys /\ \A k \in DOMAIN replay[r] : replay[r][k] \in SavedRow
  /\ replaying \in [Replayers -> {Resting} \cup [pc : {"sending", "sent"}, key : Keys,
                                                 attempts : Nat]]
  /\ {sent, direct, unwritten} \subseteq [Keys -> Nat]
  /\ overlapped \subseteq Keys
  /\ spent \in [{"crashes", "aborts", "replays"} -> Nat]

Calling(k) ==
  {s \in Senders : task[s].pc = "sent" /\ task[s].key = k}
  \cup {r \in Replayers : replaying[r].pc = "sent" /\ replaying[r].key = k}

\* However often a sender comes back with a key, whoever is cancelled and
\* whenever the process dies, the message goes out by a direct delivery once:
\* from then on a retry is told of the row.
DirectOnce == \A k \in Keys : direct[k] <= 1

\* Every call of the provider is an attempt of the row, but for those the
\* process or a cancelled sender did not live to write down; so a message is
\* sent MaxRetries times at most and once for each of those.  Only two tasks
\* with the row in hand at once can break it: each writes the count it read.
SendsAreCounted ==
  \A k \in Keys \ overlapped :
    /\ sent[k] <= saved[k].attempts + unwritten[k] + Cardinality(Calling(k))
    /\ saved[k].attempts <= MaxRetries

\* A delivered message is never sent again or called failed by anyone who did
\* not have it in hand before.
DeliveredStays ==
  [][\A k \in Keys : k \notin overlapped' /\ saved[k].state = "delivered"
       => saved'[k] = saved[k] /\ sent'[k] = sent[k]]_deliveryVars

=============================================================================
