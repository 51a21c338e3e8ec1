--------------------------- MODULE MissionRunner ---------------------------
(***************************************************************************)
(* MissionService (services/missions.py) on one connected instance: rows   *)
(* in the missions table, the poll loop and the spawned run_now tasks that *)
(* reconcile a mission under its lock, the operator's commands, which take *)
(* no lock, and the event listener, which is called by the one reader task *)
(* of the instance.                                                        *)
(*                                                                         *)
(* Each database call is an await on a connection of its own, so a task    *)
(* works on the row as it read it and UPDATEs the columns it names.  A row *)
(* here has the columns that control the flow; `queued` says that phase is *)
(* "queued", the one phase a decision reads.  current_command is empty, no *)
(* mission is a swarm, and the thread of a mission is its own.             *)
(***************************************************************************)
EXTENDS Naturals, Sequences, FiniteSets

CONSTANTS
  Missions,
  Threaded,        \* missions created with a thread id
  Started,         \* missions whose row is active at the start
  Fresh,           \* those of them create() has just started, with a run_now task
  Hot,             \* missions long without a checkpoint, that may yield the lane
  MaxTurns,        \* max_turns of every mission
  AutoRecover,     \* auto_recover of every mission
  RecoverLimit,    \* auto_recover_limit of every mission
  PauseOnApproval, \* pause_on_approval of every mission
  Commands,        \* what the operator may do
  Faults,          \* what may go wrong
  MaxAccepted,     \* bound: turns the server accepts for a mission
  MaxApprovals,    \* bound: approvals the server asks for
  MaxReplies,      \* bound: final answers the server gives
  MaxItems,        \* bound: items the server reports
  MaxCommands,     \* bound: commands the operator gives
  MaxRestarts,     \* bound: restarts of the process
  MaxFaults        \* bound: things that go wrong

ASSUME MissionRunnerAssumption ==
  /\ Threaded \subseteq Missions /\ Hot \subseteq Missions
  /\ Started \subseteq Missions /\ Fresh \subseteq Started
  /\ MaxTurns \in Nat \ {0}
  /\ AutoRecover \in BOOLEAN /\ PauseOnApproval \in BOOLEAN
  /\ Commands \subseteq {"pause", "resume", "complete", "runNow"}
  /\ Faults \subseteq {"launch", "refuse", "timeout", "turn"}
  /\ {RecoverLimit, MaxAccepted, MaxApprovals, MaxReplies, MaxItems, MaxCommands,
      MaxRestarts, MaxFaults} \subseteq Nat

VARIABLES
  row,       \* the missions table
  final,     \* missions with a final_answer checkpoint
  rec,       \* the reconcile that holds the lock of each mission
  spawned,   \* run_now tasks that were spawned and have not read the row
  forced,    \* run_now tasks that wait for the lock
  events,    \* what the reader task has not delivered
  handler,   \* the event in the listener, with the row it read
  view,      \* status of the mission's thread in runtime.threads
  approval,  \* missions whose thread has an unresolved server request
  open,      \* external: turns the server accepted and has not ended
  asking,    \* external: missions whose turn waits for an answer of the operator
  replied,   \* external: missions whose open turn has given its final answer
  accepted,  \* history: turns the server accepted for each mission
  used       \* bounds: approvals, items, commands and faults so far

tableVars == <<row, final>>
taskVars == <<rec, spawned, forced>>
eventVars == <<events, handler>>
runtimeVars == <<view, approval>>
serverVars == <<open, asking, replied, accepted>>
vars == <<tableVars, taskVars, eventVars, runtimeVars, serverVars, used>>

Row == [status : {"active", "blocked", "paused", "completed", "failed"},
        queued : BOOLEAN, inProgress : BOOLEAN, thread : {"none", "own"},
        completed : Nat, started : Nat, failures : Nat,
        error : {"none", "queue", "approval", "turn", "timeout", "lost", "launch"},
        noted : BOOLEAN]
Kinds == {"turnStarted", "item", "finalAnswer", "turnCompleted", "turnError", "approval"}
Event == [kind : Kinds, of : Missions]

NewRow(m) ==
  [status |-> IF m \in Started THEN "active" ELSE "paused", queued |-> FALSE,
   inProgress |-> FALSE, thread |-> IF m \in Threaded THEN "own" ELSE "none",
   completed |-> 0, started |-> 0, failures |-> 0, error |-> "none", noted |-> FALSE]
NoTask(m) == [pc |-> "idle", force |-> FALSE, tid |-> "none", rebind |-> "no",
               snap |-> NewRow(m)]
NoEvent == [kind |-> "none"]

\* Rows that create() made or an earlier process left behind.
Init ==
  /\ row = [m \in Missions |-> NewRow(m)]
  /\ final = {}
  /\ rec = [m \in Missions |-> NoTask(m)]
  /\ spawned = [m \in Missions |-> IF m \in Fresh THEN 1 ELSE 0]
  /\ forced = [m \in Missions |-> 0]
  /\ events = <<>> /\ handler = NoEvent
  /\ view = [m \in Missions |-> IF m \in Threaded THEN "idle" ELSE "absent"]
  /\ approval = {}
  /\ open = [m \in Missions |-> 0] /\ asking = {} /\ replied = {}
  /\ accepted = [m \in Missions |-> 0]
  /\ used = [approvals |-> 0, replies |-> 0, items |-> 0, commands |-> 0, restarts |-> 0,
             faults |-> 0]

---------------------------------------------------------------------------
(* UPDATE missions SET ... WHERE id = m: w holds the columns it names.     *)

NoWrite == [c \in {} |-> TRUE]

\* The operator of the module TLC, in a form that can be reasoned about.
w @@ r ==
  [c \in DOMAIN w \cup DOMAIN r |-> IF c \in DOMAIN w THEN w[c] ELSE r[c]]

\* u is w, worked out once for all columns.
Update(m, w) == \E u \in {w} : row' = [row EXCEPT ![m] = u @@ @]

CanHeal(error) == error \in {"approval", "timeout", "lost"}

Spend(what) == used' = [used EXCEPT ![what] = @ + 1]
Fault(kind) == kind \in Faults /\ used.faults < MaxFaults /\ Spend("faults")

---------------------------------------------------------------------------
(* Reconcile.  Lock takes the lock and reads the row.                      *)

\* Mutant: the loop overlooks what is blocked.
NeedsReconcileUnblocked(r) ==
  r.status \in {"active", "failed"} \/ (r.status = "completed" /\ r.inProgress)

NeedsReconcile(r) ==
  \/ r.status \in {"active", "blocked", "failed"}
  \/ r.status = "completed" /\ r.inProgress

\* Mutant: reconcile without the lock.
LockNothing(m, force) ==
  rec' = [rec EXCEPT ![m] = [pc |-> "loaded", force |-> force,
                             tid |-> row[m].thread, rebind |-> "no", snap |-> row[m]]]

Lock(m, force) ==
  /\ rec[m].pc = "idle"
  /\ rec' = [rec EXCEPT ![m] = [pc |-> "loaded", force |-> force,
                                tid |-> row[m].thread, rebind |-> "no",
                                snap |-> row[m]]]

\* One loop walks the missions, so it is inside one reconcile at a time.
RunnerEnters(m) ==
  /\ \A o \in Missions : rec[o].pc = "idle" \/ rec[o].force
  /\ NeedsReconcile(row[m])
  /\ Lock(m, FALSE)
  /\ UNCHANGED <<tableVars, spawned, forced, eventVars, runtimeVars, serverVars, used>>

\* run_now reads the row, rearms a paused or failed mission, then queues for
\* the lock.
RunNow(m) ==
  /\ spawned[m] > 0
  /\ spawned' = [spawned EXCEPT ![m] = @ - 1]
  /\ IF row[m].status = "completed"
     THEN UNCHANGED <<row, forced>>
     ELSE /\ forced' = [forced EXCEPT ![m] = @ + 1]
          /\ IF row[m].status \in {"paused", "failed"}
             THEN Update(m, [status |-> "active", queued |-> FALSE, error |-> "none"])
             ELSE UNCHANGED row
  /\ UNCHANGED <<final, rec, eventVars, runtimeVars, serverVars, used>>

\* Mutant: a run_now that is over enters again.
RunNowEntersAgain(m) ==
  /\ forced' = [forced EXCEPT ![m] = @ - 1]
  /\ Lock(m, TRUE)
  /\ UNCHANGED <<tableVars, spawned, eventVars, runtimeVars, serverVars, used>>

RunNowEnters(m) ==
  /\ forced[m] > 0
  /\ forced' = [forced EXCEPT ![m] = @ - 1]
  /\ Lock(m, TRUE)
  /\ UNCHANGED <<tableVars, spawned, eventVars, runtimeVars, serverVars, used>>

Unlock(m) == rec' = [rec EXCEPT ![m] = NoTask(m)]
Advance(m, pc, w) ==
  rec' = [rec EXCEPT ![m].pc = pc, ![m].snap = w @@ @]

BeginRebind(m, from, w) ==
  rec' = [rec EXCEPT ![m].pc = "rebinding", ![m].rebind = from, ![m].snap = w @@ @]

FinalRepairs(m) ==
  LET s == rec[m].snap
  IN  m \in final /\ (s.status = "completed" \/ (s.status = "active" /\ s.inProgress))

\* The early return of a mission that has its final answer.
RepairFinal(m) ==
  LET s == rec[m].snap
      drop(c, now, none) == IF now # none THEN [x \in {c} |-> none] ELSE NoWrite
  IN  /\ rec[m].pc = "loaded" /\ FinalRepairs(m)
      /\ Update(m, drop("status", s.status, "completed")
                   @@ (IF s.status # "completed" THEN [queued |-> FALSE] ELSE NoWrite)
                   @@ drop("inProgress", s.inProgress, FALSE)
                   @@ drop("error", s.error, "none"))
      /\ Unlock(m)
      /\ UNCHANGED <<final, spawned, forced, eventVars, runtimeVars, serverVars, used>>

\* Mutant: a failed mission is left to the operator.
MayReconcileUnfailed(m) ==
  LET s == rec[m].snap
  IN  \/ s.status \in {"active", "blocked"}
      \/ s.status = "completed" /\ s.inProgress
      \/ rec[m].force

MayReconcile(m) ==
  LET s == rec[m].snap
  IN  \/ s.status \in {"active", "blocked"}
      \/ s.status = "completed" /\ s.inProgress
      \/ s.status = "failed" /\ AutoRecover /\ s.thread # "none"
      \/ rec[m].force

NotReconciled(m) ==
  /\ rec[m].pc = "loaded" /\ ~FinalRepairs(m) /\ ~MayReconcile(m)
  /\ Unlock(m)
  /\ UNCHANGED <<tableVars, spawned, forced, eventVars, runtimeVars, serverVars, used>>

---------------------------------------------------------------------------
(* What the status v of the thread says about the row s that was read.     *)

\* Mutant: only a thread seen idle settles a stale turn.
SettleStaleIdle(s, v, stale) ==
  IF s.inProgress /\ v = "idle" /\ stale
  THEN [inProgress |-> FALSE, queued |-> s.queued /\ s.status # "active"]
  ELSE NoWrite

SettleStale(s, v, stale) ==
  IF s.inProgress /\ v # "active" /\ stale
  THEN [inProgress |-> FALSE, queued |-> s.queued /\ s.status # "active"]
  ELSE NoWrite

FollowThread(s, v) ==
  IF v = "idle" /\ s.inProgress THEN [inProgress |-> FALSE]
  ELSE IF v = "active" /\ ~s.inProgress THEN [inProgress |-> TRUE]
  ELSE NoWrite

HealFailure(s, v) ==
  IF CanHeal(s.error)
  THEN [status |-> "active", error |-> "none"]
       @@ (IF v \in {"active", "idle"}
           THEN [queued |-> FALSE, inProgress |-> v = "active"] ELSE NoWrite)
  ELSE NoWrite

ReopenCompleted(s, v, was) ==
  IF was.status = "completed" /\ was.inProgress /\ (s.inProgress \/ v = "active")
  THEN [status |-> "active", error |-> "none", queued |-> FALSE, inProgress |-> TRUE]
  ELSE NoWrite

\* Every stage decides on the snapshot as the writes before it left it: the
\* writes so far, as a set of one.
ThreadWrites(s, v, stale) ==
  LET settled == {SettleStale(s, v, stale)}
      followed == {FollowThread(w @@ s, v) @@ w : w \in settled}
      healed == {HealFailure(w @@ s, v) @@ w : w \in followed}
  IN  {ReopenCompleted(w @@ s, v, s) @@ w : w \in healed}

\* quiet: nothing was heard for UNTRACKED_IN_PROGRESS_STALL_SECONDS, stale:
\* nor for the longer STALE_TURN_SECONDS.
Untracked(s, v, quiet) ==
  s.status = "active" /\ s.inProgress /\ v \in {"absent", "notLoaded"} /\ quiet

SyncThread(m, stale, quiet) ==
  LET s == rec[m].snap
  IN  /\ rec[m].pc = "loaded" /\ ~FinalRepairs(m) /\ MayReconcile(m)
      /\ stale => quiet
      /\ \E w \in IF s.thread = "none" THEN {NoWrite} ELSE ThreadWrites(s, view[m], stale) :
           /\ Update(m, w)
           /\ IF s.thread = "own" /\ Untracked(w @@ s, view[m], quiet)
              THEN BeginRebind(m, "sync", w)
              ELSE Advance(m, "synced", w)
      /\ UNCHANGED <<final, spawned, forced, eventVars, runtimeVars, serverVars, used>>

---------------------------------------------------------------------------
(* The decision: queue, wait for an approval, complete, yield, or go on.   *)

Occupies(r) ==
  r.inProgress /\ (r.status = "active" \/ (r.status = "blocked" /\ ~r.queued))
LaneBusy(m) == \E o \in Missions \ {m} : Occupies(row[o])
HasFollower(m) == \E o \in Missions \ {m} : row[o].status = "blocked" /\ row[o].queued

Queue(m) ==
  /\ rec[m].pc = "synced" /\ LaneBusy(m)
  /\ Update(m, [status |-> "blocked", queued |-> TRUE, inProgress |-> FALSE,
                error |-> "queue"])
  /\ Unlock(m)
  /\ UNCHANGED <<final, spawned, forced, eventVars, runtimeVars, serverVars, used>>

MustAwait(m) == m \in approval /\ rec[m].snap.thread = "own" /\ PauseOnApproval

AwaitApproval(m) ==
  /\ rec[m].pc = "synced" /\ ~LaneBusy(m) /\ MustAwait(m)
  /\ Update(m, [status |-> "blocked", queued |-> FALSE, error |-> "approval"])
  /\ Unlock(m)
  /\ UNCHANGED <<final, spawned, forced, eventVars, runtimeVars, serverVars, used>>

Unblock(s) ==
  IF s.status # "blocked" THEN NoWrite
  ELSE [status |-> "active", queued |-> FALSE]
       @@ (IF s.error \in {"approval", "queue"} THEN [error |-> "none"] ELSE NoWrite)

Free(m) == rec[m].pc = "synced" /\ ~LaneBusy(m) /\ ~MustAwait(m)
OutOfTurns(m) == rec[m].snap.completed >= MaxTurns
Yields(m) ==
  LET s == Unblock(rec[m].snap) @@ rec[m].snap
  IN  /\ ~rec[m].force /\ HasFollower(m) /\ m \in Hot
      /\ s.status = "active" /\ ~s.inProgress /\ ~s.noted

CompleteAtLimit(m) ==
  /\ Free(m) /\ OutOfTurns(m)
  /\ Update(m, [status |-> "completed", queued |-> FALSE, inProgress |-> FALSE]
               @@ Unblock(rec[m].snap))
  /\ Unlock(m)
  /\ UNCHANGED <<final, spawned, forced, eventVars, runtimeVars, serverVars, used>>

AutoYield(m) ==
  /\ Free(m) /\ ~OutOfTurns(m) /\ Yields(m)
  /\ Update(m, [status |-> "paused", queued |-> FALSE, inProgress |-> FALSE,
                error |-> "none", noted |-> TRUE])
  /\ Unlock(m)
  /\ UNCHANGED <<final, spawned, forced, eventVars, runtimeVars, serverVars, used>>

LeaveRunning(m) ==
  /\ Free(m) /\ ~OutOfTurns(m) /\ ~Yields(m)
  /\ rec[m].snap.inProgress /\ ~rec[m].force
  /\ Update(m, Unblock(rec[m].snap))
  /\ Unlock(m)
  /\ UNCHANGED <<final, spawned, forced, eventVars, runtimeVars, serverVars, used>>

GoOn(m) ==
  LET s == rec[m].snap
  IN  /\ Free(m) /\ ~OutOfTurns(m) /\ ~Yields(m)
      /\ ~s.inProgress \/ rec[m].force
      /\ Update(m, Unblock(s))
      /\ Advance(m, IF s.thread = "none" THEN "launching" ELSE "starting", Unblock(s))
      /\ UNCHANGED <<final, spawned, forced, eventVars, runtimeVars, serverVars, used>>

---------------------------------------------------------------------------
(* start_thread.  The row and the snapshot get the new thread id; the      *)
(* local thread_id that is passed on to the turn keeps its value.          *)

LaunchThread(m) ==
  /\ rec[m].pc = "launching"
  /\ view' = [view EXCEPT ![m] = "idle"]
  /\ Update(m, [thread |-> "own", queued |-> FALSE])
  /\ Advance(m, "starting", [thread |-> "own"])
  /\ UNCHANGED <<final, spawned, forced, eventVars, approval, serverVars, used>>

LaunchTimesOut(m) ==
  /\ rec[m].pc = "launching" /\ Fault("launch")
  /\ Update(m, [status |-> "blocked", queued |-> FALSE, inProgress |-> FALSE,
                error |-> "launch"])
  /\ Unlock(m)
  /\ UNCHANGED <<final, spawned, forced, eventVars, runtimeVars, serverVars>>

(* start_turn and the write of its result.                                 *)

Accept(m) ==
  /\ accepted[m] < MaxAccepted
  /\ open' = [open EXCEPT ![m] = @ + 1]
  /\ accepted' = [accepted EXCEPT ![m] = @ + 1]
  /\ events' = Append(events, [kind |-> "turnStarted", of |-> m])

\* Mutant: the view of the thread is not seeded.
StartTurnUnseeded(m) ==
  /\ rec[m].pc = "starting" /\ rec[m].tid = "own"
  /\ Accept(m)
  /\ Advance(m, "recording", NoWrite)
  /\ UNCHANGED <<tableVars, spawned, forced, handler, runtimeVars, asking, replied, used>>

StartTurn(m) ==
  /\ rec[m].pc = "starting" /\ rec[m].tid = "own"
  /\ Accept(m)
  /\ view' = [view EXCEPT ![m] = "active"]
  /\ Advance(m, "recording", NoWrite)
  /\ UNCHANGED <<tableVars, spawned, forced, handler, approval, asking, replied, used>>

TurnFails(m, error) ==
  /\ Update(m, [status |-> "failed", queued |-> FALSE, inProgress |-> FALSE,
                failures |-> rec[m].snap.failures + 1, error |-> error])
  /\ Unlock(m)

TurnRefused(m) ==
  /\ rec[m].pc = "starting"
  /\ IF rec[m].tid = "none" THEN UNCHANGED used ELSE Fault("refuse")
  /\ TurnFails(m, "turn")
  /\ UNCHANGED <<final, spawned, forced, eventVars, runtimeVars, serverVars>>

\* No answer in time; the server may have started the turn all the same.
TurnTimesOut(m) ==
  /\ rec[m].pc = "starting" /\ rec[m].tid = "own" /\ Fault("timeout")
  /\ TurnFails(m, "timeout")
  /\ Accept(m) \/ UNCHANGED <<open, accepted, events>>
  /\ UNCHANGED <<final, spawned, forced, handler, runtimeVars, asking, replied>>

\* "thread not found", once: the turn moves to a fresh thread.  A server that
\* runs a turn of a thread knows it.
ThreadLost(m) ==
  /\ rec[m].pc = "starting" /\ rec[m].tid = "own" /\ view[m] = "notLoaded"
  /\ rec[m].rebind = "no" /\ open[m] = 0
  /\ BeginRebind(m, "turn", NoWrite)
  /\ UNCHANGED <<tableVars, spawned, forced, eventVars, runtimeVars, serverVars, used>>

\* _attempt_stale_thread_recovery: a fresh thread and, from the row as it is
\* now, its first turn.
RebindThread(m) ==
  LET w == [thread |-> "own", status |-> "active", queued |-> FALSE,
            inProgress |-> FALSE, error |-> "none"]
  IN  /\ rec[m].pc = "rebinding"
      /\ view' = [view EXCEPT ![m] = "idle"]
      /\ approval' = approval \ {m}
      /\ Update(m, w)
      /\ rec' = [rec EXCEPT ![m].pc = "starting", ![m].tid = "own", ![m].snap = w @@ row[m]]
      /\ UNCHANGED <<final, spawned, forced, eventVars, serverVars, used>>

\* Out of a turn that could not start, the failure stands; out of the sync
\* of the thread, the reconcile goes on with the row it had.
RebindFails(m) ==
  LET w(error) == [status |-> "failed", queued |-> FALSE, inProgress |-> FALSE,
                   failures |-> rec[m].snap.failures + 1, error |-> error]
  IN  /\ rec[m].pc = "rebinding" /\ Fault("launch")
      /\ \/ rec[m].rebind = "turn" /\ Update(m, w("lost")) /\ Unlock(m)
         \/ /\ rec[m].rebind = "sync" /\ Update(m, w("turn"))
            /\ rec' = [rec EXCEPT ![m].pc = "synced", ![m].rebind = "no"]
      /\ UNCHANGED <<final, spawned, forced, eventVars, runtimeVars, serverVars>>

RecordTurn(m) ==
  /\ rec[m].pc = "recording"
  /\ Update(m, [status |-> "active", queued |-> FALSE, inProgress |-> TRUE,
                started |-> rec[m].snap.started + 1, error |-> "none"])
  /\ Unlock(m)
  /\ UNCHANGED <<final, spawned, forced, eventVars, runtimeVars, serverVars, used>>

Reconcile(m) ==
  \/ RepairFinal(m) \/ NotReconciled(m)
  \/ \E stale, quiet \in BOOLEAN : SyncThread(m, stale, quiet)
  \/ Queue(m) \/ AwaitApproval(m) \/ CompleteAtLimit(m) \/ AutoYield(m)
  \/ LeaveRunning(m) \/ GoOn(m) \/ LaunchThread(m) \/ LaunchTimesOut(m)
  \/ StartTurn(m) \/ TurnRefused(m) \/ TurnTimesOut(m) \/ RecordTurn(m)
  \/ ThreadLost(m) \/ RebindThread(m) \/ RebindFails(m)

---------------------------------------------------------------------------
(* The operator's commands.                                                *)

Command(c) == c \in Commands /\ used.commands < MaxCommands /\ Spend("commands")

Pause(m) ==
  /\ Command("pause")
  /\ Update(m, [status |-> "paused", queued |-> FALSE, inProgress |-> FALSE])
  /\ UNCHANGED <<final, taskVars, eventVars, runtimeVars, serverVars>>

Complete(m) ==
  /\ Command("complete")
  /\ Update(m, [status |-> "completed", queued |-> FALSE, inProgress |-> FALSE])
  /\ UNCHANGED <<final, taskVars, eventVars, runtimeVars, serverVars>>

Resume(m) ==
  /\ Command("resume")
  /\ Update(m, [status |-> "active", queued |-> FALSE, error |-> "none"])
  /\ spawned' = [spawned EXCEPT ![m] = @ + 1]
  /\ UNCHANGED <<final, rec, forced, eventVars, runtimeVars, serverVars>>

AskRunNow(m) ==
  /\ Command("runNow")
  /\ spawned' = [spawned EXCEPT ![m] = @ + 1]
  /\ UNCHANGED <<tableVars, rec, forced, eventVars, runtimeVars, serverVars>>

ResolveApproval(m) ==
  /\ m \in approval
  /\ approval' = approval \ {m} /\ asking' = asking \ {m}
  /\ UNCHANGED <<tableVars, taskVars, eventVars, view, open, replied, accepted, used>>

---------------------------------------------------------------------------
(* The reader task: the manager updates its view of the thread and of the  *)
(* server requests, then the listener reads the row of the thread's        *)
(* mission and, after more awaits, writes it.                              *)

ViewAfter(e) ==
  CASE e.kind = "turnStarted" -> [view EXCEPT ![e.of] = "active"]
    [] e.kind = "turnCompleted" -> [view EXCEPT ![e.of] = "idle"]
    [] e.kind = "turnError" -> [view EXCEPT ![e.of] = "error"]
    [] OTHER -> view

\* What the listener leaves alone: most of what follows a final answer.
Ignored(e) ==
  \/ /\ row[e.of].status = "completed" /\ e.of \in final
     /\ e.kind \notin {"turnCompleted", "turnError", "approval"}
  \/ e.kind = "approval" /\ ~PauseOnApproval

SpawnsNextCycle(e) ==
  /\ e.kind = "turnCompleted" /\ row[e.of].status = "active"
  /\ row[e.of].completed + 1 < MaxTurns

Deliver ==
  /\ handler = NoEvent /\ events # <<>>
  /\ LET e == Head(events) IN
       /\ events' = Tail(events)
       /\ view' = ViewAfter(e)
       /\ approval' = IF e.kind = "approval" THEN approval \cup {e.of} ELSE approval
       /\ IF Ignored(e)
          THEN UNCHANGED <<handler, spawned, final>>
          ELSE /\ handler' = [kind |-> e.kind, of |-> e.of, snap |-> row[e.of]]
               /\ spawned' = IF SpawnsNextCycle(e)
                             THEN [spawned EXCEPT ![e.of] = @ + 1] ELSE spawned
               /\ final' = IF e.kind = "finalAnswer" THEN final \cup {e.of} ELSE final
  /\ UNCHANGED <<row, rec, forced, serverVars, used>>

\* The columns an event sets, before and by its own kind.
LiveWrites(kind, s) ==
  IF \/ CanHeal(s.error) /\ kind \in {"turnStarted", "item", "finalAnswer"}
     \/ s.status = "completed" /\ kind \in {"turnStarted", "item"}
  THEN [status |-> "active", error |-> "none", inProgress |-> TRUE]
  ELSE NoWrite

OwnWrites(kind, s) ==
  CASE kind = "turnStarted" ->
         [inProgress |-> TRUE, queued |-> FALSE]
         @@ (IF s.status = "active" THEN [error |-> "none"] ELSE NoWrite)
    [] kind = "item" -> [queued |-> FALSE]
    [] kind = "finalAnswer" ->
         [status |-> "completed", queued |-> FALSE, inProgress |-> FALSE, noted |-> TRUE]
    [] kind = "turnCompleted" ->
         [inProgress |-> FALSE, completed |-> s.completed + 1, queued |-> FALSE]
         @@ (IF s.status = "active" THEN [error |-> "none"] ELSE NoWrite)
    [] kind = "turnError" ->
         [status |-> "failed", queued |-> FALSE, inProgress |-> FALSE,
          failures |-> s.failures + 1, error |-> "turn"]
    [] kind = "approval" ->
         [status |-> "blocked", queued |-> FALSE, error |-> "approval"]

HandleEvent ==
  /\ handler # NoEvent
  /\ Update(handler.of, OwnWrites(handler.kind, handler.snap)
                        @@ LiveWrites(handler.kind, handler.snap))
  /\ handler' = NoEvent
  /\ UNCHANGED <<final, taskVars, events, runtimeVars, serverVars, used>>

---------------------------------------------------------------------------
(* External: the Codex app server.                                         *)

Emit(kind, m) == events' = Append(events, [kind |-> kind, of |-> m])

ReportItem(m) ==
  /\ open[m] > 0 /\ m \notin asking /\ used.items < MaxItems
  /\ Emit("item", m) /\ Spend("items")
  /\ UNCHANGED <<tableVars, taskVars, handler, runtimeVars, serverVars>>

AskApproval(m) ==
  /\ open[m] > 0 /\ m \notin asking /\ used.approvals < MaxApprovals
  /\ Emit("approval", m) /\ Spend("approvals")
  /\ asking' = asking \cup {m}
  /\ UNCHANGED <<tableVars, taskVars, handler, runtimeVars, open, replied, accepted>>

Reply(m) ==
  /\ open[m] > 0 /\ m \notin asking \cup replied /\ used.replies < MaxReplies
  /\ Emit("finalAnswer", m) /\ Spend("replies")
  /\ replied' = replied \cup {m}
  /\ UNCHANGED <<tableVars, taskVars, handler, runtimeVars, open, asking, accepted>>

EndTurn(m) ==
  /\ open[m] > 0 /\ m \notin asking
  /\ open' = [open EXCEPT ![m] = @ - 1]
  /\ replied' = replied \ {m}
  /\ \/ Emit("turnCompleted", m) /\ UNCHANGED used
     \/ Emit("turnError", m) /\ Fault("turn")
  /\ UNCHANGED <<tableVars, taskVars, handler, runtimeVars, asking, accepted>>

\* The process stops and starts again, and the app server with it: only the
\* tables are left, and the thread list shows threads nobody has loaded.
Restart ==
  /\ used.restarts < MaxRestarts /\ Spend("restarts")
  /\ rec' = [m \in Missions |-> NoTask(m)]
  /\ spawned' = [m \in Missions |-> 0] /\ forced' = [m \in Missions |-> 0]
  /\ events' = <<>> /\ handler' = NoEvent
  /\ view' = [m \in Missions |-> IF row[m].thread = "own" THEN "notLoaded" ELSE "absent"]
  /\ open' = [m \in Missions |-> 0] /\ asking' = {} /\ replied' = {}
  /\ UNCHANGED <<tableVars, approval, accepted>>

---------------------------------------------------------------------------

Operator(m) == Pause(m) \/ Complete(m) \/ Resume(m) \/ AskRunNow(m)
Server(m) == ReportItem(m) \/ AskApproval(m) \/ Reply(m) \/ EndTurn(m)

Next ==
  \/ Deliver \/ HandleEvent \/ Restart
  \/ \E m \in Missions :
       \/ RunnerEnters(m) \/ RunNow(m) \/ RunNowEnters(m) \/ Reconcile(m)
       \/ Operator(m) \/ ResolveApproval(m) \/ Server(m)

Spec == Init /\ [][Next]_vars

\* The loop polls every mission and asyncio locks are fair; the listener and
\* every reconcile run on.  A row that nothing writes grows old, so a reconcile
\* finds it stale.  Of the outside: turns end, approvals are answered.
Fairness ==
  /\ WF_vars(Deliver) /\ WF_vars(HandleEvent)
  /\ \A m \in Missions :
       /\ SF_vars(RunnerEnters(m)) /\ SF_vars(RunNowEnters(m))
       /\ WF_vars(RunNow(m)) /\ WF_vars(Reconcile(m))
       /\ SF_vars(SyncThread(m, TRUE, TRUE))
       /\ WF_vars(ResolveApproval(m)) /\ WF_vars(EndTurn(m))
FairSpec == Spec /\ Fairness

---------------------------------------------------------------------------

TypeOK ==
  /\ row \in [Missions -> Row] /\ final \subseteq Missions
  /\ rec \in [Missions -> [pc : {"idle", "loaded", "synced", "launching", "starting",
                                 "recording", "rebinding"},
                           rebind : {"no", "sync", "turn"}, force : BOOLEAN, tid : {"none", "own"}, snap : Row]]
  /\ spawned \in [Missions -> Nat] /\ forced \in [Missions -> Nat]
  /\ events \in Seq(Event)
  /\ handler = NoEvent \/ handler \in [kind : Kinds, of : Missions, snap : Row]
  /\ view \in [Missions -> {"absent", "notLoaded", "idle", "active", "error"}]
  /\ approval \subseteq Missions /\ asking \subseteq Missions /\ replied \subseteq Missions
  /\ open \in [Missions -> Nat] /\ accepted \in [Missions -> Nat]
  /\ used \in [{"approvals", "replies", "items", "commands", "restarts",
               "faults"} -> Nat]

Undelivered(kind, m) ==
  Cardinality({i \in DOMAIN events : events[i] = [kind |-> kind, of |-> m]})
Handling(kind, m) == handler # NoEvent /\ handler.kind = kind /\ handler.of = m
One(p) == IF p THEN 1 ELSE 0

\* The two counters of a mission are read, incremented and written across
\* awaits, by different tasks.  No turn is lost or counted twice: what the
\* server accepted is what turns_started says once it is written, and what
\* turns_completed says plus what is on its way.
TurnsAreCounted ==
  \A m \in Missions :
    /\ accepted[m] = row[m].started + One(rec[m].pc = "recording")
    /\ accepted[m] = row[m].completed + open[m]
                     + Undelivered("turnCompleted", m) + One(Handling("turnCompleted", m))

\* The poll loop by itself, without a run_now, never starts a turn on a thread
\* that is still running one, however late the listener writes the row: the
\* manager's view of the thread, seeded when the turn is accepted, stops it.
NoOverlappingTurns == \A m \in Missions : open[m] <= 1

\* A mission queued behind another leaves the queue: the lane is released,
\* whatever the other did (docs: a stale queued row must not deadlock it).
QueueMoves ==
  \A m \in Missions :
    (row[m].status = "blocked" /\ row[m].queued) ~> ~(row[m].status = "blocked" /\ row[m].queued)

\* Without the operator every mission that starts is completed in the end and
\* stays so, through failed launches and starts, lost answers and late events.
MissionsFinish ==
  \A m \in Started : <>[](row[m].status = "completed")

\* A row that says "in progress" when the server runs nothing for it is put
\* right.
Adrift(m) ==
  /\ row[m].inProgress /\ open[m] = 0 /\ events = <<>> /\ handler = NoEvent
  /\ rec[m].pc # "recording"
ProgressIsSettled == \A m \in Missions : Adrift(m) ~> ~Adrift(m)

\* What start_turn's signature says (thread_id: str): a turn is started on a
\* thread.  It does not hold.
TurnHasThread == \A m \in Missions : rec[m].pc = "starting" => rec[m].tid # "none"

=============================================================================
