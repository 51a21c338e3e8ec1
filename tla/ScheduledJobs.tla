---------------------------- MODULE ScheduledJobs ----------------------------
(***************************************************************************)
(* One-shot jobs: task blueprints with a schedule of kind "at", which the  *)
(* tick of OpsMeshService (services/ops_mesh.py) runs when their time has  *)
(* come and cron.run (services/gateway_cron.py) whenever an operator asks. *)
(* A job either wakes a session or launches a mission; what becomes of the *)
(* mission comes back as an event (MissionService, services/missions.py).  *)
(* Rows outlive a crash of the process, the callers do not.                *)
(*                                                                         *)
(* "active" stands for active and blocked missions: no test here tells     *)
(* them apart.  The objectives of the jobs differ.                         *)
(***************************************************************************)
EXTENDS Naturals, FiniteSets

CONSTANTS
  WakeJobs,    \* jobs with a system event for the main session
  MissionJobs, \* jobs that launch a mission
  Fleeting,    \* jobs with deleteAfterRun
  Operators,   \* callers of cron.run
  MaxMissions, \* bound: missions
  MaxMishaps,  \* bound: crashes and failed wakes together
  MaxAsked     \* bound: calls of an operator

Jobs == WakeJobs \cup MissionJobs
Missions == 1..MaxMissions
Tick == "tick"
Callers == Operators \cup {Tick}

ASSUME ScheduledJobsAssumption ==
  /\ WakeJobs \cap MissionJobs = {} /\ Fleeting \subseteq Jobs
  /\ {MaxMissions, MaxMishaps, MaxAsked} \subseteq Nat /\ {Tick, "nobody"} \cap Operators = {}

VARIABLES
  job,       \* the task_blueprints row of each job
  come,      \* jobs whose schedule_at is past
  mission,   \* the missions rows
  creating,  \* who holds _create_lock
  caller,    \* where the tick and each cron.run are in a dispatch
  ticker,    \* what tick_once has listed
  event,     \* the mission event ops mesh handles, for each mission
  removed,   \* history: jobs that are not there or that an operator removed
  woken,     \* history: wake requests made for a job, by the tick and by cron.run
  launched,  \* history: missions the tick made for a job
  reopened,  \* history: missions that went on after their end
  raced,     \* history: jobs the tick held while a mission of theirs had just ended
  retries,   \* history: failures of a job's missions that put it off
  mishaps, asked \* bounds: so far

jobRows == <<job, come, mission>>
jobTasks == <<creating, caller, ticker>>
jobHistory == <<removed, woken, launched, reopened, retries, mishaps, asked>>
cronVars == <<jobRows, jobTasks, event, jobHistory, raced>>

JobRow == [there : BOOLEAN, enabled : BOOLEAN, retry : BOOLEAN,
           ran : {"never", "early", "late"}, \* last_launched_at against schedule_at
           status : {"idle", "active", "paused", "completed", "failed"}]
MissionRow == [job : Jobs, status : {"active", "paused", "completed", "failed"}]
NoMission == [status |-> "none"]
AtRest == [pc |-> "idle"]

\* Jobs that are not there count as removed.
CronInit ==
  /\ removed \in SUBSET Jobs
  /\ job = [t \in Jobs |-> [there |-> t \notin removed, enabled |-> TRUE, retry |-> FALSE,
                            ran |-> "never", status |-> "idle"]]
  /\ come = {} /\ mission = [m \in Missions |-> NoMission]
  /\ creating = "nobody" /\ caller = [c \in Callers |-> AtRest]
  /\ ticker = AtRest /\ event = [m \in Missions |-> AtRest]
  /\ reopened = {} /\ raced = {}
  /\ woken = [c \in {"tick", "run"} |-> [t \in Jobs |-> 0]]
  /\ launched = [t \in Jobs |-> 0] /\ retries = [t \in Jobs |-> 0]
  /\ mishaps = 0 /\ asked = 0

---------------------------------------------------------------------------

InState(t, statuses) ==
  {m \in Missions : mission[m].status \in statuses /\ mission[m].job = t}
Inflight(t) == InState(t, {"active", "paused"})

\* What the tick and cron.run take for due, of a row that was read before: once
\* run in time, a job is due again only when a failure put it off.
RunInTime(row) == row.ran = "late" /\ row.status \in {"completed", "failed"}
DueForTick(row, t) ==
  row.enabled /\ t \in come /\ (~RunInTime(row) \/ (row.status = "failed" /\ row.retry))
DueForRun(row, t) == row.enabled /\ t \in come /\ (~RunInTime(row) \/ row.retry)

Go(c, where) == caller' = [caller EXCEPT ![c] = where]
At(c, pc) == caller[c].pc = pc
By(c) == IF c = Tick THEN "tick" ELSE "run"
Ask == asked < MaxAsked /\ asked' = asked + 1
Mishap == mishaps < MaxMishaps /\ mishaps' = mishaps + 1

---------------------------------------------------------------------------
(* tick_once: the tasks, then the missions, then one task after the other. *)

ListTasks ==
  /\ ticker.pc = "idle"
  /\ ticker' = [pc |-> "tasks", rows |-> job]
  /\ UNCHANGED <<jobRows, creating, caller, event, jobHistory>>

ListMissions ==
  /\ ticker.pc = "tasks"
  /\ ticker' = [pc |-> "loop", rows |-> ticker.rows,
                todo |-> {t \in Jobs : ticker.rows[t].there /\ InState(t, {"active"}) = {}}]
  /\ UNCHANGED <<jobRows, creating, caller, event, jobHistory>>

Launchable == {t \in ticker.todo : DueForTick(ticker.rows[t], t)}

\* Mutant: an exception of one task ends the loop for good.
TickTaskFragile ==
  /\ ticker.pc = "loop" /\ At(Tick, "idle") /\ mishaps = 0
  /\ \E t \in Launchable :
       /\ ticker' = [ticker EXCEPT !.todo = @ \ {t}]
       /\ Go(Tick, [pc |-> "open", job |-> t])
  /\ UNCHANGED <<jobRows, creating, event, jobHistory>>

TickTask ==
  /\ ticker.pc = "loop" /\ At(Tick, "idle")
  /\ \E t \in Launchable :
       /\ ticker' = [ticker EXCEPT !.todo = @ \ {t}]
       /\ Go(Tick, [pc |-> "open", job |-> t])
  /\ UNCHANGED <<jobRows, creating, event, jobHistory>>

TickEnds ==
  /\ ticker.pc = "loop" /\ At(Tick, "idle") /\ Launchable = {}
  /\ ticker' = AtRest
  /\ UNCHANGED <<jobRows, creating, caller, event, jobHistory>>

---------------------------------------------------------------------------
(* cron.run and cron.remove.                                               *)

AskRun(o, t) ==
  /\ At(o, "idle") /\ job[t].there /\ Ask
  /\ \E force \in BOOLEAN : Go(o, [pc |-> "asked", job |-> t, row |-> job[t], force |-> force])
  /\ UNCHANGED <<jobRows, creating, ticker, event, removed, woken, launched, reopened,
                 retries, mishaps>>

CheckRun(o) ==
  LET c == caller[o] IN
  /\ At(o, "asked")
  /\ IF InState(c.job, {"active"}) = {} /\ (c.force \/ DueForRun(c.row, c.job))
     THEN Go(o, [pc |-> "open", job |-> c.job]) ELSE Go(o, AtRest)
  /\ UNCHANGED <<jobRows, creating, ticker, event, jobHistory>>

Delete(t) == job' = [job EXCEPT ![t].there = FALSE]

RemoveJob(t) ==
  /\ job[t].there /\ Delete(t) /\ removed' = removed \cup {t} /\ Ask
  /\ UNCHANGED <<come, mission, jobTasks, event, woken, launched, reopened, retries,
                 mishaps>>

---------------------------------------------------------------------------
(* run_task_blueprint_now and dispatch_cron_system_event_task.             *)

\* Mutant: a wake job is disabled before its session is woken.
OpenConsumes(c) ==
  LET t == caller[c].job IN
  /\ At(c, "open")
  /\ job' = [job EXCEPT ![t].enabled = @ /\ t \notin WakeJobs]
  /\ Go(c, IF ~job[t].there THEN AtRest
           ELSE [pc |-> IF t \in WakeJobs THEN "waking" ELSE "looking", job |-> t])
  /\ UNCHANGED <<come, mission, creating, ticker, event, jobHistory>>

\* The row is read again, for its presence only.
Open(c) ==
  LET t == caller[c].job IN
  /\ At(c, "open")
  /\ Go(c, IF ~job[t].there THEN AtRest
           ELSE [pc |-> IF t \in WakeJobs THEN "waking" ELSE "looking", job |-> t])
  /\ UNCHANGED <<jobRows, creating, ticker, event, jobHistory>>

\* wake() has queued its request; to tell the session now may still fail.
Wake(c) ==
  LET t == caller[c].job IN
  /\ At(c, "waking")
  /\ woken' = [woken EXCEPT ![By(c)][t] = @ + 1]
  /\ \/ Go(c, [pc |-> "woken", job |-> t]) /\ UNCHANGED mishaps
     \/ Go(c, AtRest) /\ Mishap
  /\ UNCHANGED <<jobRows, creating, ticker, event, removed, launched, reopened,
                 retries, asked>>

Ran(t) == IF t \in come THEN "late" ELSE "early"

\* Mutant: the outcome is written without the new state of the schedule.
RecordWakeOpen(c) ==
  LET t == caller[c].job IN
  /\ At(c, "woken")
  /\ job' = [job EXCEPT ![t].ran = Ran(t)]
  /\ Go(c, IF c # Tick /\ t \in Fleeting THEN [pc |-> "deleting", job |-> t] ELSE AtRest)
  /\ UNCHANGED <<come, mission, creating, ticker, event, jobHistory>>

\* A one-shot job is disabled; only cron.run goes on to delete it.
RecordWake(c) ==
  LET t == caller[c].job IN
  /\ At(c, "woken")
  /\ job' = [job EXCEPT ![t].enabled = FALSE, ![t].status = "completed", ![t].ran = Ran(t)]
  /\ Go(c, IF c # Tick /\ t \in Fleeting THEN [pc |-> "deleting", job |-> t] ELSE AtRest)
  /\ UNCHANGED <<come, mission, creating, ticker, event, jobHistory>>

DeleteWoken(c) ==
  /\ At(c, "deleting") /\ Delete(caller[c].job) /\ Go(c, AtRest)
  /\ UNCHANGED <<come, mission, creating, ticker, event, jobHistory>>

\* Mutant: create() looks for a duplicate before it takes the lock.
LookUpUnheld(c) ==
  LET t == caller[c].job IN
  /\ At(c, "looking")
  /\ Go(c, [pc |-> IF Inflight(t) = {} THEN "inserting" ELSE "created", job |-> t])
  /\ UNCHANGED <<jobRows, creating, ticker, event, jobHistory>>

\* create() fails without the job's row; then it takes its lock, and a mission
\* of the job that is not over is the answer (_find_duplicate_inflight_mission).
LookUpMission(c) ==
  LET t == caller[c].job IN
  /\ At(c, "looking")
  /\ \/ /\ ~job[t].there /\ Go(c, AtRest) /\ UNCHANGED creating
     \/ /\ job[t].there /\ creating = "nobody" /\ Inflight(t) = {}
        /\ creating' = c /\ Go(c, [pc |-> "inserting", job |-> t])
     \/ /\ job[t].there /\ creating = "nobody" /\ Inflight(t) # {}
        /\ Go(c, [pc |-> "created", job |-> t]) /\ UNCHANGED creating
  /\ UNCHANGED <<jobRows, ticker, event, jobHistory>>

InsertMission(c) ==
  LET t == caller[c].job IN
  /\ At(c, "inserting") /\ creating' = "nobody"
  /\ \E m \in Missions :
       /\ mission[m] = NoMission /\ \A i \in 1..(m - 1) : mission[i] # NoMission
       /\ mission' = [mission EXCEPT ![m] = [job |-> t, status |-> "active"]]
  /\ launched' = [launched EXCEPT ![t] = IF c = Tick THEN @ + 1 ELSE @]
  /\ Go(c, [pc |-> "created", job |-> t])
  /\ UNCHANGED <<job, come, ticker, event, removed, woken, reopened, retries,
                 mishaps, asked>>

\* The event of the creation has told the job the same before.
RecordLaunch(c) ==
  LET t == caller[c].job IN
  /\ At(c, "created")
  /\ job' = [job EXCEPT ![t].status = "active", ![t].ran = Ran(t)]
  /\ Go(c, AtRest)
  /\ UNCHANGED <<come, mission, creating, ticker, event, jobHistory>>

---------------------------------------------------------------------------
(* Missions, and handle_mission_event of ops mesh.                         *)

Became(m, status) ==
  /\ event[m].pc = "idle"
  /\ mission' = [mission EXCEPT ![m].status = status]
  /\ event' = [event EXCEPT ![m] = [pc |-> "news"]]
  /\ UNCHANGED <<job, come, jobTasks, removed, woken, launched, retries, mishaps>>

Ends(m) ==
  /\ mission[m].status = "active"
  /\ \E status \in {"completed", "failed"} : Became(m, status)
  /\ UNCHANGED <<reopened, asked>>

\* pause(), resume() and complete() ask for no state of the mission, and a
\* failed one may be recovered.
Move(m) ==
  /\ mission[m] # NoMission /\ Ask
  /\ \E status \in {"active", "paused", "completed"} \ {mission[m].status} : Became(m, status)
  /\ reopened' = IF mission[m].status \in {"completed", "failed"}
                 THEN reopened \cup {m} ELSE reopened

Hear(m) ==
  LET t == mission[m].job IN
  /\ event[m].pc = "news"
  /\ event' = [event EXCEPT ![m] = [pc |-> "heard", status |-> mission[m].status, row |-> job[t]]]
  /\ UNCHANGED <<jobRows, jobTasks, jobHistory>>

\* last_status follows the mission.
Note(m) ==
  LET t == mission[m].job IN
  /\ event[m].pc = "heard"
  /\ job' = [job EXCEPT ![t].status = event[m].status]
  /\ event' = [event EXCEPT ![m].pc = "noted"]
  /\ UNCHANGED <<come, mission, jobTasks, jobHistory>>

Disable(t) == job' = [job EXCEPT ![t].enabled = FALSE, ![t].retry = FALSE]

\* What a one-shot job comes to, by the row as it was heard: after a failure
\* that is transient it is put off, after another one it is disabled.
Settle(m) ==
  LET t == mission[m].job
      row == event[m].row
      spent == row.enabled /\ row.ran = "late"
  IN
  /\ event[m].pc = "noted"
  /\ event' = [event EXCEPT ![m] = AtRest]
  /\ \/ /\ event[m].status = "completed" /\ row.there
        /\ job' = [job EXCEPT ![t].retry = FALSE,
                              ![t].enabled = @ /\ ~(spent /\ t \notin Fleeting),
                              ![t].there = @ /\ ~(spent /\ t \in Fleeting)]
        /\ UNCHANGED retries
     \/ /\ event[m].status = "failed" /\ row.there
        /\ \/ Disable(t) /\ UNCHANGED retries
           \/ /\ job' = [job EXCEPT ![t].retry = TRUE]
              /\ retries' = [retries EXCEPT ![t] = @ + 1]
     \/ /\ event[m].status \in {"active", "paused"} \/ ~row.there
        /\ UNCHANGED <<job, retries>>
  /\ UNCHANGED <<come, mission, jobTasks, removed, woken, launched, reopened,
                 mishaps, asked>>

---------------------------------------------------------------------------

\* The clock.
Come(t) ==
  /\ job[t].there /\ t \notin come /\ come' = come \cup {t}
  /\ UNCHANGED <<job, mission, jobTasks, event, jobHistory>>

CrashJobs ==
  /\ Mishap
  /\ creating' = "nobody" /\ caller' = [c \in Callers |-> AtRest]
  /\ ticker' = AtRest /\ event' = [m \in Missions |-> AtRest]
  /\ UNCHANGED <<jobRows, removed, woken, launched, reopened, retries, asked>>

Dispatch(c) ==
  \/ Open(c) \/ Wake(c) \/ RecordWake(c) \/ DeleteWoken(c)
  \/ LookUpMission(c) \/ InsertMission(c) \/ RecordLaunch(c)
TickStep == ListTasks \/ ListMissions \/ TickTask \/ TickEnds \/ Dispatch(Tick)
RunStep(o) == CheckRun(o) \/ Dispatch(o)
Handle(m) == Hear(m) \/ Note(m) \/ Settle(m)

\* The tick has read the row of t and may launch t, or is launching it, while
\* the end of a mission of t is news that is not settled.
TickMissesEnd(t) ==
  /\ \/ ticker.pc = "tasks" /\ ticker.rows[t].there
     \/ ticker.pc = "loop" /\ t \in ticker.todo
     \/ ~At(Tick, "idle") /\ caller[Tick].job = t
  /\ \E m \in InState(t, {"completed", "failed"}) : event[m].pc # "idle"

CronStep ==
  \/ TickStep
  \/ \E o \in Operators : RunStep(o) \/ \E t \in Jobs : AskRun(o, t)
  \/ \E t \in Jobs : RemoveJob(t) \/ Come(t)
  \/ \E m \in Missions : Ends(m) \/ Move(m) \/ Handle(m)
  \/ CrashJobs

CronNext == CronStep /\ raced' = raced \cup {t \in Jobs : TickMissesEnd(t)'}

CronSpec == CronInit /\ [][CronNext]_cronVars

---------------------------------------------------------------------------

CronTypeOK ==
  /\ job \in [Jobs -> JobRow] /\ come \subseteq Jobs
  /\ mission \in [Missions -> MissionRow \cup {NoMission}]
  /\ creating \in Callers \cup {"nobody"}
  /\ caller \in [Callers ->
       {AtRest} \cup [pc : {"asked"}, job : Jobs, row : JobRow, force : BOOLEAN]
       \cup [pc : {"open", "waking", "woken", "deleting", "looking", "inserting", "created"},
             job : Jobs]]
  /\ ticker \in {AtRest} \cup [pc : {"tasks"}, rows : [Jobs -> JobRow]]
                \cup [pc : {"loop"}, rows : [Jobs -> JobRow], todo : SUBSET Jobs]
  /\ event \in [Missions -> {AtRest, [pc |-> "news"]} \cup
       [pc : {"heard", "noted"}, row : JobRow,
        status : {"active", "paused", "completed", "failed"}]]
  /\ {removed, raced} \subseteq SUBSET Jobs /\ reopened \subseteq Missions
  /\ woken \in [{"tick", "run"} -> [Jobs -> Nat]]
  /\ {launched, retries} \subseteq [Jobs -> Nat]
  /\ {mishaps, asked} \subseteq Nat

\* The tick and any number of cron.run never give a job a second mission while
\* one is not over.  Only a mission that goes on after its end can be a second.
OneMissionPerJob ==
  \A t \in Jobs : \A m, n \in Inflight(t) : m = n \/ {m, n} \cap reopened # {}

\* A job that will not run any more has run, or somebody removed it: neither a
\* crash nor a failed wake consumes a job unseen.
SpentWasRun ==
  \A t \in Jobs \ removed :
    ~(job[t].there /\ job[t].enabled)
      => \/ woken["tick"][t] + woken["run"][t] > 0
         \/ InState(t, {"completed", "failed"}) # {}
         \/ \E m \in reopened : mission[m].job = t

\* The tick runs a one-shot job once, and once more for each crash, failed wake
\* or failure that put it off; only the end of a mission that is news while the
\* tick is at its job can make it launch another.
OneShotRunsOnce ==
  \A t \in Jobs :
    /\ woken["tick"][t] <= 1 + mishaps
    /\ t \notin raced => launched[t] <= 1 + mishaps + retries[t]

\* A wake that is due happens, or the job is removed.
DueWakesHappen ==
  \A t \in WakeJobs :
    t \in come /\ job[t].enabled ~> woken["tick"][t] + woken["run"][t] > 0 \/ ~job[t].there

=============================================================================
