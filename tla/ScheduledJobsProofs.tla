------------------------- MODULE ScheduledJobsProofs -------------------------
(* Proofs about ScheduledJobs for any jobs, operators and bounds.          *)
EXTENDS ScheduledJobs, TLAPS

MissionType == mission \in [Missions -> MissionRow \cup {NoMission}]

\* Whoever dispatches, dispatches a job.
TasksAreEntered ==
  /\ caller = [c \in Callers |-> caller[c]]
  /\ \A c \in Callers : caller[c].pc # "idle" => caller[c].job \in Jobs
  /\ ticker.pc = "loop" => ticker.todo \subseteq Jobs

\* Whoever has looked and is about to insert holds the lock, and what it saw is
\* still so: only missions that went on after their end have joined.
LookedUnderLock ==
  \A c \in Callers :
    At(c, "inserting") => creating = c /\ Inflight(caller[c].job) \subseteq reopened

JobsInv == MissionType /\ TasksAreEntered /\ LookedUnderLock /\ OneMissionPerJob

LEMMA JobsStart == CronInit => JobsInv
  BY DEF CronInit, JobsInv, MissionType, TasksAreEntered, LookedUnderLock, OneMissionPerJob,
         Inflight, InState, At, AtRest, NoMission, MissionRow

\* Steps that touch no mission and no lock, and let nobody begin to insert.
LEMMA OtherStepsKeep ==
  ASSUME JobsInv, UNCHANGED <<mission, reopened, creating>>, TasksAreEntered',
         \A c \in Callers : At(c, "inserting")' => caller'[c] = caller[c]
  PROVE  JobsInv'
<1>1. MissionType' /\ OneMissionPerJob'
  BY DEF JobsInv, MissionType, OneMissionPerJob, Inflight, InState
<1>2. LookedUnderLock'
  BY DEF JobsInv, LookedUnderLock, Inflight, InState, At
<1> QED
  BY <1>1, <1>2 DEF JobsInv

\* The missions that are not over become fewer, or more by such as are on record.
LEMMA EventsKeep ==
  ASSUME JobsInv, NEW m \in Missions, Ends(m) \/ Move(m)
  PROVE  JobsInv'
<1>1. PICK status \in {"active", "paused", "completed", "failed"} : Became(m, status)
  BY DEF Ends, Move
<1>2. UNCHANGED <<caller, creating, ticker>> /\ reopened \subseteq reopened'
  BY <1>1 DEF Became, jobTasks, Ends, Move
<1>3. mission[m] \in MissionRow
  BY DEF Ends, Move, JobsInv, MissionType, NoMission
<1>4. mission' = [mission EXCEPT ![m] = [mission[m] EXCEPT !.status = status]]
  BY <1>1 DEF Became
<1>5. MissionType'
  BY <1>3, <1>4 DEF MissionType, JobsInv, MissionRow
<1>6. ASSUME NEW t \in Jobs
      PROVE  Inflight(t)' \subseteq Inflight(t) \cup reopened'
  <2> SUFFICES ASSUME NEW n \in Inflight(t)', n \notin Inflight(t) PROVE n \in reopened'
    OBVIOUS
  <2>1. n = m
    BY <1>4 DEF Inflight, InState, JobsInv, MissionType
  <2>2. mission[m].status \in {"completed", "failed"}
    BY <1>3, <1>4, <2>1 DEF Inflight, InState, JobsInv, MissionType, MissionRow
  <2> QED
    BY <2>1, <2>2 DEF Ends, Move
<1>7. OneMissionPerJob'
  BY <1>2, <1>6 DEF JobsInv, OneMissionPerJob
<1>8. TasksAreEntered' /\ LookedUnderLock'
  <2>1. TasksAreEntered'
    BY <1>2 DEF JobsInv, TasksAreEntered
  <2>2. ASSUME NEW c \in Callers, At(c, "inserting")'
        PROVE  creating' = c /\ Inflight(caller[c].job)' \subseteq reopened'
    <3>1. At(c, "inserting") /\ caller[c].job \in Jobs
      BY <1>2, <2>2 DEF At, JobsInv, TasksAreEntered
    <3>2. creating' = c /\ Inflight(caller[c].job) \subseteq reopened
      BY <1>2, <3>1 DEF JobsInv, LookedUnderLock
    <3>3. Inflight(caller[c].job)' \subseteq Inflight(caller[c].job) \cup reopened'
      BY <1>2, <1>6, <3>1 DEF Inflight, InState
    <3> QED
      BY <1>2, <3>2, <3>3
  <2>3. LookedUnderLock'
    BY <1>2, <2>2 DEF LookedUnderLock
  <2> QED
    BY <2>1, <2>3
<1> QED
  BY <1>5, <1>7, <1>8 DEF JobsInv

\* The look-up finds no mission and takes the lock, so nobody else inserts.
LEMMA JobLookUpKeeps ==
  ASSUME JobsInv, NEW c \in Callers, LookUpMission(c)
  PROVE  JobsInv'
<1>1. UNCHANGED <<mission, reopened, ticker>>
  BY DEF LookUpMission, jobRows, jobHistory
<1>2. TasksAreEntered'
  BY <1>1 DEF JobsInv, TasksAreEntered, LookUpMission, Go, At, AtRest
<1>3. ASSUME UNCHANGED creating, NEW where, where.pc # "inserting", Go(c, where)
      PROVE  JobsInv'
  <2>1. \A d \in Callers : At(d, "inserting")' => caller'[d] = caller[d]
    BY <1>3 DEF Go, At, JobsInv, TasksAreEntered
  <2> QED
    BY <1>1, <1>2, <1>3, <2>1, OtherStepsKeep
<1>4. CASE /\ creating = "nobody" /\ creating' = c /\ Inflight(caller[c].job) = {}
           /\ Go(c, [pc |-> "inserting", job |-> caller[c].job])
  <2>1. MissionType' /\ OneMissionPerJob'
    BY <1>1 DEF JobsInv, MissionType, OneMissionPerJob, Inflight, InState
  <2>2. ASSUME NEW d \in Callers, At(d, "inserting")' PROVE d = c
    BY <1>4, <2>2, ScheduledJobsAssumption
       DEF JobsInv, LookedUnderLock, At, Go, TasksAreEntered, Callers, Tick
  <2>3. caller'[c].job = caller[c].job
    BY <1>4 DEF Go, JobsInv, TasksAreEntered
  <2>4. Inflight(caller[c].job)' = {}
    BY <1>1, <1>4, <2>3 DEF Inflight, InState
  <2>5. LookedUnderLock'
    <3>1. ASSUME NEW d \in Callers, At(d, "inserting")'
          PROVE  creating' = d /\ Inflight(caller[d].job)' \subseteq reopened'
      <4>1. d = c
        BY <2>2, <3>1
      <4> QED
        BY <1>4, <2>4, <4>1
    <3> QED
      BY <3>1 DEF LookedUnderLock
  <2> QED
    BY <1>2, <2>1, <2>5 DEF JobsInv
<1> QED
  <2>1. \/ UNCHANGED creating /\ Go(c, AtRest)
        \/ UNCHANGED creating /\ Go(c, [pc |-> "created", job |-> caller[c].job])
        \/ /\ creating = "nobody" /\ creating' = c /\ Inflight(caller[c].job) = {}
           /\ Go(c, [pc |-> "inserting", job |-> caller[c].job])
    BY DEF LookUpMission
  <2>2. /\ AtRest.pc # "inserting"
        /\ [pc |-> "created", job |-> caller[c].job].pc # "inserting"
    BY DEF AtRest
  <2>3. CASE UNCHANGED creating /\ Go(c, AtRest)
    BY <1>3, <2>2, <2>3
  <2>4. CASE UNCHANGED creating /\ Go(c, [pc |-> "created", job |-> caller[c].job])
    BY <1>3, <2>2, <2>4
  <2> QED
    BY <1>4, <2>1, <2>3, <2>4

\* The new mission is the only one of its job that is not on record.
LEMMA InsertKeeps ==
  ASSUME JobsInv, NEW c \in Callers, InsertMission(c)
  PROVE  JobsInv'
<1> DEFINE t == caller[c].job
<1>1. PICK m \in Missions : /\ mission[m] = NoMission
                            /\ mission' = [mission EXCEPT ![m] = [job |-> t, status |-> "active"]]
  BY DEF InsertMission
<1>2. t \in Jobs /\ creating = c /\ Inflight(t) \subseteq reopened
  BY DEF InsertMission, JobsInv, TasksAreEntered, LookedUnderLock, At
<1>3. UNCHANGED <<reopened, ticker>> /\ Go(c, [pc |-> "created", job |-> t])
  BY DEF InsertMission
<1>4. MissionType'
  BY <1>1, <1>2 DEF JobsInv, MissionType, MissionRow
<1>5. TasksAreEntered'
  BY <1>2, <1>3 DEF JobsInv, TasksAreEntered, Go
<1>6. ASSUME NEW d \in Callers PROVE ~At(d, "inserting")'
  BY <1>2, <1>3 DEF JobsInv, LookedUnderLock, TasksAreEntered, At, Go
<1>7. ASSUME NEW u \in Jobs
      PROVE  Inflight(u)' = IF u = t THEN Inflight(u) \cup {m} ELSE Inflight(u)
  BY <1>1 DEF Inflight, InState, JobsInv, MissionType, NoMission
<1>8. OneMissionPerJob'
  BY <1>2, <1>3, <1>7 DEF JobsInv, OneMissionPerJob
<1> QED
  BY <1>4, <1>5, <1>6, <1>8 DEF JobsInv, LookedUnderLock

\* The other steps of a dispatch.
LEMMA DispatchKeeps ==
  ASSUME JobsInv, NEW c \in Callers, Dispatch(c)
  PROVE  JobsInv'
<1>1. CASE LookUpMission(c)
  BY <1>1, JobLookUpKeeps
<1>2. CASE InsertMission(c)
  BY <1>2, InsertKeeps
<1>3. CASE Open(c) \/ Wake(c) \/ RecordWake(c) \/ DeleteWoken(c) \/ RecordLaunch(c)
  <2>1. UNCHANGED <<mission, reopened, creating, ticker>>
    BY <1>3 DEF Open, Wake, RecordWake, DeleteWoken, RecordLaunch, jobRows, jobHistory
  <2>2. PICK where : /\ caller' = [caller EXCEPT ![c] = where]
                     /\ \/ where = AtRest
                        \/ /\ caller[c].pc # "idle" /\ where.pc # "inserting"
                           /\ where.job = caller[c].job
    BY <1>3 DEF Open, Wake, RecordWake, DeleteWoken, RecordLaunch, Go, At
  <2>3. TasksAreEntered'
    BY <2>1, <2>2 DEF JobsInv, TasksAreEntered, AtRest
  <2>4. \A d \in Callers : At(d, "inserting")' => caller'[d] = caller[d]
    BY <2>2 DEF At, AtRest, JobsInv, TasksAreEntered
  <2> QED
    BY <2>1, <2>3, <2>4, OtherStepsKeep
<1> QED
  BY <1>1, <1>2, <1>3 DEF Dispatch

LEMMA JobsStep == JobsInv /\ [CronNext]_cronVars => JobsInv'
<1> SUFFICES ASSUME JobsInv, [CronNext]_cronVars PROVE JobsInv'
  OBVIOUS
<1>1. CASE UNCHANGED cronVars
  <2>1. UNCHANGED <<mission, reopened, creating, ticker, caller>>
    BY <1>1 DEF cronVars, jobRows, jobTasks, jobHistory
  <2> QED
    BY <2>1, OtherStepsKeep DEF JobsInv, TasksAreEntered
<1>2. ASSUME NEW c \in Callers, Dispatch(c) PROVE JobsInv'
  BY <1>2, DispatchKeeps
<1>3. CASE ListTasks \/ ListMissions \/ TickEnds
  <2>1. UNCHANGED <<mission, reopened, creating, caller>>
    BY <1>3 DEF ListTasks, ListMissions, TickEnds, jobRows, jobHistory
  <2>2. ticker'.pc = "loop" => ticker'.todo \subseteq Jobs
    BY <1>3 DEF ListTasks, ListMissions, TickEnds, AtRest
  <2> QED
    BY <2>1, <2>2, OtherStepsKeep DEF JobsInv, TasksAreEntered
<1>4. CASE TickTask
  <2>1. UNCHANGED <<mission, reopened, creating>>
    BY <1>4 DEF TickTask, jobRows, jobHistory
  <2>2. PICK t \in Launchable : /\ ticker' = [ticker EXCEPT !.todo = @ \ {t}]
                                /\ Go(Tick, [pc |-> "open", job |-> t])
    BY <1>4 DEF TickTask
  <2>3. ticker.pc = "loop" /\ ticker.todo \subseteq Jobs /\ t \in Jobs
    BY <1>4, <2>2 DEF TickTask, JobsInv, TasksAreEntered, Launchable
  <2>4. ticker'.pc = "loop" => ticker'.todo \subseteq Jobs
    BY <2>2, <2>3
  <2>5. TasksAreEntered'
    BY <2>2, <2>3, <2>4 DEF JobsInv, TasksAreEntered, Go
  <2>6. \A d \in Callers : At(d, "inserting")' => caller'[d] = caller[d]
    BY <2>2 DEF At, Go, JobsInv, TasksAreEntered
  <2> QED
    BY <2>1, <2>5, <2>6, OtherStepsKeep
<1>5. ASSUME NEW o \in Operators, NEW t \in Jobs, AskRun(o, t) PROVE JobsInv'
  <2>1. UNCHANGED <<mission, reopened, creating, ticker>>
    BY <1>5 DEF AskRun, jobRows
  <2>2. PICK force \in BOOLEAN :
          caller' = [caller EXCEPT ![o] = [pc |-> "asked", job |-> t, row |-> job[t],
                                           force |-> force]]
    BY <1>5 DEF AskRun, Go
  <2>3. TasksAreEntered' /\ \A d \in Callers : At(d, "inserting")' => caller'[d] = caller[d]
    BY <2>1, <2>2 DEF JobsInv, TasksAreEntered, At
  <2> QED
    BY <2>1, <2>3, OtherStepsKeep
<1>6. ASSUME NEW o \in Operators, CheckRun(o) PROVE JobsInv'
  <2>1. UNCHANGED <<mission, reopened, creating, ticker>>
    BY <1>6 DEF CheckRun, jobRows, jobHistory
  <2>2. PICK where \in {AtRest, [pc |-> "open", job |-> caller[o].job]} :
          caller' = [caller EXCEPT ![o] = where] /\ caller[o].pc # "idle"
    BY <1>6 DEF CheckRun, Go, At
  <2>3. o \in Callers
    BY DEF Callers
  <2>4. TasksAreEntered' /\ \A d \in Callers : At(d, "inserting")' => caller'[d] = caller[d]
    BY <2>1, <2>2, <2>3 DEF JobsInv, TasksAreEntered, At, AtRest
  <2> QED
    BY <2>1, <2>4, OtherStepsKeep
<1>7. ASSUME NEW t \in Jobs, RemoveJob(t) \/ Come(t) PROVE JobsInv'
  <2>1. UNCHANGED <<mission, reopened, creating, ticker, caller>>
    BY <1>7 DEF RemoveJob, Come, jobTasks, jobHistory
  <2> QED
    BY <2>1, OtherStepsKeep DEF JobsInv, TasksAreEntered
<1>8. ASSUME NEW m \in Missions, Ends(m) \/ Move(m) PROVE JobsInv'
  BY <1>8, EventsKeep
<1>9. ASSUME NEW m \in Missions, Handle(m) PROVE JobsInv'
  <2>1. UNCHANGED <<mission, reopened, creating, ticker, caller>>
    BY <1>9 DEF Handle, Hear, Note, Settle, jobRows, jobTasks, jobHistory
  <2> QED
    BY <2>1, OtherStepsKeep DEF JobsInv, TasksAreEntered
<1>10. CASE CrashJobs
  <2>1. UNCHANGED <<mission, reopened>>
    BY <1>10 DEF CrashJobs, jobRows
  <2>2. TasksAreEntered' /\ LookedUnderLock'
    BY <1>10 DEF CrashJobs, TasksAreEntered, LookedUnderLock, At, AtRest
  <2>3. MissionType' /\ OneMissionPerJob'
    BY <2>1 DEF JobsInv, MissionType, OneMissionPerJob, Inflight, InState
  <2> QED
    BY <2>2, <2>3 DEF JobsInv
<1> QED
  BY <1>1, <1>2, <1>3, <1>4, <1>5, <1>6, <1>7, <1>8, <1>9, <1>10
     DEF CronNext, CronStep, TickStep, RunStep, Callers

\* Whatever the tick, the operators and the missions do, and whenever the
\* process dies, create() finds a mission of the job that is not over or holds
\* its lock until the new one is there.
THEOREM MissionsAreSingle == CronSpec => []OneMissionPerJob
<1>1. CronSpec => []JobsInv
  BY JobsStart, JobsStep, PTL DEF CronSpec
<1>2. JobsInv => OneMissionPerJob
  BY DEF JobsInv
<1> QED
  BY <1>1, <1>2, PTL

---------------------------------------------------------------------------
(* Types *)

BusyPcs == {"open", "waking", "woken", "deleting", "looking", "inserting", "created"}
CallerPlace ==
  {AtRest} \cup [pc : {"asked"}, job : Jobs, row : JobRow, force : BOOLEAN]
  \cup [pc : BusyPcs, job : Jobs]
TickerPlace ==
  {AtRest} \cup [pc : {"tasks"}, rows : [Jobs -> JobRow]]
  \cup [pc : {"loop"}, rows : [Jobs -> JobRow], todo : SUBSET Jobs]
EventPlace ==
  {AtRest, [pc |-> "news"]} \cup
  [pc : {"heard", "noted"}, row : JobRow, status : {"active", "paused", "completed", "failed"}]

RowsType == job \in [Jobs -> JobRow] /\ come \subseteq Jobs
TasksType ==
  /\ creating \in Callers \cup {"nobody"}
  /\ caller \in [Callers -> CallerPlace]
  /\ ticker \in TickerPlace
HistoryType ==
  /\ {removed, raced} \subseteq SUBSET Jobs /\ reopened \subseteq Missions
  /\ woken \in [{"tick", "run"} -> [Jobs -> Nat]]
  /\ {launched, retries} \subseteq [Jobs -> Nat]
  /\ {mishaps, asked} \subseteq Nat
EventsType ==
  /\ mission \in [Missions -> MissionRow \cup {NoMission}]
  /\ event \in [Missions -> EventPlace]
\* What is news of a mission is of one that is there, and it does not change
\* before it is settled.
EventsFollow ==
  /\ \A m \in reopened : mission[m] # NoMission
  /\ \A m \in Missions : event[m].pc # "idle" =>
       /\ mission[m] # NoMission
       /\ event[m].pc # "news" => event[m].status = mission[m].status
JobTypes == RowsType /\ TasksType /\ HistoryType /\ EventsType /\ EventsFollow

LEMMA TypesAre == JobTypes => CronTypeOK
BY DEF JobTypes, RowsType, TasksType, HistoryType, EventsType, CronTypeOK, CallerPlace, BusyPcs,
       TickerPlace, EventPlace

LEMMA TypesStart == CronInit => JobTypes
<1> SUFFICES ASSUME CronInit PROVE JobTypes
  OBVIOUS
<1>1. RowsType
  BY DEF CronInit, RowsType, JobRow
<1>2. TasksType
  BY DEF CronInit, TasksType, CallerPlace, TickerPlace
<1>3. HistoryType
  <2>1. raced \subseteq Jobs /\ removed \subseteq Jobs /\ reopened \subseteq Missions
    BY DEF CronInit
  <2> QED
    BY <2>1 DEF CronInit, HistoryType
<1>4. EventsType
  BY DEF CronInit, EventsType, EventPlace
<1>5. EventsFollow
  BY DEF CronInit, EventsFollow, AtRest
<1> QED
  BY <1>1, <1>2, <1>3, <1>4, <1>5 DEF JobTypes

\* A caller that is in a dispatch is at a job.
LEMMA CallerIsAt ==
  ASSUME JobTypes, NEW c \in Callers, caller[c].pc # "idle"
  PROVE  caller[c].job \in Jobs /\ (caller[c].pc # "asked" => caller[c].pc \in BusyPcs)
BY DEF JobTypes, TasksType, CallerPlace, AtRest

\* Steps of a dispatch.
LEMMA DispatchTypes ==
  ASSUME JobTypes, NEW c \in Callers, Dispatch(c)
  PROVE  RowsType' /\ TasksType' /\ EventsType' /\ EventsFollow' /\ asked' \in Nat /\ mishaps' \in Nat
         /\ woken' \in [{"tick", "run"} -> [Jobs -> Nat]] /\ launched' \in [Jobs -> Nat]
         /\ UNCHANGED <<removed, reopened, retries>>
<1> DEFINE t == caller[c].job
<1>1. t \in Jobs
  BY CallerIsAt DEF Dispatch, Open, Wake, RecordWake, DeleteWoken, LookUpMission, InsertMission,
     RecordLaunch, At
<1>2. UNCHANGED ticker
  BY DEF Dispatch, Open, Wake, RecordWake, DeleteWoken, LookUpMission, InsertMission, RecordLaunch
<1>3. \A where \in CallerPlace : Go(c, where) => caller' \in [Callers -> CallerPlace]
  BY DEF JobTypes, TasksType, Go
<1>4. AtRest \in CallerPlace /\ \A pc \in BusyPcs : [pc |-> pc, job |-> t] \in CallerPlace
  BY <1>1 DEF CallerPlace
<1>5. \E where \in CallerPlace : Go(c, where)
  BY <1>4 DEF Dispatch, Open, Wake, RecordWake, DeleteWoken, LookUpMission, InsertMission,
     RecordLaunch, BusyPcs
<1>6. caller' \in [Callers -> CallerPlace]
  BY <1>3, <1>5
<1>7. creating' \in Callers \cup {"nobody"}
  BY DEF Dispatch, Open, Wake, RecordWake, DeleteWoken, LookUpMission, InsertMission, RecordLaunch,
     JobTypes, TasksType
<1>8. TasksType'
  BY <1>2, <1>6, <1>7 DEF JobTypes, TasksType
<1>9. RowsType'
  <2>1. come' = come
    BY DEF Dispatch, Open, Wake, RecordWake, DeleteWoken, LookUpMission, InsertMission, RecordLaunch,
       jobRows
  <2> DEFINE done == [job[t] EXCEPT !.enabled = FALSE, !.status = "completed", !.ran = Ran(t)]
             gone == [job[t] EXCEPT !.there = FALSE]
             runs == [job[t] EXCEPT !.status = "active", !.ran = Ran(t)]
  <2>2. {done, gone, runs} \subseteq JobRow
    <3>1. Ran(t) \in {"early", "late"}
      BY DEF Ran
    <3>2. job[t] \in JobRow
      BY <1>1 DEF JobTypes, RowsType
    <3> QED
      BY <3>1, <3>2 DEF JobRow
  <2>3. UNCHANGED job \/ \E row \in {done, gone, runs} : job' = [job EXCEPT ![t] = row]
    BY DEF Dispatch, Open, Wake, RecordWake, DeleteWoken, LookUpMission, InsertMission, RecordLaunch,
       jobRows, Delete
  <2> HIDE DEF done, gone, runs
  <2> QED
    BY <1>1, <2>1, <2>2, <2>3 DEF JobTypes, RowsType
<1>10. EventsType' /\ EventsFollow'
  <2>1. UNCHANGED <<event, reopened>>
    BY DEF Dispatch, Open, Wake, RecordWake, DeleteWoken, LookUpMission, InsertMission, RecordLaunch,
       jobHistory
  <2>2. ASSUME UNCHANGED mission PROVE EventsType' /\ EventsFollow'
    BY <2>1, <2>2 DEF JobTypes, EventsType, EventsFollow
  <2>3. ASSUME InsertMission(c) PROVE EventsType' /\ EventsFollow'
    <3>1. PICK m \in Missions :
            /\ mission[m] = NoMission
            /\ mission' = [mission EXCEPT ![m] = [job |-> t, status |-> "active"]]
      BY <2>3 DEF InsertMission
    <3>2. [job |-> t, status |-> "active"] \in MissionRow
          /\ [job |-> t, status |-> "active"] # NoMission
      BY <1>1 DEF MissionRow, NoMission
    <3>3. EventsType'
      BY <2>1, <3>1, <3>2 DEF JobTypes, EventsType
    <3>4. EventsFollow'
      BY <2>1, <3>1, <3>2 DEF JobTypes, EventsFollow, EventsType, HistoryType
    <3> QED
      BY <3>3, <3>4
  <2> QED
    BY <2>2, <2>3 DEF Dispatch, Open, Wake, RecordWake, DeleteWoken, LookUpMission, RecordLaunch,
       jobRows
<1>11. /\ asked' \in Nat /\ mishaps' \in Nat /\ UNCHANGED <<removed, reopened, retries>>
       /\ woken' \in [{"tick", "run"} -> [Jobs -> Nat]] /\ launched' \in [Jobs -> Nat]
  <2> USE DEF JobTypes, HistoryType
  <2>1. CASE UNCHANGED jobHistory
    BY <2>1 DEF jobHistory
  <2>2. CASE Wake(c)
    <3>1. By(c) \in {"tick", "run"}
      BY DEF By
    <3> QED
      BY <1>1, <2>2, <3>1 DEF Wake, Mishap
  <2>3. CASE InsertMission(c)
    BY <1>1, <2>3 DEF InsertMission
  <2> QED
    BY <2>1, <2>2, <2>3 DEF Dispatch, Open, RecordWake, DeleteWoken, LookUpMission, RecordLaunch
<1> QED
  BY <1>8, <1>9, <1>10, <1>11

\* Steps of a mission and of its event.
LEMMA MissionTypes ==
  ASSUME JobTypes, NEW m \in Missions, Ends(m) \/ Move(m) \/ Handle(m)
  PROVE  RowsType' /\ TasksType' /\ EventsType' /\ EventsFollow' /\ asked' \in Nat /\ mishaps' \in Nat
         /\ reopened' \subseteq Missions /\ retries' \in [Jobs -> Nat]
         /\ UNCHANGED <<removed, woken, launched>>
<1> USE DEF JobTypes
<1>1. TasksType' /\ UNCHANGED <<removed, woken, launched, mishaps>> /\ come' = come
  BY DEF Ends, Move, Handle, Became, Hear, Note, Settle, jobTasks, jobHistory, jobRows, TasksType
<1>2. CASE Ends(m) \/ Move(m)
  <2>1. PICK status \in {"active", "paused", "completed", "failed"} : Became(m, status)
    BY <1>2 DEF Ends, Move
  <2>2. mission[m] \in MissionRow
    BY <1>2 DEF Ends, Move, EventsType, NoMission
  <2>3. /\ mission' = [mission EXCEPT ![m] = [mission[m] EXCEPT !.status = status]]
        /\ event' = [event EXCEPT ![m] = [pc |-> "news"]]
    BY <2>1 DEF Became
  <2>4. [mission[m] EXCEPT !.status = status] \in MissionRow
        /\ [mission[m] EXCEPT !.status = status] # NoMission
    BY <2>2 DEF MissionRow, NoMission
  <2>5. EventsType'
    BY <2>3, <2>4 DEF EventsType, EventPlace
  <2>6. RowsType' /\ retries' \in [Jobs -> Nat]
    BY <2>1 DEF Became, RowsType, HistoryType
  <2>7. reopened' \subseteq reopened \cup {m} /\ asked' \in Nat
    BY <1>2 DEF Ends, Move, Ask, HistoryType
  <2>8. EventsFollow'
    BY <2>3, <2>4, <2>7 DEF EventsFollow, EventsType, HistoryType
  <2> QED
    BY <1>1, <2>5, <2>6, <2>7, <2>8 DEF HistoryType
<1>3. CASE Handle(m)
  <2> DEFINE t == mission[m].job
  <2>1. UNCHANGED <<mission, reopened, asked>>
    BY <1>3 DEF Handle, Hear, Note, Settle, jobHistory, jobRows
  <2>2. event[m].pc # "idle" /\ mission[m] \in MissionRow /\ t \in Jobs
    <3>1. event[m].pc # "idle"
      BY <1>3 DEF Handle, Hear, Note, Settle
    <3> QED
      BY <3>1 DEF EventsFollow, EventsType, MissionRow
  <2>3. PICK place \in EventPlace :
          /\ event' = [event EXCEPT ![m] = place]
          /\ place.pc \notin {"idle", "news"} => place.status = mission[m].status
    <3>1. CASE Hear(m)
      <4>1. [pc |-> "heard", status |-> mission[m].status, row |-> job[t]] \in EventPlace
        BY <2>2 DEF EventPlace, MissionRow, RowsType
      <4> QED
        BY <3>1, <4>1 DEF Hear
    <3>2. CASE Note(m)
      <4> DEFINE noted == [event[m] EXCEPT !.pc = "noted"]
      <4>1. noted \in EventPlace /\ noted.status = event[m].status
        BY <3>2 DEF EventsType, EventPlace, Note, AtRest
      <4>2. event[m].status = mission[m].status
        BY <3>2 DEF EventsFollow, Note
      <4>3. event' = [event EXCEPT ![m] = noted]
        BY <3>2 DEF Note
      <4> HIDE DEF noted
      <4> QED
        BY <4>1, <4>2, <4>3
    <3>3. CASE Settle(m)
      <4>1. AtRest \in EventPlace /\ AtRest.pc = "idle" /\ event' = [event EXCEPT ![m] = AtRest]
        BY <3>3 DEF Settle, EventPlace, AtRest
      <4> QED
        BY <4>1
    <3> QED
      BY <1>3, <3>1, <3>2, <3>3 DEF Handle
  <2>4. EventsType'
    BY <2>1, <2>3 DEF EventsType
  <2>5. EventsFollow'
    BY <2>1, <2>2, <2>3 DEF EventsFollow, EventsType, NoMission, MissionRow
  <2>6. RowsType' /\ retries' \in [Jobs -> Nat]
    <3>1. CASE Hear(m)
      BY <1>1, <3>1 DEF Hear, jobRows, jobHistory, RowsType, HistoryType
    <3>2. CASE Note(m)
      <4>1. event[m].status \in {"active", "paused", "completed", "failed"}
        BY <2>2, <3>2 DEF EventsType, EventPlace, Note, AtRest
      <4> DEFINE row == [job[t] EXCEPT !.status = event[m].status]
      <4>2. job[t] \in JobRow
        BY <2>2 DEF RowsType
      <4>3. row \in JobRow
        BY <4>1, <4>2 DEF JobRow
      <4>4. job' = [job EXCEPT ![t] = row] /\ UNCHANGED retries
        BY <3>2 DEF Note, jobHistory
      <4> HIDE DEF row
      <4> QED
        BY <1>1, <2>2, <4>3, <4>4 DEF RowsType, HistoryType
    <3>3. CASE Settle(m)
      <4>1. \/ UNCHANGED job
            \/ job' = [job EXCEPT ![t] = [job[t] EXCEPT !.enabled = FALSE, !.retry = FALSE]]
            \/ job' = [job EXCEPT ![t] = [job[t] EXCEPT !.retry = TRUE]]
            \/ \E b, c \in BOOLEAN : job' = [job EXCEPT ![t] =
                 [job[t] EXCEPT !.retry = FALSE, !.enabled = @ /\ b, !.there = @ /\ c]]
        BY <3>3 DEF Settle, Disable
      <4>2. job[t] \in JobRow
        BY <2>2 DEF RowsType
      <4>3. job' \in [Jobs -> JobRow]
        <5>1. \A r \in JobRow : [job EXCEPT ![t] = r] \in [Jobs -> JobRow]
          BY DEF RowsType
        <5>2. /\ [job[t] EXCEPT !.enabled = FALSE, !.retry = FALSE] \in JobRow
              /\ [job[t] EXCEPT !.retry = TRUE] \in JobRow
              /\ \A b, c \in BOOLEAN :
                   [job[t] EXCEPT !.retry = FALSE, !.enabled = @ /\ b, !.there = @ /\ c] \in JobRow
          BY <4>2 DEF JobRow
        <5>3. CASE UNCHANGED job
          BY <5>3 DEF RowsType
        <5> QED
          BY <4>1, <5>1, <5>2, <5>3
      <4>4. retries' \in [Jobs -> Nat]
        BY <2>2, <3>3 DEF Settle, HistoryType
      <4> QED
        BY <1>1, <4>3, <4>4 DEF RowsType
    <3> QED
      BY <1>3, <3>1, <3>2, <3>3 DEF Handle
  <2> QED
    BY <1>1, <2>1, <2>4, <2>5, <2>6 DEF HistoryType
<1> QED
  BY <1>2, <1>3

LEMMA TickTypes ==
  ASSUME JobTypes, ListTasks \/ ListMissions \/ TickTask \/ TickEnds
  PROVE  TasksType' /\ UNCHANGED <<job, come, mission, event, removed, woken, launched, reopened,
                                   retries, mishaps, asked>>
<1>1. UNCHANGED <<job, come, mission, event, creating, removed, woken, launched, reopened,
                  retries, mishaps, asked>>
  BY DEF ListTasks, ListMissions, TickTask, TickEnds, jobRows, jobHistory
<1>2. caller' \in [Callers -> CallerPlace]
  <2>1. CASE UNCHANGED caller
    BY <2>1 DEF JobTypes, TasksType
  <2>2. CASE TickTask
    <3>1. PICK t \in Launchable : Go(Tick, [pc |-> "open", job |-> t])
      BY <2>2 DEF TickTask
    <3>2. t \in Jobs
      BY <2>2, <3>1 DEF TickTask, Launchable, JobTypes, TasksType, TickerPlace, AtRest
    <3>3. [pc |-> "open", job |-> t] \in CallerPlace
      BY <3>2 DEF CallerPlace, BusyPcs
    <3> QED
      BY <3>1, <3>3 DEF Go, JobTypes, TasksType
  <2> QED
    BY <2>1, <2>2 DEF ListTasks, ListMissions, TickEnds
<1>3. ticker' \in TickerPlace
  <2>1. CASE ListTasks
    <3>1. [pc |-> "tasks", rows |-> job] \in TickerPlace
      BY DEF TickerPlace, JobTypes, RowsType
    <3> QED
      BY <2>1, <3>1 DEF ListTasks
  <2>2. CASE ListMissions
    <3>1. ticker.rows \in [Jobs -> JobRow]
      BY <2>2 DEF ListMissions, JobTypes, TasksType, TickerPlace, AtRest
    <3> DEFINE todo == {t \in Jobs : ticker.rows[t].there /\ InState(t, {"active"}) = {}}
    <3>2. todo \in SUBSET Jobs
      OBVIOUS
    <3>3. ticker' = [pc |-> "loop", rows |-> ticker.rows, todo |-> todo]
      BY <2>2 DEF ListMissions
    <3> HIDE DEF todo
    <3> QED
      BY <3>1, <3>2, <3>3 DEF TickerPlace
  <2>3. CASE TickTask
    <3>1. PICK t \in Launchable : ticker' = [ticker EXCEPT !.todo = @ \ {t}]
      BY <2>3 DEF TickTask
    <3>2. ticker \in [pc : {"loop"}, rows : [Jobs -> JobRow], todo : SUBSET Jobs]
      BY <2>3 DEF TickTask, JobTypes, TasksType, TickerPlace, AtRest
    <3> QED
      BY <3>1, <3>2 DEF TickerPlace
  <2>4. CASE TickEnds
    BY <2>4 DEF TickEnds, TickerPlace
  <2> QED
    BY <2>1, <2>2, <2>3, <2>4
<1> QED
  BY <1>1, <1>2, <1>3 DEF JobTypes, TasksType

LEMMA TypesStep == JobTypes /\ [CronNext]_cronVars => JobTypes'
<1> SUFFICES ASSUME JobTypes, [CronNext]_cronVars PROVE JobTypes'
  OBVIOUS
<1> DEFINE Histories ==
             /\ removed' \subseteq Jobs /\ reopened' \subseteq Missions
             /\ woken' \in [{"tick", "run"} -> [Jobs -> Nat]]
             /\ launched' \in [Jobs -> Nat] /\ retries' \in [Jobs -> Nat]
             /\ mishaps' \in Nat /\ asked' \in Nat
           Good == RowsType' /\ TasksType' /\ EventsType' /\ EventsFollow' /\ Histories
<1>1. ASSUME NEW c \in Callers, Dispatch(c) PROVE Good
  BY <1>1, DispatchTypes DEF JobTypes, HistoryType
<1>2. ASSUME ListTasks \/ ListMissions \/ TickTask \/ TickEnds PROVE Good
  BY <1>2, TickTypes DEF JobTypes, HistoryType, RowsType, EventsType, EventsFollow
<1>3. ASSUME NEW m \in Missions, Ends(m) \/ Move(m) \/ Handle(m) PROVE Good
  BY <1>3, MissionTypes DEF JobTypes, HistoryType
<1>4. ASSUME NEW o \in Operators, NEW t \in Jobs, AskRun(o, t) PROVE Good
  <2>1. TasksType'
    <3>1. PICK force \in BOOLEAN :
            Go(o, [pc |-> "asked", job |-> t, row |-> job[t], force |-> force])
      BY <1>4 DEF AskRun
    <3>2. [pc |-> "asked", job |-> t, row |-> job[t], force |-> force] \in CallerPlace
      BY DEF CallerPlace, JobTypes, RowsType
    <3> QED
      BY <1>4, <3>1, <3>2 DEF AskRun, Go, JobTypes, TasksType
  <2> QED
    BY <1>4, <2>1 DEF AskRun, jobRows, Ask, JobTypes, HistoryType, RowsType, EventsType, EventsFollow
<1>5. ASSUME NEW o \in Operators, CheckRun(o) PROVE Good
  <2>1. caller[o].job \in Jobs
    BY <1>5, CallerIsAt DEF CheckRun, At, Callers
  <2>2. TasksType'
    <3>1. AtRest \in CallerPlace /\ [pc |-> "open", job |-> caller[o].job] \in CallerPlace
      BY <2>1 DEF CallerPlace, BusyPcs
    <3>2. Go(o, AtRest) \/ Go(o, [pc |-> "open", job |-> caller[o].job])
      BY <1>5 DEF CheckRun
    <3> QED
      BY <1>5, <3>1, <3>2 DEF CheckRun, Go, JobTypes, TasksType
  <2> QED
    BY <1>5, <2>2 DEF CheckRun, jobRows, jobHistory, JobTypes, HistoryType, RowsType, EventsType,
       EventsFollow
<1>6. ASSUME NEW t \in Jobs, RemoveJob(t) \/ Come(t) PROVE Good
  <2>1. RowsType'
    <3>1. [job[t] EXCEPT !.there = FALSE] \in JobRow
      BY DEF JobTypes, RowsType, JobRow
    <3>2. job' \in {job, [job EXCEPT ![t] = [job[t] EXCEPT !.there = FALSE]]}
          /\ come' \in {come, come \cup {t}}
      BY <1>6 DEF RemoveJob, Come, Delete
    <3> QED
      BY <3>1, <3>2 DEF JobTypes, RowsType
  <2>2. UNCHANGED <<mission, creating, caller, ticker, event, woken, launched, reopened, retries,
                    mishaps>>
    BY <1>6 DEF RemoveJob, Come, jobTasks, jobHistory
  <2>3. removed' \subseteq Jobs /\ asked' \in Nat
    BY <1>6 DEF RemoveJob, Come, Ask, jobHistory, JobTypes, HistoryType
  <2> QED
    BY <2>1, <2>2, <2>3 DEF JobTypes, HistoryType, TasksType, EventsType, EventsFollow
<1>7. ASSUME CrashJobs PROVE Good
  <2>1. TasksType' /\ EventsType' /\ EventsFollow'
    BY <1>7 DEF CrashJobs, jobRows, JobTypes, TasksType, CallerPlace, TickerPlace, EventsType,
       EventPlace, EventsFollow, AtRest
  <2> QED
    BY <1>7, <2>1 DEF CrashJobs, jobRows, Mishap, JobTypes, HistoryType, RowsType
<1>8. ASSUME UNCHANGED cronVars PROVE Good
  BY <1>8 DEF cronVars, jobRows, jobTasks, jobHistory, JobTypes, HistoryType, RowsType, TasksType,
     EventsType, EventsFollow
<1>9. raced' \subseteq Jobs
  BY DEF CronNext, cronVars, JobTypes, HistoryType
<1> HIDE DEF Good
<1>10. Good
  BY <1>1, <1>2, <1>3, <1>4, <1>5, <1>6, <1>7, <1>8
     DEF CronNext, CronStep, TickStep, RunStep, Callers
<1> QED
  BY <1>9, <1>10 DEF Good, JobTypes, HistoryType

\* The rows of jobs and missions, the tick, the calls of cron.run and the
\* events that are handled keep their types.
THEOREM CronTypeCorrect == CronSpec => []CronTypeOK
BY TypesStart, TypesStep, TypesAre, PTL DEF CronSpec

---------------------------------------------------------------------------
(* A job that will not run any more has run *)

Ended == {"completed", "failed"}

WasRun(t) ==
  \/ t \in removed
  \/ woken["tick"][t] + woken["run"][t] > 0
  \/ InState(t, Ended) # {}
  \/ \E m \in reopened : mission[m].job = t

\* Who records a wake or deletes a job has woken the session.
SpentInv ==
  /\ \A t \in Jobs : ~(job[t].there /\ job[t].enabled) => WasRun(t)
  /\ \A c \in Callers, t \in Jobs :
       caller[c].pc \in {"woken", "deleting"} /\ caller[c].job = t => WasRun(t)

\* What the rows of jobs and missions and the histories never lose.
LEMMA MissionsMove ==
  ASSUME JobTypes, [CronNext]_cronVars, NEW m \in Missions, mission[m] # NoMission
  PROVE  /\ mission'[m] # NoMission /\ mission'[m].job = mission[m].job
         /\ mission[m].status \in Ended => mission'[m].status \in Ended \/ m \in reopened'
<1>1. CASE UNCHANGED mission
  BY <1>1
<1>2. mission[m] \in MissionRow
  BY DEF JobTypes, EventsType
<1>3. ASSUME NEW c \in Callers, InsertMission(c) PROVE mission'[m] = mission[m]
  BY <1>3 DEF InsertMission, JobTypes, EventsType
<1>4. ASSUME NEW n \in Missions, Ends(n) \/ Move(n)
      PROVE  /\ mission'[m] # NoMission /\ mission'[m].job = mission[m].job
             /\ mission[m].status \in Ended => mission'[m].status \in Ended \/ m \in reopened'
  <2>1. PICK status : Became(n, status)
    BY <1>4 DEF Ends, Move
  <2>2. CASE n # m
    BY <2>1, <2>2 DEF Became, JobTypes, EventsType
  <2>3. CASE n = m
    BY <1>2, <1>4, <2>1, <2>3 DEF Became, JobTypes, EventsType, MissionRow, NoMission, Ends, Move, Ended
  <2> QED
    BY <2>2, <2>3
<1>5. ASSUME NEW c \in Callers, Dispatch(c), ~InsertMission(c) PROVE UNCHANGED mission
  BY <1>5 DEF Dispatch, Open, Wake, RecordWake, DeleteWoken, LookUpMission, RecordLaunch, jobRows
<1>6. ASSUME \/ ListTasks \/ ListMissions \/ TickTask \/ TickEnds
             \/ \E o \in Operators : CheckRun(o) \/ \E t \in Jobs : AskRun(o, t)
             \/ \E t \in Jobs : RemoveJob(t) \/ Come(t)
             \/ \E n \in Missions : Handle(n)
             \/ CrashJobs \/ UNCHANGED cronVars
      PROVE  UNCHANGED mission
  BY <1>6 DEF ListTasks, ListMissions, TickTask, TickEnds, CheckRun, AskRun, RemoveJob, Come, Handle,
     Hear, Note, Settle, CrashJobs, cronVars, jobRows
<1> QED
  BY <1>1, <1>3, <1>4, <1>5, <1>6 DEF CronNext, CronStep, TickStep, RunStep, Callers

LEMMA HistoryGrows ==
  ASSUME JobTypes, [CronNext]_cronVars
  PROVE  /\ removed \subseteq removed' /\ reopened \subseteq reopened' /\ raced \subseteq raced'
         /\ come \subseteq come'
         /\ \A b \in {"tick", "run"}, t \in Jobs : woken[b][t] <= woken'[b][t]
         /\ \A t \in Jobs : retries[t] <= retries'[t]
         /\ mishaps <= mishaps'
<1> DEFINE Grow == /\ removed \subseteq removed' /\ reopened \subseteq reopened'
                   /\ come \subseteq come'
                   /\ \A b \in {"tick", "run"}, t \in Jobs : woken[b][t] <= woken'[b][t]
                   /\ \A t \in Jobs : retries[t] <= retries'[t]
                   /\ mishaps <= mishaps'
<1>0. /\ \A b \in {"tick", "run"}, t \in Jobs : woken[b][t] \in Nat
      /\ \A t \in Jobs : retries[t] \in Nat
      /\ mishaps \in Nat
  BY DEF JobTypes, HistoryType
<1>1. ASSUME UNCHANGED <<removed, reopened, come, woken, retries, mishaps>> PROVE Grow
  BY <1>0, <1>1
<1>2. ASSUME NEW c \in Callers, Wake(c) PROVE Grow
  <2>1. \A b \in {"tick", "run"}, t \in Jobs : woken[b][t] <= woken'[b][t]
    BY <1>0, <1>2 DEF Wake, JobTypes, HistoryType
  <2>2. mishaps <= mishaps'
    BY <1>0, <1>2 DEF Wake, Mishap
  <2> QED
    BY <1>0, <1>2, <2>1, <2>2 DEF Wake, jobRows
<1>3. ASSUME NEW c \in Callers, Dispatch(c), ~Wake(c) PROVE Grow
  BY <1>1, <1>3 DEF Dispatch, Open, RecordWake, DeleteWoken, LookUpMission, InsertMission,
     RecordLaunch, jobRows, jobHistory
<1>4. ASSUME NEW m \in Missions, Ends(m) \/ Move(m) PROVE Grow
  <2>1. UNCHANGED <<removed, come, woken, retries, mishaps>> /\ reopened \subseteq reopened'
    BY <1>4 DEF Ends, Move, Became
  <2> QED
    BY <1>0, <2>1
<1>5. ASSUME NEW m \in Missions, Handle(m) PROVE Grow
  <2>1. UNCHANGED <<removed, come, woken, mishaps, reopened>>
    BY <1>5 DEF Handle, Hear, Note, Settle, jobRows, jobHistory
  <2>2. \A t \in Jobs : retries[t] <= retries'[t]
    BY <1>0, <1>5 DEF Handle, Hear, Note, Settle, jobHistory, JobTypes, HistoryType
  <2> QED
    BY <1>0, <2>1, <2>2
<1>6. ASSUME NEW t \in Jobs, RemoveJob(t) \/ Come(t) PROVE Grow
  BY <1>0, <1>6 DEF RemoveJob, Come, jobHistory
<1>7. ASSUME CrashJobs PROVE Grow
  BY <1>0, <1>7 DEF CrashJobs, jobRows, Mishap
<1>8. ASSUME \/ ListTasks \/ ListMissions \/ TickTask \/ TickEnds
             \/ \E o \in Operators : CheckRun(o) \/ \E t \in Jobs : AskRun(o, t)
             \/ UNCHANGED cronVars
      PROVE  Grow
  <2>1. UNCHANGED <<removed, reopened, come, woken, retries, mishaps>>
    BY <1>8 DEF ListTasks, ListMissions, TickTask, TickEnds, CheckRun, AskRun, cronVars, jobRows,
       jobHistory
  <2> QED
    BY <1>1, <2>1
<1>9. raced \subseteq raced'
  BY DEF CronNext, cronVars
<1> HIDE DEF Grow
<1>10. Grow
  BY <1>2, <1>3, <1>4, <1>5, <1>6, <1>7, <1>8 DEF CronNext, CronStep, TickStep, RunStep, Callers
<1> QED
  BY <1>9, <1>10 DEF Grow

LEMMA WasRunStays ==
  ASSUME JobTypes, [CronNext]_cronVars, NEW t \in Jobs, WasRun(t)
  PROVE  WasRun(t)'
<1>1. CASE t \in removed
  BY <1>1, HistoryGrows DEF WasRun
<1>2. CASE woken["tick"][t] + woken["run"][t] > 0
  <2>1. \A b \in {"tick", "run"} : woken[b][t] \in Nat /\ woken'[b][t] \in Nat
    BY TypesStep DEF JobTypes, HistoryType
  <2>2. woken'["tick"][t] + woken'["run"][t] > 0
    BY <1>2, <2>1, HistoryGrows
  <2> QED
    BY <2>2 DEF WasRun
<1>3. ASSUME NEW m \in InState(t, Ended) PROVE WasRun(t)'
  <2>1. m \in Missions /\ mission[m] # NoMission /\ mission[m].job = t /\ mission[m].status \in Ended
    BY DEF InState, NoMission, Ended
  <2>2. mission'[m].job = t /\ (mission'[m].status \in Ended \/ m \in reopened')
    BY <2>1, MissionsMove
  <2> QED
    BY <2>1, <2>2 DEF WasRun, InState
<1>4. ASSUME NEW m \in reopened, mission[m].job = t PROVE WasRun(t)'
  <2>1. m \in Missions /\ mission[m] # NoMission
    BY DEF JobTypes, HistoryType, EventsFollow
  <2>2. mission'[m].job = t /\ m \in reopened'
    BY <1>4, <2>1, MissionsMove, HistoryGrows
  <2> QED
    BY <2>2 DEF WasRun
<1> QED
  BY <1>1, <1>2, <1>3, <1>4 DEF WasRun

\* What a step makes of the row of a job.
RowBecomes(old, new, ran) ==
  /\ new.enabled => old.enabled
  /\ new.there => old.there
  /\ new.ran \in {old.ran, ran}

LEMMA RowsFade ==
  ASSUME JobTypes, [CronNext]_cronVars, NEW t \in Jobs
  PROVE  RowBecomes(job[t], job'[t], Ran(t))
<1> USE DEF RowBecomes
<1>0. job \in [Jobs -> JobRow] /\ job[t] \in JobRow
  BY DEF JobTypes, RowsType
<1>1. ASSUME UNCHANGED job PROVE RowBecomes(job[t], job'[t], Ran(t))
  BY <1>1
<1>2. ASSUME NEW u \in Jobs, u # t, NEW row, job' = [job EXCEPT ![u] = row]
      PROVE  RowBecomes(job[t], job'[t], Ran(t))
  BY <1>0, <1>2
<1>3. ASSUME NEW row, job' = [job EXCEPT ![t] = row], RowBecomes(job[t], row, Ran(t))
      PROVE  RowBecomes(job[t], job'[t], Ran(t))
  BY <1>0, <1>3
<1>4. ASSUME NEW c \in Callers, Dispatch(c), ~UNCHANGED job PROVE RowBecomes(job[t], job'[t], Ran(t))
  <2> DEFINE u == caller[c].job
             done == [job[u] EXCEPT !.enabled = FALSE, !.status = "completed", !.ran = Ran(u)]
             gone == [job[u] EXCEPT !.there = FALSE]
             runs == [job[u] EXCEPT !.status = "active", !.ran = Ran(u)]
  <2>1. u \in Jobs
    BY <1>4, CallerIsAt DEF Dispatch, Open, Wake, RecordWake, DeleteWoken, LookUpMission,
       InsertMission, RecordLaunch, At
  <2>2. job' = [job EXCEPT ![u] = done] \/ job' = [job EXCEPT ![u] = gone]
        \/ job' = [job EXCEPT ![u] = runs]
    BY <1>4 DEF Dispatch, Open, Wake, RecordWake, DeleteWoken, LookUpMission, InsertMission,
       RecordLaunch, jobRows, Delete
  <2>3. u = t => /\ RowBecomes(job[t], done, Ran(t)) /\ RowBecomes(job[t], gone, Ran(t))
                 /\ RowBecomes(job[t], runs, Ran(t))
    BY <1>0 DEF JobRow
  <2> HIDE DEF u, done, gone, runs, RowBecomes
  <2> QED
    BY <1>2, <1>3, <2>1, <2>2, <2>3
<1>5. ASSUME NEW m \in Missions, Handle(m) PROVE RowBecomes(job[t], job'[t], Ran(t))
  <2> DEFINE u == mission[m].job
  <2>1. u \in Jobs
    <3>1. event[m].pc # "idle"
      BY <1>5 DEF Handle, Hear, Note, Settle
    <3> QED
      BY <3>1 DEF JobTypes, EventsFollow, EventsType, MissionRow
  <2>2. \/ UNCHANGED job
        \/ job' = [job EXCEPT ![u] = [job[u] EXCEPT !.status = event[m].status]]
        \/ job' = [job EXCEPT ![u] = [job[u] EXCEPT !.enabled = FALSE, !.retry = FALSE]]
        \/ job' = [job EXCEPT ![u] = [job[u] EXCEPT !.retry = TRUE]]
        \/ \E b, c \in BOOLEAN : job' = [job EXCEPT ![u] =
             [job[u] EXCEPT !.retry = FALSE, !.enabled = @ /\ b, !.there = @ /\ c]]
    BY <1>5 DEF Handle, Hear, Note, Settle, Disable, jobRows
  <2> HIDE DEF u
  <2>3. u = t =>
          /\ \A s : RowBecomes(job[t], [job[u] EXCEPT !.status = s], Ran(t))
          /\ RowBecomes(job[t], [job[u] EXCEPT !.enabled = FALSE, !.retry = FALSE], Ran(t))
          /\ RowBecomes(job[t], [job[u] EXCEPT !.retry = TRUE], Ran(t))
          /\ \A b, c \in BOOLEAN : RowBecomes(job[t],
               [job[u] EXCEPT !.retry = FALSE, !.enabled = @ /\ b, !.there = @ /\ c], Ran(t))
    BY <1>0 DEF JobRow
  <2> HIDE DEF RowBecomes
  <2> QED
    BY <1>1, <1>2, <1>3, <2>1, <2>2, <2>3
<1>6. ASSUME NEW u \in Jobs, RemoveJob(u) \/ Come(u) PROVE RowBecomes(job[t], job'[t], Ran(t))
  BY <1>0, <1>6 DEF RemoveJob, Come, Delete, JobRow
<1>7. ASSUME \/ ListTasks \/ ListMissions \/ TickTask \/ TickEnds
             \/ \E o \in Operators : CheckRun(o) \/ \E u \in Jobs : AskRun(o, u)
             \/ \E m \in Missions : Ends(m) \/ Move(m)
             \/ CrashJobs \/ UNCHANGED cronVars
      PROVE  UNCHANGED job
  BY <1>7 DEF ListTasks, ListMissions, TickTask, TickEnds, CheckRun, AskRun, Ends, Move, Became,
     CrashJobs, cronVars, jobRows
<1> HIDE DEF RowBecomes
<1> QED
  BY <1>1, <1>4, <1>5, <1>6, <1>7 DEF CronNext, CronStep, TickStep, RunStep, Callers

LEMMA SpentStarts == CronInit => SpentInv
<1> SUFFICES ASSUME CronInit PROVE SpentInv
  OBVIOUS
<1>1. \A t \in Jobs : job[t].enabled /\ (~job[t].there => t \in removed)
  BY DEF CronInit
<1>2. \A c \in Callers : caller[c].pc = "idle"
  BY DEF CronInit, AtRest
<1> QED
  BY <1>1, <1>2 DEF SpentInv, WasRun

LEMMA SpentStep == JobTypes /\ SpentInv /\ [CronNext]_cronVars => SpentInv'
<1> SUFFICES ASSUME JobTypes, SpentInv, [CronNext]_cronVars PROVE SpentInv'
  OBVIOUS
<1> DEFINE Runs(t) == job[t].there /\ job[t].enabled
           Spends == \A t \in Jobs : Runs(t) /\ ~Runs(t)' => WasRun(t)'
           Wakes == \A c \in Callers, t \in Jobs :
                      caller'[c].pc \in {"woken", "deleting"} /\ caller'[c].job = t => WasRun(t)'
<1>0. /\ \A t \in Jobs : WasRun(t) => WasRun(t)'
      /\ \A c \in Callers, t \in Jobs :
           caller[c].pc \in {"woken", "deleting"} /\ caller[c].job = t => WasRun(t)'
  BY WasRunStays DEF SpentInv
<1>1. ASSUME UNCHANGED job PROVE Spends
  BY <1>1
<1>2. ASSUME UNCHANGED caller PROVE Wakes
  BY <1>0, <1>2
<1>3. ASSUME NEW c \in Callers, NEW where, Go(c, where),
             \A t \in Jobs : where.pc \in {"woken", "deleting"} /\ where.job = t => WasRun(t)'
      PROVE  Wakes
  BY <1>0, <1>3 DEF Go, JobTypes, TasksType
<1>4. ASSUME NEW c \in Callers, Wake(c) PROVE Spends /\ Wakes
  <2>1. PICK t \in Jobs : t = caller[c].job
    BY <1>4, CallerIsAt DEF Wake, At
  <2>2. By(c) \in {"tick", "run"} /\ woken' = [woken EXCEPT ![By(c)][t] = @ + 1]
    BY <1>4, <2>1 DEF Wake, By
  <2>3. /\ woken["tick"][t] \in Nat /\ woken["run"][t] \in Nat
        /\ woken \in [{"tick", "run"} -> [Jobs -> Nat]]
    BY <2>1 DEF JobTypes, HistoryType
  <2>4. woken'["tick"][t] + woken'["run"][t] > 0
    BY <2>1, <2>2, <2>3
  <2>5. WasRun(t)'
    BY <2>4 DEF WasRun
  <2>6. [pc |-> "woken", job |-> t].job = t /\ AtRest.pc = "idle"
    BY DEF AtRest
  <2>7. UNCHANGED job /\ (Go(c, [pc |-> "woken", job |-> t]) \/ Go(c, AtRest))
    BY <1>4, <2>1 DEF Wake, jobRows
  <2> HIDE DEF Spends, Wakes
  <2> QED
    BY <1>1, <1>3, <2>1, <2>5, <2>6, <2>7
<1>5. ASSUME NEW c \in Callers, RecordWake(c) \/ DeleteWoken(c) PROVE Spends /\ Wakes
  <2>1. PICK t \in Jobs : t = caller[c].job /\ WasRun(t)'
    BY <1>0, <1>5, CallerIsAt DEF RecordWake, DeleteWoken, At
  <2>2. Spends
    <3>1. \A u \in Jobs \ {t} : job'[u] = job[u]
      BY <1>5, <2>1 DEF RecordWake, DeleteWoken, Delete, JobTypes, RowsType
    <3> QED
      BY <2>1, <3>1
  <2>3. [pc |-> "deleting", job |-> t].job = t /\ AtRest.pc = "idle"
    BY DEF AtRest
  <2>4. Go(c, [pc |-> "deleting", job |-> t]) \/ Go(c, AtRest)
    BY <1>5, <2>1 DEF RecordWake, DeleteWoken
  <2> HIDE DEF Spends, Wakes
  <2> QED
    BY <1>3, <2>1, <2>2, <2>3, <2>4
<1>6. ASSUME NEW c \in Callers,
             Open(c) \/ LookUpMission(c) \/ InsertMission(c) \/ RecordLaunch(c)
      PROVE  Spends /\ Wakes
  <2> DEFINE t == caller[c].job
  <2>1. Spends
    BY <1>6 DEF Open, LookUpMission, InsertMission, RecordLaunch, jobRows, JobTypes, RowsType, JobRow
  <2>2. PICK where : Go(c, where) /\ where.pc \notin {"woken", "deleting"}
    BY <1>6 DEF Open, LookUpMission, InsertMission, RecordLaunch, AtRest
  <2> HIDE DEF Spends, Wakes
  <2> QED
    BY <1>3, <2>1, <2>2
<1>7. ASSUME NEW m \in Missions, Handle(m) PROVE Spends /\ Wakes
  <2>1. UNCHANGED <<mission, caller, reopened>>
    BY <1>7 DEF Handle, Hear, Note, Settle, jobTasks, jobRows, jobHistory
  <2>2. Spends
    <3>1. CASE Hear(m)
      BY <3>1 DEF Hear, jobRows
    <3>2. PICK t \in Jobs : event[m].pc # "idle" /\ mission[m] \in MissionRow /\ t = mission[m].job
      <4>1. event[m].pc # "idle"
        BY <1>7 DEF Handle, Hear, Note, Settle
      <4> QED
        BY <4>1 DEF JobTypes, EventsFollow, EventsType, MissionRow
    <3>3. CASE Note(m)
      BY <3>2, <3>3 DEF Note, JobTypes, RowsType, JobRow
    <3>4. CASE Settle(m)
      <4>1. event[m].status = mission[m].status
        BY <3>4 DEF Settle, JobTypes, EventsFollow
      <4>2. CASE mission[m].status \in Ended
        <5>1. m \in InState(t, Ended)'
          BY <2>1, <3>2, <4>2 DEF InState
        <5>2. WasRun(t)'
          BY <5>1 DEF WasRun
        <5>3. \A u \in Jobs \ {t} : job'[u] = job[u]
          BY <3>2, <3>4 DEF Settle, Disable, JobTypes, RowsType
        <5> QED
          BY <5>2, <5>3
      <4>3. CASE mission[m].status \notin Ended
        <5>1. UNCHANGED job
          BY <3>4, <4>1, <4>3 DEF Settle, Ended
        <5> QED
          BY <5>1
      <4> QED
        BY <4>2, <4>3
    <3> QED
      BY <1>7, <3>1, <3>3, <3>4 DEF Handle
  <2> QED
    BY <1>2, <2>1, <2>2
<1>8. ASSUME NEW t \in Jobs, RemoveJob(t) \/ Come(t) PROVE Spends /\ Wakes
  <2>1. UNCHANGED caller
    BY <1>8 DEF RemoveJob, Come, jobTasks
  <2>2. Spends
    BY <1>8 DEF RemoveJob, Come, Delete, WasRun, JobTypes, RowsType
  <2> QED
    BY <1>2, <2>1, <2>2
<1>9. ASSUME TickTask PROVE Spends /\ Wakes
  <2>1. PICK t : Go(Tick, [pc |-> "open", job |-> t])
    BY <1>9 DEF TickTask
  <2>2. [pc |-> "open", job |-> t].pc = "open" /\ UNCHANGED job /\ Tick \in Callers
    BY <1>9 DEF TickTask, jobRows, Callers
  <2> HIDE DEF Spends, Wakes
  <2> QED
    BY <1>1, <1>3, <2>1, <2>2
<1>10. ASSUME NEW o \in Operators, CheckRun(o) \/ \E t \in Jobs : AskRun(o, t)
       PROVE  Spends /\ Wakes
  <2>1. PICK where : Go(o, where) /\ where.pc \notin {"woken", "deleting"}
    <3>1. CASE CheckRun(o)
      BY <3>1 DEF CheckRun, AtRest
    <3>2. ASSUME NEW t \in Jobs, AskRun(o, t) PROVE \E where : Go(o, where) /\ where.pc = "asked"
      BY <3>2 DEF AskRun
    <3> QED
      BY <1>10, <3>1, <3>2
  <2>2. UNCHANGED job /\ o \in Callers
    BY <1>10 DEF CheckRun, AskRun, jobRows, Callers
  <2> HIDE DEF Spends, Wakes
  <2> QED
    BY <1>1, <1>3, <2>1, <2>2
<1>11. ASSUME CrashJobs PROVE Spends /\ Wakes
  BY <1>11 DEF CrashJobs, jobRows, AtRest
<1>12. ASSUME \/ ListTasks \/ ListMissions \/ TickEnds \/ UNCHANGED cronVars
              \/ \E m \in Missions : Ends(m) \/ Move(m)
       PROVE  Spends /\ Wakes
  <2>1. UNCHANGED <<job, caller>>
    BY <1>12 DEF ListTasks, ListMissions, TickEnds, Ends, Move, Became, cronVars, jobRows, jobTasks
  <2> QED
    BY <1>1, <1>2, <2>1
<1>13. Spends /\ Wakes
  <2> HIDE DEF Spends, Wakes
  <2> QED
    BY <1>4, <1>5, <1>6, <1>7, <1>8, <1>9, <1>10, <1>11, <1>12
       DEF CronNext, CronStep, TickStep, RunStep, Callers, Dispatch
<1>14. ASSUME NEW t \in Jobs, ~Runs(t)' PROVE WasRun(t)'
  BY <1>0, <1>13, <1>14 DEF SpentInv
<1> QED
  BY <1>13, <1>14 DEF SpentInv

\* Whatever fails, dies or is stale when it is used: a job that will not run
\* any more was woken, has a mission that ended, or was removed.
THEOREM SpentJobsWereRun == CronSpec => []SpentWasRun
<1>1. SpentInv => SpentWasRun
  BY DEF SpentInv, SpentWasRun, WasRun, Ended
<1> QED
  BY <1>1, TypesStart, TypesStep, SpentStarts, SpentStep, PTL DEF CronSpec

---------------------------------------------------------------------------
(* The tick runs a one-shot job once *)

TickAt(t, pcs) == caller[Tick].pc \in pcs /\ caller[Tick].job = t
TickListed(t) ==
  \/ ticker.pc = "tasks" /\ ticker.rows[t].there
  \/ ticker.pc = "loop" /\ t \in ticker.todo
ListedToRun(t) == TickListed(t) /\ ticker.rows[t].enabled

\* The tick dispatches one job at a time, whose time has come.
TickBusy ==
  ~At(Tick, "idle") =>
    ticker.pc = "loop" /\ caller[Tick].job \notin ticker.todo /\ caller[Tick].job \in come

\* Until the tick has woken a job there is a mishap to spare for each time it
\* did; the row is disabled before the tick is at it again.
WakeSpare(t) == woken["tick"][t] <= mishaps
WakesInv ==
  \A t \in Jobs :
    /\ woken["tick"][t] <= 1 + mishaps
    /\ TickAt(t, {"open", "waking"}) => WakeSpare(t)
    /\ ListedToRun(t) => WakeSpare(t)
    /\ job[t].enabled /\ ~TickAt(t, {"woken"}) => WakeSpare(t)

LEMMA OthersLeaveTick ==
  ASSUME JobTypes, [CronNext]_cronVars, ~TickStep, ~CrashJobs
  PROVE  /\ caller'[Tick] = caller[Tick] /\ ticker' = ticker
         /\ \A t \in Jobs : woken'["tick"][t] = woken["tick"][t] /\ launched'[t] = launched[t]
<1> DEFINE Good == /\ caller'[Tick] = caller[Tick] /\ ticker' = ticker
                   /\ \A t \in Jobs : /\ woken'["tick"][t] = woken["tick"][t]
                                      /\ launched'[t] = launched[t]
<1> USE DEF JobTypes, HistoryType, TasksType
<1>1. ASSUME NEW o \in Operators, Dispatch(o) PROVE Good
  <2>1. o # Tick /\ o \in Callers
    BY ScheduledJobsAssumption DEF Callers
  <2>2. ticker' = ticker
    BY <1>1 DEF Dispatch, Open, Wake, RecordWake, DeleteWoken, LookUpMission, InsertMission,
       RecordLaunch
  <2>3. caller'[Tick] = caller[Tick]
    BY <1>1, <2>1 DEF Dispatch, Open, Wake, RecordWake, DeleteWoken, LookUpMission, InsertMission,
       RecordLaunch, Go, Callers
  <2>4. \A t \in Jobs : woken'["tick"][t] = woken["tick"][t]
    <3>1. By(o) = "run"
      BY <2>1 DEF By
    <3>2. CASE Wake(o)
      BY <3>1, <3>2 DEF Wake
    <3>3. CASE ~Wake(o)
      BY <1>1, <3>3 DEF Dispatch, Open, RecordWake, DeleteWoken, LookUpMission, InsertMission,
         RecordLaunch, jobHistory
    <3> QED
      BY <3>2, <3>3
  <2>5. \A t \in Jobs : launched'[t] = launched[t]
    <3>1. CASE InsertMission(o)
      BY <2>1, <3>1 DEF InsertMission
    <3>2. CASE ~InsertMission(o)
      BY <1>1, <3>2 DEF Dispatch, Open, Wake, RecordWake, DeleteWoken, LookUpMission, RecordLaunch,
         jobHistory
    <3> QED
      BY <3>1, <3>2
  <2> QED
    BY <2>2, <2>3, <2>4, <2>5
<1>2. ASSUME NEW o \in Operators, CheckRun(o) \/ \E t \in Jobs : AskRun(o, t) PROVE Good
  <2>1. o # Tick
    BY ScheduledJobsAssumption
  <2> QED
    BY <1>2, <2>1 DEF CheckRun, AskRun, Go, Callers, jobHistory
<1>3. ASSUME \/ \E t \in Jobs : RemoveJob(t) \/ Come(t)
             \/ \E m \in Missions : Ends(m) \/ Move(m) \/ Handle(m)
             \/ UNCHANGED cronVars
      PROVE  UNCHANGED <<caller, ticker, woken, launched>>
  BY <1>3 DEF RemoveJob, Come, Ends, Move, Became, Handle, Hear, Note, Settle, cronVars, jobTasks,
     jobHistory
<1>4. ASSUME UNCHANGED <<caller, ticker, woken, launched>> PROVE Good
  BY <1>4
<1> HIDE DEF Good, JobTypes, HistoryType, TasksType
<1>5. Good
  BY <1>1, <1>2, <1>3, <1>4 DEF CronNext, CronStep, RunStep
<1> QED
  BY <1>5 DEF Good

\* Where the tick is after a step of its own.
LEMMA TickGoes ==
  ASSUME JobTypes, TickBusy, TickStep, NEW t \in Jobs
  PROVE  /\ TickAt(t, {"open"})' => ListedToRun(t) /\ t \in come
         /\ TickAt(t, {"waking", "looking"})' => TickAt(t, {"open"})
         /\ TickAt(t, {"woken"})' => TickAt(t, {"waking"})
         /\ TickAt(t, {"inserting"})' => TickAt(t, {"looking"}) /\ Inflight(t) = {}
         /\ ListedToRun(t)' => ListedToRun(t) \/ (At(Tick, "idle") /\ job[t].enabled /\ ListTasks)
         /\ TickAt(t, {"woken"}) => ~job'[t].enabled
         /\ TickAt(t, {"created"}) => TickAt(t, {"created"})' \/ job'[t].ran = Ran(t)
<1> DEFINE Good == 
         /\ TickAt(t, {"open"})' => ListedToRun(t) /\ t \in come
         /\ TickAt(t, {"waking", "looking"})' => TickAt(t, {"open"})
         /\ TickAt(t, {"woken"})' => TickAt(t, {"waking"})
         /\ TickAt(t, {"inserting"})' => TickAt(t, {"looking"}) /\ Inflight(t) = {}
         /\ ListedToRun(t)' => ListedToRun(t) \/ (At(Tick, "idle") /\ job[t].enabled /\ ListTasks)
         /\ TickAt(t, {"woken"}) => ~job'[t].enabled
         /\ TickAt(t, {"created"}) => TickAt(t, {"created"})' \/ job'[t].ran = Ran(t)
<1>0. Tick \in Callers /\ caller \in [Callers -> CallerPlace] /\ job \in [Jobs -> JobRow]
  BY DEF Callers, JobTypes, TasksType, RowsType
<1>1. CASE ListTasks \/ ListMissions \/ TickEnds
  <2>1. UNCHANGED <<caller, job>> /\ caller[Tick].pc = "idle"
    BY <1>1 DEF ListTasks, ListMissions, TickEnds, TickBusy, At, jobRows
  <2>2. ListedToRun(t)' => ListedToRun(t) \/ (At(Tick, "idle") /\ job[t].enabled /\ ListTasks)
    <3>1. CASE ListTasks
      BY <2>1, <3>1 DEF ListTasks, ListedToRun, TickListed, At
    <3>2. CASE ListMissions
      BY <3>2 DEF ListMissions, ListedToRun, TickListed
    <3>3. CASE TickEnds
      BY <3>3 DEF TickEnds, ListedToRun, TickListed, AtRest
    <3> QED
      BY <1>1, <3>1, <3>2, <3>3
  <2> QED
    BY <2>1, <2>2 DEF TickAt
<1>2. CASE TickTask
  <2>1. PICK u \in Launchable : /\ ticker' = [ticker EXCEPT !.todo = @ \ {u}]
                                /\ Go(Tick, [pc |-> "open", job |-> u])
    BY <1>2 DEF TickTask
  <2>2. ticker.pc = "loop" /\ caller[Tick].pc = "idle" /\ UNCHANGED job
    BY <1>2 DEF TickTask, At, jobRows
  <2>3. u \in come /\ ListedToRun(u)
    BY <2>1, <2>2 DEF Launchable, DueForTick, ListedToRun, TickListed
  <2>4. caller'[Tick] = [pc |-> "open", job |-> u]
    BY <1>0, <2>1 DEF Go
  <2>5. ticker \in [pc : {"loop"}, rows : [Jobs -> JobRow], todo : SUBSET Jobs]
    BY <2>2 DEF JobTypes, TasksType, TickerPlace, AtRest
  <2>6. ListedToRun(t)' => ListedToRun(t)
    BY <2>1, <2>5 DEF ListedToRun, TickListed
  <2> QED
    BY <2>2, <2>3, <2>4, <2>6 DEF TickAt
<1>3. CASE Dispatch(Tick)
  <2>1. caller[Tick].pc # "idle" /\ caller[Tick].job \in Jobs
    BY <1>0, <1>3, CallerIsAt DEF Dispatch, Open, Wake, RecordWake, DeleteWoken, LookUpMission,
       InsertMission, RecordLaunch, At
  <2>2. ticker' = ticker
    BY <1>3 DEF Dispatch, Open, Wake, RecordWake, DeleteWoken, LookUpMission, InsertMission,
       RecordLaunch
  <2>3. ListedToRun(t)' => ListedToRun(t)
    BY <2>2 DEF ListedToRun, TickListed
  <2>4. CASE Open(Tick)
    BY <1>0, <2>3, <2>4 DEF Open, Go, At, TickAt, AtRest
  <2>5. CASE Wake(Tick)
    BY <1>0, <2>3, <2>5 DEF Wake, Go, At, TickAt, AtRest
  <2>6. CASE RecordWake(Tick)
    <3>1. caller'[Tick] = AtRest
      BY <1>0, <2>6 DEF RecordWake, Go
    <3>2. TickAt(t, {"woken"}) => ~job'[t].enabled
      BY <1>0, <2>6 DEF RecordWake, TickAt, JobRow
    <3>3. ~TickAt(t, {"created"})
      BY <2>6 DEF RecordWake, TickAt, At
    <3> QED
      BY <2>3, <3>1, <3>2, <3>3 DEF TickAt, AtRest
  <2>7. CASE DeleteWoken(Tick)
    BY <1>0, <2>3, <2>7 DEF DeleteWoken, Go, At, TickAt, AtRest
  <2>8. CASE LookUpMission(Tick)
    BY <1>0, <2>3, <2>8 DEF LookUpMission, Go, At, TickAt, AtRest
  <2>9. CASE InsertMission(Tick)
    BY <1>0, <2>3, <2>9 DEF InsertMission, Go, At, TickAt, AtRest
  <2>10. CASE RecordLaunch(Tick)
    <3>1. caller'[Tick] = AtRest
      BY <1>0, <2>10 DEF RecordLaunch, Go
    <3>2. TickAt(t, {"created"}) => job'[t].ran = Ran(t)
      BY <1>0, <2>10 DEF RecordLaunch, TickAt, JobRow
    <3>3. ~TickAt(t, {"woken"})
      BY <2>10 DEF RecordLaunch, TickAt, At
    <3> QED
      BY <2>3, <3>1, <3>2, <3>3 DEF TickAt, AtRest
  <2> QED
    BY <1>3, <2>4, <2>5, <2>6, <2>7, <2>8, <2>9, <2>10 DEF Dispatch
<1> QED
  BY <1>1, <1>2, <1>3 DEF TickStep

LEMMA TickBusyStep == JobTypes /\ TickBusy /\ [CronNext]_cronVars => TickBusy'
<1> SUFFICES ASSUME JobTypes, TickBusy, [CronNext]_cronVars PROVE TickBusy'
  OBVIOUS
<1>0. Tick \in Callers /\ caller \in [Callers -> CallerPlace] /\ come \subseteq come'
  BY HistoryGrows DEF Callers, JobTypes, TasksType
<1>1. CASE ~TickStep /\ ~CrashJobs
  BY <1>0, <1>1, OthersLeaveTick DEF TickBusy, At
<1>2. CASE CrashJobs
  BY <1>0, <1>2 DEF CrashJobs, TickBusy, At, AtRest
<1>3. CASE ListTasks \/ ListMissions \/ TickEnds
  BY <1>3 DEF ListTasks, ListMissions, TickEnds, TickBusy, At
<1>4. CASE TickTask
  <2>1. PICK u \in Launchable : /\ ticker' = [ticker EXCEPT !.todo = @ \ {u}]
                                /\ Go(Tick, [pc |-> "open", job |-> u])
    BY <1>4 DEF TickTask
  <2>2. u \in come
    BY <2>1 DEF Launchable, DueForTick
  <2>3. ticker \in [pc : {"loop"}, rows : [Jobs -> JobRow], todo : SUBSET Jobs]
    BY <1>4 DEF TickTask, JobTypes, TasksType, TickerPlace, AtRest
  <2> QED
    BY <1>0, <2>1, <2>2, <2>3 DEF Go, TickBusy, At
<1>5. CASE Dispatch(Tick)
  <2>1. UNCHANGED ticker /\ ~At(Tick, "idle")
    BY <1>5 DEF Dispatch, Open, Wake, RecordWake, DeleteWoken, LookUpMission, InsertMission,
       RecordLaunch, At
  <2>2. caller'[Tick].pc = "idle" \/ caller'[Tick].job = caller[Tick].job
    BY <1>0, <1>5 DEF Dispatch, Open, Wake, RecordWake, DeleteWoken, LookUpMission, InsertMission,
       RecordLaunch, Go, AtRest
  <2> QED
    BY <1>0, <2>1, <2>2 DEF TickBusy, At
<1> QED
  BY <1>1, <1>2, <1>3, <1>4, <1>5 DEF TickStep

LEMMA WakesStep == JobTypes /\ TickBusy /\ WakesInv /\ [CronNext]_cronVars => WakesInv'
<1> SUFFICES ASSUME JobTypes, TickBusy, WakesInv, [CronNext]_cronVars, NEW t \in Jobs
             PROVE  /\ woken'["tick"][t] <= 1 + mishaps'
                    /\ TickAt(t, {"open", "waking"})' => WakeSpare(t)'
                    /\ ListedToRun(t)' => WakeSpare(t)'
                    /\ job'[t].enabled /\ ~TickAt(t, {"woken"})' => WakeSpare(t)'
  BY DEF WakesInv
<1>0. /\ woken["tick"][t] \in Nat /\ woken'["tick"][t] \in Nat /\ mishaps \in Nat /\ mishaps' \in Nat
      /\ mishaps <= mishaps'
  BY TypesStep, HistoryGrows DEF JobTypes, HistoryType
<1>1. job'[t].enabled => job[t].enabled
  BY RowsFade DEF RowBecomes
<1>2. ASSUME woken'["tick"][t] = woken["tick"][t] PROVE WakeSpare(t) => WakeSpare(t)'
  BY <1>0, <1>2 DEF WakeSpare
<1>3. ASSUME woken["tick"][t] <= 1 + mishaps, woken'["tick"][t] = woken["tick"][t]
      PROVE  woken'["tick"][t] <= 1 + mishaps'
  BY <1>0, <1>3
<1>4. CASE ~TickStep /\ ~CrashJobs
  BY <1>1, <1>2, <1>3, <1>4, OthersLeaveTick DEF WakesInv, TickAt, ListedToRun, TickListed
<1>5. CASE CrashJobs
  <2>1. mishaps' = mishaps + 1 /\ UNCHANGED woken
    BY <1>5 DEF CrashJobs, Mishap
  <2> QED
    BY <1>0, <2>1 DEF WakesInv, WakeSpare
<1>6. CASE Wake(Tick) /\ caller[Tick].job = t
  <2>1. /\ woken' = [woken EXCEPT !["tick"][t] = @ + 1] /\ WakeSpare(t) /\ UNCHANGED <<ticker, job>>
        /\ t \notin ticker.todo /\ ticker.pc = "loop"
    BY <1>6 DEF Wake, By, WakesInv, TickAt, At, TickBusy, jobRows
  <2>2. woken'["tick"][t] = woken["tick"][t] + 1
    BY <2>1 DEF JobTypes, HistoryType
  <2>3. \/ caller'[Tick] = [pc |-> "woken", job |-> t]
        \/ caller'[Tick] = AtRest /\ mishaps' = mishaps + 1
    BY <1>6 DEF Wake, Go, Mishap, JobTypes, TasksType, Callers
  <2>4. ~ListedToRun(t)'
    BY <2>1 DEF ListedToRun, TickListed
  <2> QED
    BY <1>0, <2>1, <2>2, <2>3, <2>4 DEF WakeSpare, TickAt, AtRest
<1>7. CASE TickStep /\ ~(Wake(Tick) /\ caller[Tick].job = t)
  <2>1. woken'["tick"][t] = woken["tick"][t]
    <3>1. CASE Wake(Tick)
      BY <1>7, <3>1 DEF Wake, By, JobTypes, HistoryType
    <3>2. CASE ~Wake(Tick)
      BY <1>7, <3>2 DEF TickStep, ListTasks, ListMissions, TickTask, TickEnds, Dispatch, Open,
         RecordWake, DeleteWoken, LookUpMission, InsertMission, RecordLaunch, jobHistory
    <3> QED
      BY <3>1, <3>2
  <2>2. TickAt(t, {"open", "waking"})' => WakeSpare(t)
    BY <1>7, TickGoes DEF WakesInv, TickAt
  <2>3. ListedToRun(t)' => WakeSpare(t)
    BY <1>7, TickGoes DEF WakesInv, TickAt, At
  <2>4. job'[t].enabled => WakeSpare(t) 
    BY <1>1, <1>7, TickGoes DEF WakesInv
  <2> QED
    BY <1>2, <1>3, <2>1, <2>2, <2>3, <2>4 DEF WakesInv
<1> QED
  BY <1>4, <1>5, <1>6, <1>7

\* Mishaps and failures that put t off: what may make the tick launch it again.
Excuses(t) == mishaps + retries[t]
Excused(t) == launched[t] <= Excuses(t)

\* Past its excuses a job has a mission that is not over, or will not run any
\* more, or the end of its mission is news that will see to that: its row was
\* of a job that ran in time when that was heard.
Settling(t) == \E m \in InState(t, Ended) : event[m].pc # "idle"
LaunchOf(t) ==
  /\ launched[t] <= 1 + Excuses(t)
  /\ TickAt(t, {"inserting"}) => Excused(t)
  /\ TickAt(t, {"open", "looking"}) \/ ListedToRun(t) => Excused(t) \/ Inflight(t) # {}
  /\ \/ Excused(t) \/ Inflight(t) # {} \/ ~job[t].there \/ ~job[t].enabled \/ Settling(t)
  /\ Excused(t) \/ TickAt(t, {"created"}) \/ job[t].ran = "late"
  /\ Excused(t) \/ \A m \in InState(t, Ended) :
       event[m].pc \in {"heard", "noted"} => event[m].row.ran = "late"
LaunchInv ==
  \A t \in Jobs :
    /\ TickMissesEnd(t) => t \in raced
    /\ launched[t] > 0 => t \in come
    /\ t \notin raced => LaunchOf(t)

\* A row that was heard has at least what the row has now.
HeardInv ==
  \A m \in Missions : event[m].pc \in {"heard", "noted"} =>
    /\ job[mission[m].job].enabled => event[m].row.enabled
    /\ job[mission[m].job].there => event[m].row.there

LEMMA HeardStep == JobTypes /\ HeardInv /\ [CronNext]_cronVars => HeardInv'
<1> SUFFICES ASSUME JobTypes, HeardInv, [CronNext]_cronVars, NEW m \in Missions,
                    event'[m].pc \in {"heard", "noted"}
             PROVE  /\ job'[mission'[m].job].enabled => event'[m].row.enabled
                    /\ job'[mission'[m].job].there => event'[m].row.there
  BY DEF HeardInv
<1>1. CASE event[m].pc \in {"heard", "noted"} /\ event'[m].row = event[m].row
  <2>1. mission[m] # NoMission /\ mission[m].job \in Jobs
    BY <1>1 DEF JobTypes, EventsFollow, EventsType, MissionRow
  <2>2. mission'[m].job = mission[m].job
    BY <2>1, MissionsMove
  <2> QED
    BY <1>1, <2>1, <2>2, RowsFade DEF HeardInv, RowBecomes
<1>2. CASE Hear(m)
  BY <1>2 DEF Hear, jobRows, JobTypes, EventsType
<1>3. ASSUME event'[m] = event[m] PROVE event[m].pc \in {"heard", "noted"} /\ event'[m].row = event[m].row
  BY <1>3
<1>4. ASSUME NEW n \in Missions, Handle(n) \/ Ends(n) \/ Move(n), ~Hear(m)
      PROVE  event[m].pc \in {"heard", "noted"} /\ event'[m].row = event[m].row
  <2>1. CASE n # m
    <3>1. event'[m] = event[m]
      BY <1>4, <2>1 DEF Handle, Hear, Note, Settle, Ends, Move, Became, JobTypes, EventsType
    <3> QED
      BY <1>3, <3>1
  <2>2. CASE n = m
    <3>1. Note(m)
      BY <1>4, <2>2 DEF Handle, Settle, Ends, Move, Became, JobTypes, EventsType, AtRest
    <3> QED
      BY <3>1 DEF Note, JobTypes, EventsType, EventPlace, AtRest
  <2> QED
    BY <2>1, <2>2
<1>5. ASSUME NEW c \in Callers, Dispatch(c) PROVE event'[m] = event[m]
  BY <1>5 DEF Dispatch, Open, Wake, RecordWake, DeleteWoken, LookUpMission, InsertMission, RecordLaunch
<1>6. ASSUME \/ ListTasks \/ ListMissions \/ TickTask \/ TickEnds
             \/ \E o \in Operators : CheckRun(o) \/ \E u \in Jobs : AskRun(o, u)
             \/ \E t \in Jobs : RemoveJob(t) \/ Come(t)
             \/ UNCHANGED cronVars
      PROVE  event'[m] = event[m]
  BY <1>6 DEF ListTasks, ListMissions, TickTask, TickEnds, CheckRun, AskRun, RemoveJob, Come, cronVars
<1>7. ~CrashJobs
  BY DEF CrashJobs, AtRest
<1> QED
  BY <1>1, <1>2, <1>3, <1>4, <1>5, <1>6, <1>7 DEF CronNext, CronStep, TickStep, RunStep, Callers

\* A mission that stops being in flight is news; what is news stays so until it
\* is settled.
LEMMA EndIsNews ==
  ASSUME JobTypes, [CronNext]_cronVars, NEW t \in Jobs, Inflight(t) # {}, Inflight(t)' = {}
  PROVE  Settling(t)'
<1>1. PICK m \in Missions : mission[m].status \in {"active", "paused"} /\ mission[m].job = t
  BY DEF Inflight, InState
<1>2. mission[m] \in MissionRow /\ mission[m] # NoMission
  BY <1>1 DEF JobTypes, EventsType, MissionRow, NoMission
<1>3. mission'[m] # NoMission /\ mission'[m].job = t /\ mission'[m].status \notin {"active", "paused"}
  BY <1>1, <1>2, MissionsMove DEF Inflight, InState
<1>4. mission'[m] \in MissionRow
  BY <1>3, TypesStep DEF JobTypes, EventsType
<1>5. mission'[m].status \in Ended
  BY <1>3, <1>4 DEF MissionRow, Ended
<1>6. event'[m].pc # "idle"
  <2>1. mission' # mission
    BY <1>1, <1>3
  <2>2. ~\E c \in Callers : InsertMission(c)
    BY <1>1, <1>2, <1>3 DEF InsertMission, JobTypes, EventsType
  <2>3. \E n \in Missions : Ends(n) \/ Move(n)
    <3>1. ASSUME \/ ListTasks \/ ListMissions \/ TickTask \/ TickEnds
                 \/ \E o \in Operators : CheckRun(o) \/ \E u \in Jobs : AskRun(o, u)
                 \/ \E u \in Jobs : RemoveJob(u) \/ Come(u)
                 \/ \E n \in Missions : Handle(n)
                 \/ CrashJobs \/ UNCHANGED cronVars
          PROVE  UNCHANGED mission
      BY <3>1 DEF ListTasks, ListMissions, TickTask, TickEnds, CheckRun, AskRun, RemoveJob, Come,
         Handle, Hear, Note, Settle, CrashJobs, cronVars, jobRows
    <3>2. ASSUME NEW c \in Callers, Dispatch(c), ~InsertMission(c) PROVE UNCHANGED mission
      BY <3>2 DEF Dispatch, Open, Wake, RecordWake, DeleteWoken, LookUpMission, RecordLaunch, jobRows
    <3> QED
      BY <2>1, <2>2, <3>1, <3>2 DEF CronNext, CronStep, TickStep, RunStep, Callers
  <2>4. PICK n \in Missions : Ends(n) \/ Move(n)
    BY <2>3
  <2>5. n = m
    BY <1>1, <1>3, <2>4 DEF Ends, Move, Became, JobTypes, EventsType
  <2> QED
    BY <2>4, <2>5 DEF Ends, Move, Became, JobTypes, EventsType
<1> QED
  BY <1>3, <1>5, <1>6 DEF Settling, InState

LEMMA NewsStays ==
  ASSUME JobTypes, [CronNext]_cronVars, ~CrashJobs, NEW m \in Missions, event[m].pc # "idle"
  PROVE  mission'[m] = mission[m] /\ (event'[m].pc # "idle" \/ Settle(m))
<1>1. mission[m] # NoMission
  BY DEF JobTypes, EventsFollow
<1>2. CASE \E c \in Callers : Dispatch(c)
  BY <1>1, <1>2 DEF Dispatch, Open, Wake, RecordWake, DeleteWoken, LookUpMission, InsertMission,
     RecordLaunch, jobRows, JobTypes, EventsType
<1>3. ASSUME NEW n \in Missions, Ends(n) \/ Move(n)
      PROVE  mission'[m] = mission[m] /\ event'[m].pc # "idle"
  BY <1>3 DEF Ends, Move, Became, JobTypes, EventsType
<1>4. ASSUME NEW n \in Missions, Handle(n)
      PROVE  mission'[m] = mission[m] /\ (event'[m].pc # "idle" \/ Settle(m))
  <2>1. UNCHANGED mission
    BY <1>4 DEF Handle, Hear, Note, Settle, jobRows
  <2>2. CASE n # m
    BY <1>4, <2>1, <2>2 DEF Handle, Hear, Note, Settle, JobTypes, EventsType
  <2>3. CASE n = m
    BY <1>4, <2>1, <2>3 DEF Handle, Hear, Note, JobTypes, EventsType, EventPlace, AtRest
  <2> QED
    BY <2>2, <2>3
<1>5. ASSUME \/ ListTasks \/ ListMissions \/ TickTask \/ TickEnds
             \/ \E o \in Operators : CheckRun(o) \/ \E u \in Jobs : AskRun(o, u)
             \/ \E u \in Jobs : RemoveJob(u) \/ Come(u)
             \/ UNCHANGED cronVars
      PROVE  UNCHANGED <<mission, event>>
  BY <1>5 DEF ListTasks, ListMissions, TickTask, TickEnds, CheckRun, AskRun, RemoveJob, Come,
     cronVars, jobRows
<1> QED
  BY <1>2, <1>3, <1>4, <1>5 DEF CronNext, CronStep, TickStep, RunStep, Callers

LEMMA LaunchedIsDue ==
  ASSUME JobTypes, TickBusy, [CronNext]_cronVars, NEW t \in Jobs
  PROVE  \/ launched'[t] = launched[t]
         \/ /\ InsertMission(Tick) /\ caller[Tick].job = t /\ TickAt(t, {"inserting"})
            /\ launched'[t] = launched[t] + 1 /\ t \in come
<1>1. CASE ~TickStep
  <2>1. CASE CrashJobs
    BY <2>1 DEF CrashJobs
  <2> QED
    BY <1>1, <2>1, OthersLeaveTick
<1>2. CASE TickStep /\ ~InsertMission(Tick)
  BY <1>2 DEF TickStep, ListTasks, ListMissions, TickTask, TickEnds, Dispatch, Open, Wake, RecordWake,
     DeleteWoken, LookUpMission, RecordLaunch, jobHistory
<1>3. CASE InsertMission(Tick)
  <2>1. caller[Tick].job \in come
    BY <1>3 DEF InsertMission, At, TickBusy
  <2> QED
    BY <1>3, <2>1 DEF InsertMission, At, TickAt, JobTypes, HistoryType
<1> QED
  BY <1>1, <1>2, <1>3

\* The end that was news of a job past its excuses is settled.
LEMMA SettledIsSpent ==
  ASSUME JobTypes, HeardInv, NEW t \in Jobs, NEW m \in InState(t, Ended), Settle(m),
         event[m].row.ran = "late", launched[t] <= 1 + Excuses(t)
  PROVE  Excused(t)' \/ ~job'[t].there \/ ~job'[t].enabled
<1>1. m \in Missions /\ mission[m].job = t /\ mission[m].status \in Ended
  BY DEF InState
<1>2. event[m].pc = "noted" /\ event[m].status = mission[m].status
  BY <1>1 DEF Settle, JobTypes, EventsFollow
<1>3. /\ job[t].enabled => event[m].row.enabled
      /\ job[t].there => event[m].row.there
  BY <1>1, <1>2 DEF HeardInv
<1>4. /\ job \in [Jobs -> JobRow] /\ job[t] \in JobRow
      /\ \A u \in Jobs : launched[u] \in Nat /\ retries[u] \in Nat
      /\ mishaps \in Nat /\ retries \in [Jobs -> Nat]
  BY DEF JobTypes, RowsType, HistoryType
<1>5. CASE ~event[m].row.there
  BY <1>1, <1>2, <1>3, <1>4, <1>5 DEF Settle, Ended
<1>6. CASE event[m].row.there /\ event[m].status = "completed"
  <2> DEFINE ends == event[m].row.enabled /\ event[m].row.ran = "late"
  <2>1. job' = [job EXCEPT ![t] = [job[t] EXCEPT !.retry = FALSE,
                                                 !.enabled = @ /\ ~(ends /\ t \notin Fleeting),
                                                 !.there = @ /\ ~(ends /\ t \in Fleeting)]]
    BY <1>1, <1>6 DEF Settle
  <2>2. CASE t \in Fleeting
    <3>1. job'[t].there = (job[t].there /\ ~(ends /\ t \in Fleeting))
      BY <1>4, <2>1 DEF JobRow
    <3>2. job'[t].enabled => job[t].enabled
      BY <1>4, <2>1 DEF JobRow
    <3> QED
      BY <1>3, <2>2, <3>1, <3>2
  <2>3. CASE t \notin Fleeting
    <3>1. job'[t].enabled = (job[t].enabled /\ ~(ends /\ t \notin Fleeting))
      BY <1>4, <2>1 DEF JobRow
    <3> QED
      BY <1>3, <2>3, <3>1
  <2> QED
    BY <2>2, <2>3
<1>7. CASE event[m].row.there /\ event[m].status = "failed"
  <2>1. CASE Disable(t)
    BY <1>4, <2>1 DEF Disable, JobRow
  <2>2. CASE retries' = [retries EXCEPT ![t] = @ + 1]
    <3>1. UNCHANGED <<launched, mishaps>> /\ retries'[t] = retries[t] + 1
      BY <1>4, <2>2 DEF Settle
    <3> QED
      BY <1>4, <3>1 DEF Excused, Excuses
  <2> QED
    BY <1>1, <1>7, <2>1, <2>2 DEF Settle
<1> QED
  BY <1>1, <1>2, <1>5, <1>6, <1>7 DEF Ended

LEMMA LaunchStep ==
  ASSUME JobTypes, TickBusy, HeardInv, LaunchInv, [CronNext]_cronVars
  PROVE  LaunchInv'
<1> SUFFICES ASSUME NEW t \in Jobs
             PROVE  /\ TickMissesEnd(t)' => t \in raced'
                    /\ launched'[t] > 0 => t \in come'
                    /\ t \notin raced' => LaunchOf(t)'
  BY DEF LaunchInv
<1>0. /\ launched[t] \in Nat /\ retries[t] \in Nat /\ mishaps \in Nat
      /\ launched'[t] \in Nat /\ retries'[t] \in Nat /\ mishaps' \in Nat
      /\ retries[t] <= retries'[t] /\ mishaps <= mishaps' /\ raced \subseteq raced'
      /\ come \subseteq come'
  BY TypesStep, HistoryGrows DEF JobTypes, HistoryType
<1>1. TickMissesEnd(t)' => t \in raced'
  <2>1. CASE CronNext
    BY <2>1 DEF CronNext
  <2>2. CASE UNCHANGED cronVars
    BY <2>2 DEF LaunchInv, TickMissesEnd, At, InState, cronVars, jobRows, jobTasks
  <2> QED
    BY <2>1, <2>2
<1>2. launched'[t] > 0 => t \in come'
  BY <1>0, LaunchedIsDue DEF LaunchInv
<1>3. ASSUME t \notin raced' PROVE LaunchOf(t)'
  <2>1. LaunchOf(t) /\ ~TickMissesEnd(t) /\ ~TickMissesEnd(t)'
    BY <1>0, <1>1, <1>3 DEF LaunchInv
  <2>2. ASSUME launched'[t] = launched[t] PROVE Excused(t) => Excused(t)'
    BY <1>0, <2>2 DEF Excused, Excuses
  <2>3. CASE CrashJobs
    <3>1. UNCHANGED <<launched, retries>> /\ mishaps' = mishaps + 1
      BY <2>3 DEF CrashJobs, Mishap
    <3>2. Excused(t)' /\ launched'[t] <= 1 + Excuses(t)'
      BY <1>0, <2>1, <3>1 DEF Excused, Excuses, LaunchOf
    <3> QED
      BY <3>2 DEF LaunchOf
  <2>4. CASE launched'[t] # launched[t]
    <3>1. /\ InsertMission(Tick) /\ caller[Tick].job = t /\ TickAt(t, {"inserting"})
          /\ launched'[t] = launched[t] + 1
      BY <2>4, LaunchedIsDue
    <3>2. Excused(t) /\ UNCHANGED <<retries, mishaps, event, ticker, job>>
      BY <2>1, <3>1 DEF LaunchOf, InsertMission
    <3>3. launched'[t] <= 1 + Excuses(t)'
      BY <1>0, <3>1, <3>2 DEF Excused, Excuses
    <3>4. caller'[Tick] = [pc |-> "created", job |-> t]
      BY <3>1 DEF InsertMission, Go, JobTypes, TasksType, Callers
    <3>5. Inflight(t)' # {}
      BY <3>1 DEF InsertMission, Inflight, InState, JobTypes, EventsType
    <3>6. ~Settling(t)'
      <4>1. TickAt(t, {"created"})'
        BY <3>4 DEF TickAt
      <4> QED
        BY <2>1, <4>1 DEF TickMissesEnd, TickAt, At, Settling, Ended
    <3> QED
      BY <3>3, <3>4, <3>5, <3>6 DEF LaunchOf, TickAt, Settling
  <2>5. CASE launched'[t] = launched[t] /\ ~CrashJobs
    <3>1. launched'[t] <= 1 + Excuses(t)'
      BY <1>0, <2>1, <2>5 DEF LaunchOf, Excuses
    <3>2. Excused(t) => Excused(t)'
      BY <2>2, <2>5
    <3>3. (TickListed(t) \/ TickAt(t, {"open", "looking", "inserting", "created"}))' => ~Settling(t)'
      BY <2>1 DEF TickMissesEnd, TickListed, TickAt, At, Settling, Ended
    <3>4. Inflight(t) # {} => Inflight(t)' # {} \/ Settling(t)'
      BY EndIsNews
    \* Where the tick is.
    <3>5. /\ TickAt(t, {"inserting"})' =>
               TickAt(t, {"inserting"}) \/ (TickAt(t, {"looking"}) /\ Inflight(t) = {})
          /\ (TickAt(t, {"open", "looking"}) \/ ListedToRun(t))' =>
               \/ TickAt(t, {"open", "looking"}) \/ ListedToRun(t)
               \/ (At(Tick, "idle") /\ job[t].enabled /\ ListTasks)
          /\ TickAt(t, {"created"}) => TickAt(t, {"created"})' \/ job'[t].ran = Ran(t)
      <4>1. CASE TickStep
        <5>1. TickAt(t, {"open", "looking"})' => TickAt(t, {"open"}) \/ ListedToRun(t)
          BY <4>1, TickGoes DEF TickAt
        <5> QED
          BY <4>1, <5>1, TickGoes DEF TickAt
      <4>2. CASE ~TickStep
        BY <2>5, <4>2, OthersLeaveTick DEF TickAt, ListedToRun, TickListed
      <4> QED
        BY <4>1, <4>2
    <3>6. TickAt(t, {"inserting"})' => Excused(t)'
      BY <2>1, <3>2, <3>5 DEF LaunchOf, TickAt
    <3>7. (TickAt(t, {"open", "looking"}) \/ ListedToRun(t))' => Excused(t)' \/ Inflight(t)' # {}
      <4>1. ASSUME (TickAt(t, {"open", "looking"}) \/ ListedToRun(t))'
            PROVE  ~Settling(t)'
        BY <3>3, <4>1 DEF TickAt, ListedToRun
      <4>2. ASSUME At(Tick, "idle"), job[t].enabled, ListTasks, ListedToRun(t)'
            PROVE  Excused(t) \/ Inflight(t) # {}
        <5>1. UNCHANGED <<job, mission, event, caller>> /\ ticker' = [pc |-> "tasks", rows |-> job]
          BY <4>2 DEF ListTasks, jobRows
        <5>2. job[t].there /\ Settling(t)' = Settling(t)
          BY <4>2, <5>1 DEF ListedToRun, TickListed, Settling, InState
        <5>3. ~Settling(t)
          BY <3>3, <4>2, <5>2 DEF ListedToRun
        <5> QED
          BY <2>1, <4>2, <5>2, <5>3 DEF LaunchOf
      <4>3. ASSUME (TickAt(t, {"open", "looking"}) \/ ListedToRun(t))'
            PROVE  Excused(t) \/ Inflight(t) # {}
        <5>1. CASE ListTasks /\ TickAt(t, {"open", "looking"})'
          BY <5>1 DEF ListTasks, TickAt, TickBusy, At
        <5> QED
          BY <2>1, <3>5, <4>2, <4>3, <5>1 DEF LaunchOf
      <4> QED
        BY <3>2, <3>4, <4>1, <4>3
    <3>8. Excused(t)' \/ TickAt(t, {"created"})' \/ job'[t].ran = "late"
      <4>1. ASSUME ~Excused(t) PROVE Ran(t) = "late"
        <5>1. launched[t] > 0
          BY <1>0, <4>1 DEF Excused, Excuses
        <5> QED
          BY <5>1 DEF LaunchInv, Ran
      <4>2. job'[t].ran \in {job[t].ran, Ran(t)}
        BY RowsFade DEF RowBecomes
      <4> QED
        BY <2>1, <3>2, <3>5, <4>1, <4>2 DEF LaunchOf
    \* What is news of t.
    <3>9. \/ Excused(t)' \/ Inflight(t)' # {} \/ ~job'[t].there \/ ~job'[t].enabled \/ Settling(t)'
      <4>1. CASE Excused(t) \/ Inflight(t) # {}
        BY <3>2, <3>4, <4>1
      <4>2. CASE ~job[t].there \/ ~job[t].enabled
        BY <4>2, RowsFade DEF RowBecomes
      <4>3. CASE ~Excused(t) /\ Settling(t)
        <5>1. PICK m \in InState(t, Ended) : event[m].pc # "idle"
          BY <4>3 DEF Settling
        <5>2. m \in Missions
          BY DEF InState
        <5>3. mission'[m] = mission[m] /\ (event'[m].pc # "idle" \/ Settle(m))
          BY <2>5, <5>1, <5>2, NewsStays
        <5>4. CASE event'[m].pc # "idle"
          BY <5>2, <5>3, <5>4 DEF Settling, InState
        <5>5. CASE Settle(m)
          <6>1. event[m].pc = "noted"
            BY <5>5 DEF Settle
          <6>2. event[m].row.ran = "late" /\ launched[t] <= 1 + Excuses(t)
            BY <2>1, <4>3, <6>1 DEF LaunchOf
          <6> QED
            BY <5>5, <6>2, SettledIsSpent
        <5> QED
          BY <5>3, <5>4, <5>5
      <4> QED
        BY <2>1, <4>1, <4>2, <4>3 DEF LaunchOf
    <3>10. Excused(t)' \/ \A m \in InState(t, Ended)' :
              event'[m].pc \in {"heard", "noted"} => event'[m].row.ran = "late"
      <4> SUFFICES ASSUME ~Excused(t)', NEW m \in Missions, m \in InState(t, Ended)',
                          event'[m].pc \in {"heard", "noted"}
                   PROVE  event'[m].row.ran = "late"
        BY DEF InState
      <4>1. ~Excused(t)
        BY <3>2
      <4>2. event[m].pc # "idle" /\ mission'[m] = mission[m]
            /\ (Hear(m) \/ (event[m].pc \in {"heard", "noted"} /\ event'[m].row = event[m].row))
        <5>1. CASE event'[m] = event[m]
          BY <2>5, <5>1, NewsStays
        <5>2. CASE event'[m] # event[m]
          <6>1. \E n \in Missions : Ends(n) \/ Move(n) \/ Handle(n)
            <7>1. ASSUME NEW c \in Callers, Dispatch(c) PROVE event' = event
              BY <7>1 DEF Dispatch, Open, Wake, RecordWake, DeleteWoken, LookUpMission,
                 InsertMission, RecordLaunch
            <7>2. ASSUME \/ ListTasks \/ ListMissions \/ TickTask \/ TickEnds
                         \/ \E o \in Operators : CheckRun(o) \/ \E u \in Jobs : AskRun(o, u)
                         \/ \E u \in Jobs : RemoveJob(u) \/ Come(u)
                         \/ UNCHANGED cronVars
                  PROVE  event' = event
              BY <7>2 DEF ListTasks, ListMissions, TickTask, TickEnds, CheckRun, AskRun, RemoveJob,
                 Come, cronVars
            <7> QED
              BY <2>5, <5>2, <7>1, <7>2 DEF CronNext, CronStep, TickStep, RunStep, Callers
          <6>2. PICK n \in Missions : Ends(n) \/ Move(n) \/ Handle(n)
            BY <6>1
          <6>3. n = m
            <7>1. CASE Ends(n) \/ Move(n)
              BY <5>2, <7>1 DEF Ends, Move, Became, JobTypes, EventsType
            <7>2. CASE Handle(n)
              BY <5>2, <7>2 DEF Handle, Hear, Note, Settle, JobTypes, EventsType
            <7> QED
              BY <6>2, <7>1, <7>2
          <6>4. Hear(m) \/ Note(m)
            BY <6>2, <6>3 DEF Ends, Move, Became, Handle, Settle, JobTypes, EventsType, AtRest
          <6>5. Note(m) => event[m].pc = "heard" /\ event'[m].row = event[m].row
            BY DEF Note, JobTypes, EventsType, EventPlace, AtRest
          <6>6. UNCHANGED mission /\ event[m].pc # "idle"
            BY <6>4 DEF Hear, Note, jobRows
          <6> QED
            BY <6>4, <6>5, <6>6
        <5> QED
          BY <5>1, <5>2
      <4>3. m \in InState(t, Ended)
        BY <4>2 DEF InState
      <4>4. CASE event[m].pc \in {"heard", "noted"} /\ event'[m].row = event[m].row
        BY <2>1, <4>1, <4>3, <4>4 DEF LaunchOf
      <4>5. CASE Hear(m)
        <5>1. event'[m].row = job[t]
          BY <4>3, <4>5 DEF Hear, InState, JobTypes, EventsType
        <5>2. ~TickAt(t, {"created"})
          BY <2>1, <4>2, <4>3 DEF TickMissesEnd, TickAt, At, Ended
        <5> QED
          BY <2>1, <4>1, <5>1, <5>2 DEF LaunchOf
      <4> QED
        BY <4>2, <4>4, <4>5
    <3> QED
      BY <3>1, <3>6, <3>7, <3>8, <3>9, <3>10 DEF LaunchOf
  <2> QED
    BY <2>3, <2>4, <2>5
<1> QED
  BY <1>1, <1>2, <1>3

LEMMA OnceStarts == CronInit => TickBusy /\ WakesInv /\ HeardInv /\ LaunchInv
<1> SUFFICES ASSUME CronInit PROVE TickBusy /\ WakesInv /\ HeardInv /\ LaunchInv
  OBVIOUS
<1>1. caller[Tick].pc = "idle" /\ ticker.pc = "idle" /\ mishaps = 0
      /\ \A m \in Missions : event[m].pc = "idle"
  BY DEF CronInit, AtRest, Callers
<1>2. \A t \in Jobs : launched[t] = 0 /\ retries[t] = 0 /\ woken["tick"][t] = 0
  BY DEF CronInit
<1>3. TickBusy /\ WakesInv /\ HeardInv
  BY <1>1, <1>2 DEF TickBusy, WakesInv, HeardInv, At, WakeSpare
<1>4. \A t \in Jobs : Excused(t) /\ launched[t] <= 1 + Excuses(t) /\ ~TickMissesEnd(t)
  BY <1>1, <1>2 DEF Excused, Excuses, TickMissesEnd, At, InState
<1> QED
  BY <1>2, <1>3, <1>4 DEF LaunchInv, LaunchOf

\* Whatever is stale when the tick uses it, whoever runs or removes the job
\* meanwhile and whenever the process dies: the tick runs a one-shot job once
\* and once more for each mishap or failure that put it off, unless the end of
\* its mission was news while the tick had the job in hand.
THEOREM TickRunsOnce == CronSpec => []OneShotRunsOnce
<1> DEFINE OnceInv == JobTypes /\ TickBusy /\ WakesInv /\ HeardInv /\ LaunchInv
<1>1. CronInit => OnceInv
  BY TypesStart, OnceStarts
<1>2. OnceInv /\ [CronNext]_cronVars => OnceInv'
  <2> SUFFICES ASSUME OnceInv, [CronNext]_cronVars PROVE OnceInv'
    OBVIOUS
  <2>1. JobTypes' /\ TickBusy' /\ WakesInv' /\ HeardInv'
    BY TypesStep, TickBusyStep, WakesStep, HeardStep
  <2>2. LaunchInv'
    BY LaunchStep
  <2> QED
    BY <2>1, <2>2
<1>3. OnceInv => OneShotRunsOnce
  <2> SUFFICES ASSUME OnceInv, NEW t \in Jobs
               PROVE  /\ woken["tick"][t] <= 1 + mishaps
                      /\ t \notin raced => launched[t] <= 1 + mishaps + retries[t]
    BY DEF OneShotRunsOnce
  <2>1. launched[t] \in Nat /\ mishaps \in Nat /\ retries[t] \in Nat
    BY DEF JobTypes, HistoryType
  <2> QED
    BY <2>1 DEF WakesInv, LaunchInv, LaunchOf, Excuses
<1> HIDE DEF OnceInv
<1> QED
  BY <1>1, <1>2, <1>3, PTL DEF CronSpec

=============================================================================
