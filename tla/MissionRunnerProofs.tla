------------------------ MODULE MissionRunnerProofs ------------------------
(***************************************************************************)
(* Proofs about MissionRunner: its types, the two counters of a mission,   *)
(* and the turns of a thread when the poll loop is by itself.              *)
(***************************************************************************)
EXTENDS MissionRunner, FiniteSetTheorems, TLAPS

---------------------------------------------------------------------------
(* What an UPDATE may write, and what a row becomes by it.                 *)

Statuses == {"active", "blocked", "paused", "completed", "failed"}
Errors == {"none", "queue", "approval", "turn", "timeout", "lost", "launch"}
Views == {"absent", "notLoaded", "idle", "active", "error"}
Columns == {"status", "queued", "inProgress", "thread", "completed", "started",
            "failures", "error", "noted"}

\* Values for some columns of a row.
Writes(w) ==
  /\ DOMAIN w \subseteq Columns
  /\ "status" \in DOMAIN w => w["status"] \in Statuses
  /\ "queued" \in DOMAIN w => w["queued"] \in BOOLEAN
  /\ "inProgress" \in DOMAIN w => w["inProgress"] \in BOOLEAN
  /\ "thread" \in DOMAIN w => w["thread"] \in {"none", "own"}
  /\ "completed" \in DOMAIN w => w["completed"] \in Nat
  /\ "started" \in DOMAIN w => w["started"] \in Nat
  /\ "failures" \in DOMAIN w => w["failures"] \in Nat
  /\ "error" \in DOMAIN w => w["error"] \in Errors
  /\ "noted" \in DOMAIN w => w["noted"] \in BOOLEAN

\* Columns a reconcile writes at three places only.
Keeps(w) == DOMAIN w \cap {"thread", "completed", "started"} = {}

\* A row stays a row, and a column that is not named keeps its value.
LEMMA Written ==
  ASSUME NEW w, NEW r \in Row, Writes(w)
  PROVE  /\ w @@ r \in Row
         /\ \A c \in Columns : (w @@ r)[c] = IF c \in DOMAIN w THEN w[c] ELSE r[c]
<1> DEFINE t == w @@ r
<1>1. DOMAIN r = Columns
  BY DEF Row, Columns
<1>2. t = [c \in Columns |-> IF c \in DOMAIN w THEN w[c] ELSE r[c]]
  BY <1>1 DEF @@, Writes
<1>3. /\ r["status"] \in Statuses /\ r["queued"] \in BOOLEAN /\ r["inProgress"] \in BOOLEAN
      /\ r["thread"] \in {"none", "own"} /\ r["completed"] \in Nat /\ r["started"] \in Nat
      /\ r["failures"] \in Nat /\ r["error"] \in Errors /\ r["noted"] \in BOOLEAN
  BY DEF Row, Statuses, Errors
<1> HIDE DEF t
<1>4. \A c \in Columns : t[c] = IF c \in DOMAIN w THEN w[c] ELSE r[c]
  BY <1>2
<1>5. /\ t["status"] \in Statuses /\ t["queued"] \in BOOLEAN /\ t["inProgress"] \in BOOLEAN
      /\ t["thread"] \in {"none", "own"} /\ t["completed"] \in Nat /\ t["started"] \in Nat
      /\ t["failures"] \in Nat /\ t["error"] \in Errors /\ t["noted"] \in BOOLEAN
  BY <1>3, <1>4 DEF Writes, Columns
<1>6. t = [c \in Columns |-> t[c]]
  BY <1>2, <1>4
<1>7. t \in Row
  BY <1>5, <1>6 DEF Row, Columns, Statuses, Errors
<1> QED
  BY <1>4, <1>7 DEF t

\* Two UPDATEs in one.
LEMMA WrittenTwice ==
  ASSUME NEW w, NEW v, Writes(w), Writes(v)
  PROVE  /\ Writes(w @@ v)
         /\ DOMAIN (w @@ v) = DOMAIN w \cup DOMAIN v
         /\ \A c \in DOMAIN w \cup DOMAIN v : (w @@ v)[c] = IF c \in DOMAIN w THEN w[c] ELSE v[c]
         /\ Keeps(w) /\ Keeps(v) => Keeps(w @@ v)
<1> DEFINE t == w @@ v
<1>1. t = [c \in DOMAIN w \cup DOMAIN v |-> IF c \in DOMAIN w THEN w[c] ELSE v[c]]
  BY DEF @@
<1> HIDE DEF t
<1>2. DOMAIN t = DOMAIN w \cup DOMAIN v
  BY <1>1
<1>3. \A c \in DOMAIN w \cup DOMAIN v : t[c] = IF c \in DOMAIN w THEN w[c] ELSE v[c]
  BY <1>1
<1>4. Writes(t)
  BY <1>2, <1>3 DEF Writes
<1>5. Keeps(w) /\ Keeps(v) => Keeps(t)
  BY <1>2 DEF Keeps
<1> QED
  BY <1>2, <1>3, <1>4, <1>5 DEF t

LEMMA BothWrite ==
  ASSUME NEW w, NEW v, Writes(w), Keeps(w), Writes(v), Keeps(v)
  PROVE  Writes(w @@ v) /\ Keeps(w @@ v)
<1>1. Writes(w @@ v)
  BY WrittenTwice
<1>2. Keeps(w @@ v)
  BY WrittenTwice
<1> QED
  BY <1>1, <1>2

---------------------------------------------------------------------------
(* The writes of a reconcile that looks at its thread.                     *)

LEMMA SettleWrites ==
  ASSUME NEW s \in Row, NEW v, NEW stale
  PROVE  Writes(SettleStale(s, v, stale)) /\ Keeps(SettleStale(s, v, stale))
<1>1. s.queued \in BOOLEAN
  BY DEF Row
<1>2. (s.queued /\ s.status # "active") \in BOOLEAN
  OBVIOUS
<1> DEFINE q == s.queued /\ s.status # "active"
           w == [inProgress |-> FALSE, queued |-> q]
<1>3. Writes(w) /\ Keeps(w)
  <2>1. q \in BOOLEAN
    OBVIOUS
  <2> HIDE DEF q
  <2>2. w["queued"] = q /\ w["inProgress"] = FALSE /\ DOMAIN w = {"inProgress", "queued"}
    OBVIOUS
  <2> HIDE DEF w
  <2> QED
    BY <2>1, <2>2 DEF Writes, Keeps, Columns
<1>4. Writes(NoWrite) /\ Keeps(NoWrite)
  BY DEF NoWrite, Writes, Keeps
<1> QED
  BY <1>3, <1>4 DEF SettleStale

LEMMA FollowWrites ==
  ASSUME NEW s \in Row, NEW v
  PROVE  /\ Writes(FollowThread(s, v)) /\ Keeps(FollowThread(s, v))
         /\ v = "active" => (FollowThread(s, v) @@ s)["inProgress"] = TRUE
<1> DEFINE w == FollowThread(s, v)
<1>1. s.inProgress \in BOOLEAN /\ "inProgress" \in Columns
  BY DEF Row, Columns
<1>2. Writes(w) /\ Keeps(w)
  BY DEF FollowThread, NoWrite, Writes, Keeps, Columns
<1>3. ASSUME v = "active" PROVE (w @@ s)["inProgress"] = TRUE
  <2>1. CASE s.inProgress = TRUE
    <3>1. DOMAIN w = {}
      BY <2>1, <1>3 DEF FollowThread, NoWrite
    <3> QED
      BY <3>1, <2>1, <1>1, <1>2, Written
  <2>2. CASE s.inProgress = FALSE
    <3>1. w = [inProgress |-> TRUE]
      BY <2>2, <1>3 DEF FollowThread
    <3> HIDE DEF w
    <3> QED
      BY <3>1, <1>1, <1>2, Written
  <2> QED
    BY <1>1, <2>1, <2>2
<1> QED
  BY <1>2, <1>3

LEMMA HealWrites ==
  ASSUME NEW s \in Row, NEW v
  PROVE  /\ Writes(HealFailure(s, v)) /\ Keeps(HealFailure(s, v))
         /\ v = "active" /\ "inProgress" \in DOMAIN HealFailure(s, v)
            => HealFailure(s, v)["inProgress"] = TRUE
<1> DEFINE a == [status |-> "active", error |-> "none"]
           seen == v \in {"active", "idle"}
           b == IF seen THEN [queued |-> FALSE, inProgress |-> v = "active"] ELSE NoWrite
<1>1. Writes(a) /\ Keeps(a) /\ DOMAIN a = {"status", "error"}
  BY DEF Writes, Keeps, Columns, Statuses, Errors
<1>2. Writes(NoWrite) /\ Keeps(NoWrite) /\ DOMAIN NoWrite = {}
  BY DEF NoWrite, Writes, Keeps
<1>3. /\ Writes(b) /\ Keeps(b)
      /\ v = "active" => b["inProgress"] = TRUE /\ DOMAIN b = {"queued", "inProgress"}
  <2> DEFINE p == v = "active"
             c == [queued |-> FALSE, inProgress |-> p]
  <2>1. p \in BOOLEAN
    OBVIOUS
  <2>2. v = "active" => p = TRUE /\ seen
    OBVIOUS
  <2> HIDE DEF p
  <2>3. DOMAIN c = {"queued", "inProgress"} /\ c["queued"] = FALSE /\ c["inProgress"] = p
    OBVIOUS
  <2>4. b = IF seen THEN c ELSE NoWrite
    BY DEF p
  <2> HIDE DEF c, b, seen
  <2>5. Writes(c) /\ Keeps(c)
    BY <2>1, <2>3 DEF Writes, Keeps, Columns
  <2> QED
    BY <2>2, <2>3, <2>4, <2>5, <1>2
<1> HIDE DEF a, b
<1>4. /\ Writes(a @@ b) /\ Keeps(a @@ b)
      /\ v = "active" => (a @@ b)["inProgress"] = TRUE
  <2>1. Writes(a @@ b) /\ DOMAIN (a @@ b) = DOMAIN a \cup DOMAIN b
    BY <1>1, <1>3, WrittenTwice
  <2>2. Keeps(a @@ b)
    BY <1>1, <1>3, WrittenTwice
  <2>3. ASSUME v = "active" PROVE (a @@ b)["inProgress"] = b["inProgress"]
    BY <1>1, <1>3, <2>3, WrittenTwice
  <2> QED
    BY <1>3, <2>1, <2>2, <2>3
<1>5. HealFailure(s, v) = IF CanHeal(s.error) THEN a @@ b ELSE NoWrite
  BY DEF HealFailure, a, b
<1> QED
  BY <1>2, <1>4, <1>5

LEMMA ReopenWrites ==
  ASSUME NEW s \in Row, NEW v, NEW was
  PROVE  /\ Writes(ReopenCompleted(s, v, was)) /\ Keeps(ReopenCompleted(s, v, was))
         /\ "inProgress" \in DOMAIN ReopenCompleted(s, v, was)
            => ReopenCompleted(s, v, was)["inProgress"] = TRUE
<1> DEFINE a == [status |-> "active", error |-> "none", queued |-> FALSE, inProgress |-> TRUE]
           reopened == was.status = "completed" /\ was.inProgress /\ (s.inProgress \/ v = "active")
<1>1. Writes(a) /\ Keeps(a) /\ a["inProgress"] = TRUE
  BY DEF Writes, Keeps, Columns, Statuses, Errors
<1>2. Writes(NoWrite) /\ Keeps(NoWrite) /\ DOMAIN NoWrite = {}
  BY DEF NoWrite, Writes, Keeps
<1>3. ReopenCompleted(s, v, was) = IF reopened THEN a ELSE NoWrite
  BY DEF ReopenCompleted
<1> HIDE DEF a, reopened
<1> QED
  BY <1>1, <1>2, <1>3

\* What a reconcile writes when it looks at its thread leaves the counters
\* alone, and says "in progress" of a thread that is seen active.
LEMMA SyncWrites ==
  ASSUME NEW s \in Row, NEW v, NEW stale, NEW w \in ThreadWrites(s, v, stale)
  PROVE  Writes(w) /\ Keeps(w) /\ (v = "active" => (w @@ s)["inProgress"] = TRUE)
<1> DEFINE w1 == SettleStale(s, v, stale)
           f == FollowThread(w1 @@ s, v)
           w2 == f @@ w1
           h == HealFailure(w2 @@ s, v)
           w3 == h @@ w2
           o == ReopenCompleted(w3 @@ s, v, s)
           w4 == o @@ w3
<1>1. w = w4
  <2> DEFINE settled == {w1}
             followed == {FollowThread(x @@ s, v) @@ x : x \in settled}
             healed == {HealFailure(x @@ s, v) @@ x : x \in followed}
  <2>1. w \in {ReopenCompleted(x @@ s, v, s) @@ x : x \in healed}
    BY DEF ThreadWrites
  <2>2. followed = {w2}
    OBVIOUS
  <2>3. healed = {w3}
    BY <2>2
  <2> QED
    BY <2>1, <2>3
<1>2. Writes(w1) /\ Keeps(w1)
  BY SettleWrites
<1> HIDE DEF w1
<1>3. w1 @@ s \in Row
  BY <1>2, Written
<1>4. /\ Writes(f) /\ Keeps(f)
      /\ v = "active" => (f @@ (w1 @@ s))["inProgress"] = TRUE
  BY <1>3, FollowWrites
<1> HIDE DEF f
<1>5. "inProgress" \in Columns
  BY DEF Columns
<1>6. /\ Writes(w2) /\ Keeps(w2)
      /\ DOMAIN w2 = DOMAIN f \cup DOMAIN w1
      /\ \A c \in DOMAIN f \cup DOMAIN w1 : w2[c] = IF c \in DOMAIN f THEN f[c] ELSE w1[c]
  <2>1. Keeps(w2)
    BY <1>2, <1>4, WrittenTwice
  <2>2. Writes(w2) /\ DOMAIN w2 = DOMAIN f \cup DOMAIN w1
    BY <1>2, <1>4, WrittenTwice
  <2>3. \A c \in DOMAIN f \cup DOMAIN w1 : w2[c] = IF c \in DOMAIN f THEN f[c] ELSE w1[c]
    BY DEF @@
  <2> QED
    BY <2>1, <2>2, <2>3
<1>7. /\ w2 @@ s \in Row
      /\ (w2 @@ s)["inProgress"] = (f @@ (w1 @@ s))["inProgress"]
  <2>1. (w1 @@ s)["inProgress"] = IF "inProgress" \in DOMAIN w1 THEN w1["inProgress"] ELSE s["inProgress"]
    BY <1>2, <1>5, Written
  <2>2. (f @@ (w1 @@ s))["inProgress"]
          = IF "inProgress" \in DOMAIN f THEN f["inProgress"] ELSE (w1 @@ s)["inProgress"]
    BY <1>3, <1>4, <1>5, Written
  <2>3. /\ w2 @@ s \in Row
        /\ (w2 @@ s)["inProgress"] = IF "inProgress" \in DOMAIN w2 THEN w2["inProgress"] ELSE s["inProgress"]
    <3> HIDE DEF w2
    <3> QED
      BY <1>5, <1>6, Written
  <2> QED
    BY <2>1, <2>2, <2>3, <1>6
<1> HIDE DEF w2
<1>8. /\ Writes(h) /\ Keeps(h)
      /\ v = "active" /\ "inProgress" \in DOMAIN h => h["inProgress"] = TRUE
  BY <1>7, HealWrites
<1> HIDE DEF h
<1>9. /\ Writes(w3) /\ Keeps(w3)
      /\ DOMAIN w3 = DOMAIN h \cup DOMAIN w2
      /\ \A c \in DOMAIN h \cup DOMAIN w2 : w3[c] = IF c \in DOMAIN h THEN h[c] ELSE w2[c]
  <2>1. Keeps(w3)
    BY <1>6, <1>8, WrittenTwice
  <2>2. Writes(w3) /\ DOMAIN w3 = DOMAIN h \cup DOMAIN w2
    BY <1>6, <1>8, WrittenTwice
  <2>3. \A c \in DOMAIN h \cup DOMAIN w2 : w3[c] = IF c \in DOMAIN h THEN h[c] ELSE w2[c]
    BY DEF @@
  <2> QED
    BY <2>1, <2>2, <2>3
<1> HIDE DEF w3
<1>10. w3 @@ s \in Row
  BY <1>9, Written
<1>11. /\ Writes(o) /\ Keeps(o)
       /\ "inProgress" \in DOMAIN o => o["inProgress"] = TRUE
  BY <1>10, ReopenWrites
<1> HIDE DEF o
<1>12. /\ Writes(w4) /\ Keeps(w4)
       /\ DOMAIN w4 = DOMAIN o \cup DOMAIN w3
       /\ \A c \in DOMAIN o \cup DOMAIN w3 : w4[c] = IF c \in DOMAIN o THEN o[c] ELSE w3[c]
  <2>1. Keeps(w4)
    BY <1>9, <1>11, WrittenTwice
  <2>2. Writes(w4) /\ DOMAIN w4 = DOMAIN o \cup DOMAIN w3
    BY <1>9, <1>11, WrittenTwice
  <2>3. \A c \in DOMAIN o \cup DOMAIN w3 : w4[c] = IF c \in DOMAIN o THEN o[c] ELSE w3[c]
    BY DEF @@
  <2> QED
    BY <2>1, <2>2, <2>3
<1> HIDE DEF w4
<1>13. ASSUME v = "active" PROVE (w4 @@ s)["inProgress"] = TRUE
  <2>1. (w4 @@ s)["inProgress"] = IF "inProgress" \in DOMAIN w4 THEN w4["inProgress"] ELSE s["inProgress"]
    BY <1>5, <1>12, Written
  <2>2. (w2 @@ s)["inProgress"] = IF "inProgress" \in DOMAIN w2 THEN w2["inProgress"] ELSE s["inProgress"]
    BY <1>5, <1>6, Written
  <2>3. (w2 @@ s)["inProgress"] = TRUE
    BY <1>4, <1>7, <1>13
  <2> QED
    BY <2>1, <2>2, <2>3, <1>8, <1>9, <1>11, <1>12, <1>13
<1> QED
  BY <1>1, <1>12, <1>13

---------------------------------------------------------------------------
(* What an UPDATE and a step of a reconcile change.                        *)

Stages == {"idle", "loaded", "synced", "launching", "starting", "recording", "rebinding"}
Task == [pc : Stages, rebind : {"no", "sync", "turn"}, force : BOOLEAN,
         tid : {"none", "own"}, snap : Row]
TasksType == row \in [Missions -> Row] /\ rec \in [Missions -> Task]

LEMMA RowsStart == ASSUME NEW m \in Missions PROVE NewRow(m) \in Row
<1> DEFINE s == IF m \in Started THEN "active" ELSE "paused"
           t == IF m \in Threaded THEN "own" ELSE "none"
<1>1. s \in {"active", "paused"} /\ t \in {"none", "own"}
  OBVIOUS
<1>2. NewRow(m) = [status |-> s, queued |-> FALSE, inProgress |-> FALSE, thread |-> t,
                   completed |-> 0, started |-> 0, failures |-> 0, error |-> "none",
                   noted |-> FALSE]
  BY DEF NewRow
<1> HIDE DEF s, t
<1> QED
  BY <1>1, <1>2 DEF Row

LEMMA NoTasks == ASSUME NEW m \in Missions
                 PROVE  NoTask(m) \in Task /\ NoTask(m).pc = "idle"
BY RowsStart DEF NoTask, Task, Stages

LEMMA Updated ==
  ASSUME TasksType, NEW m \in Missions, NEW w, Writes(w), Update(m, w)
  PROVE  /\ row' \in [Missions -> Row]
         /\ row'[m] = w @@ row[m]
         /\ \A c \in Columns : row'[m][c] = IF c \in DOMAIN w THEN w[c] ELSE row[m][c]
         /\ \A o \in Missions \ {m} : row'[o] = row[o]
<1>1. row[m] \in Row /\ row \in [Missions -> Row]
  BY DEF TasksType
<1> DEFINE t == w @@ row[m]
<1>2. t \in Row /\ \A c \in Columns : t[c] = IF c \in DOMAIN w THEN w[c] ELSE row[m][c]
  BY <1>1, Written
<1>3. row' = [row EXCEPT ![m] = t]
  BY DEF Update
<1> HIDE DEF t
<1>4. row' \in [Missions -> Row] /\ row'[m] = t /\ \A o \in Missions \ {m} : row'[o] = row[o]
  BY <1>1, <1>2, <1>3
<1> QED
  BY <1>2, <1>4 DEF t

LEMMA Unlocked ==
  ASSUME TasksType, NEW m \in Missions, Unlock(m)
  PROVE  /\ rec' \in [Missions -> Task] /\ rec'[m] = NoTask(m) /\ rec'[m].pc = "idle"
         /\ \A o \in Missions \ {m} : rec'[o] = rec[o]
<1> DEFINE t == NoTask(m)
<1>1. t \in Task /\ t.pc = "idle"
  BY NoTasks
<1>2. rec' = [rec EXCEPT ![m] = t] /\ rec \in [Missions -> Task]
  BY DEF Unlock, TasksType
<1> HIDE DEF t
<1>3. rec' \in [Missions -> Task] /\ rec'[m] = t /\ \A o \in Missions \ {m} : rec'[o] = rec[o]
  BY <1>1, <1>2
<1> QED
  BY <1>1, <1>3 DEF t

\* The task goes to stage p with the snapshot its own write gives it.
Goes(m, p, w) ==
  /\ rec' \in [Missions -> Task]
  /\ \A o \in Missions \ {m} : rec'[o] = rec[o]
  /\ rec'[m].pc = p /\ rec'[m].snap = w @@ rec[m].snap
  /\ rec'[m].tid = rec[m].tid /\ rec'[m].force = rec[m].force

LEMMA Advanced ==
  ASSUME TasksType, NEW m \in Missions, NEW p \in Stages, NEW w, Writes(w),
         \/ Advance(m, p, w)
         \/ p = "rebinding" /\ \E from \in {"sync", "turn"} : BeginRebind(m, from, w)
  PROVE  Goes(m, p, w)
<1>1. rec \in [Missions -> Task] /\ rec[m] \in Task
  BY DEF TasksType
<1> DEFINE s == w @@ rec[m].snap
<1>2. rec[m].snap \in Row
  BY <1>1 DEF Task
<1>3. s \in Row
  BY <1>2, Written
<1>4. ASSUME NEW b \in {"no", "sync", "turn"},
             rec' = [rec EXCEPT ![m] = [rec[m] EXCEPT !.pc = p, !.rebind = b, !.snap = s]]
      PROVE  Goes(m, p, w)
  <2> DEFINE t == [rec[m] EXCEPT !.pc = p, !.rebind = b, !.snap = s]
  <2>1. t \in Task /\ t.pc = p /\ t.snap = s /\ t.tid = rec[m].tid /\ t.force = rec[m].force
    <3> HIDE DEF s
    <3> QED
      BY <1>1, <1>3 DEF Task
  <2> HIDE DEF t
  <2>2. rec' = [rec EXCEPT ![m] = t]
    BY <1>4 DEF t
  <2>3. /\ rec' \in [Missions -> Task] /\ rec'[m] = t
        /\ \A o \in Missions \ {m} : rec'[o] = rec[o]
    BY <1>1, <2>1, <2>2
  <2> QED
    BY <2>1, <2>3 DEF Goes, s
<1>5. CASE Advance(m, p, w)
  <2>1. rec' = [rec EXCEPT ![m] = [rec[m] EXCEPT !.pc = p, !.rebind = rec[m].rebind, !.snap = s]]
    <3> HIDE DEF s
    <3>1. rec' = [rec EXCEPT ![m].pc = p, ![m].snap = s]
      BY <1>5 DEF Advance, s
    <3> QED
      BY <1>1, <3>1 DEF Task
  <2>2. rec[m].rebind \in {"no", "sync", "turn"}
    BY <1>1 DEF Task
  <2> QED
    BY <1>4, <2>1, <2>2
<1>6. ASSUME p = "rebinding", NEW b \in {"sync", "turn"}, BeginRebind(m, b, w)
      PROVE  Goes(m, p, w)
  <2>1. rec' = [rec EXCEPT ![m] = [rec[m] EXCEPT !.pc = p, !.rebind = b, !.snap = s]]
    <3> HIDE DEF s
    <3>1. rec' = [rec EXCEPT ![m].pc = p, ![m].rebind = b, ![m].snap = s]
      BY <1>6 DEF BeginRebind, s
    <3> QED
      BY <1>1, <3>1 DEF Task
  <2> QED
    BY <1>4, <2>1
<1> QED
  BY <1>5, <1>6

---------------------------------------------------------------------------
(* The ways out of a reconcile.                                            *)

\* The counters and the thread in the row of m.
Spared(m) == \A c \in {"thread", "completed", "started"} : row'[m][c] = row[m][c]
Apart(m) == \A o \in Missions \ {m} : row'[o] = row[o] /\ rec'[o] = rec[o]

\* The reconcile of m is over, and has left the counters alone.
Ended(m) == TasksType' /\ Apart(m) /\ Spared(m) /\ rec'[m].pc = "idle"

LEMMA Sparing ==
  ASSUME TasksType, NEW m \in Missions, NEW w, Writes(w), Keeps(w), Update(m, w)
  PROVE  Spared(m)
<1>1. {"thread", "completed", "started"} \subseteq Columns
  BY DEF Columns
<1>2. \A c \in Columns : row'[m][c] = IF c \in DOMAIN w THEN w[c] ELSE row[m][c]
  BY Updated
<1> QED
  BY <1>1, <1>2 DEF Spared, Keeps

LEMMA Ending ==
  ASSUME TasksType, NEW m \in Missions, NEW w, Writes(w), Keeps(w), Update(m, w), Unlock(m)
  PROVE  Ended(m)
<1>1. row' \in [Missions -> Row] /\ \A o \in Missions \ {m} : row'[o] = row[o]
  BY Updated
<1>2. /\ rec' \in [Missions -> Task] /\ rec'[m].pc = "idle"
      /\ \A o \in Missions \ {m} : rec'[o] = rec[o]
  BY Unlocked
<1>3. Spared(m)
  BY Sparing
<1> QED
  BY <1>1, <1>2, <1>3 DEF Ended, TasksType, Apart

LEMMA NoWrites == Writes(NoWrite) /\ Keeps(NoWrite)
BY DEF NoWrite, Writes, Keeps

LEMMA UnblockWrites ==
  ASSUME NEW s \in Row
  PROVE  /\ Writes(Unblock(s)) /\ Keeps(Unblock(s))
         /\ "inProgress" \notin DOMAIN Unblock(s)
<1> DEFINE a == [status |-> "active", queued |-> FALSE]
           b == IF s.error \in {"approval", "queue"} THEN [error |-> "none"] ELSE NoWrite
<1>1. Writes(a) /\ Keeps(a) /\ DOMAIN a = {"status", "queued"}
  BY DEF Writes, Keeps, Columns, Statuses
<1>2. Writes(b) /\ Keeps(b) /\ DOMAIN b \subseteq {"error"}
  BY DEF Writes, Keeps, Columns, Errors, NoWrite
<1>3. Unblock(s) = IF s.status # "blocked" THEN NoWrite ELSE a @@ b
  BY DEF Unblock
<1> HIDE DEF a, b
<1>4. Writes(a @@ b) /\ DOMAIN (a @@ b) = DOMAIN a \cup DOMAIN b
  BY <1>1, <1>2, WrittenTwice
<1>5. Keeps(a @@ b)
  BY <1>1, <1>2, WrittenTwice
<1>6. DOMAIN NoWrite = {}
  BY DEF NoWrite
<1> QED
  BY <1>1, <1>2, <1>3, <1>4, <1>5, <1>6, NoWrites

\* A turn that could not be started.
FailureWrites(m, error) ==
  [status |-> "failed", queued |-> FALSE, inProgress |-> FALSE,
   failures |-> rec[m].snap.failures + 1, error |-> error]

LEMMA FailureIsWrite ==
  ASSUME TasksType, NEW m \in Missions, NEW error \in Errors
  PROVE  Writes(FailureWrites(m, error)) /\ Keeps(FailureWrites(m, error))
<1>1. rec[m].snap.failures + 1 \in Nat
  BY DEF TasksType, Task, Row
<1> QED
  BY <1>1 DEF FailureWrites, Writes, Keeps, Columns, Statuses

LEMMA RepairEnds ==
  ASSUME TasksType, NEW m \in Missions, RepairFinal(m)
  PROVE  Ended(m)
<1> DEFINE s == rec[m].snap
           a == IF s.status # "completed" THEN [x \in {"status"} |-> "completed"] ELSE NoWrite
           b == IF s.status # "completed" THEN [queued |-> FALSE] ELSE NoWrite
           c == IF s.inProgress # FALSE THEN [x \in {"inProgress"} |-> FALSE] ELSE NoWrite
           d == IF s.error # "none" THEN [x \in {"error"} |-> "none"] ELSE NoWrite
           w == a @@ b @@ c @@ d
<1>1. /\ Writes(a) /\ Keeps(a) /\ Writes(b) /\ Keeps(b)
      /\ Writes(c) /\ Keeps(c) /\ Writes(d) /\ Keeps(d)
  BY DEF Writes, Keeps, Columns, Statuses, Errors, NoWrite
<1>2. Update(m, w) /\ Unlock(m)
  BY DEF RepairFinal
<1> HIDE DEF a, b, c, d
<1>3. Writes(a @@ b) /\ Keeps(a @@ b)
  BY <1>1, BothWrite
<1> DEFINE ab == a @@ b
<1> HIDE DEF ab
<1>4. Writes(ab @@ c) /\ Keeps(ab @@ c)
  BY <1>1, <1>3, BothWrite DEF ab
<1> DEFINE abc == ab @@ c
<1> HIDE DEF abc
<1>5. Writes(abc @@ d) /\ Keeps(abc @@ d)
  BY <1>1, <1>4, BothWrite DEF abc
<1> HIDE DEF w
<1>6. w = abc @@ d
  BY DEF w, abc, ab
<1> QED
  BY <1>2, <1>5, <1>6, Ending

\* The steps that end a reconcile, but for the one that records a turn.
Ends(m) ==
  \/ RepairFinal(m) \/ NotReconciled(m) \/ Queue(m) \/ AwaitApproval(m)
  \/ CompleteAtLimit(m) \/ AutoYield(m) \/ LeaveRunning(m) \/ LaunchTimesOut(m)
  \/ TurnRefused(m) \/ TurnTimesOut(m) \/ (RebindFails(m) /\ Unlock(m))

LEMMA EndsEnd ==
  ASSUME TasksType, NEW m \in Missions, Ends(m)
  PROVE  Ended(m) /\ rec[m].pc \notin {"idle", "recording"}
<1>1. CASE RepairFinal(m)
  <2>1. rec[m].pc = "loaded"
    BY <1>1 DEF RepairFinal
  <2> QED
    BY <1>1, <2>1, RepairEnds
<1>2. CASE NotReconciled(m)
  <2>1. rec[m].pc = "loaded" /\ Unlock(m) /\ row' = row
    BY <1>2 DEF NotReconciled, tableVars
  <2>2. /\ rec' \in [Missions -> Task] /\ rec'[m].pc = "idle"
        /\ \A o \in Missions \ {m} : rec'[o] = rec[o]
    BY <2>1, Unlocked
  <2> QED
    BY <2>1, <2>2 DEF Ended, Spared, Apart, TasksType
<1>3. CASE Queue(m)
  <2> DEFINE w == [status |-> "blocked", queued |-> TRUE, inProgress |-> FALSE, error |-> "queue"]
  <2>1. Writes(w) /\ Keeps(w)
    BY DEF Writes, Keeps, Columns, Statuses, Errors
  <2>2. Update(m, w) /\ Unlock(m) /\ rec[m].pc = "synced"
    BY <1>3 DEF Queue
  <2> HIDE DEF w
  <2> QED
    BY <2>1, <2>2, Ending
<1>4. CASE AwaitApproval(m)
  <2> DEFINE w == [status |-> "blocked", queued |-> FALSE, error |-> "approval"]
  <2>1. Writes(w) /\ Keeps(w)
    BY DEF Writes, Keeps, Columns, Statuses, Errors
  <2>2. Update(m, w) /\ Unlock(m) /\ rec[m].pc = "synced"
    BY <1>4 DEF AwaitApproval
  <2> HIDE DEF w
  <2> QED
    BY <2>1, <2>2, Ending
<1>5. rec[m].snap \in Row
  BY DEF TasksType, Task
<1>6. CASE CompleteAtLimit(m)
  <2> DEFINE w == [status |-> "completed", queued |-> FALSE, inProgress |-> FALSE]
  <2>1. Writes(w) /\ Keeps(w)
    BY DEF Writes, Keeps, Columns, Statuses
  <2> HIDE DEF w
  <2>2. Writes(w @@ Unblock(rec[m].snap)) /\ Keeps(w @@ Unblock(rec[m].snap))
    BY <1>5, <2>1, UnblockWrites, BothWrite
  <2>3. Update(m, w @@ Unblock(rec[m].snap)) /\ Unlock(m) /\ rec[m].pc = "synced"
    BY <1>6 DEF CompleteAtLimit, Free, w
  <2> QED
    BY <2>2, <2>3, Ending
<1>7. CASE AutoYield(m)
  <2> DEFINE w == [status |-> "paused", queued |-> FALSE, inProgress |-> FALSE,
                   error |-> "none", noted |-> TRUE]
  <2>1. Writes(w) /\ Keeps(w)
    BY DEF Writes, Keeps, Columns, Statuses, Errors
  <2>2. Update(m, w) /\ Unlock(m) /\ rec[m].pc = "synced"
    BY <1>7 DEF AutoYield, Free
  <2> HIDE DEF w
  <2> QED
    BY <2>1, <2>2, Ending
<1>8. CASE LeaveRunning(m)
  <2>1. Update(m, Unblock(rec[m].snap)) /\ Unlock(m) /\ rec[m].pc = "synced"
    BY <1>8 DEF LeaveRunning, Free
  <2> QED
    BY <1>5, <2>1, UnblockWrites, Ending
<1>9. CASE LaunchTimesOut(m)
  <2> DEFINE w == [status |-> "blocked", queued |-> FALSE, inProgress |-> FALSE, error |-> "launch"]
  <2>1. Writes(w) /\ Keeps(w)
    BY DEF Writes, Keeps, Columns, Statuses, Errors
  <2>2. Update(m, w) /\ Unlock(m) /\ rec[m].pc = "launching"
    BY <1>9 DEF LaunchTimesOut
  <2> HIDE DEF w
  <2> QED
    BY <2>1, <2>2, Ending
<1>10. ASSUME NEW error \in Errors, Update(m, FailureWrites(m, error)), Unlock(m)
       PROVE  Ended(m)
  BY <1>10, FailureIsWrite, Ending
<1>11. {"turn", "timeout", "lost"} \subseteq Errors
  BY DEF Errors
<1>12. CASE TurnRefused(m)
  <2>1. Update(m, FailureWrites(m, "turn")) /\ Unlock(m) /\ rec[m].pc = "starting"
    BY <1>12 DEF TurnRefused, TurnFails, FailureWrites
  <2> QED
    BY <1>10, <1>11, <2>1
<1>13. CASE TurnTimesOut(m)
  <2>1. Update(m, FailureWrites(m, "timeout")) /\ Unlock(m) /\ rec[m].pc = "starting"
    BY <1>13 DEF TurnTimesOut, TurnFails, FailureWrites
  <2> QED
    BY <1>10, <1>11, <2>1
<1>14. CASE RebindFails(m) /\ Unlock(m)
  <2>1. /\ Update(m, FailureWrites(m, "lost")) \/ Update(m, FailureWrites(m, "turn"))
        /\ rec[m].pc = "rebinding" /\ Unlock(m)
    BY <1>14 DEF RebindFails, FailureWrites
  <2> QED
    BY <1>10, <1>11, <2>1
<1> QED
  BY <1>1, <1>2, <1>3, <1>4, <1>6, <1>7, <1>8, <1>9, <1>12, <1>13, <1>14 DEF Ends

---------------------------------------------------------------------------
(* The steps a reconcile goes on with.                                     *)

\* The task keeps what its snapshot says of the thread and the counters.
Onward(m) ==
  /\ TasksType' /\ Apart(m)
  /\ \A c \in {"thread", "completed", "started"} : rec'[m].snap[c] = rec[m].snap[c]
  /\ rec'[m].tid = rec[m].tid /\ rec'[m].force = rec[m].force

LEMMA GoingOn ==
  ASSUME TasksType, NEW m \in Missions, NEW p, NEW w, Writes(w), Keeps(w), Goes(m, p, w),
         row' \in [Missions -> Row], \A o \in Missions \ {m} : row'[o] = row[o]
  PROVE  Onward(m)
<1>1. rec[m].snap \in Row /\ {"thread", "completed", "started"} \subseteq Columns
  BY DEF TasksType, Task, Columns
<1>2. \A c \in Columns : (w @@ rec[m].snap)[c] = IF c \in DOMAIN w THEN w[c] ELSE rec[m].snap[c]
  BY <1>1, Written
<1>3. \A c \in {"thread", "completed", "started"} : rec'[m].snap[c] = rec[m].snap[c]
  BY <1>1, <1>2 DEF Goes, Keeps
<1> QED
  BY <1>3 DEF Onward, Goes, TasksType, Apart

LEMMA SyncGoesOn ==
  ASSUME TasksType, NEW m \in Missions, NEW stale, NEW quiet, SyncThread(m, stale, quiet)
  PROVE  /\ Onward(m) /\ Spared(m)
         /\ rec[m].pc = "loaded"
         /\ \/ rec'[m].pc = "synced"
            \/ rec'[m].pc = "rebinding" /\ view[m] \in {"absent", "notLoaded"}
         /\ rec[m].snap.thread = "own" /\ view[m] = "active" => rec'[m].snap.inProgress = TRUE
<1> DEFINE s == rec[m].snap
<1>1. s \in Row
  BY DEF TasksType, Task
<1>2. PICK w \in IF s.thread = "none" THEN {NoWrite} ELSE ThreadWrites(s, view[m], stale) :
        /\ Update(m, w)
        /\ \/ Advance(m, "synced", w)
           \/ BeginRebind(m, "sync", w) /\ view[m] \in {"absent", "notLoaded"}
  BY DEF SyncThread, Untracked
<1>3. /\ Writes(w) /\ Keeps(w)
      /\ s.thread = "own" /\ view[m] = "active" => (w @@ s)["inProgress"] = TRUE
  <2>1. CASE s.thread = "none"
    BY <2>1, NoWrites
  <2>2. CASE s.thread # "none"
    BY <1>1, <2>2, SyncWrites
  <2> QED
    BY <2>1, <2>2
<1>4. row' \in [Missions -> Row] /\ \A o \in Missions \ {m} : row'[o] = row[o]
  BY <1>2, <1>3, Updated
<1>5. Spared(m)
  BY <1>2, <1>3, Sparing
<1>6. {"synced", "rebinding"} \subseteq Stages
  BY DEF Stages
<1>7. \/ Goes(m, "synced", w)
      \/ Goes(m, "rebinding", w) /\ view[m] \in {"absent", "notLoaded"}
  <2>1. CASE Advance(m, "synced", w)
    BY <1>3, <1>6, <2>1, Advanced
  <2>2. CASE BeginRebind(m, "sync", w) /\ view[m] \in {"absent", "notLoaded"}
    BY <1>3, <1>6, <2>2, Advanced
  <2> QED
    BY <1>2, <2>1, <2>2
<1>8. Onward(m)
  BY <1>3, <1>4, <1>7, GoingOn
<1>9. rec[m].pc = "loaded"
  BY DEF SyncThread
<1> QED
  BY <1>3, <1>5, <1>7, <1>8, <1>9 DEF Goes

LEMMA GoOnGoesOn ==
  ASSUME TasksType, NEW m \in Missions, GoOn(m)
  PROVE  /\ Onward(m) /\ Spared(m)
         /\ rec[m].pc = "synced"
         /\ rec'[m].pc = IF rec[m].snap.thread = "none" THEN "launching" ELSE "starting"
         /\ ~rec[m].snap.inProgress \/ rec[m].force
<1> DEFINE s == rec[m].snap
           p == IF s.thread = "none" THEN "launching" ELSE "starting"
           w == Unblock(s)
<1>1. s \in Row /\ p \in Stages
  BY DEF TasksType, Task, Stages
<1>2. Writes(w) /\ Keeps(w)
  BY <1>1, UnblockWrites
<1>3. /\ rec[m].pc = "synced" /\ Update(m, w) /\ Advance(m, p, w)
      /\ ~s.inProgress \/ rec[m].force
  BY DEF GoOn, Free
<1> HIDE DEF w, p
<1>4. row' \in [Missions -> Row] /\ \A o \in Missions \ {m} : row'[o] = row[o]
  BY <1>2, <1>3, Updated
<1>5. Spared(m)
  BY <1>2, <1>3, Sparing
<1>6. Goes(m, p, w)
  BY <1>1, <1>2, <1>3, Advanced
<1>7. Onward(m)
  BY <1>2, <1>4, <1>6, GoingOn
<1> QED
  BY <1>3, <1>5, <1>6, <1>7 DEF Goes, p

\* The same for the steps that write nothing.
LEMMA UnwrittenGoesOn ==
  ASSUME TasksType, NEW m \in Missions, NEW p \in Stages, row' = row,
         \/ Advance(m, p, NoWrite)
         \/ p = "rebinding" /\ BeginRebind(m, "turn", NoWrite)
  PROVE  Onward(m) /\ Spared(m) /\ rec'[m].pc = p
<1>1. Goes(m, p, NoWrite)
  BY NoWrites, Advanced
<1>2. row' \in [Missions -> Row] /\ \A o \in Missions \ {m} : row'[o] = row[o]
  BY DEF TasksType
<1>3. Onward(m)
  BY <1>1, <1>2, NoWrites, GoingOn
<1> QED
  BY <1>1, <1>3 DEF Goes, Spared

LEMMA LaunchGoesOn ==
  ASSUME TasksType, NEW m \in Missions, LaunchThread(m)
  PROVE  /\ TasksType' /\ Apart(m)
         /\ rec[m].pc = "launching" /\ rec'[m].pc = "starting"
         /\ \A c \in {"completed", "started"} :
              row'[m][c] = row[m][c] /\ rec'[m].snap[c] = rec[m].snap[c]
         /\ row'[m].thread = "own" /\ rec'[m].snap.thread = "own"
         /\ rec'[m].tid = rec[m].tid /\ rec'[m].force = rec[m].force
<1> DEFINE w == [thread |-> "own", queued |-> FALSE]
           v == [thread |-> "own"]
<1>1. Writes(w) /\ Writes(v)
  BY DEF Writes, Columns
<1>2. /\ DOMAIN w = {"thread", "queued"} /\ w["thread"] = "own"
      /\ DOMAIN v = {"thread"} /\ v["thread"] = "own"
      /\ {"thread", "completed", "started"} \subseteq Columns
  BY DEF Columns
<1>3. rec[m].pc = "launching" /\ Update(m, w) /\ Advance(m, "starting", v)
  BY DEF LaunchThread
<1> HIDE DEF w, v
<1>4. /\ row' \in [Missions -> Row] /\ \A o \in Missions \ {m} : row'[o] = row[o]
      /\ \A c \in Columns : row'[m][c] = IF c \in DOMAIN w THEN w[c] ELSE row[m][c]
  BY <1>1, <1>3, Updated
<1>5. Goes(m, "starting", v)
  BY <1>1, <1>3, Advanced DEF Stages
<1>6. rec[m].snap \in Row
  BY DEF TasksType, Task
<1>7. \A c \in Columns : (v @@ rec[m].snap)[c] = IF c \in DOMAIN v THEN v[c] ELSE rec[m].snap[c]
  BY <1>1, <1>6, Written
<1>8. /\ TasksType' /\ Apart(m) /\ rec'[m].pc = "starting"
      /\ rec'[m].tid = rec[m].tid /\ rec'[m].force = rec[m].force
      /\ rec'[m].snap = v @@ rec[m].snap
  BY <1>4, <1>5 DEF Goes, TasksType, Apart
<1>9. \A c \in {"completed", "started"} : row'[m][c] = row[m][c] /\ rec'[m].snap[c] = rec[m].snap[c]
  BY <1>2, <1>4, <1>7, <1>8
<1>10. row'[m].thread = "own" /\ rec'[m].snap.thread = "own"
  BY <1>2, <1>4, <1>7, <1>8
<1> QED
  BY <1>3, <1>8, <1>9, <1>10

LEMMA RebindGoesOn ==
  ASSUME TasksType, NEW m \in Missions, RebindThread(m)
  PROVE  /\ TasksType' /\ Apart(m)
         /\ rec[m].pc = "rebinding" /\ rec'[m].pc = "starting"
         /\ \A c \in {"completed", "started"} :
              row'[m][c] = row[m][c] /\ rec'[m].snap[c] = row[m][c]
         /\ row'[m].thread = "own" /\ rec'[m].snap.thread = "own"
         /\ rec'[m].tid = "own" /\ rec'[m].force = rec[m].force
<1> DEFINE w == [thread |-> "own", status |-> "active", queued |-> FALSE,
                 inProgress |-> FALSE, error |-> "none"]
           s == w @@ row[m]
           t == [rec[m] EXCEPT !.pc = "starting", !.tid = "own", !.snap = s]
<1>1. Writes(w)
  BY DEF Writes, Columns, Statuses, Errors
<1>2. /\ DOMAIN w = {"thread", "status", "queued", "inProgress", "error"} /\ w["thread"] = "own"
      /\ {"thread", "completed", "started"} \subseteq Columns
  BY DEF Columns
<1>3. /\ rec[m].pc = "rebinding" /\ Update(m, w)
      /\ rec' = [rec EXCEPT ![m].pc = "starting", ![m].tid = "own", ![m].snap = s]
  BY DEF RebindThread
<1> HIDE DEF w
<1>4. /\ row' \in [Missions -> Row] /\ \A o \in Missions \ {m} : row'[o] = row[o]
      /\ row'[m] = s
      /\ \A c \in Columns : row'[m][c] = IF c \in DOMAIN w THEN w[c] ELSE row[m][c]
  BY <1>1, <1>3, Updated
<1>5. s \in Row
  BY <1>4
<1> HIDE DEF s
<1>6. rec \in [Missions -> Task] /\ rec[m] \in Task
  BY DEF TasksType
<1>7. t \in Task /\ t.pc = "starting" /\ t.tid = "own" /\ t.snap = s /\ t.force = rec[m].force
  BY <1>5, <1>6 DEF Task, Stages
<1>8. rec' = [rec EXCEPT ![m] = t]
  BY <1>3, <1>6 DEF Task
<1> HIDE DEF t
<1>9. rec' \in [Missions -> Task] /\ rec'[m] = t /\ \A o \in Missions \ {m} : rec'[o] = rec[o]
  BY <1>6, <1>7, <1>8
<1>10. \A c \in {"completed", "started"} : row'[m][c] = row[m][c] /\ rec'[m].snap[c] = row[m][c]
  BY <1>2, <1>4, <1>7, <1>9
<1>11. row'[m].thread = "own" /\ rec'[m].snap.thread = "own"
  BY <1>2, <1>4, <1>7, <1>9
<1> QED
  BY <1>3, <1>4, <1>7, <1>9, <1>10, <1>11 DEF TasksType, Apart

LEMMA FailedRebindGoesOn ==
  ASSUME TasksType, NEW m \in Missions, RebindFails(m), ~Unlock(m)
  PROVE  Onward(m) /\ Spared(m) /\ rec[m].pc = "rebinding" /\ rec'[m].pc = "synced"
<1> DEFINE w == FailureWrites(m, "turn")
           t == [rec[m] EXCEPT !.pc = "synced", !.rebind = "no"]
<1>1. /\ rec[m].pc = "rebinding" /\ Update(m, w)
      /\ rec' = [rec EXCEPT ![m].pc = "synced", ![m].rebind = "no"]
  BY DEF RebindFails, FailureWrites
<1>2. Writes(w) /\ Keeps(w)
  BY FailureIsWrite DEF Errors
<1> HIDE DEF w
<1>3. row' \in [Missions -> Row] /\ \A o \in Missions \ {m} : row'[o] = row[o]
  BY <1>1, <1>2, Updated
<1>4. Spared(m)
  BY <1>1, <1>2, Sparing
<1>5. rec \in [Missions -> Task] /\ rec[m] \in Task
  BY DEF TasksType
<1>6. /\ t \in Task /\ t.pc = "synced" /\ t.tid = rec[m].tid /\ t.snap = rec[m].snap
      /\ t.force = rec[m].force
  BY <1>5 DEF Task, Stages
<1>7. rec' = [rec EXCEPT ![m] = t]
  BY <1>1, <1>5 DEF Task
<1> HIDE DEF t
<1>8. rec' \in [Missions -> Task] /\ rec'[m] = t /\ \A o \in Missions \ {m} : rec'[o] = rec[o]
  BY <1>5, <1>6, <1>7
<1> QED
  BY <1>1, <1>3, <1>4, <1>6, <1>8 DEF Onward, TasksType, Apart

LEMMA RecordEnds ==
  ASSUME TasksType, NEW m \in Missions, RecordTurn(m)
  PROVE  /\ TasksType' /\ Apart(m) /\ rec[m].pc = "recording" /\ rec'[m].pc = "idle"
         /\ row'[m].started = rec[m].snap.started + 1
         /\ row'[m].completed = row[m].completed /\ row'[m].thread = row[m].thread
<1> DEFINE n == rec[m].snap.started + 1
           w == [status |-> "active", queued |-> FALSE, inProgress |-> TRUE,
                 started |-> n, error |-> "none"]
<1>1. n \in Nat
  BY DEF TasksType, Task, Row
<1>2. rec[m].pc = "recording" /\ Update(m, w) /\ Unlock(m)
  BY DEF RecordTurn
<1> HIDE DEF n
<1>3. /\ Writes(w) /\ w["started"] = n
      /\ DOMAIN w = {"status", "queued", "inProgress", "started", "error"}
      /\ {"thread", "completed", "started"} \subseteq Columns
  BY <1>1 DEF Writes, Columns, Statuses, Errors
<1> HIDE DEF w
<1>4. /\ row' \in [Missions -> Row] /\ \A o \in Missions \ {m} : row'[o] = row[o]
      /\ \A c \in Columns : row'[m][c] = IF c \in DOMAIN w THEN w[c] ELSE row[m][c]
  BY <1>2, <1>3, Updated
<1>5. /\ rec' \in [Missions -> Task] /\ rec'[m].pc = "idle"
      /\ \A o \in Missions \ {m} : rec'[o] = rec[o]
  BY <1>2, Unlocked
<1>6. /\ row'[m].started = n
      /\ row'[m].completed = row[m].completed /\ row'[m].thread = row[m].thread
  BY <1>3, <1>4
<1> QED
  BY <1>2, <1>4, <1>5, <1>6 DEF TasksType, Apart, n

---------------------------------------------------------------------------
(* What the operator and the listener write.                               *)

\* Someone other than a reconcile has written the row of m.
Touched(m) ==
  /\ row' \in [Missions -> Row] /\ \A o \in Missions \ {m} : row'[o] = row[o]
  /\ Spared(m)

LEMMA Touching ==
  ASSUME TasksType, NEW m \in Missions, NEW w, Writes(w), Keeps(w), Update(m, w)
  PROVE  Touched(m)
<1>1. row' \in [Missions -> Row] /\ \A o \in Missions \ {m} : row'[o] = row[o]
  BY Updated
<1> QED
  BY <1>1, Sparing DEF Touched

LEMMA OperatorTouches ==
  ASSUME TasksType, NEW m \in Missions,
         Pause(m) \/ Complete(m) \/ Resume(m) \/ RunNow(m)
  PROVE  Touched(m)
<1>1. CASE Pause(m)
  <2> DEFINE w == [status |-> "paused", queued |-> FALSE, inProgress |-> FALSE]
  <2>1. Writes(w) /\ Keeps(w)
    BY DEF Writes, Keeps, Columns, Statuses
  <2>2. Update(m, w)
    BY <1>1 DEF Pause
  <2> HIDE DEF w
  <2> QED
    BY <2>1, <2>2, Touching
<1>2. CASE Complete(m)
  <2> DEFINE w == [status |-> "completed", queued |-> FALSE, inProgress |-> FALSE]
  <2>1. Writes(w) /\ Keeps(w)
    BY DEF Writes, Keeps, Columns, Statuses
  <2>2. Update(m, w)
    BY <1>2 DEF Complete
  <2> HIDE DEF w
  <2> QED
    BY <2>1, <2>2, Touching
<1>3. CASE Resume(m) \/ RunNow(m)
  <2> DEFINE w == [status |-> "active", queued |-> FALSE, error |-> "none"]
  <2>1. Writes(w) /\ Keeps(w)
    BY DEF Writes, Keeps, Columns, Statuses, Errors
  <2>2. Update(m, w) \/ row' = row
    BY <1>3 DEF Resume, RunNow
  <2>3. CASE row' = row
    BY <2>3 DEF Touched, Spared, TasksType
  <2> HIDE DEF w
  <2> QED
    BY <2>1, <2>2, <2>3, Touching
<1> QED
  BY <1>1, <1>2, <1>3

\* An event counts a turn as completed or leaves the counters alone.
LEMMA EventWrites ==
  ASSUME NEW s \in Row, NEW kind \in Kinds
  PROVE  LET w == OwnWrites(kind, s) @@ LiveWrites(kind, s)
         IN  /\ Writes(w) /\ "thread" \notin DOMAIN w /\ "started" \notin DOMAIN w
             /\ kind # "turnCompleted" => "completed" \notin DOMAIN w
             /\ kind = "turnCompleted" =>
                  "completed" \in DOMAIN w /\ w["completed"] = s.completed + 1
<1> DEFINE own == OwnWrites(kind, s)
           live == LiveWrites(kind, s)
           a == IF s.status = "active" THEN [error |-> "none"] ELSE NoWrite
<1>1. Writes(live) /\ Keeps(live)
  BY DEF LiveWrites, NoWrite, Writes, Keeps, Columns, Statuses, Errors
<1>2. Writes(a) /\ Keeps(a)
  BY DEF NoWrite, Writes, Keeps, Columns, Errors
<1>3. s.completed + 1 \in Nat /\ s.failures + 1 \in Nat
  BY DEF Row
<1>4. CASE kind = "turnCompleted"
  <2> DEFINE n == s.completed + 1
             b == [inProgress |-> FALSE, completed |-> n, queued |-> FALSE]
  <2>1. own = b @@ a
    BY <1>4 DEF OwnWrites
  <2> HIDE DEF n, a
  <2>2. /\ Writes(b) /\ "thread" \notin DOMAIN b /\ "started" \notin DOMAIN b
        /\ "completed" \in DOMAIN b /\ b["completed"] = n
    BY <1>3 DEF Writes, Columns, n
  <2> HIDE DEF b
  <2>3. Writes(own)
    BY <1>2, <2>1, <2>2, WrittenTwice
  <2>4. /\ DOMAIN own = DOMAIN b \cup DOMAIN a
        /\ \A c \in DOMAIN b : own[c] = b[c]
    BY <2>1 DEF @@
  <2> HIDE DEF own, live
  <2>5. Writes(own @@ live)
    BY <1>1, <2>3, WrittenTwice
  <2>6. /\ DOMAIN (own @@ live) = DOMAIN own \cup DOMAIN live
        /\ \A c \in DOMAIN own : (own @@ live)[c] = own[c]
    BY DEF @@
  <2>7. "thread" \notin DOMAIN (own @@ live) /\ "started" \notin DOMAIN (own @@ live)
    BY <1>1, <1>2, <2>2, <2>4, <2>6 DEF Keeps
  <2>8. "completed" \in DOMAIN (own @@ live) /\ (own @@ live)["completed"] = n
    BY <2>2, <2>4, <2>6
  <2> QED
    BY <1>4, <2>5, <2>7, <2>8 DEF own, live, n
<1>5. CASE kind # "turnCompleted"
  <2>1. Writes(own) /\ Keeps(own)
    <3>1. CASE kind = "turnStarted"
      <4> DEFINE b == [inProgress |-> TRUE, queued |-> FALSE]
      <4>1. own = b @@ a
        BY <3>1 DEF OwnWrites
      <4>2. Writes(b) /\ Keeps(b)
        BY DEF Writes, Keeps, Columns
      <4> HIDE DEF a, b, own
      <4> QED
        BY <1>2, <4>1, <4>2, BothWrite
    <3>2. CASE kind = "turnError"
      <4> DEFINE n == s.failures + 1
                 b == [status |-> "failed", queued |-> FALSE, inProgress |-> FALSE,
                       failures |-> n, error |-> "turn"]
      <4>1. own = b
        BY <3>2 DEF OwnWrites
      <4> HIDE DEF n
      <4>2. Writes(b) /\ Keeps(b)
        BY <1>3 DEF Writes, Keeps, Columns, Statuses, Errors, n
      <4> QED
        BY <4>1, <4>2
    <3>3. CASE kind \in {"item", "finalAnswer", "approval"}
      BY <3>3 DEF OwnWrites, Writes, Keeps, Columns, Statuses, Errors
    <3> QED
      BY <1>5, <3>1, <3>2, <3>3 DEF Kinds
  <2> HIDE DEF own, live
  <2>2. Writes(own @@ live) /\ Keeps(own @@ live)
    BY <1>1, <2>1, BothWrite
  <2> QED
    BY <1>5, <2>2 DEF own, live, Keeps
<1> QED
  BY <1>4, <1>5

Handler == [kind : Kinds, of : Missions, snap : Row]

LEMMA EventTouches ==
  ASSUME TasksType, handler \in Handler, HandleEvent
  PROVE  /\ row' \in [Missions -> Row]
         /\ \A o \in Missions \ {handler.of} : row'[o] = row[o]
         /\ row'[handler.of].thread = row[handler.of].thread
         /\ row'[handler.of].started = row[handler.of].started
         /\ row'[handler.of].completed = IF handler.kind = "turnCompleted"
                                         THEN handler.snap.completed + 1
                                         ELSE row[handler.of].completed
<1> DEFINE w == OwnWrites(handler.kind, handler.snap) @@ LiveWrites(handler.kind, handler.snap)
<1>1. handler.kind \in Kinds /\ handler.of \in Missions /\ handler.snap \in Row
  BY DEF Handler
<1>2. /\ Writes(w) /\ "thread" \notin DOMAIN w /\ "started" \notin DOMAIN w
      /\ handler.kind # "turnCompleted" => "completed" \notin DOMAIN w
      /\ handler.kind = "turnCompleted" =>
           "completed" \in DOMAIN w /\ w["completed"] = handler.snap.completed + 1
  BY <1>1, EventWrites
<1>3. Update(handler.of, w)
  BY DEF HandleEvent
<1> HIDE DEF w
<1>4. /\ row' \in [Missions -> Row]
      /\ \A o \in Missions \ {handler.of} : row'[o] = row[o]
      /\ \A c \in Columns : row'[handler.of][c] = IF c \in DOMAIN w THEN w[c] ELSE row[handler.of][c]
  BY <1>1, <1>2, <1>3, Updated
<1>5. {"thread", "completed", "started"} \subseteq Columns
  BY DEF Columns
<1> QED
  BY <1>2, <1>4, <1>5

---------------------------------------------------------------------------
(* Types.                                                                  *)

LEMMA Locked ==
  ASSUME TasksType, NEW m \in Missions, NEW force \in BOOLEAN, Lock(m, force)
  PROVE  /\ rec' \in [Missions -> Task] /\ \A o \in Missions \ {m} : rec'[o] = rec[o]
         /\ rec[m].pc = "idle"
         /\ rec'[m] = [pc |-> "loaded", force |-> force, tid |-> row[m].thread,
                       rebind |-> "no", snap |-> row[m]]
<1> DEFINE t == [pc |-> "loaded", force |-> force, tid |-> row[m].thread,
                 rebind |-> "no", snap |-> row[m]]
<1>1. row[m] \in Row /\ row[m].thread \in {"none", "own"} /\ rec \in [Missions -> Task]
  BY DEF TasksType, Row
<1>2. t \in Task
  BY <1>1 DEF Task, Stages
<1>3. rec[m].pc = "idle" /\ rec' = [rec EXCEPT ![m] = t]
  BY DEF Lock
<1> HIDE DEF t
<1>4. /\ rec' \in [Missions -> Task] /\ rec'[m] = t
      /\ \A o \in Missions \ {m} : rec'[o] = rec[o]
  BY <1>1, <1>2, <1>3
<1> QED
  BY <1>3, <1>4 DEF t

\* Between its steps a reconcile leaves the tables of the others alone.
LEMMA ReconcileKeeps ==
  ASSUME TasksType, NEW m \in Missions, Reconcile(m)
  PROVE  TasksType' /\ Apart(m)
<1>1. CASE Ends(m)
  BY <1>1, EndsEnd DEF Ended
<1>2. CASE \E stale, quiet \in BOOLEAN : SyncThread(m, stale, quiet)
  BY <1>2, SyncGoesOn DEF Onward
<1>3. CASE GoOn(m)
  BY <1>3, GoOnGoesOn DEF Onward
<1>4. CASE LaunchThread(m)
  BY <1>4, LaunchGoesOn
<1>5. CASE StartTurn(m)
  <2>1. row' = row /\ Advance(m, "recording", NoWrite) /\ "recording" \in Stages
    BY <1>5 DEF StartTurn, tableVars, Stages
  <2> QED
    BY <2>1, UnwrittenGoesOn DEF Onward
<1>6. CASE ThreadLost(m)
  <2>1. row' = row /\ BeginRebind(m, "turn", NoWrite) /\ "rebinding" \in Stages
    BY <1>6 DEF ThreadLost, tableVars, Stages
  <2> QED
    BY <2>1, UnwrittenGoesOn DEF Onward
<1>7. CASE RebindThread(m)
  BY <1>7, RebindGoesOn
<1>8. CASE RebindFails(m) /\ ~Unlock(m)
  BY <1>8, FailedRebindGoesOn DEF Onward
<1>9. CASE RecordTurn(m)
  BY <1>9, RecordEnds
<1> QED
  BY <1>1, <1>2, <1>3, <1>4, <1>5, <1>6, <1>7, <1>8, <1>9 DEF Reconcile, Ends

Uses == {"approvals", "replies", "items", "commands", "restarts", "faults"}

LEMMA Spending ==
  ASSUME used \in [Uses -> Nat], NEW what \in Uses, Spend(what)
  PROVE  used' \in [Uses -> Nat]
BY DEF Spend

\* Types of what is not a table or a task.
WorldType ==
  /\ final \subseteq Missions
  /\ spawned \in [Missions -> Nat] /\ forced \in [Missions -> Nat]
  /\ events \in Seq(Event)
  /\ handler = NoEvent \/ handler \in Handler
  /\ view \in [Missions -> Views]
  /\ approval \subseteq Missions /\ asking \subseteq Missions /\ replied \subseteq Missions
  /\ open \in [Missions -> Nat] /\ accepted \in [Missions -> Nat]
  /\ used \in [Uses -> Nat]

LEMMA TypesAre == TypeOK <=> TasksType /\ WorldType
BY DEF TypeOK, TasksType, WorldType, Task, Stages, Handler, Views, Uses

LEMMA TypesStart == Init => TypeOK
<1> SUFFICES ASSUME Init PROVE TasksType /\ WorldType
  BY TypesAre
<1>1. row \in [Missions -> Row]
  BY RowsStart DEF Init
<1>2. rec \in [Missions -> Task]
  BY NoTasks DEF Init
<1>3. /\ spawned \in [Missions -> Nat] /\ forced \in [Missions -> Nat]
      /\ view \in [Missions -> Views] /\ open \in [Missions -> Nat]
      /\ accepted \in [Missions -> Nat] /\ used \in [Uses -> Nat]
  BY DEF Init, Views, Uses
<1>4. /\ final \subseteq Missions /\ events \in Seq(Event) /\ handler = NoEvent
      /\ approval \subseteq Missions /\ asking \subseteq Missions /\ replied \subseteq Missions
  BY DEF Init
<1> QED
  BY <1>1, <1>2, <1>3, <1>4 DEF TasksType, WorldType

LEMMA AcceptType ==
  ASSUME WorldType, NEW m \in Missions, Accept(m)
  PROVE  /\ open' \in [Missions -> Nat] /\ accepted' \in [Missions -> Nat]
         /\ events' \in Seq(Event)
<1>1. [kind |-> "turnStarted", of |-> m] \in Event
  BY DEF Event, Kinds
<1> QED
  BY <1>1 DEF WorldType, Accept

LEMMA ReconcileTypes ==
  ASSUME WorldType, NEW m \in Missions, Reconcile(m)
  PROVE  WorldType'
<1>1. ASSUME Fault("launch") \/ Fault("refuse") \/ Fault("timeout")
      PROVE  used' \in [Uses -> Nat]
  BY <1>1, Spending DEF Fault, WorldType, Uses
<1> USE DEF WorldType, tableVars, eventVars, runtimeVars, serverVars
<1>2. CASE \/ RepairFinal(m) \/ NotReconciled(m) \/ Queue(m) \/ AwaitApproval(m)
           \/ CompleteAtLimit(m) \/ AutoYield(m) \/ LeaveRunning(m) \/ GoOn(m)
           \/ RecordTurn(m) \/ ThreadLost(m)
  BY <1>2 DEF RepairFinal, NotReconciled, Queue, AwaitApproval, CompleteAtLimit, AutoYield,
              LeaveRunning, GoOn, RecordTurn, ThreadLost
<1>3. CASE \E stale, quiet \in BOOLEAN : SyncThread(m, stale, quiet)
  BY <1>3 DEF SyncThread
<1>4. CASE LaunchTimesOut(m) \/ TurnRefused(m) \/ RebindFails(m)
  <2>1. used' \in [Uses -> Nat]
    BY <1>1, <1>4 DEF LaunchTimesOut, TurnRefused, RebindFails
  <2> QED
    BY <1>4, <2>1 DEF LaunchTimesOut, TurnRefused, RebindFails
<1>5. CASE LaunchThread(m)
  <2>1. view' \in [Missions -> Views]
    BY <1>5 DEF LaunchThread, Views
  <2> QED
    BY <1>5, <2>1 DEF LaunchThread
<1>6. CASE StartTurn(m)
  <2>1. view' \in [Missions -> Views]
    BY <1>6 DEF StartTurn, Views
  <2> QED
    BY <1>6, <2>1, AcceptType DEF StartTurn
<1>7. CASE TurnTimesOut(m)
  <2>1. used' \in [Uses -> Nat]
    BY <1>1, <1>7 DEF TurnTimesOut
  <2> QED
    BY <1>7, <2>1, AcceptType DEF TurnTimesOut
<1>8. CASE RebindThread(m)
  <2>1. view' \in [Missions -> Views] /\ approval' \subseteq Missions
    BY <1>8 DEF RebindThread, Views
  <2> QED
    BY <1>8, <2>1 DEF RebindThread
<1> HIDE DEF WorldType, tableVars, eventVars, runtimeVars, serverVars
<1> QED
  BY <1>2, <1>3, <1>4, <1>5, <1>6, <1>7, <1>8 DEF Reconcile

LEMMA EmitType ==
  ASSUME WorldType, NEW m \in Missions, NEW kind \in Kinds, Emit(kind, m)
  PROVE  events' \in Seq(Event)
<1>1. [kind |-> kind, of |-> m] \in Event
  BY DEF Event
<1> QED
  BY <1>1 DEF Emit, WorldType

LEMMA DeliverTypes ==
  ASSUME TasksType, WorldType, Deliver
  PROVE  WorldType'
<1> DEFINE e == Head(events)
<1>1. events \in Seq(Event) /\ events # <<>> /\ events' = Tail(events)
  BY DEF Deliver, WorldType
<1>2. e \in Event /\ events' \in Seq(Event)
  BY <1>1
<1>3. /\ view' = ViewAfter(e)
      /\ approval' = IF e.kind = "approval" THEN approval \cup {e.of} ELSE approval
      /\ \/ UNCHANGED <<handler, spawned, final>>
         \/ /\ handler' = [kind |-> e.kind, of |-> e.of, snap |-> row[e.of]]
            /\ spawned' = spawned \/ spawned' = [spawned EXCEPT ![e.of] = @ + 1]
            /\ final' \in {final, final \cup {e.of}}
  BY DEF Deliver
<1> HIDE DEF e
<1>4. e.kind \in Kinds /\ e.of \in Missions
  BY <1>2 DEF Event
<1>5. view' \in [Missions -> Views]
  <2>1. view' \in {view, [view EXCEPT ![e.of] = "active"], [view EXCEPT ![e.of] = "idle"],
                   [view EXCEPT ![e.of] = "error"]}
    BY <1>3 DEF ViewAfter
  <2> QED
    BY <2>1 DEF WorldType, Views
<1>6. approval' \subseteq Missions
  BY <1>3, <1>4 DEF WorldType
<1>7. /\ handler' = NoEvent \/ handler' \in Handler
      /\ spawned' \in [Missions -> Nat] /\ final' \subseteq Missions
  <2>1. CASE UNCHANGED <<handler, spawned, final>>
    BY <2>1 DEF WorldType
  <2>2. CASE /\ handler' = [kind |-> e.kind, of |-> e.of, snap |-> row[e.of]]
             /\ spawned' = spawned \/ spawned' = [spawned EXCEPT ![e.of] = @ + 1]
             /\ final' \in {final, final \cup {e.of}}
    <3>1. row[e.of] \in Row
      BY <1>4 DEF TasksType
    <3>2. handler' \in Handler
      BY <1>4, <2>2, <3>1 DEF Handler
    <3>3. spawned' \in [Missions -> Nat]
      <4>1. spawned \in [Missions -> Nat]
        BY DEF WorldType
      <4>2. [spawned EXCEPT ![e.of] = @ + 1] \in [Missions -> Nat]
        BY <1>4, <4>1
      <4> QED
        BY <2>2, <4>1, <4>2
    <3> QED
      BY <1>4, <2>2, <3>2, <3>3 DEF WorldType
  <2> QED
    BY <1>3, <2>1, <2>2
<1> QED
  BY <1>2, <1>5, <1>6, <1>7 DEF Deliver, WorldType, serverVars

LEMMA ServerTypes ==
  ASSUME WorldType, NEW m \in Missions, Server(m)
  PROVE  WorldType'
<1>1. events' \in Seq(Event)
  <2>1. \E kind \in Kinds : Emit(kind, m)
    BY DEF Server, ReportItem, AskApproval, Reply, EndTurn, Kinds
  <2> QED
    BY <2>1, EmitType
<1>2. used' \in [Uses -> Nat]
  <2>1. \/ \E what \in Uses : Spend(what)
        \/ used' = used
    BY DEF Server, ReportItem, AskApproval, Reply, EndTurn, Uses, Fault
  <2> QED
    BY <2>1, Spending DEF WorldType
<1> USE DEF WorldType, tableVars, taskVars, runtimeVars
<1>3. CASE ReportItem(m)
  BY <1>1, <1>2, <1>3 DEF ReportItem, serverVars
<1>4. CASE AskApproval(m)
  BY <1>1, <1>2, <1>4 DEF AskApproval
<1>5. CASE Reply(m)
  BY <1>1, <1>2, <1>5 DEF Reply
<1>6. CASE EndTurn(m)
  <2>1. open' \in [Missions -> Nat]
    BY <1>6 DEF EndTurn
  <2>2. replied' \subseteq Missions
    BY <1>6 DEF EndTurn
  <2> QED
    BY <1>1, <1>2, <1>6, <2>1, <2>2 DEF EndTurn
<1> HIDE DEF WorldType, tableVars, taskVars, runtimeVars
<1> QED
  BY <1>3, <1>4, <1>5, <1>6 DEF Server

LEMMA OperatorTypes ==
  ASSUME WorldType, NEW m \in Missions, Operator(m) \/ RunNow(m) \/ ResolveApproval(m)
  PROVE  WorldType'
<1> USE DEF WorldType, taskVars, eventVars, runtimeVars, serverVars
<1>1. CASE Operator(m)
  <2>1. used' \in [Uses -> Nat]
    BY <1>1, Spending DEF Operator, Pause, Complete, Resume, AskRunNow, Command, Uses
  <2>2. spawned' \in [Missions -> Nat]
    BY <1>1 DEF Operator, Pause, Complete, Resume, AskRunNow
  <2> QED
    BY <1>1, <2>1, <2>2 DEF Operator, Pause, Complete, Resume, AskRunNow, tableVars
<1>2. CASE RunNow(m)
  <2>1. /\ spawned[m] > 0 /\ spawned' = [spawned EXCEPT ![m] = @ - 1]
        /\ forced' = forced \/ forced' = [forced EXCEPT ![m] = @ + 1]
    BY <1>2 DEF RunNow
  <2>2. spawned' \in [Missions -> Nat]
    BY <2>1
  <2>3. forced' \in [Missions -> Nat]
    BY <2>1
  <2> QED
    BY <1>2, <2>2, <2>3 DEF RunNow
<1>3. CASE ResolveApproval(m)
  BY <1>3 DEF ResolveApproval, tableVars
<1> HIDE DEF WorldType, taskVars, eventVars, runtimeVars, serverVars
<1> QED
  BY <1>1, <1>2, <1>3

LEMMA RestartTypes ==
  ASSUME TasksType, WorldType, Restart
  PROVE  TasksType' /\ WorldType' /\ row' = row
<1>1. rec' \in [Missions -> Task]
  BY NoTasks DEF Restart
<1>2. /\ spawned' \in [Missions -> Nat] /\ forced' \in [Missions -> Nat]
      /\ view' \in [Missions -> Views] /\ open' \in [Missions -> Nat]
  BY DEF Restart, Views
<1>3. used' \in [Uses -> Nat]
  BY Spending DEF Restart, WorldType, Uses
<1> QED
  BY <1>1, <1>2, <1>3 DEF Restart, TasksType, WorldType, tableVars

LEMMA TypesStep == TypeOK /\ [Next]_vars => TypeOK'
<1>0. TypeOK' <=> TasksType' /\ WorldType'
  BY DEF TypeOK, TasksType, WorldType, Task, Stages, Handler, Views, Uses
<1> SUFFICES ASSUME TasksType, WorldType, [Next]_vars PROVE TasksType' /\ WorldType'
  BY <1>0, TypesAre
<1> DEFINE Typed == TasksType' /\ WorldType'
<1>1. CASE UNCHANGED vars
  BY <1>1 DEF TasksType, WorldType, vars, tableVars, taskVars, eventVars, runtimeVars, serverVars
<1>2. CASE Deliver
  <2>1. TasksType'
    BY <1>2 DEF Deliver, TasksType
  <2> QED
    BY <1>2, <2>1, DeliverTypes
<1>3. CASE HandleEvent
  <2>1. handler \in Handler
    BY <1>3 DEF HandleEvent, WorldType
  <2>2. row' \in [Missions -> Row]
    BY <1>3, <2>1, EventTouches
  <2> QED
    BY <1>3, <2>2 DEF HandleEvent, TasksType, WorldType, taskVars, runtimeVars, serverVars
<1>4. CASE Restart
  BY <1>4, RestartTypes
<1>5. ASSUME NEW m \in Missions, RunnerEnters(m) PROVE Typed
  <2>1. rec' \in [Missions -> Task]
    BY <1>5, Locked DEF RunnerEnters
  <2> QED
    BY <1>5, <2>1 DEF RunnerEnters, TasksType, WorldType, tableVars, eventVars, runtimeVars, serverVars
<1>6. ASSUME NEW m \in Missions, RunNowEnters(m) PROVE Typed
  <2>1. rec' \in [Missions -> Task]
    BY <1>6, Locked DEF RunNowEnters
  <2>2. forced' \in [Missions -> Nat]
    BY <1>6 DEF RunNowEnters, WorldType
  <2> QED
    BY <1>6, <2>1, <2>2 DEF RunNowEnters, TasksType, WorldType, tableVars, eventVars, runtimeVars, serverVars
<1>7. ASSUME NEW m \in Missions, RunNow(m) PROVE Typed
  <2>1. row' \in [Missions -> Row] /\ rec' = rec
    BY <1>7, OperatorTouches DEF Touched, RunNow
  <2> QED
    BY <1>7, <2>1, OperatorTypes DEF TasksType
<1>8. ASSUME NEW m \in Missions, Reconcile(m) PROVE Typed
  BY <1>8, ReconcileKeeps, ReconcileTypes
<1>9. ASSUME NEW m \in Missions, Operator(m) PROVE Typed
  <2>1. row' \in [Missions -> Row] /\ rec' = rec
    <3>1. CASE AskRunNow(m)
      BY <3>1 DEF AskRunNow, TasksType, tableVars
    <3>2. CASE Pause(m) \/ Complete(m) \/ Resume(m)
      BY <3>2, OperatorTouches DEF Touched, Pause, Complete, Resume, taskVars
    <3> QED
      BY <1>9, <3>1, <3>2 DEF Operator
  <2> QED
    BY <1>9, <2>1, OperatorTypes DEF TasksType
<1>10. ASSUME NEW m \in Missions, ResolveApproval(m) PROVE Typed
  <2>1. row' = row /\ rec' = rec
    BY <1>10 DEF ResolveApproval, tableVars, taskVars
  <2> QED
    BY <1>10, <2>1, OperatorTypes DEF TasksType
<1>11. ASSUME NEW m \in Missions, Server(m) PROVE Typed
  <2>1. row' = row /\ rec' = rec
    BY <1>11 DEF Server, ReportItem, AskApproval, Reply, EndTurn, tableVars, taskVars
  <2> QED
    BY <1>11, <2>1, ServerTypes DEF TasksType
<1> HIDE DEF Typed
<1> QED
  BY <1>1, <1>2, <1>3, <1>4, <1>5, <1>6, <1>7, <1>8, <1>9, <1>10, <1>11 DEF Next, Typed

\* Rows, tasks, events and the view of the threads stay in their domains, for
\* any missions, faults and commands.
THEOREM MissionTypeCorrect == Spec => []TypeOK
BY TypesStart, TypesStep, PTL DEF Spec

---------------------------------------------------------------------------
(* Events that are not delivered, counted.                                 *)

Places(q, e) == {i \in DOMAIN q : q[i] = e}

LEMMA PlacesFinite ==
  ASSUME NEW q \in Seq(Event), NEW e
  PROVE  IsFiniteSet(Places(q, e)) /\ Cardinality(Places(q, e)) \in Nat
<1>1. DOMAIN q = 1..Len(q) /\ Len(q) \in Nat
  OBVIOUS
<1>2. IsFiniteSet(1..Len(q))
  BY <1>1, FS_Interval
<1>3. Places(q, e) \in SUBSET (1..Len(q))
  BY <1>1 DEF Places
<1>4. IsFiniteSet(Places(q, e))
  BY <1>2, <1>3, FS_Subset
<1> QED
  BY <1>4, FS_CardinalityType

LEMMA PlacesAppend ==
  ASSUME NEW q \in Seq(Event), NEW x \in Event, NEW e
  PROVE  Cardinality(Places(Append(q, x), e)) = Cardinality(Places(q, e)) + One(x = e)
<1> DEFINE n == Len(q) + 1
<1>1. n \notin Places(q, e)
  BY DEF Places
<1>2. Places(Append(q, x), e) = IF x = e THEN Places(q, e) \cup {n} ELSE Places(q, e)
  BY DEF Places
<1>3. IsFiniteSet(Places(q, e)) /\ Cardinality(Places(q, e)) \in Nat
  BY PlacesFinite
<1>4. Cardinality(Places(q, e) \cup {n}) = Cardinality(Places(q, e)) + 1
  BY <1>1, <1>3, FS_AddElement
<1> QED
  BY <1>2, <1>3, <1>4 DEF One

LEMMA PlacesTail ==
  ASSUME NEW q \in Seq(Event), q # <<>>, NEW e
  PROVE  Cardinality(Places(Tail(q), e)) + One(Head(q) = e) = Cardinality(Places(q, e))
<1> DEFINE A == Places(Tail(q), e)
           B == Places(q, e)
           f == [i \in A |-> i + 1]
<1>1. Tail(q) \in Seq(Event) /\ Len(q) \in Nat /\ Len(q) > 0 /\ Len(Tail(q)) = Len(q) - 1
  OBVIOUS
<1>2. /\ IsFiniteSet(A) /\ Cardinality(A) \in Nat
      /\ IsFiniteSet(B) /\ Cardinality(B) \in Nat
  BY <1>1, PlacesFinite
<1>3. A = {i \in 1..(Len(q) - 1) : q[i + 1] = e} /\ B = {i \in 1..Len(q) : q[i] = e}
  BY <1>1 DEF Places
<1> HIDE DEF A, B
<1>4. f \in Bijection(A, B \ {1})
  <2>1. \A i \in A : i + 1 \in B \ {1}
    BY <1>1, <1>3
  <2>2. f \in [A -> B \ {1}] /\ \A i, j \in A : f[i] = f[j] => i = j
    BY <1>1, <1>3, <2>1
  <2>3. \A k \in B \ {1} : k - 1 \in A /\ f[k - 1] = k
    BY <1>1, <1>3
  <2> HIDE DEF f
  <2>4. \A k \in B \ {1} : \E i \in A : f[i] = k
    BY <2>3
  <2> QED
    BY <2>2, <2>4 DEF Bijection, Injection, Surjection, IsInjective
<1>5. Cardinality(B \ {1}) = Cardinality(A)
  <2>1. ExistsBijection(A, B \ {1})
    BY <1>4 DEF ExistsBijection
  <2> QED
    BY <1>2, <2>1, FS_Bijection
<1>6. Cardinality(B \ {1}) = IF 1 \in B THEN Cardinality(B) - 1 ELSE Cardinality(B)
  BY <1>2, FS_RemoveElement
<1>7. 1 \in B <=> Head(q) = e
  BY <1>1, <1>3
<1> QED
  BY <1>2, <1>5, <1>6, <1>7 DEF One, A, B

---------------------------------------------------------------------------
(* The counter of started turns.                                           *)

\* Nothing the server has done for the mission is lost: no turn ends in an
\* error, times out while it starts, or dies with the process.
Exact == MaxRestarts = 0 /\ "timeout" \notin Faults /\ "turn" \notin Faults
AtMost(n, turns) == n <= turns /\ (Exact => n = turns)

\* What may have kept a turn from being counted.
Losses == used.faults + used.restarts

\* A reconcile has the counter as it is in the table, for only a reconcile
\* writes it, and the turn that was accepted last may still be unwritten.
StartsMatch(m) ==
  /\ rec[m].pc # "idle" => rec[m].snap.started = row[m].started
  /\ AtMost(row[m].started + One(rec[m].pc = "recording"), accepted[m])
  /\ accepted[m] <= row[m].started + One(rec[m].pc = "recording") + Losses
StartsInv == \A m \in Missions : StartsMatch(m)

LEMMA StartsStart == Init => StartsInv
<1> SUFFICES ASSUME Init, NEW m \in Missions PROVE StartsMatch(m)
  BY DEF StartsInv
<1>1. rec[m].pc = "idle" /\ row[m].started = 0 /\ accepted[m] = 0
  BY DEF Init, NoTask, NewRow
<1>2. Losses = 0
  BY DEF Init, Losses
<1> QED
  BY <1>1, <1>2 DEF StartsMatch, AtMost, One

\* Columns and counters of the types, as numbers.
LEMMA Numbers ==
  ASSUME TasksType, WorldType, NEW m \in Missions
  PROVE  /\ row[m].started \in Nat /\ row[m].completed \in Nat
         /\ accepted[m] \in Nat /\ open[m] \in Nat
         /\ rec[m].snap.started \in Nat /\ rec[m].snap.completed \in Nat
BY DEF TasksType, WorldType, Task, Row

LEMMA AcceptCounts ==
  ASSUME WorldType, NEW m \in Missions, Accept(m)
  PROVE  /\ accepted'[m] = accepted[m] + 1 /\ open'[m] = open[m] + 1
         /\ \A o \in Missions \ {m} : accepted'[o] = accepted[o] /\ open'[o] = open[o]
         /\ events' = Append(events, [kind |-> "turnStarted", of |-> m])
BY DEF Accept, WorldType

\* Only the start of a turn changes what the server has accepted.
LEMMA AcceptedKept ==
  ASSUME NEW m \in Missions, Reconcile(m), ~StartTurn(m), ~TurnTimesOut(m)
  PROVE  accepted' = accepted /\ open' = open /\ events' = events /\ handler' = handler
<1> USE DEF serverVars, eventVars
<1>1. CASE \/ RepairFinal(m) \/ NotReconciled(m) \/ Queue(m) \/ AwaitApproval(m)
           \/ CompleteAtLimit(m) \/ AutoYield(m) \/ LeaveRunning(m) \/ GoOn(m)
  BY <1>1 DEF RepairFinal, NotReconciled, Queue, AwaitApproval, CompleteAtLimit, AutoYield,
              LeaveRunning, GoOn
<1>2. CASE \/ RecordTurn(m) \/ ThreadLost(m) \/ LaunchThread(m) \/ LaunchTimesOut(m)
           \/ TurnRefused(m) \/ RebindThread(m) \/ RebindFails(m)
           \/ \E stale, quiet \in BOOLEAN : SyncThread(m, stale, quiet)
  BY <1>2 DEF RecordTurn, ThreadLost, LaunchThread, LaunchTimesOut, TurnRefused, RebindThread,
              RebindFails, SyncThread
<1> QED
  BY <1>1, <1>2 DEF Reconcile

\* Every turn that is lost costs a fault or a restart.
LossesGrow(x) == used'[x] = used[x] \/ used'[x] = used[x] + 1

LEMMA SpendingGrows ==
  ASSUME used \in [Uses -> Nat], NEW what \in Uses, Spend(what)
  PROVE  /\ \A x \in Uses : LossesGrow(x)
         /\ used'[what] = used[what] + 1
BY DEF Spend, LossesGrow

LEMMA UsesGrow ==
  ASSUME WorldType, [Next]_vars
  PROVE  \A x \in Uses : LossesGrow(x)
<1>1. used \in [Uses -> Nat]
  BY DEF WorldType
<1>2. ASSUME NEW what \in Uses, Spend(what) PROVE \A x \in Uses : LossesGrow(x)
  BY <1>1, <1>2, SpendingGrows
<1>3. CASE used' = used
  BY <1>3 DEF LossesGrow
<1>4. ASSUME NEW m \in Missions, Reconcile(m) PROVE used' = used \/ Spend("faults")
  BY <1>4 DEF Reconcile, RepairFinal, NotReconciled, SyncThread, Queue, AwaitApproval,
              CompleteAtLimit, AutoYield, LeaveRunning, GoOn, LaunchThread, LaunchTimesOut,
              StartTurn, TurnRefused, TurnTimesOut, RecordTurn, ThreadLost, RebindThread,
              RebindFails, Fault
<1>5. ASSUME NEW m \in Missions, Operator(m) PROVE Spend("commands")
  BY <1>5 DEF Operator, Pause, Complete, Resume, AskRunNow, Command
<1>6. ASSUME NEW m \in Missions, Server(m)
      PROVE  used' = used \/ \E what \in Uses : Spend(what)
  BY <1>6 DEF Server, ReportItem, AskApproval, Reply, EndTurn, Fault, Uses
<1>7. ASSUME NEW m \in Missions,
             RunnerEnters(m) \/ RunNow(m) \/ RunNowEnters(m) \/ ResolveApproval(m)
      PROVE  used' = used
  BY <1>7 DEF RunnerEnters, RunNow, RunNowEnters, ResolveApproval
<1>8. CASE Deliver \/ HandleEvent \/ UNCHANGED vars
  BY <1>3, <1>8 DEF Deliver, HandleEvent, vars
<1>9. CASE Restart
  BY <1>2, <1>9 DEF Restart, Uses
<1>10. {"faults", "commands"} \subseteq Uses
  BY DEF Uses
<1> QED
  BY <1>2, <1>3, <1>4, <1>5, <1>6, <1>7, <1>8, <1>9, <1>10 DEF Next

LEMMA LossesCount ==
  ASSUME WorldType, [Next]_vars
  PROVE  /\ Losses \in Nat /\ Losses' \in Nat /\ Losses <= Losses'
         /\ Restart \/ (\E m \in Missions : TurnTimesOut(m)) => Losses + 1 <= Losses'
<1>1. /\ used \in [Uses -> Nat] /\ used.faults \in Nat /\ used.restarts \in Nat
      /\ {"faults", "restarts"} \subseteq Uses
  BY DEF WorldType, Uses
<1>2. LossesGrow("faults") /\ LossesGrow("restarts")
  BY <1>1, UsesGrow
<1>3. Restart => used'.restarts = used.restarts + 1
  BY <1>1, SpendingGrows DEF Restart
<1>4. (\E m \in Missions : TurnTimesOut(m)) => used'.faults = used.faults + 1
  BY <1>1, SpendingGrows DEF TurnTimesOut, Fault
<1> QED
  BY <1>1, <1>2, <1>3, <1>4 DEF Losses, LossesGrow

LEMMA StartsReconcile ==
  ASSUME TasksType, WorldType, StartsInv, NEW m \in Missions, Reconcile(m),
         Losses \in Nat, Losses' \in Nat, Losses <= Losses',
         TurnTimesOut(m) => Losses + 1 <= Losses'
  PROVE  StartsInv'
<1>1. StartsMatch(m)
  BY DEF StartsInv
<1>2. /\ row[m].started \in Nat /\ accepted[m] \in Nat /\ rec[m].snap.started \in Nat
  BY Numbers
<1>3. \A o \in Missions \ {m} : accepted'[o] = accepted[o]
  <2>1. CASE Accept(m)
    BY <2>1, AcceptCounts
  <2>2. CASE accepted' = accepted
    BY <2>2
  <2>3. Accept(m) \/ accepted' = accepted
    BY AcceptedKept DEF StartTurn, TurnTimesOut
  <2> QED
    BY <2>1, <2>2, <2>3
<1>4. ASSUME Apart(m), StartsMatch(m)' PROVE StartsInv'
  <2> SUFFICES ASSUME NEW o \in Missions PROVE StartsMatch(o)'
    BY DEF StartsInv
  <2>1. CASE o # m
    <3>1. StartsMatch(o) /\ rec'[o] = rec[o] /\ row'[o] = row[o] /\ accepted'[o] = accepted[o]
      BY <1>3, <1>4, <2>1 DEF StartsInv, Apart
    <3>2. /\ row[o].started \in Nat /\ accepted[o] \in Nat
          /\ One(rec[o].pc = "recording") \in {0, 1}
      BY Numbers DEF One
    <3> QED
      BY <3>1, <3>2 DEF StartsMatch
  <2> QED
    BY <1>4, <2>1
<1>5. CASE Ends(m)
  <2>1. /\ Apart(m) /\ rec[m].pc \notin {"idle", "recording"} /\ rec'[m].pc = "idle"
        /\ row'[m].started = row[m].started
    BY <1>5, EndsEnd DEF Ended, Spared
  <2>2. CASE TurnTimesOut(m)
    <3>1. ~Exact
      BY <2>2 DEF TurnTimesOut, Fault, Exact
    <3>2. accepted'[m] = accepted[m] \/ accepted'[m] = accepted[m] + 1
      BY <2>2, AcceptCounts DEF TurnTimesOut
    <3>3. StartsMatch(m)'
      BY <1>1, <1>2, <2>1, <2>2, <3>1, <3>2 DEF StartsMatch, AtMost, One
    <3> QED
      BY <1>4, <2>1, <3>3
  <2>3. CASE ~TurnTimesOut(m)
    <3>1. ~StartTurn(m)
      <4> SUFFICES ASSUME StartTurn(m) PROVE FALSE
        OBVIOUS
      <4>1. row' = row /\ Advance(m, "recording", NoWrite) /\ "recording" \in Stages
        BY DEF StartTurn, tableVars, Stages
      <4>2. rec'[m].pc = "recording"
        BY <4>1, UnwrittenGoesOn
      <4> QED
        BY <2>1, <4>2
    <3>2. accepted'[m] = accepted[m]
      BY <2>3, <3>1, AcceptedKept
    <3>3. StartsMatch(m)'
      BY <1>1, <1>2, <2>1, <3>2 DEF StartsMatch, AtMost, One
    <3> QED
      BY <1>4, <2>1, <3>3
  <2> QED
    BY <2>2, <2>3
<1>6. ASSUME Apart(m), rec[m].pc \notin {"idle", "recording"}, rec'[m].pc \notin {"idle", "recording"},
             row'[m].started = row[m].started, accepted'[m] = accepted[m],
             rec'[m].snap.started \in {rec[m].snap.started, row[m].started}
      PROVE  StartsInv'
  <2>1. StartsMatch(m)'
    BY <1>1, <1>2, <1>6 DEF StartsMatch, One
  <2> QED
    BY <1>4, <1>6, <2>1
<1>7. ASSUME Onward(m), Spared(m), rec[m].pc \notin {"idle", "recording"},
             rec'[m].pc \notin {"idle", "recording"}, ~StartTurn(m), ~TurnTimesOut(m)
      PROVE  StartsInv'
  <2>1. accepted'[m] = accepted[m]
    BY <1>7, AcceptedKept
  <2> QED
    BY <1>6, <1>7, <2>1 DEF Onward, Spared
<1>8. CASE \E stale, quiet \in BOOLEAN : SyncThread(m, stale, quiet)
  <2>1. /\ Onward(m) /\ Spared(m) /\ rec[m].pc = "loaded"
        /\ rec'[m].pc \in {"synced", "rebinding"}
    BY <1>8, SyncGoesOn
  <2> QED
    BY <1>7, <2>1 DEF StartTurn, TurnTimesOut
<1>9. CASE GoOn(m)
  <2>1. /\ Onward(m) /\ Spared(m) /\ rec[m].pc = "synced"
        /\ rec'[m].pc \in {"launching", "starting"}
    BY <1>9, GoOnGoesOn
  <2> QED
    BY <1>7, <2>1 DEF StartTurn, TurnTimesOut
<1>10. CASE LaunchThread(m)
  <2>1. /\ Apart(m) /\ rec[m].pc = "launching" /\ rec'[m].pc = "starting"
        /\ row'[m].started = row[m].started /\ rec'[m].snap.started = rec[m].snap.started
    BY <1>10, LaunchGoesOn
  <2>2. accepted'[m] = accepted[m]
    BY <2>1, AcceptedKept DEF StartTurn, TurnTimesOut
  <2> QED
    BY <1>6, <2>1, <2>2
<1>11. CASE StartTurn(m)
  <2>1. row' = row /\ Advance(m, "recording", NoWrite) /\ "recording" \in Stages /\ Accept(m)
        /\ rec[m].pc = "starting"
    BY <1>11 DEF StartTurn, tableVars, Stages
  <2>2. Apart(m) /\ rec'[m].pc = "recording" /\ rec'[m].snap.started = rec[m].snap.started
    BY <2>1, UnwrittenGoesOn DEF Onward
  <2>3. accepted'[m] = accepted[m] + 1
    BY <2>1, AcceptCounts
  <2>4. StartsMatch(m)'
    BY <1>1, <1>2, <2>1, <2>2, <2>3 DEF StartsMatch, AtMost, One
  <2> QED
    BY <1>4, <2>2, <2>4
<1>12. CASE ThreadLost(m)
  <2>1. /\ row' = row /\ BeginRebind(m, "turn", NoWrite) /\ "rebinding" \in Stages
        /\ rec[m].pc = "starting" /\ accepted' = accepted
    BY <1>12 DEF ThreadLost, tableVars, Stages, serverVars
  <2>2. Onward(m) /\ Spared(m) /\ rec'[m].pc = "rebinding"
    BY <2>1, UnwrittenGoesOn
  <2> QED
    BY <1>6, <2>1, <2>2 DEF Onward, Spared
<1>13. CASE RebindThread(m)
  <2>1. /\ Apart(m) /\ rec[m].pc = "rebinding" /\ rec'[m].pc = "starting"
        /\ row'[m].started = row[m].started /\ rec'[m].snap.started = row[m].started
    BY <1>13, RebindGoesOn
  <2>2. accepted'[m] = accepted[m]
    BY <2>1, AcceptedKept DEF StartTurn, TurnTimesOut
  <2> QED
    BY <1>6, <2>1, <2>2
<1>14. CASE RebindFails(m) /\ ~Unlock(m)
  <2>1. Onward(m) /\ Spared(m) /\ rec[m].pc = "rebinding" /\ rec'[m].pc = "synced"
    BY <1>14, FailedRebindGoesOn
  <2> QED
    BY <1>7, <2>1 DEF StartTurn, TurnTimesOut
<1>15. CASE RecordTurn(m)
  <2>1. /\ Apart(m) /\ rec[m].pc = "recording" /\ rec'[m].pc = "idle"
        /\ row'[m].started = rec[m].snap.started + 1
    BY <1>15, RecordEnds
  <2>2. accepted'[m] = accepted[m]
    BY <2>1, AcceptedKept DEF StartTurn, TurnTimesOut
  <2>3. StartsMatch(m)'
    BY <1>1, <1>2, <2>1, <2>2 DEF StartsMatch, AtMost, One
  <2> QED
    BY <1>4, <2>1, <2>3
<1> QED
  BY <1>5, <1>8, <1>9, <1>10, <1>11, <1>12, <1>13, <1>14, <1>15 DEF Reconcile, Ends

LEMMA StartsStep == TypeOK /\ StartsInv /\ [Next]_vars => StartsInv'
<1> SUFFICES ASSUME TasksType, WorldType, StartsInv, [Next]_vars PROVE StartsInv'
  BY TypesAre
<1>0. /\ Losses \in Nat /\ Losses' \in Nat /\ Losses <= Losses'
      /\ Restart \/ (\E m \in Missions : TurnTimesOut(m)) => Losses + 1 <= Losses'
  BY LossesCount
<1>1. ASSUME rec' = rec, accepted' = accepted,
             \A m \in Missions : row'[m].started = row[m].started
      PROVE  StartsInv'
  <2> SUFFICES ASSUME NEW m \in Missions PROVE StartsMatch(m)'
    BY DEF StartsInv
  <2>1. StartsMatch(m) /\ One(rec[m].pc = "recording") \in {0, 1}
    BY DEF StartsInv, One
  <2>2. row[m].started \in Nat /\ accepted[m] \in Nat
    BY Numbers
  <2> QED
    BY <1>0, <1>1, <2>1, <2>2 DEF StartsMatch
<1>2. ASSUME NEW m \in Missions, Touched(m)
      PROVE  \A o \in Missions : row'[o].started = row[o].started
  BY <1>2 DEF Touched, Spared
<1>3. CASE UNCHANGED vars \/ Deliver
  BY <1>1, <1>3 DEF vars, tableVars, taskVars, serverVars, Deliver
<1>4. CASE HandleEvent
  <2>1. handler \in Handler
    BY <1>4 DEF HandleEvent, WorldType
  <2>2. \A m \in Missions : row'[m].started = row[m].started
    BY <1>4, <2>1, EventTouches
  <2> QED
    BY <1>1, <1>4, <2>2 DEF HandleEvent, taskVars, serverVars
<1>5. CASE Restart
  <2> SUFFICES ASSUME NEW m \in Missions PROVE StartsMatch(m)'
    BY DEF StartsInv
  <2>1. rec'[m].pc = "idle" /\ row' = row /\ accepted' = accepted
    BY <1>5, NoTasks DEF Restart, tableVars
  <2>2. ~Exact
    BY <1>5 DEF Restart, Exact, WorldType, Uses
  <2>3. row[m].started \in Nat /\ accepted[m] \in Nat /\ StartsMatch(m)
    BY Numbers DEF StartsInv
  <2> QED
    BY <1>0, <1>5, <2>1, <2>2, <2>3 DEF StartsMatch, AtMost, One
<1>6. ASSUME NEW m \in Missions, RunnerEnters(m) \/ RunNowEnters(m) PROVE StartsInv'
  <2>1. (\E force \in BOOLEAN : Lock(m, force)) /\ row' = row /\ accepted' = accepted
    BY <1>6 DEF RunnerEnters, RunNowEnters, tableVars, serverVars
  <2>2. /\ \A o \in Missions \ {m} : rec'[o] = rec[o]
        /\ rec[m].pc = "idle" /\ rec'[m].pc = "loaded" /\ rec'[m].snap = row[m]
    <3>1. PICK force \in BOOLEAN : Lock(m, force)
      BY <2>1
    <3>2. /\ \A o \in Missions \ {m} : rec'[o] = rec[o]
          /\ rec[m].pc = "idle"
          /\ rec'[m] = [pc |-> "loaded", force |-> force, tid |-> row[m].thread,
                        rebind |-> "no", snap |-> row[m]]
      BY <3>1, Locked
    <3> QED
      BY <3>2
  <2>3. ASSUME NEW o \in Missions PROVE StartsMatch(o)'
    <3>1. StartsMatch(o) /\ row[o].started \in Nat /\ accepted[o] \in Nat
      BY Numbers DEF StartsInv
    <3>2. One(rec'[o].pc = "recording") = One(rec[o].pc = "recording")
          /\ One(rec[o].pc = "recording") \in {0, 1}
      BY <2>2 DEF One
    <3> QED
      BY <1>0, <2>1, <2>2, <3>1, <3>2 DEF StartsMatch
  <2> QED
    BY <2>3 DEF StartsInv
<1>7. ASSUME NEW m \in Missions, RunNow(m) PROVE StartsInv'
  BY <1>1, <1>2, <1>7, OperatorTouches DEF RunNow, serverVars
<1>8. ASSUME NEW m \in Missions, Reconcile(m) PROVE StartsInv'
  BY <1>0, <1>8, StartsReconcile
<1>9. ASSUME NEW m \in Missions, Operator(m) PROVE StartsInv'
  <2>1. CASE AskRunNow(m)
    BY <1>1, <2>1 DEF AskRunNow, tableVars, serverVars
  <2>2. CASE Pause(m) \/ Complete(m) \/ Resume(m)
    BY <1>1, <1>2, <2>2, OperatorTouches DEF Pause, Complete, Resume, taskVars, serverVars
  <2> QED
    BY <1>9, <2>1, <2>2 DEF Operator
<1>10. ASSUME NEW m \in Missions, ResolveApproval(m) \/ Server(m) PROVE StartsInv'
  BY <1>1, <1>10 DEF ResolveApproval, Server, ReportItem, AskApproval, Reply, EndTurn,
     tableVars, taskVars, serverVars
<1> QED
  BY <1>3, <1>4, <1>5, <1>6, <1>7, <1>8, <1>9, <1>10 DEF Next

---------------------------------------------------------------------------
(* The counter of completed turns.                                         *)

Done(m) == [kind |-> "turnCompleted", of |-> m]
Returned(m) ==
  row[m].completed + open[m] + Undelivered("turnCompleted", m)
    + One(Handling("turnCompleted", m))

\* The listener has the counter as it is in the table, for only the listener
\* writes it, one event at a time.
Balanced(m) ==
  /\ AtMost(Returned(m), accepted[m])
  /\ used.restarts = 0 => accepted[m] <= Returned(m) + used.faults
ReturnsInv ==
  /\ \A m \in Missions : Balanced(m)
  /\ handler # NoEvent => handler.snap.completed = row[handler.of].completed

LEMMA UndeliveredIs ==
  ASSUME NEW m
  PROVE  Undelivered("turnCompleted", m) = Cardinality(Places(events, Done(m)))
BY DEF Undelivered, Places, Done

LEMMA UndeliveredNat ==
  ASSUME WorldType, NEW m
  PROVE  Undelivered("turnCompleted", m) \in Nat /\ One(Handling("turnCompleted", m)) \in {0, 1}
BY UndeliveredIs, PlacesFinite DEF WorldType, One

LEMMA ReturnsStart == Init => ReturnsInv
<1>0. Init => handler = NoEvent
  BY DEF Init
<1> SUFFICES ASSUME Init, NEW m \in Missions PROVE Balanced(m)
  BY <1>0 DEF ReturnsInv
<1>1. row[m].completed = 0 /\ open[m] = 0 /\ accepted[m] = 0 /\ events = <<>> /\ handler = NoEvent
  BY DEF Init, NewRow
<1>2. Undelivered("turnCompleted", m) = 0
  <2>1. {i \in DOMAIN events : events[i] = [kind |-> "turnCompleted", of |-> m]} = {}
    BY <1>1
  <2> QED
    BY <2>1, FS_EmptySet DEF Undelivered
<1>3. used.restarts = 0 /\ used.faults = 0
  BY DEF Init
<1> QED
  BY <1>1, <1>2, <1>3 DEF Balanced, Returned, AtMost, Handling, One

LEMMA ReturnedNat ==
  ASSUME TasksType, WorldType, NEW m \in Missions
  PROVE  /\ Returned(m) \in Nat /\ accepted[m] \in Nat
         /\ used.faults \in Nat /\ used.restarts \in Nat
<1>1. /\ row[m].completed \in Nat /\ open[m] \in Nat /\ accepted[m] \in Nat
      /\ Undelivered("turnCompleted", m) \in Nat /\ One(Handling("turnCompleted", m)) \in {0, 1}
  BY Numbers, UndeliveredNat
<1>2. used.faults \in Nat /\ used.restarts \in Nat
  BY DEF WorldType, Uses
<1> QED
  BY <1>1, <1>2 DEF Returned

\* A step that loses nothing of what is to come back.
FewerLeft == LossesGrow("faults") /\ LossesGrow("restarts")

LEMMA BalancedKept ==
  ASSUME TasksType, WorldType, FewerLeft, NEW m \in Missions, Balanced(m),
         \/ Returned(m)' = Returned(m) /\ accepted'[m] = accepted[m]
         \/ Returned(m)' = Returned(m) + 1 /\ accepted'[m] = accepted[m] + 1
  PROVE  Balanced(m)'
<1>1. /\ Returned(m) \in Nat /\ accepted[m] \in Nat
      /\ used.faults \in Nat /\ used.restarts \in Nat
  BY ReturnedNat
<1> QED
  BY <1>1 DEF Balanced, AtMost, LossesGrow, FewerLeft

\* An event of another kind, or of another mission.
LEMMA EmitCounts ==
  ASSUME WorldType, NEW m \in Missions, NEW kind \in Kinds, Emit(kind, m), NEW o \in Missions
  PROVE  Undelivered("turnCompleted", o)'
           = Undelivered("turnCompleted", o) + One(kind = "turnCompleted" /\ o = m)
<1> DEFINE e == [kind |-> kind, of |-> m]
<1>1. e \in Event /\ events \in Seq(Event) /\ events' = Append(events, e)
  BY DEF Event, Emit, WorldType
<1>2. e = Done(o) <=> kind = "turnCompleted" /\ o = m
  BY DEF Done
<1> HIDE DEF e
<1>3. Cardinality(Places(Append(events, e), Done(o))) = Cardinality(Places(events, Done(o))) + One(e = Done(o))
  BY <1>1, PlacesAppend
<1>4. Undelivered("turnCompleted", o)' = Cardinality(Places(events', Done(o)))
  BY DEF Undelivered, Places, Done
<1>5. Undelivered("turnCompleted", o) = Cardinality(Places(events, Done(o)))
  BY UndeliveredIs
<1>6. One(e = Done(o)) = One(kind = "turnCompleted" /\ o = m)
  BY <1>2 DEF One
<1> QED
  BY <1>1, <1>3, <1>4, <1>5, <1>6

LEMMA CompletedKept ==
  ASSUME TasksType, NEW m \in Missions, Reconcile(m)
  PROVE  \A o \in Missions : row'[o].completed = row[o].completed
<1>1. Apart(m)
  BY ReconcileKeeps
<1>2. row'[m].completed = row[m].completed
  <2>1. CASE Ends(m)
    BY <2>1, EndsEnd DEF Ended, Spared
  <2>2. CASE (\E stale, quiet \in BOOLEAN : SyncThread(m, stale, quiet)) \/ GoOn(m)
    BY <2>2, SyncGoesOn, GoOnGoesOn DEF Spared
  <2>3. CASE LaunchThread(m)
    BY <2>3, LaunchGoesOn
  <2>4. CASE StartTurn(m) \/ ThreadLost(m)
    BY <2>4 DEF StartTurn, ThreadLost, tableVars
  <2>5. CASE RebindThread(m)
    BY <2>5, RebindGoesOn
  <2>6. CASE RebindFails(m) /\ ~Unlock(m)
    BY <2>6, FailedRebindGoesOn DEF Spared
  <2>7. CASE RecordTurn(m)
    BY <2>7, RecordEnds
  <2> QED
    BY <2>1, <2>2, <2>3, <2>4, <2>5, <2>6, <2>7 DEF Reconcile, Ends
<1> QED
  BY <1>1, <1>2 DEF Apart

LEMMA ReturnsDeliver ==
  ASSUME TasksType, WorldType, ReturnsInv, FewerLeft, Deliver
  PROVE  ReturnsInv'
<1> DEFINE e == Head(events)
<1>1. /\ events \in Seq(Event) /\ events # <<>> /\ events' = Tail(events)
      /\ handler = NoEvent
      /\ row' = row /\ open' = open /\ accepted' = accepted
  BY DEF Deliver, WorldType, serverVars
<1>2. /\ e \in Event /\ e.kind \in Kinds /\ e.of \in Missions
      /\ e = [kind |-> e.kind, of |-> e.of]
  <2>1. e \in Event
    BY <1>1
  <2> HIDE DEF e
  <2> QED
    BY <2>1 DEF Event
<1>3. \/ handler' = handler /\ e.kind # "turnCompleted"
      \/ handler' = [kind |-> e.kind, of |-> e.of, snap |-> row[e.of]]
  BY DEF Deliver, Ignored
<1> HIDE DEF e
<1>4. ASSUME NEW o \in Missions PROVE Balanced(o)'
  <2>1. Cardinality(Places(Tail(events), Done(o))) + One(e = Done(o))
          = Cardinality(Places(events, Done(o)))
    BY <1>1, PlacesTail DEF e
  <2>2. Undelivered("turnCompleted", o) = Cardinality(Places(events, Done(o)))
    BY UndeliveredIs
  <2>3. Undelivered("turnCompleted", o)' = Cardinality(Places(events', Done(o)))
    BY DEF Undelivered, Places, Done
  <2>4. ~Handling("turnCompleted", o)
    BY <1>1 DEF Handling
  <2>5. Handling("turnCompleted", o)' <=> e = Done(o)
    <3>1. CASE handler' = handler /\ e.kind # "turnCompleted"
      BY <1>1, <3>1 DEF Handling, Done
    <3>2. CASE handler' = [kind |-> e.kind, of |-> e.of, snap |-> row[e.of]]
      <4>1. handler'.kind = e.kind /\ handler'.of = e.of /\ handler' # NoEvent
        <5>1. handler'.kind = e.kind /\ handler'.of = e.of
          BY <3>2
        <5> QED
          BY <1>2, <5>1 DEF NoEvent, Kinds
      <4>2. e = Done(o) <=> e.kind = "turnCompleted" /\ e.of = o
        BY <1>2 DEF Done
      <4> QED
        BY <4>1, <4>2 DEF Handling
    <3> QED
      BY <1>3, <3>1, <3>2
  <2>6. One(Handling("turnCompleted", o))' = One(e = Done(o)) /\ One(Handling("turnCompleted", o)) = 0
    BY <2>4, <2>5 DEF One
  <2>7. Cardinality(Places(Tail(events), Done(o))) \in Nat /\ One(e = Done(o)) \in {0, 1}
    <3>1. Tail(events) \in Seq(Event)
      BY <1>1
    <3> QED
      BY <3>1, PlacesFinite DEF One
  <2>8. row[o].completed \in Nat /\ open[o] \in Nat /\ accepted[o] \in Nat
    BY Numbers
  <2>9. Undelivered("turnCompleted", o)' + One(Handling("turnCompleted", o))'
          = Undelivered("turnCompleted", o) + One(Handling("turnCompleted", o))
    BY <1>1, <2>1, <2>2, <2>3, <2>6, <2>7
  <2>10. /\ Undelivered("turnCompleted", o) \in Nat
         /\ Undelivered("turnCompleted", o)' \in Nat
         /\ One(Handling("turnCompleted", o))' \in {0, 1}
    BY <1>1, <2>3, <2>6, <2>7, UndeliveredNat
  <2>11. Returned(o)' = Returned(o)
    <3>1. row'[o].completed = row[o].completed /\ open'[o] = open[o]
      BY <1>1
    <3>2. One(Handling("turnCompleted", o)) = 0
      BY <2>6
    <3> QED
      BY <2>8, <2>9, <2>10, <3>1, <3>2 DEF Returned
  <2> QED
    BY <1>1, <2>11, BalancedKept DEF ReturnsInv
<1>5. handler' # NoEvent => handler'.snap.completed = row'[handler'.of].completed
  BY <1>1, <1>3
<1> QED
  BY <1>4, <1>5 DEF ReturnsInv

LEMMA ReturnsHandle ==
  ASSUME TasksType, WorldType, ReturnsInv, FewerLeft, HandleEvent
  PROVE  ReturnsInv'
<1>1. /\ handler \in Handler /\ handler # NoEvent /\ handler' = NoEvent
      /\ events' = events /\ open' = open /\ accepted' = accepted
  BY DEF HandleEvent, WorldType, serverVars
<1>2. handler.of \in Missions /\ handler.snap.completed = row[handler.of].completed
  BY <1>1 DEF Handler, ReturnsInv
<1>3. /\ \A o \in Missions \ {handler.of} : row'[o] = row[o]
      /\ row'[handler.of].completed = IF handler.kind = "turnCompleted"
                                      THEN handler.snap.completed + 1
                                      ELSE row[handler.of].completed
  BY <1>1, EventTouches
<1>4. ASSUME NEW o \in Missions PROVE Balanced(o)'
  <2>1. row'[o].completed = row[o].completed + One(Handling("turnCompleted", o))
    <3>1. row[o].completed \in Nat
      BY Numbers
    <3> QED
      BY <1>1, <1>2, <1>3, <3>1 DEF Handling, One
  <2>2. One(Handling("turnCompleted", o))' = 0
    BY <1>1 DEF Handling, One
  <2>3. Undelivered("turnCompleted", o)' = Undelivered("turnCompleted", o)
    BY <1>1 DEF Undelivered
  <2>4. /\ Undelivered("turnCompleted", o) \in Nat /\ One(Handling("turnCompleted", o)) \in {0, 1}
        /\ row[o].completed \in Nat /\ open[o] \in Nat
    BY UndeliveredNat, Numbers
  <2>5. Returned(o)' = Returned(o)
    BY <1>1, <2>1, <2>2, <2>3, <2>4 DEF Returned
  <2> QED
    BY <1>1, <2>5, BalancedKept DEF ReturnsInv
<1> QED
  BY <1>1, <1>4 DEF ReturnsInv

LEMMA ReturnsServer ==
  ASSUME TasksType, WorldType, ReturnsInv, FewerLeft, NEW m \in Missions, Server(m)
  PROVE  ReturnsInv'
<1>1. row' = row /\ handler' = handler /\ accepted' = accepted
  BY DEF Server, ReportItem, AskApproval, Reply, EndTurn, tableVars, serverVars
<1>2. ASSUME NEW kind \in Kinds, Emit(kind, m),
             \A o \in Missions : open[o] = open'[o] + One(o = m /\ kind \in {"turnCompleted", "turnError"}),
             kind = "turnError" => ~Exact /\ used'.faults = used.faults + 1
      PROVE  ReturnsInv'
  <2>1. ASSUME NEW o \in Missions PROVE Balanced(o)'
    <3>1. Undelivered("turnCompleted", o)'
            = Undelivered("turnCompleted", o) + One(kind = "turnCompleted" /\ o = m)
      BY <1>2, EmitCounts
    <3>2. One(Handling("turnCompleted", o))' = One(Handling("turnCompleted", o))
      BY <1>1 DEF Handling, One
    <3>3. /\ Undelivered("turnCompleted", o) \in Nat /\ One(Handling("turnCompleted", o)) \in {0, 1}
          /\ row[o].completed \in Nat /\ open[o] \in Nat /\ accepted[o] \in Nat
      BY UndeliveredNat, Numbers
    <3>4. Balanced(o)
      BY DEF ReturnsInv
    <3>5. open[o] = open'[o] + One(o = m /\ kind \in {"turnCompleted", "turnError"})
      BY <1>2
    <3>6. open'[o] \in Nat
      BY ServerTypes DEF WorldType
    <3>7. CASE kind = "turnError"
      <4>1. /\ Returned(o)' = Returned(o) \/ Returned(o)' + 1 = Returned(o)
            /\ Returned(o)' \in Nat /\ Returned(o) \in Nat
        BY <1>1, <3>1, <3>2, <3>3, <3>5, <3>6, <3>7 DEF Returned, One
      <4>2. used.faults \in Nat /\ used.restarts \in Nat
        BY ReturnedNat
      <4> QED
        BY <1>1, <1>2, <3>3, <3>4, <3>7, <4>1, <4>2 DEF Balanced, AtMost, FewerLeft, LossesGrow
    <3>8. CASE kind # "turnError"
      <4>1. Returned(o)' = Returned(o)
        BY <1>1, <1>2, <3>1, <3>2, <3>3, <3>5, <3>6, <3>8 DEF Returned, One
      <4> QED
        BY <1>1, <3>4, <4>1, BalancedKept
    <3> QED
      BY <3>7, <3>8
  <2> QED
    BY <1>1, <2>1 DEF ReturnsInv
<1>3. CASE ReportItem(m) \/ AskApproval(m) \/ Reply(m)
  <2>1. open' = open /\ \E kind \in {"item", "approval", "finalAnswer"} : Emit(kind, m)
    BY <1>3 DEF ReportItem, AskApproval, Reply, serverVars
  <2>2. \A o \in Missions, kind \in {"item", "approval", "finalAnswer"} :
           open[o] = open'[o] + One(o = m /\ kind \in {"turnCompleted", "turnError"})
    BY <2>1, Numbers DEF One
  <2> QED
    BY <1>2, <2>1, <2>2 DEF Kinds
<1>4. CASE EndTurn(m)
  <2>1. \E kind \in {"turnCompleted", "turnError"} : 
           /\ Emit(kind, m)
           /\ kind = "turnError" => ~Exact /\ used'.faults = used.faults + 1
    <3>1. ASSUME Fault("turn") PROVE ~Exact /\ used'.faults = used.faults + 1
      BY <3>1, SpendingGrows DEF Fault, Exact, Uses, WorldType
    <3> QED
      BY <1>4, <3>1 DEF EndTurn
  <2>2. open[m] > 0 /\ open' = [open EXCEPT ![m] = @ - 1]
    BY <1>4 DEF EndTurn
  <2>3. \A o \in Missions, kind \in {"turnCompleted", "turnError"} :
           open[o] = open'[o] + One(o = m /\ kind \in {"turnCompleted", "turnError"})
    BY <2>2, Numbers DEF One, WorldType
  <2> QED
    BY <1>2, <2>1, <2>3 DEF Kinds
<1> QED
  BY <1>3, <1>4 DEF Server

LEMMA ReturnsReconcile ==
  ASSUME TasksType, WorldType, ReturnsInv, FewerLeft, NEW m \in Missions, Reconcile(m)
  PROVE  ReturnsInv'
<1>1. \A o \in Missions : row'[o].completed = row[o].completed
  BY CompletedKept
<1>2. handler' = handler
  BY AcceptedKept DEF StartTurn, TurnTimesOut
<1>3. handler' # NoEvent => handler'.snap.completed = row'[handler'.of].completed
  <2>1. handler # NoEvent => handler.of \in Missions
    BY DEF WorldType, Handler
  <2> QED
    BY <1>1, <1>2, <2>1 DEF ReturnsInv
<1>4. ASSUME NEW o \in Missions PROVE Balanced(o)'
  <2>1. One(Handling("turnCompleted", o))' = One(Handling("turnCompleted", o))
    BY <1>2 DEF Handling, One
  <2>2. /\ Undelivered("turnCompleted", o) \in Nat /\ One(Handling("turnCompleted", o)) \in {0, 1}
        /\ row[o].completed \in Nat /\ open[o] \in Nat /\ accepted[o] \in Nat
        /\ Balanced(o)
    BY UndeliveredNat, Numbers DEF ReturnsInv
  <2>3. CASE Accept(m)
    <3>1. Emit("turnStarted", m) /\ "turnStarted" \in Kinds
      BY <2>3 DEF Accept, Emit, Kinds
    <3>2. Undelivered("turnCompleted", o)' = Undelivered("turnCompleted", o)
      <4> DEFINE more == One("turnStarted" = "turnCompleted" /\ o = m)
      <4>1. more = 0
        BY DEF One
      <4>2. Undelivered("turnCompleted", o)' = Undelivered("turnCompleted", o) + more
        BY <3>1, EmitCounts
      <4> HIDE DEF more
      <4> QED
        BY <2>2, <4>1, <4>2
    <3>3. /\ open'[o] = open[o] + One(o = m) /\ accepted'[o] = accepted[o] + One(o = m)
          /\ One(o = m) \in {0, 1}
      <4>1. /\ accepted'[m] = accepted[m] + 1 /\ open'[m] = open[m] + 1
            /\ \A k \in Missions \ {m} : accepted'[k] = accepted[k] /\ open'[k] = open[k]
        BY <2>3, AcceptCounts
      <4>2. accepted[o] \in Nat /\ open[o] \in Nat
        BY <2>2
      <4> QED
        BY <4>1, <4>2 DEF One
    <3> QED
      <4>1. \/ Returned(o)' = Returned(o) /\ accepted'[o] = accepted[o]
            \/ Returned(o)' = Returned(o) + 1 /\ accepted'[o] = accepted[o] + 1
        BY <1>1, <2>1, <2>2, <3>2, <3>3 DEF Returned
      <4> QED
        BY <2>2, <4>1, BalancedKept
  <2>4. CASE accepted' = accepted /\ open' = open /\ events' = events
    <3>1. Undelivered("turnCompleted", o)' = Undelivered("turnCompleted", o)
      BY <2>4 DEF Undelivered
    <3> QED
      <4>1. Returned(o)' = Returned(o)
        BY <1>1, <2>1, <2>2, <2>4, <3>1 DEF Returned
      <4> QED
        BY <2>2, <2>4, <4>1, BalancedKept
  <2>5. Accept(m) \/ (accepted' = accepted /\ open' = open /\ events' = events)
    BY AcceptedKept DEF StartTurn, TurnTimesOut
  <2> QED
    BY <2>3, <2>4, <2>5
<1> QED
  BY <1>3, <1>4 DEF ReturnsInv

LEMMA ReturnsStep == TypeOK /\ ReturnsInv /\ [Next]_vars => ReturnsInv'
<1> SUFFICES ASSUME TasksType, WorldType, ReturnsInv, [Next]_vars PROVE ReturnsInv'
  BY TypesAre
<1>0. FewerLeft
  BY UsesGrow DEF Uses, FewerLeft
<1>1. ASSUME UNCHANGED <<events, handler, open, accepted>>,
             \A m \in Missions : row'[m].completed = row[m].completed
      PROVE  ReturnsInv'
  <2>1. handler # NoEvent => handler.of \in Missions
    BY DEF WorldType, Handler
  <2>2. \A m \in Missions : Returned(m)' = Returned(m)
    BY <1>1 DEF Returned, Undelivered, Handling, One
  <2> QED
    BY <1>0, <1>1, <2>1, <2>2, BalancedKept DEF ReturnsInv
<1>2. ASSUME NEW m \in Missions, Touched(m)
      PROVE  \A o \in Missions : row'[o].completed = row[o].completed
  BY <1>2 DEF Touched, Spared
<1>3. CASE UNCHANGED vars
  BY <1>1, <1>3 DEF vars, tableVars, eventVars, serverVars
<1>4. CASE Deliver
  BY <1>4, <1>0, ReturnsDeliver
<1>5. CASE HandleEvent
  BY <1>5, <1>0, ReturnsHandle
<1>6. CASE Restart
  <2>1. /\ row' = row /\ accepted' = accepted /\ handler' = NoEvent /\ events' = <<>>
        /\ \A m \in Missions : open'[m] = 0
        /\ ~Exact /\ used'.restarts # 0
    <3>1. used.restarts \in Nat /\ used'.restarts = used.restarts + 1
      BY <1>6, SpendingGrows DEF Restart, WorldType, Uses
    <3> QED
      BY <1>6, <3>1 DEF Restart, tableVars, Exact, WorldType, Uses
  <2>2. ASSUME NEW m \in Missions PROVE Balanced(m)'
    <3>1. Undelivered("turnCompleted", m)' = 0
      <4>1. {i \in DOMAIN events' : events'[i] = [kind |-> "turnCompleted", of |-> m]} = {}
        BY <2>1
      <4> QED
        BY <4>1, FS_EmptySet DEF Undelivered
    <3>2. One(Handling("turnCompleted", m))' = 0
      BY <2>1 DEF Handling, One
    <3>3. /\ Undelivered("turnCompleted", m) \in Nat /\ One(Handling("turnCompleted", m)) \in {0, 1}
          /\ row[m].completed \in Nat /\ open[m] \in Nat /\ accepted[m] \in Nat
          /\ Returned(m) <= accepted[m]
      BY UndeliveredNat, Numbers DEF ReturnsInv, Balanced, AtMost
    <3>4. Returned(m)' = row[m].completed
      BY <2>1, <3>1, <3>2, <3>3 DEF Returned
    <3>5. row[m].completed <= accepted[m]
      BY <3>3 DEF Returned
    <3> QED
      BY <2>1, <3>4, <3>5 DEF Balanced, AtMost, Exact
  <2> QED
    BY <2>1, <2>2 DEF ReturnsInv
<1>7. ASSUME NEW m \in Missions, RunnerEnters(m) \/ RunNowEnters(m) PROVE ReturnsInv'
  BY <1>1, <1>7 DEF RunnerEnters, RunNowEnters, tableVars, eventVars, serverVars
<1>8. ASSUME NEW m \in Missions, RunNow(m) PROVE ReturnsInv'
  BY <1>1, <1>2, <1>8, OperatorTouches DEF RunNow, eventVars, serverVars
<1>9. ASSUME NEW m \in Missions, Reconcile(m) PROVE ReturnsInv'
  BY <1>9, <1>0, ReturnsReconcile
<1>10. ASSUME NEW m \in Missions, Operator(m) PROVE ReturnsInv'
  <2>1. CASE AskRunNow(m)
    BY <1>1, <2>1 DEF AskRunNow, tableVars, eventVars, serverVars
  <2>2. CASE Pause(m) \/ Complete(m) \/ Resume(m)
    BY <1>1, <1>2, <2>2, OperatorTouches DEF Pause, Complete, Resume, eventVars, serverVars
  <2> QED
    BY <1>10, <2>1, <2>2 DEF Operator
<1>11. ASSUME NEW m \in Missions, ResolveApproval(m) PROVE ReturnsInv'
  BY <1>1, <1>11 DEF ResolveApproval, tableVars, eventVars
<1>12. ASSUME NEW m \in Missions, Server(m) PROVE ReturnsInv'
  BY <1>12, <1>0, ReturnsServer
<1> QED
  BY <1>3, <1>4, <1>5, <1>6, <1>7, <1>8, <1>9, <1>10, <1>11, <1>12 DEF Next

LEMMA CountsHold == Spec => [](TypeOK /\ StartsInv /\ ReturnsInv)
<1>1. Init => TypeOK /\ StartsInv /\ ReturnsInv
  BY TypesStart, StartsStart, ReturnsStart
<1>2. TypeOK /\ StartsInv /\ ReturnsInv /\ [Next]_vars => (TypeOK /\ StartsInv /\ ReturnsInv)'
  BY TypesStep, StartsStep, ReturnsStep
<1> QED
  BY <1>1, <1>2, PTL DEF Spec

\* Whatever fails, times out or dies: turns_started never counts a turn the
\* server did not accept, and turns_completed, with what is on its way to it,
\* never counts one twice.
NoTurnIsCountedTwice ==
  \A m \in Missions :
    /\ row[m].started + One(rec[m].pc = "recording") <= accepted[m]
    /\ row[m].completed + open[m] + Undelivered("turnCompleted", m)
         + One(Handling("turnCompleted", m)) <= accepted[m]

THEOREM NoneCountedTwice == Spec => []NoTurnIsCountedTwice
<1>1. StartsInv /\ ReturnsInv => NoTurnIsCountedTwice
  BY DEF StartsInv, StartsMatch, ReturnsInv, Balanced, Returned, AtMost, NoTurnIsCountedTwice
<1> QED
  BY <1>1, CountsHold, PTL

\* Nor do they lose many: turns_started misses at most one turn for every fault and
\* every restart, and as long as the process lives turns_completed misses at most one
\* for every fault.  (A restart loses every end of a turn that is on its way.)
FewTurnsAreLost ==
  \A m \in Missions :
    /\ accepted[m] <= row[m].started + One(rec[m].pc = "recording")
                         + used.faults + used.restarts
    /\ used.restarts = 0 =>
         accepted[m] <= row[m].completed + open[m] + Undelivered("turnCompleted", m)
                          + One(Handling("turnCompleted", m)) + used.faults

THEOREM LossesAreBounded == Spec => []FewTurnsAreLost
<1>1. TypeOK /\ StartsInv /\ ReturnsInv => FewTurnsAreLost
  <2> SUFFICES ASSUME TasksType, WorldType, StartsInv, ReturnsInv, NEW m \in Missions
               PROVE  /\ accepted[m] <= row[m].started + One(rec[m].pc = "recording")
                                           + used.faults + used.restarts
                      /\ used.restarts = 0 => accepted[m] <= Returned(m) + used.faults
    BY TypesAre DEF FewTurnsAreLost, Returned
  <2>1. /\ accepted[m] <= row[m].started + One(rec[m].pc = "recording") + Losses
        /\ used.restarts = 0 => accepted[m] <= Returned(m) + used.faults
    BY DEF StartsInv, StartsMatch, ReturnsInv, Balanced
  <2>2. /\ row[m].started \in Nat /\ One(rec[m].pc = "recording") \in {0, 1}
        /\ used.faults \in Nat /\ used.restarts \in Nat
    BY Numbers, ReturnedNat DEF One
  <2> QED
    BY <2>1, <2>2 DEF Losses
<1> QED
  BY <1>1, CountsHold, PTL

\* And where no turn is lost on the server's side, none is lost in the table:
\* both counters are exact, for any commands, launches that fail and turns
\* that are refused.
THEOREM CountersAreExact ==
  ASSUME MaxRestarts = 0, "timeout" \notin Faults, "turn" \notin Faults
  PROVE  Spec => []TurnsAreCounted
<1>1. StartsInv /\ ReturnsInv => TurnsAreCounted
  <2>1. Exact
    BY DEF Exact
  <2> SUFFICES ASSUME StartsInv, ReturnsInv, NEW m \in Missions
               PROVE  /\ accepted[m] = row[m].started + One(rec[m].pc = "recording")
                      /\ accepted[m] = Returned(m)
    BY DEF TurnsAreCounted, Returned
  <2> QED
    BY <2>1 DEF StartsInv, StartsMatch, ReturnsInv, Balanced, AtMost
<1> QED
  BY <1>1, CountsHold, PTL

---------------------------------------------------------------------------
(* One turn at a time, when the poll loop is by itself.                    *)

\* No run_now was spawned: by create, by the operator or by the end of a turn.
NoRunNow == \A m \in Missions : spawned[m] = 0

TurnEnds == {"turnCompleted", "turnError"}
TurnEvents == {"turnStarted"} \cup TurnEnds

\* The server runs nothing for the mission, and no news of a turn are on
\* their way.
Quiet(m) ==
  /\ open[m] = 0
  /\ \A i \in DOMAIN events : events[i].of = m => events[i].kind \notin TurnEvents

\* The end of a turn is the last that is heard of it.
EndsLast(m) ==
  \A i \in DOMAIN events :
    events[i].of = m /\ events[i].kind \in TurnEnds =>
      /\ open[m] = 0
      /\ \A j \in DOMAIN events : j > i /\ events[j].of = m => events[j].kind \notin TurnEvents

\* The manager sees a thread active from the acceptance of its turn to the
\* delivery of the turn's end.
Seen(m) == open[m] <= 1 /\ EndsLast(m) /\ (~Quiet(m) => view[m] = "active")

\* Without run_now nothing is forced, and a reconcile goes on to a turn only if it
\* found the thread at rest, which then nobody else disturbs.
Unforced(m) == forced[m] = 0 /\ rec[m].force = FALSE
OwnThread(m) ==
  /\ row[m].thread = "none" => Quiet(m)
  /\ rec[m].pc # "idle" =>
       rec[m].snap.thread = row[m].thread /\ (rec[m].tid = "own" => row[m].thread = "own")
AtRest(m) ==
  /\ rec[m].pc \in {"launching", "starting", "rebinding"} => Quiet(m)
  /\ rec[m].pc = "synced" /\ rec[m].snap.inProgress = FALSE => Quiet(m)

Lane(m) == Seen(m) /\ Unforced(m) /\ OwnThread(m) /\ AtRest(m)
LaneInv == \A m \in Missions : Lane(m)

LEMMA LaneStarts == Init => LaneInv
<1> SUFFICES ASSUME Init, NEW m \in Missions PROVE Lane(m)
  BY DEF LaneInv
<1>1. /\ events = <<>> /\ open[m] = 0 /\ forced[m] = 0 /\ rec[m].pc = "idle"
      /\ rec[m].force = FALSE
  BY DEF Init, NoTask
<1>2. Quiet(m) /\ EndsLast(m)
  BY <1>1 DEF Quiet, EndsLast
<1> QED
  BY <1>1, <1>2 DEF Lane, Seen, Unforced, OwnThread, AtRest

\* What the server and the events say of a mission is as before.
LEMMA QuietKept ==
  ASSUME NEW m \in Missions, open'[m] = open[m], events' = events
  PROVE  (Quiet(m)' <=> Quiet(m)) /\ (EndsLast(m)' <=> EndsLast(m))
BY DEF Quiet, EndsLast

LEMMA OthersEmit ==
  ASSUME WorldType, NEW m \in Missions, NEW kind \in Kinds, Emit(kind, m),
         NEW o \in Missions, o # m \/ kind \notin TurnEvents, open'[o] = open[o]
  PROVE  (Quiet(o)' <=> Quiet(o)) /\ (EndsLast(o) => EndsLast(o)')
<1> DEFINE e == [kind |-> kind, of |-> m]
           n == Len(events) + 1
<1>1. events \in Seq(Event) /\ events' = Append(events, e) /\ e \in Event
  BY DEF WorldType, Emit, Event
<1>2. /\ DOMAIN events = 1..Len(events) /\ DOMAIN events' = 1..n /\ Len(events) \in Nat
      /\ events'[n] = e /\ \A i \in 1..Len(events) : events'[i] = events[i]
  BY <1>1
<1>3. e.of = m /\ e.kind = kind
  OBVIOUS
<1> HIDE DEF e
<1>4. Quiet(o)' <=> Quiet(o)
  BY <1>2, <1>3 DEF Quiet
<1>5. ASSUME EndsLast(o) PROVE EndsLast(o)'
  <2> SUFFICES ASSUME NEW i \in DOMAIN events', events'[i].of = o, events'[i].kind \in TurnEnds
               PROVE  /\ open'[o] = 0
                      /\ \A j \in DOMAIN events' :
                           j > i /\ events'[j].of = o => events'[j].kind \notin TurnEvents
    BY DEF EndsLast
  <2>1. i # n
    BY <1>2, <1>3 DEF TurnEvents
  <2>2. i \in 1..Len(events)
    BY <1>2, <2>1
  <2> QED
    BY <1>2, <1>3, <1>5, <2>2 DEF EndsLast
<1> QED
  BY <1>4, <1>5

LEMMA LaneKept ==
  ASSUME NEW m \in Missions, Lane(m), open'[m] = open[m], events' = events,
         view'[m] = view[m], forced'[m] = forced[m], rec'[m] = rec[m],
         row'[m].thread = row[m].thread
  PROVE  Lane(m)'
<1>1. (Quiet(m)' <=> Quiet(m)) /\ (EndsLast(m)' <=> EndsLast(m))
  BY QuietKept
<1> QED
  BY <1>1 DEF Lane, Seen, Unforced, OwnThread, AtRest

\* A reconcile is over, or has just begun.
LEMMA LaneIdle ==
  ASSUME NEW m \in Missions, Lane(m), open'[m] = open[m], events' = events,
         view'[m] = view[m], forced'[m] = forced[m], row'[m].thread = row[m].thread,
         rec'[m].force = FALSE,
         \/ rec'[m].pc = "idle"
         \/ rec'[m].pc = "loaded" /\ rec'[m].snap.thread = row[m].thread
            /\ rec'[m].tid = row[m].thread
  PROVE  Lane(m)'
<1>1. (Quiet(m)' <=> Quiet(m)) /\ (EndsLast(m)' <=> EndsLast(m))
  BY QuietKept
<1> QED
  BY <1>1 DEF Lane, Seen, Unforced, OwnThread, AtRest

LEMMA LaneServer ==
  ASSUME TasksType, WorldType, LaneInv, NEW m \in Missions, Server(m)
  PROVE  LaneInv'
<1>1. row' = row /\ rec' = rec /\ forced' = forced /\ view' = view
  BY DEF Server, ReportItem, AskApproval, Reply, EndTurn, tableVars, taskVars, runtimeVars
<1>2. ASSUME NEW o \in Missions, NEW kind \in Kinds, Emit(kind, m),
             o # m \/ kind \notin TurnEvents, open'[o] = open[o]
      PROVE  Lane(o)'
  <2>1. (Quiet(o)' <=> Quiet(o)) /\ (EndsLast(o) => EndsLast(o)')
    BY <1>2, OthersEmit
  <2> QED
    BY <1>1, <1>2, <2>1 DEF LaneInv, Lane, Seen, Unforced, OwnThread, AtRest
<1>3. CASE ReportItem(m) \/ AskApproval(m) \/ Reply(m)
  <2>1. PICK kind \in {"item", "approval", "finalAnswer"} : Emit(kind, m)
    BY <1>3 DEF ReportItem, AskApproval, Reply
  <2>2. open' = open /\ kind \in Kinds /\ kind \notin TurnEvents
    BY <1>3 DEF ReportItem, AskApproval, Reply, serverVars, Kinds, TurnEvents, TurnEnds
  <2> QED
    BY <1>2, <2>1, <2>2 DEF LaneInv
<1>4. CASE EndTurn(m)
  <2>1. PICK kind \in TurnEnds : Emit(kind, m)
    BY <1>4 DEF EndTurn, TurnEnds
  <2>2. /\ kind \in Kinds /\ kind \in TurnEvents /\ open[m] > 0 /\ open' = [open EXCEPT ![m] = @ - 1]
        /\ open \in [Missions -> Nat]
    BY <1>4 DEF EndTurn, TurnEnds, TurnEvents, Kinds, WorldType
  <2>3. \A o \in Missions \ {m} : open'[o] = open[o]
    BY <2>2
  <2>4. open[m] = 1 /\ open'[m] = 0
    <3>1. open[m] <= 1
      BY DEF LaneInv, Lane, Seen
    <3> QED
      BY <2>2, <3>1
  <2>5. ~Quiet(m) /\ Lane(m)
    BY <2>4 DEF Quiet, LaneInv
  <2>6. EndsLast(m)'
    <3> DEFINE e == [kind |-> kind, of |-> m]
               n == Len(events) + 1
    <3>1. events \in Seq(Event) /\ events' = Append(events, e) /\ e \in Event
      BY <2>1, <2>2 DEF WorldType, Emit, Event
    <3>2. /\ DOMAIN events = 1..Len(events) /\ DOMAIN events' = 1..n /\ Len(events) \in Nat
          /\ \A i \in 1..Len(events) : events'[i] = events[i]
      BY <3>1
    <3> SUFFICES ASSUME NEW i \in DOMAIN events', events'[i].of = m, events'[i].kind \in TurnEnds
                 PROVE  /\ open'[m] = 0
                        /\ \A j \in DOMAIN events' :
                             j > i /\ events'[j].of = m => events'[j].kind \notin TurnEvents
      BY DEF EndsLast
    <3>3. i = n
      BY <2>4, <2>5, <3>2 DEF Lane, Seen, EndsLast
    <3> QED
      BY <2>4, <3>2, <3>3
  <2>7. Lane(m)'
    BY <1>1, <2>4, <2>5, <2>6 DEF Lane, Seen, Unforced, OwnThread, AtRest
  <2>8. ASSUME NEW o \in Missions, o # m PROVE Lane(o)'
    BY <1>2, <2>1, <2>2, <2>3, <2>8
  <2> QED
    BY <2>7, <2>8 DEF LaneInv
<1> QED
  BY <1>3, <1>4 DEF Server

\* A delivered event was the first that waited.
LEMMA LaneDeliver ==
  ASSUME TasksType, WorldType, LaneInv, Deliver
  PROVE  LaneInv'
<1> DEFINE e == Head(events)
           n == Len(events) - 1
<1>1. /\ events \in Seq(Event) /\ events # <<>> /\ events' = Tail(events)
      /\ row' = row /\ rec' = rec /\ forced' = forced /\ open' = open
      /\ view' = ViewAfter(e) /\ view \in [Missions -> Views]
  BY DEF Deliver, WorldType, serverVars
<1>2. /\ n \in Nat /\ DOMAIN events = 1..(n + 1) /\ DOMAIN events' = 1..n
      /\ events[1] = e /\ \A i \in 1..n : events'[i] = events[i + 1]
  BY <1>1
<1>3. e \in Event
  BY <1>1
<1> HIDE DEF e, n
<1>4. e.of \in Missions /\ e.kind \in Kinds
  BY <1>3 DEF Event
<1> SUFFICES ASSUME NEW o \in Missions PROVE Lane(o)'
  BY DEF LaneInv
<1>5. Lane(o)
  BY DEF LaneInv
<1>6. \A i \in 1..n : i + 1 \in 1..(n + 1)
  BY <1>2
<1>7. Quiet(o) => Quiet(o)'
  BY <1>1, <1>2, <1>6 DEF Quiet
<1>8. EndsLast(o)'
  <2> SUFFICES ASSUME NEW i \in 1..n, events'[i].of = o, events'[i].kind \in TurnEnds
               PROVE  /\ open[o] = 0
                      /\ \A j \in 1..n :
                           j > i /\ events'[j].of = o => events'[j].kind \notin TurnEvents
    BY <1>1, <1>2 DEF EndsLast
  <2>1. i + 1 \in DOMAIN events /\ events[i + 1].of = o /\ events[i + 1].kind \in TurnEnds
    BY <1>2, <1>6
  <2>2. /\ open[o] = 0
        /\ \A j \in DOMAIN events :
             j > i + 1 /\ events[j].of = o => events[j].kind \notin TurnEvents
    BY <1>5, <2>1 DEF Lane, Seen, EndsLast
  <2>3. ASSUME NEW j \in 1..n, j > i, events'[j].of = o PROVE events'[j].kind \notin TurnEvents
    BY <1>2, <1>6, <2>2, <2>3
  <2> QED
    BY <2>2, <2>3
<1>9. CASE e.of = o /\ e.kind \in TurnEnds
  <2>1. 1 \in DOMAIN events /\ events[1].of = o /\ events[1].kind \in TurnEnds
    BY <1>2, <1>9
  <2>2. /\ open[o] = 0
        /\ \A j \in DOMAIN events : j > 1 /\ events[j].of = o => events[j].kind \notin TurnEvents
    BY <1>5, <2>1 DEF Lane, Seen, EndsLast
  <2>3. Quiet(o)'
    BY <1>1, <1>2, <1>6, <2>2 DEF Quiet
  <2> QED
    BY <1>1, <1>5, <1>8, <2>3 DEF Lane, Seen, Unforced, OwnThread, AtRest
<1>10. CASE e.of = o /\ e.kind = "turnStarted"
  <2>1. view'[o] = "active"
    BY <1>1, <1>4, <1>10 DEF ViewAfter
  <2> QED
    BY <1>1, <1>5, <1>7, <1>8, <2>1 DEF Lane, Seen, Unforced, OwnThread, AtRest
<1>11. CASE e.of # o \/ e.kind \notin TurnEvents
  <2>1. view'[o] = view[o]
    BY <1>1, <1>4, <1>11 DEF ViewAfter, TurnEvents, TurnEnds
  <2>2. Quiet(o)' => Quiet(o)
    <3> SUFFICES ASSUME Quiet(o)', NEW i \in 1..(n + 1), events[i].of = o
                 PROVE  open[o] = 0 /\ events[i].kind \notin TurnEvents
      BY <1>1, <1>2 DEF Quiet
    <3>1. open[o] = 0
      BY <1>1 DEF Quiet
    <3>2. CASE i = 1
      BY <1>2, <1>11, <3>1, <3>2
    <3>3. CASE i # 1
      <4>1. i - 1 \in 1..n /\ (i - 1) + 1 = i
        BY <1>2, <3>3
      <4> QED
        BY <1>2, <3>1, <4>1 DEF Quiet
    <3> QED
      BY <3>2, <3>3
  <2> QED
    BY <1>1, <1>5, <1>7, <1>8, <2>1, <2>2 DEF Lane, Seen, Unforced, OwnThread, AtRest
<1> QED
  BY <1>9, <1>10, <1>11 DEF TurnEvents

\* A reconcile disturbs the lane of its own mission alone.
LEMMA LaneElsewhere ==
  ASSUME NEW m \in Missions, Apart(m), forced' = forced,
         NEW o \in Missions, o # m, Lane(o), open'[o] = open[o], view'[o] = view[o],
         \/ events' = events
         \/ WorldType /\ \E kind \in Kinds : Emit(kind, m)
  PROVE  Lane(o)'
<1>1. row'[o] = row[o] /\ rec'[o] = rec[o]
  BY DEF Apart
<1>2. CASE events' = events
  BY <1>1, <1>2, LaneKept
<1>3. CASE WorldType /\ \E kind \in Kinds : Emit(kind, m)
  <2>1. (Quiet(o)' <=> Quiet(o)) /\ (EndsLast(o) => EndsLast(o)')
    BY <1>3, OthersEmit
  <2> QED
    BY <1>1, <2>1 DEF Lane, Seen, Unforced, OwnThread, AtRest
<1> QED
  BY <1>2, <1>3

\* A thread that is at rest stays so while its mission is worked on.
LEMMA LaneQuiet ==
  ASSUME NEW m \in Missions, Lane(m), Quiet(m), open'[m] = open[m], events' = events,
         forced' = forced, rec'[m].force = rec[m].force,
         rec'[m].snap.thread = row'[m].thread, rec'[m].tid = "own" => row'[m].thread = "own"
  PROVE  Lane(m)'
<1>1. (Quiet(m)' <=> Quiet(m)) /\ (EndsLast(m)' <=> EndsLast(m))
  BY QuietKept
<1> QED
  BY <1>1 DEF Lane, Seen, Unforced, OwnThread, AtRest

LEMMA LaneReconcile ==
  ASSUME TasksType, WorldType, LaneInv, "timeout" \notin Faults, NEW m \in Missions, Reconcile(m)
  PROVE  LaneInv'
<1>1. Lane(m) /\ TasksType' /\ Apart(m)
  BY ReconcileKeeps DEF LaneInv
<1>2. /\ forced' = forced
      /\ view \in [Missions -> Views] /\ \A o \in Missions \ {m} : view'[o] = view[o]
  <2>1. view \in [Missions -> Views]
    BY DEF WorldType
  <2>2. \/ view' = view
        \/ LaunchThread(m) \/ StartTurn(m) \/ RebindThread(m)
    BY DEF Reconcile, RepairFinal, NotReconciled, SyncThread, Queue, AwaitApproval,
           CompleteAtLimit, AutoYield, LeaveRunning, GoOn, LaunchTimesOut, TurnRefused,
           TurnTimesOut, RecordTurn, ThreadLost, RebindFails, runtimeVars
  <2>3. \A o \in Missions \ {m} : view'[o] = view[o]
    BY <2>1, <2>2 DEF LaunchThread, StartTurn, RebindThread
  <2>4. forced' = forced
    BY DEF Reconcile, RepairFinal, NotReconciled, SyncThread, Queue, AwaitApproval,
           CompleteAtLimit, AutoYield, LeaveRunning, GoOn, LaunchThread, LaunchTimesOut,
           StartTurn, TurnRefused, TurnTimesOut, RecordTurn, ThreadLost, RebindThread,
           RebindFails
  <2> QED
    BY <2>1, <2>3, <2>4
<1>3. ~TurnTimesOut(m)
  BY DEF TurnTimesOut, Fault
<1>4. ASSUME ~StartTurn(m) PROVE open' = open /\ events' = events
  BY <1>3, <1>4, AcceptedKept
<1>5. ASSUME ~StartTurn(m), Lane(m)' PROVE LaneInv'
  <2>1. ASSUME NEW o \in Missions, o # m PROVE Lane(o)'
    BY <1>1, <1>2, <1>4, <1>5, <2>1, LaneElsewhere DEF LaneInv
  <2> QED
    BY <1>5, <2>1 DEF LaneInv
<1>6. rec[m].pc # "idle" => rec[m].snap.thread = row[m].thread /\ (rec[m].tid = "own" => row[m].thread = "own")
  BY <1>1 DEF Lane, OwnThread
<1>7. rec[m].force = FALSE
  BY <1>1 DEF Lane, Unforced
<1>8. CASE StartTurn(m)
  <2>1. row' = row /\ Advance(m, "recording", NoWrite) /\ "recording" \in Stages /\ Accept(m)
        /\ rec[m].pc = "starting" /\ rec[m].tid = "own" /\ view' = [view EXCEPT ![m] = "active"]
    BY <1>8 DEF StartTurn, tableVars, Stages
  <2>2. Onward(m) /\ rec'[m].pc = "recording"
    BY <2>1, UnwrittenGoesOn
  <2>3. Quiet(m)
    BY <1>1, <2>1 DEF Lane, AtRest
  <2>4. /\ Emit("turnStarted", m) /\ "turnStarted" \in Kinds
        /\ open'[m] = open[m] + 1 /\ \A o \in Missions \ {m} : open'[o] = open[o]
    BY <2>1, AcceptCounts DEF Accept, Emit, Kinds
  <2>5. open'[m] = 1 /\ view'[m] = "active"
    BY <1>2, <2>1, <2>3, <2>4 DEF Quiet
  <2>6. EndsLast(m)'
    <3> DEFINE e == [kind |-> "turnStarted", of |-> m]
               n == Len(events) + 1
    <3>1. events \in Seq(Event) /\ events' = Append(events, e) /\ e \in Event
      BY <2>4 DEF WorldType, Emit, Event
    <3>2. /\ DOMAIN events = 1..Len(events) /\ DOMAIN events' = 1..n /\ Len(events) \in Nat
          /\ events'[n] = e /\ \A i \in 1..Len(events) : events'[i] = events[i]
      BY <3>1
    <3>3. e.kind \notin TurnEnds
      BY DEF TurnEnds
    <3> HIDE DEF e
    <3>4. \A i \in DOMAIN events' : events'[i].of = m => events'[i].kind \notin TurnEnds
      <4> SUFFICES ASSUME NEW i \in DOMAIN events', events'[i].of = m
                   PROVE  events'[i].kind \notin TurnEnds
        OBVIOUS
      <4>1. CASE i = n
        BY <3>2, <3>3, <4>1
      <4>2. CASE i # n
        <5>1. i \in DOMAIN events /\ events'[i] = events[i]
          BY <3>2, <4>2
        <5> QED
          BY <2>3, <5>1 DEF Quiet, TurnEvents
      <4> QED
        BY <4>1, <4>2
    <3> QED
      BY <3>4 DEF EndsLast
  <2>7. Lane(m)'
    <3>1. row'[m].thread = "own" /\ rec'[m].snap.thread = row'[m].thread
      BY <1>6, <2>1, <2>2 DEF Onward
    <3>2. rec'[m].force = FALSE /\ forced'[m] = 0
      BY <1>1, <1>2, <2>2 DEF Onward, Lane, Unforced
    <3> QED
      BY <2>2, <2>5, <2>6, <3>1, <3>2 DEF Lane, Seen, Unforced, OwnThread, AtRest
  <2>8. ASSUME NEW o \in Missions, o # m PROVE Lane(o)'
    BY <1>1, <1>2, <2>4, <2>8, LaneElsewhere DEF LaneInv
  <2> QED
    BY <2>7, <2>8 DEF LaneInv
<1>9. ASSUME ~StartTurn(m), view' = view, row'[m].thread = row[m].thread, rec'[m] = NoTask(m) 
      PROVE  LaneInv'
  <2>1. rec'[m].pc = "idle" /\ rec'[m].force = FALSE
    BY <1>9 DEF NoTask
  <2>2. Lane(m)'
    BY <1>1, <1>2, <1>4, <1>9, <2>1, LaneIdle
  <2> QED
    BY <1>5, <1>9, <2>2
<1>10. ASSUME ~StartTurn(m), Quiet(m), rec'[m].force = rec[m].force,
              rec'[m].snap.thread = row'[m].thread, rec'[m].tid = "own" => row'[m].thread = "own"
       PROVE  LaneInv'
  <2>1. Lane(m)'
    BY <1>1, <1>2, <1>4, <1>10, LaneQuiet
  <2> QED
    BY <1>5, <1>10, <2>1
<1>11. CASE Ends(m) \/ RecordTurn(m)
  <2>1. rec'[m] = NoTask(m)
    <3>1. Unlock(m)
      BY <1>3, <1>11 DEF Ends, RecordTurn, RepairFinal, NotReconciled, Queue, AwaitApproval,
                  CompleteAtLimit, AutoYield, LeaveRunning, LaunchTimesOut, TurnRefused, TurnFails
    <3> QED
      BY <3>1, Unlocked
  <2>2. row'[m].thread = row[m].thread /\ rec'[m].pc = "idle"
    BY <1>11, EndsEnd, RecordEnds DEF Ended, Spared
  <2>3. view' = view
    BY <1>3, <1>11 DEF Ends, RecordTurn, RepairFinal, NotReconciled, Queue, AwaitApproval,
                CompleteAtLimit, AutoYield, LeaveRunning, LaunchTimesOut, TurnRefused,
                RebindFails, runtimeVars
  <2>4. ~StartTurn(m)
    <3> SUFFICES ASSUME StartTurn(m) PROVE FALSE
      OBVIOUS
    <3>1. row' = row /\ Advance(m, "recording", NoWrite) /\ "recording" \in Stages
      BY DEF StartTurn, tableVars, Stages
    <3>2. rec'[m].pc = "recording"
      BY <3>1, UnwrittenGoesOn
    <3> QED
      BY <2>2, <3>2
  <2> QED
    BY <1>9, <2>1, <2>2, <2>3, <2>4
<1>12. CASE \E stale, quiet \in BOOLEAN : SyncThread(m, stale, quiet)
  <2>1. /\ Onward(m) /\ Spared(m) /\ rec[m].pc = "loaded"
        /\ \/ rec'[m].pc = "synced"
           \/ rec'[m].pc = "rebinding" /\ view[m] \in {"absent", "notLoaded"}
        /\ rec[m].snap.thread = "own" /\ view[m] = "active" => rec'[m].snap.inProgress = TRUE
    BY <1>12, SyncGoesOn
  <2>2. view' = view /\ ~StartTurn(m)
    BY <1>12, <2>1 DEF SyncThread, runtimeVars, StartTurn
  <2>3. /\ rec'[m].snap.thread = row'[m].thread /\ row'[m].thread = row[m].thread
        /\ rec'[m].tid = "own" => row'[m].thread = "own"
        /\ rec'[m].force = rec[m].force
    BY <1>6, <2>1 DEF Onward, Spared
  <2>4. CASE Quiet(m)
    BY <1>10, <2>2, <2>3, <2>4
  <2>5. CASE ~Quiet(m)
    <3>1. view[m] = "active" /\ row[m].thread = "own"
      <4>1. row[m].thread \in {"none", "own"}
        BY DEF TasksType, Row
      <4> QED
        BY <1>1, <2>5, <4>1 DEF Lane, Seen, OwnThread
    <3>2. rec'[m].pc = "synced" /\ rec'[m].snap.inProgress = TRUE
      BY <1>6, <2>1, <3>1
    <3>3. (Quiet(m)' <=> Quiet(m)) /\ (EndsLast(m)' <=> EndsLast(m))
      BY <1>4, <2>2, QuietKept
    <3>4. open'[m] = open[m] /\ view'[m] = view[m]
      BY <1>4, <2>2
    <3>5. Lane(m)'
      BY <1>1, <1>2, <2>3, <3>1, <3>2, <3>3, <3>4 DEF Lane, Seen, Unforced, OwnThread, AtRest
    <3> QED
      BY <1>5, <2>2, <3>5
  <2> QED
    BY <2>4, <2>5
<1>13. CASE GoOn(m)
  <2>1. Onward(m) /\ Spared(m) /\ rec[m].pc = "synced" /\ (~rec[m].snap.inProgress \/ rec[m].force)
    BY <1>13, GoOnGoesOn
  <2>2. rec[m].snap.inProgress \in BOOLEAN
    BY DEF TasksType, Task, Row
  <2>3. Quiet(m)
    BY <1>1, <1>7, <2>1, <2>2 DEF Lane, AtRest
  <2>4. ~StartTurn(m)
    BY <2>1 DEF StartTurn
  <2> QED
    BY <1>6, <1>10, <2>1, <2>3, <2>4 DEF Onward, Spared
<1>14. CASE LaunchThread(m)
  <2>1. /\ rec[m].pc = "launching" /\ rec'[m].force = rec[m].force
        /\ row'[m].thread = "own" /\ rec'[m].snap.thread = "own"
    BY <1>14, LaunchGoesOn
  <2>2. Quiet(m) /\ ~StartTurn(m)
    BY <1>1, <2>1 DEF Lane, AtRest, StartTurn
  <2> QED
    BY <1>10, <2>1, <2>2
<1>15. CASE ThreadLost(m)
  <2>1. /\ row' = row /\ BeginRebind(m, "turn", NoWrite) /\ "rebinding" \in Stages
        /\ rec[m].pc = "starting" /\ view' = view
    BY <1>15 DEF ThreadLost, tableVars, Stages, runtimeVars
  <2>2. Onward(m) /\ Spared(m) /\ rec'[m].pc = "rebinding"
    BY <2>1, UnwrittenGoesOn
  <2>3. Quiet(m)
    BY <1>1, <2>1 DEF Lane, AtRest
  <2>4. ~StartTurn(m)
    <3> SUFFICES ASSUME StartTurn(m) PROVE FALSE
      OBVIOUS
    <3>1. Advance(m, "recording", NoWrite) /\ "recording" \in Stages
      BY DEF StartTurn, Stages
    <3>2. rec'[m].pc = "recording"
      BY <2>1, <3>1, UnwrittenGoesOn
    <3> QED
      BY <2>2, <3>2
  <2> QED
    BY <1>6, <1>10, <2>1, <2>2, <2>3, <2>4 DEF Onward, Spared
<1>16. CASE RebindThread(m)
  <2>1. /\ rec[m].pc = "rebinding" /\ rec'[m].force = rec[m].force
        /\ row'[m].thread = "own" /\ rec'[m].snap.thread = "own"
    BY <1>16, RebindGoesOn
  <2>2. Quiet(m) /\ ~StartTurn(m)
    BY <1>1, <2>1 DEF Lane, AtRest, StartTurn
  <2> QED
    BY <1>10, <2>1, <2>2
<1>17. CASE RebindFails(m) /\ ~Unlock(m)
  <2>1. Onward(m) /\ Spared(m) /\ rec[m].pc = "rebinding"
    BY <1>17, FailedRebindGoesOn
  <2>2. Quiet(m) /\ ~StartTurn(m)
    BY <1>1, <2>1 DEF Lane, AtRest, StartTurn
  <2> QED
    BY <1>6, <1>10, <2>1, <2>2 DEF Onward, Spared
<1> QED
  BY <1>8, <1>11, <1>12, <1>13, <1>14, <1>15, <1>16, <1>17 DEF Reconcile, Ends

LEMMA LaneStep ==
  ASSUME "timeout" \notin Faults, TypeOK, NoRunNow, LaneInv, [Next]_vars
  PROVE  LaneInv'
<1>1. TasksType /\ WorldType
  BY TypesAre
<1>2. ASSUME open' = open, events' = events, view' = view, forced' = forced, rec' = rec,
             \A m \in Missions : row'[m].thread = row[m].thread
      PROVE  LaneInv'
  BY <1>2, LaneKept DEF LaneInv
<1>3. ASSUME NEW m \in Missions, Touched(m)
      PROVE  \A o \in Missions : row'[o].thread = row[o].thread
  BY <1>3 DEF Touched, Spared
<1>4. CASE UNCHANGED vars
  BY <1>2, <1>4 DEF vars, tableVars, taskVars, eventVars, serverVars, runtimeVars
<1>5. CASE Deliver
  BY <1>1, <1>5, LaneDeliver
<1>6. CASE HandleEvent
  <2>1. handler \in Handler
    BY <1>1, <1>6 DEF HandleEvent, WorldType
  <2>2. \A m \in Missions : row'[m].thread = row[m].thread
    BY <1>1, <1>6, <2>1, EventTouches
  <2> QED
    BY <1>2, <1>6, <2>2 DEF HandleEvent, taskVars, runtimeVars, serverVars
<1>7. CASE Restart
  <2> SUFFICES ASSUME NEW m \in Missions PROVE Lane(m)'
    BY DEF LaneInv
  <2>1. events' = <<>> /\ open'[m] = 0 /\ forced'[m] = 0 /\ rec'[m] = NoTask(m)
    BY <1>7 DEF Restart
  <2>2. rec'[m].pc = "idle" /\ rec'[m].force = FALSE
    BY <2>1 DEF NoTask
  <2>3. Quiet(m)' /\ EndsLast(m)'
    BY <2>1 DEF Quiet, EndsLast
  <2> QED
    BY <2>1, <2>2, <2>3 DEF Lane, Seen, Unforced, OwnThread, AtRest
<1>8. ASSUME NEW m \in Missions, RunnerEnters(m) PROVE LaneInv'
  <2>1. /\ row' = row /\ forced' = forced /\ events' = events /\ open' = open /\ view' = view
        /\ Lock(m, FALSE)
    BY <1>8 DEF RunnerEnters, tableVars, eventVars, runtimeVars, serverVars
  <2>2. /\ \A o \in Missions \ {m} : rec'[o] = rec[o]
        /\ rec'[m].pc = "loaded" /\ rec'[m].force = FALSE
        /\ rec'[m].tid = row[m].thread /\ rec'[m].snap.thread = row[m].thread
    <3>1. /\ \A o \in Missions \ {m} : rec'[o] = rec[o]
          /\ rec'[m] = [pc |-> "loaded", force |-> FALSE, tid |-> row[m].thread,
                        rebind |-> "no", snap |-> row[m]]
      BY <1>1, <2>1, Locked
    <3> QED
      BY <3>1
  <2>3. Lane(m)'
    BY <2>1, <2>2, LaneIdle DEF LaneInv
  <2>4. ASSUME NEW o \in Missions, o # m PROVE Lane(o)'
    BY <2>1, <2>2, <2>4, LaneKept DEF LaneInv
  <2> QED
    BY <2>3, <2>4 DEF LaneInv
<1>9. ASSUME NEW m \in Missions, RunNow(m) PROVE FALSE
  BY <1>9 DEF RunNow, NoRunNow
<1>10. ASSUME NEW m \in Missions, RunNowEnters(m) PROVE FALSE
  BY <1>10 DEF RunNowEnters, LaneInv, Lane, Unforced
<1>11. ASSUME NEW m \in Missions, Reconcile(m) PROVE LaneInv'
  BY <1>1, <1>11, LaneReconcile
<1>12. ASSUME NEW m \in Missions, Operator(m) PROVE LaneInv'
  <2>1. CASE AskRunNow(m)
    BY <1>2, <2>1 DEF AskRunNow, tableVars, eventVars, runtimeVars, serverVars
  <2>2. CASE Pause(m) \/ Complete(m) \/ Resume(m)
    BY <1>1, <1>2, <1>3, <2>2, OperatorTouches
       DEF Pause, Complete, Resume, taskVars, eventVars, runtimeVars, serverVars
  <2> QED
    BY <1>12, <2>1, <2>2 DEF Operator
<1>13. ASSUME NEW m \in Missions, ResolveApproval(m) PROVE LaneInv'
  BY <1>2, <1>13 DEF ResolveApproval, tableVars, taskVars, eventVars
<1>14. ASSUME NEW m \in Missions, Server(m) PROVE LaneInv'
  BY <1>1, <1>14, LaneServer
<1> QED
  BY <1>4, <1>5, <1>6, <1>7, <1>8, <1>9, <1>10, <1>11, <1>12, <1>13, <1>14 DEF Next

\* As long as nobody spawns a run_now, and no answer to start_turn is lost,
\* a thread runs one turn at a time: for any missions, limits and bounds, with
\* approvals, pauses, refused turns, failed launches and restarts.
THEOREM OneTurnAtATime ==
  ASSUME "timeout" \notin Faults
  PROVE  Spec /\ []NoRunNow => []NoOverlappingTurns
<1>1. Init => LaneInv
  BY LaneStarts
<1>2. TypeOK /\ NoRunNow /\ LaneInv /\ [Next]_vars => LaneInv'
  BY LaneStep
<1>3. LaneInv => NoOverlappingTurns
  BY DEF LaneInv, Lane, Seen, NoOverlappingTurns
<1>4. Spec => []TypeOK
  BY MissionTypeCorrect
<1> QED
  BY <1>1, <1>2, <1>3, <1>4, PTL DEF Spec

\* When every mission has one turn, none was just created, and the operator
\* neither resumes one nor asks for a run, nobody spawns a run_now, so that the
\* poll loop is by itself.
THEOREM LoopByItself ==
  ASSUME "timeout" \notin Faults, MaxTurns = 1, Fresh = {},
         Commands \subseteq {"pause", "complete"}
  PROVE  Spec => []NoOverlappingTurns
<1>1. Init => NoRunNow
  BY DEF Init, NoRunNow
<1>2. ASSUME TypeOK, NoRunNow, [Next]_vars PROVE NoRunNow'
  <2>1. CASE Deliver
    <3> DEFINE e == Head(events)
    <3>1. e \in Event
      BY <1>2, <2>1 DEF Deliver, TypeOK
    <3>2. row[e.of].completed \in Nat
      BY <1>2, <3>1 DEF TypeOK, Event, Row
    <3>3. ~SpawnsNextCycle(e)
      BY <3>2 DEF SpawnsNextCycle
    <3>4. spawned' = spawned
      BY <2>1, <3>3 DEF Deliver
    <3> QED
      BY <1>2, <3>4 DEF NoRunNow
  <2>2. CASE Restart
    BY <2>2 DEF Restart, NoRunNow
  <2>3. ASSUME NEW m \in Missions, RunNow(m) PROVE FALSE
    BY <1>2, <2>3 DEF RunNow, NoRunNow
  <2>4. ASSUME NEW m \in Missions, Operator(m) PROVE spawned' = spawned
    BY <2>4 DEF Operator, Pause, Complete, Resume, AskRunNow, Command, taskVars
  <2>5. ASSUME NEW m \in Missions, Reconcile(m) PROVE spawned' = spawned
    BY <2>5 DEF Reconcile, RepairFinal, NotReconciled, SyncThread, Queue, AwaitApproval,
                CompleteAtLimit, AutoYield, LeaveRunning, GoOn, LaunchThread, LaunchTimesOut,
                StartTurn, TurnRefused, TurnTimesOut, RecordTurn, ThreadLost, RebindThread,
                RebindFails
  <2>6. ASSUME NEW m \in Missions,
               RunnerEnters(m) \/ RunNowEnters(m) \/ ResolveApproval(m) \/ Server(m)
        PROVE  spawned' = spawned
    BY <2>6 DEF RunnerEnters, RunNowEnters, ResolveApproval, Server, ReportItem, AskApproval,
                Reply, EndTurn, taskVars
  <2>7. CASE HandleEvent \/ UNCHANGED vars
    BY <1>2, <2>7 DEF HandleEvent, vars, taskVars, NoRunNow
  <2> QED
    BY <1>2, <2>1, <2>2, <2>3, <2>4, <2>5, <2>6, <2>7 DEF Next, NoRunNow
<1>3. Spec => []TypeOK
  BY MissionTypeCorrect
<1>4. Spec /\ []NoRunNow => []NoOverlappingTurns
  BY OneTurnAtATime
<1> QED
  BY <1>1, <1>2, <1>3, <1>4, PTL DEF Spec

---------------------------------------------------------------------------
(* A thread that is seen active is seen at rest in the end.                *)

\* The server runs a turn of m, or has sent the end of one that is not delivered and
\* comes after the first i events.
EndComes(m, i) ==
  open[m] > 0 \/ \E j \in DOMAIN events : j > i /\ events[j].of = m /\ events[j].kind \in TurnEnds

\* The view of a thread is active, or is about to be, only as long as what makes it
\* idle again is still to come.
IsTended(m) ==
  /\ view[m] = "active" => EndComes(m, 0)
  /\ \A i \in DOMAIN events :
       events[i].of = m /\ events[i].kind = "turnStarted" => EndComes(m, i)
EndsAreComing == \A m \in Missions : IsTended(m)

LEMMA EndKept ==
  ASSUME NEW m \in Missions, IsTended(m), open'[m] = open[m], events' = events,
         view'[m] \in {view[m], "idle", "absent", "notLoaded"}
  PROVE  IsTended(m)'
BY DEF IsTended, EndComes

\* What is sent comes after what is on its way.
LEMMA EmitEnds ==
  ASSUME WorldType, NEW m \in Missions, NEW kind \in Kinds, Emit(kind, m),
         NEW o \in Missions, IsTended(o), o # m \/ kind # "turnStarted" \/ open'[o] > 0,
         open'[o] > 0 \/ open'[o] = open[o] \/ (o = m /\ kind \in TurnEnds),
         view'[o] = view[o] \/ open'[o] > 0
  PROVE  IsTended(o)'
<1> DEFINE e == [kind |-> kind, of |-> m]
           n == Len(events) + 1
<1>1. events \in Seq(Event) /\ events' = Append(events, e) /\ e \in Event
  BY DEF WorldType, Emit, Event
<1>2. /\ DOMAIN events = 1..Len(events) /\ DOMAIN events' = 1..n /\ Len(events) \in Nat
      /\ n \in DOMAIN events' /\ events'[n] = e
      /\ \A i \in 1..Len(events) : i \in DOMAIN events' /\ i < n /\ events'[i] = events[i]
  BY <1>1
<1>3. e.of = m /\ e.kind = kind
  OBVIOUS
<1> HIDE DEF e, n
<1>4. ASSUME NEW i \in Nat, i < n, EndComes(o, i) PROVE EndComes(o, i)'
  BY <1>2, <1>3, <1>4 DEF EndComes
<1>5. 0 < n
  BY <1>2 DEF n
<1>6. view'[o] = "active" => EndComes(o, 0)'
  BY <1>4, <1>5 DEF IsTended, EndComes
<1>7. ASSUME NEW i \in DOMAIN events', events'[i].of = o, events'[i].kind = "turnStarted"
      PROVE  EndComes(o, i)'
  <2>1. CASE i = n
    BY <1>2, <1>3, <1>7, <2>1 DEF EndComes
  <2>2. CASE i # n
    <3>1. i \in 1..Len(events) /\ i \in Nat
      BY <1>2, <2>2 DEF n
    <3> QED
      BY <1>2, <1>4, <1>7, <3>1 DEF IsTended
  <2> QED
    BY <2>1, <2>2
<1> QED
  BY <1>6, <1>7 DEF IsTended

LEMMA EndsServer ==
  ASSUME WorldType, EndsAreComing, NEW m \in Missions, Server(m)
  PROVE  EndsAreComing'
<1>1. view' = view
  BY DEF Server, ReportItem, AskApproval, Reply, EndTurn, runtimeVars
<1>2. CASE ReportItem(m) \/ AskApproval(m) \/ Reply(m)
  <2>1. PICK kind \in {"item", "approval", "finalAnswer"} : Emit(kind, m)
    BY <1>2 DEF ReportItem, AskApproval, Reply
  <2>2. open' = open /\ kind \in Kinds /\ kind # "turnStarted"
    BY <1>2 DEF ReportItem, AskApproval, Reply, serverVars, Kinds
  <2> QED
    BY <1>1, <2>1, <2>2, EmitEnds DEF EndsAreComing
<1>3. CASE EndTurn(m)
  <2>1. PICK kind \in TurnEnds : Emit(kind, m)
    BY <1>3 DEF EndTurn, TurnEnds
  <2>2. kind \in Kinds /\ kind # "turnStarted" /\ \A o \in Missions \ {m} : open'[o] = open[o]
    BY <1>3 DEF EndTurn, TurnEnds, Kinds, WorldType
  <2> QED
    BY <1>1, <2>1, <2>2, EmitEnds DEF EndsAreComing
<1> QED
  BY <1>2, <1>3 DEF Server

LEMMA EndsDeliver ==
  ASSUME WorldType, EndsAreComing, Deliver
  PROVE  EndsAreComing'
<1> DEFINE e == Head(events)
           n == Len(events) - 1
<1>1. /\ events \in Seq(Event) /\ events # <<>> /\ events' = Tail(events)
      /\ open' = open /\ view' = ViewAfter(e) /\ view \in [Missions -> Views]
  BY DEF Deliver, WorldType, serverVars
<1>2. /\ n \in Nat /\ DOMAIN events = 1..(n + 1) /\ DOMAIN events' = 1..n
      /\ events[1] = e /\ \A i \in 1..n : events'[i] = events[i + 1]
  BY <1>1
<1>3. e \in Event
  BY <1>1
<1> HIDE DEF e, n
<1>4. e.of \in Missions /\ e.kind \in Kinds
  BY <1>3 DEF Event
<1> SUFFICES ASSUME NEW o \in Missions PROVE IsTended(o)'
  BY DEF EndsAreComing
<1>5. IsTended(o)
  BY DEF EndsAreComing
<1>6. ASSUME NEW i \in Nat, EndComes(o, i), i > 0 \/ ~(e.of = o /\ e.kind \in TurnEnds)
      PROVE  EndComes(o, IF i = 0 THEN 0 ELSE i - 1)'
  <2> SUFFICES ASSUME ~(open[o] > 0)
               PROVE  \E j \in DOMAIN events' : /\ j > (IF i = 0 THEN 0 ELSE i - 1)
                                                /\ events'[j].of = o /\ events'[j].kind \in TurnEnds
    BY <1>1 DEF EndComes
  <2>1. PICK j \in 1..(n + 1) : j > i /\ events[j].of = o /\ events[j].kind \in TurnEnds
    BY <1>2, <1>6 DEF EndComes
  <2>2. j # 1
    BY <1>2, <1>6, <2>1
  <2>3. j - 1 \in 1..n /\ (j - 1) + 1 = j /\ j - 1 > (IF i = 0 THEN 0 ELSE i - 1)
    BY <1>2, <1>6, <2>1, <2>2
  <2>4. events'[j - 1] = events[j] /\ j - 1 \in DOMAIN events'
    BY <1>2, <2>3
  <2> QED
    BY <2>1, <2>3, <2>4
<1>7. ASSUME NEW i \in DOMAIN events', events'[i].of = o, events'[i].kind = "turnStarted"
      PROVE  EndComes(o, i)'
  <2>1. /\ i + 1 \in DOMAIN events /\ events[i + 1].of = o /\ events[i + 1].kind = "turnStarted"
        /\ i + 1 \in Nat /\ i + 1 > 0 /\ i + 1 # 0 /\ (i + 1) - 1 = i
    BY <1>2, <1>7
  <2>2. EndComes(o, i + 1)
    BY <1>5, <2>1 DEF IsTended
  <2>3. EndComes(o, IF i + 1 = 0 THEN 0 ELSE (i + 1) - 1)'
    BY <1>6, <2>1, <2>2
  <2> QED
    BY <2>1, <2>3
<1>8. ASSUME view'[o] = "active" PROVE EndComes(o, 0)'
  <2>1. ~(e.of = o /\ e.kind \in TurnEnds)
    BY <1>1, <1>4, <1>8 DEF ViewAfter, TurnEnds
  <2>2. CASE e.of = o /\ e.kind = "turnStarted"
    <3>1. EndComes(o, 1)
      BY <1>2, <1>5, <2>2 DEF IsTended
    <3>2. EndComes(o, IF 1 = 0 THEN 0 ELSE 1 - 1)'
      BY <1>6, <3>1
    <3> QED
      BY <3>2
  <2>3. CASE ~(e.of = o /\ e.kind = "turnStarted")
    <3>1. view[o] = "active"
      BY <1>1, <1>4, <1>8, <2>1, <2>3 DEF ViewAfter, TurnEnds
    <3>2. EndComes(o, 0)
      BY <1>5, <3>1 DEF IsTended
    <3>3. EndComes(o, IF 0 = 0 THEN 0 ELSE 0 - 1)'
      BY <1>6, <2>1, <3>2
    <3> QED
      BY <3>3
  <2> QED
    BY <2>2, <2>3
<1> QED
  BY <1>7, <1>8 DEF IsTended

LEMMA EndsReconcile ==
  ASSUME TasksType, WorldType, EndsAreComing, NEW m \in Missions, Reconcile(m)
  PROVE  EndsAreComing'
<1>1. view \in [Missions -> Views]
  BY DEF WorldType
<1>2. \/ view' = view
      \/ LaunchThread(m) \/ StartTurn(m) \/ RebindThread(m)
  BY DEF Reconcile, RepairFinal, NotReconciled, SyncThread, Queue, AwaitApproval,
         CompleteAtLimit, AutoYield, LeaveRunning, GoOn, LaunchTimesOut, TurnRefused,
         TurnTimesOut, RecordTurn, ThreadLost, RebindFails, runtimeVars
<1>3. /\ \A o \in Missions \ {m} : view'[o] = view[o]
      /\ view'[m] \in {view[m], "idle"} \/ StartTurn(m)
  BY <1>1, <1>2 DEF LaunchThread, StartTurn, RebindThread
<1>4. CASE Accept(m)
  <2>1. /\ Emit("turnStarted", m) /\ "turnStarted" \in Kinds /\ open'[m] = open[m] + 1
        /\ \A o \in Missions \ {m} : open'[o] = open[o]
    BY <1>4, AcceptCounts DEF Emit, Kinds
  <2>2. open'[m] > 0
    BY <2>1 DEF WorldType
  <2>3. IsTended(m)'
    <3>1. IsTended(m)
      BY DEF EndsAreComing
    <3> QED
      BY <2>1, <2>2, <3>1, EmitEnds
  <2>4. ASSUME NEW o \in Missions \ {m} PROVE IsTended(o)'
    BY <1>3, <2>1, <2>4, EmitEnds DEF EndsAreComing
  <2> QED
    BY <2>3, <2>4 DEF EndsAreComing
<1>5. CASE open' = open /\ events' = events /\ ~StartTurn(m)
  BY <1>3, <1>5, EndKept DEF EndsAreComing
<1>6. StartTurn(m) => Accept(m)
  BY DEF StartTurn
<1>7. Accept(m) \/ (open' = open /\ events' = events)
  BY AcceptedKept DEF StartTurn, TurnTimesOut
<1> QED
  BY <1>4, <1>5, <1>6, <1>7

LEMMA EndsStep == TypeOK /\ EndsAreComing /\ [Next]_vars => EndsAreComing'
<1> SUFFICES ASSUME TasksType, WorldType, EndsAreComing, [Next]_vars PROVE EndsAreComing'
  BY TypesAre
<1>1. ASSUME UNCHANGED <<events, open, view>> PROVE EndsAreComing'
  BY <1>1, EndKept DEF EndsAreComing
<1>2. CASE UNCHANGED vars
  BY <1>1, <1>2 DEF vars, eventVars, runtimeVars, serverVars
<1>3. CASE Deliver
  BY <1>3, EndsDeliver
<1>4. CASE HandleEvent
  BY <1>1, <1>4 DEF HandleEvent, runtimeVars, serverVars
<1>5. CASE Restart
  BY <1>5 DEF Restart, EndsAreComing, IsTended
<1>6. ASSUME NEW m \in Missions, RunnerEnters(m) \/ RunNow(m) \/ RunNowEnters(m)
      PROVE  EndsAreComing'
  BY <1>1, <1>6 DEF RunnerEnters, RunNow, RunNowEnters, eventVars, runtimeVars, serverVars
<1>7. ASSUME NEW m \in Missions, Reconcile(m) PROVE EndsAreComing'
  BY <1>7, EndsReconcile
<1>8. ASSUME NEW m \in Missions, Operator(m) \/ ResolveApproval(m) PROVE EndsAreComing'
  BY <1>1, <1>8 DEF Operator, Pause, Complete, Resume, AskRunNow, ResolveApproval, eventVars,
                    runtimeVars, serverVars
<1>9. ASSUME NEW m \in Missions, Server(m) PROVE EndsAreComing'
  BY <1>9, EndsServer
<1> QED
  BY <1>2, <1>3, <1>4, <1>5, <1>6, <1>7, <1>8, <1>9 DEF Next

\* Whatever is lost, fails or restarts: a thread that the manager sees active has a turn
\* on the server, or the news of its end are under way.
THEOREM ActiveEnds == Spec => []EndsAreComing
<1>1. Init => EndsAreComing
  BY DEF Init, EndsAreComing, IsTended
<1>2. TypeOK /\ EndsAreComing /\ [Next]_vars => EndsAreComing'
  BY EndsStep
<1> QED
  BY <1>1, <1>2, MissionTypeCorrect, PTL DEF Spec

\* No turn without a thread: what has none was never given to the server, nothing is
\* heard of it, and neither its row nor its reconcile speaks of a turn.
Bare(m) ==
  row[m].thread = "none" =>
    /\ open[m] = 0 /\ \A i \in DOMAIN events : events[i].of # m
    /\ handler # NoEvent => handler.of # m
    /\ row[m].inProgress = FALSE
    /\ rec[m].tid = "none" /\ rec[m].pc \notin {"recording", "rebinding"}
    /\ rec[m].pc # "idle" => rec[m].snap.thread = "none"
BareInv == \A m \in Missions : Bare(m)

\* A write that does not say that a turn is in progress.
LEMMA CalmWrite ==
  ASSUME TasksType, NEW m \in Missions, NEW w, Update(m, w),
         "inProgress" \in DOMAIN w => w["inProgress"] = FALSE,
         row[m].inProgress = FALSE
  PROVE  row'[m].inProgress = FALSE
<1>1. row \in [Missions -> Row] /\ "inProgress" \in DOMAIN row[m]
  BY DEF TasksType, Row
<1> DEFINE t == w @@ row[m]
<1>2. row' = [row EXCEPT ![m] = t]
  BY DEF Update
<1>3. t["inProgress"] = IF "inProgress" \in DOMAIN w THEN w["inProgress"] ELSE row[m]["inProgress"]
  BY <1>1 DEF @@
<1> HIDE DEF t
<1>4. row'[m] = t
  BY <1>1, <1>2
<1> QED
  BY <1>3, <1>4

LEMMA EndsCalmly ==
  ASSUME TasksType, NEW m \in Missions, Ends(m), row[m].inProgress = FALSE
  PROVE  row'[m].inProgress = FALSE
<1>1. ASSUME NEW w, Update(m, w), "inProgress" \in DOMAIN w => w["inProgress"] = FALSE
      PROVE  row'[m].inProgress = FALSE
  BY <1>1, CalmWrite
<1>2. CASE RepairFinal(m)
  <2> DEFINE s == rec[m].snap
             a == IF s.status # "completed" THEN [x \in {"status"} |-> "completed"] ELSE NoWrite
             b == IF s.status # "completed" THEN [queued |-> FALSE] ELSE NoWrite
             c == IF s.inProgress # FALSE THEN [x \in {"inProgress"} |-> FALSE] ELSE NoWrite
             d == IF s.error # "none" THEN [x \in {"error"} |-> "none"] ELSE NoWrite
             w == a @@ b @@ c @@ d
  <2>1. Update(m, w)
    BY <1>2 DEF RepairFinal
  <2>2. /\ "inProgress" \notin DOMAIN a /\ "inProgress" \notin DOMAIN b
        /\ "inProgress" \in DOMAIN c => c["inProgress"] = FALSE
        /\ "inProgress" \notin DOMAIN d
    BY DEF NoWrite
  <2> HIDE DEF a, b, c, d
  <2>3. "inProgress" \notin DOMAIN (a @@ b)
    BY <2>2 DEF @@
  <2> DEFINE ab == a @@ b
  <2> HIDE DEF ab
  <2>4. "inProgress" \in DOMAIN (ab @@ c) => (ab @@ c)["inProgress"] = FALSE
    BY <2>2, <2>3 DEF @@, ab
  <2> DEFINE abc == ab @@ c
  <2> HIDE DEF abc
  <2>5. "inProgress" \in DOMAIN (abc @@ d) => (abc @@ d)["inProgress"] = FALSE
    BY <2>2, <2>4 DEF @@, abc
  <2> HIDE DEF w
  <2>6. w = abc @@ d
    BY DEF w, abc, ab
  <2> QED
    BY <1>1, <2>1, <2>5, <2>6
<1>3. CASE NotReconciled(m)
  BY <1>3 DEF NotReconciled, tableVars
<1>4. rec[m].snap \in Row
  BY DEF TasksType, Task
<1>5. "inProgress" \notin DOMAIN Unblock(rec[m].snap)
  BY <1>4, UnblockWrites
<1>6. CASE CompleteAtLimit(m)
  <2> DEFINE v == [status |-> "completed", queued |-> FALSE, inProgress |-> FALSE]
             u == Unblock(rec[m].snap)
  <2>1. Update(m, v @@ u)
    BY <1>6 DEF CompleteAtLimit
  <2>2. "inProgress" \in DOMAIN v /\ v["inProgress"] = FALSE
    OBVIOUS
  <2> HIDE DEF u, v
  <2>3. "inProgress" \in DOMAIN (v @@ u) /\ (v @@ u)["inProgress"] = FALSE
    BY <2>2 DEF @@
  <2> QED
    BY <1>1, <2>1, <2>3
<1>7. CASE LeaveRunning(m)
  BY <1>1, <1>5, <1>7 DEF LeaveRunning
<1>8. CASE Queue(m)
  BY <1>1, <1>8 DEF Queue
<1>9. CASE AwaitApproval(m)
  BY <1>1, <1>9 DEF AwaitApproval
<1>10. CASE AutoYield(m)
  BY <1>1, <1>10 DEF AutoYield
<1>11. CASE LaunchTimesOut(m)
  BY <1>1, <1>11 DEF LaunchTimesOut
<1>12. CASE TurnRefused(m) \/ TurnTimesOut(m) \/ (RebindFails(m) /\ Unlock(m))
  <2>1. PICK error \in {"turn", "timeout", "lost"} : Update(m, FailureWrites(m, error))
    BY <1>12 DEF TurnRefused, TurnTimesOut, TurnFails, RebindFails, FailureWrites
  <2>2. FailureWrites(m, error)["inProgress"] = FALSE
    BY DEF FailureWrites
  <2> QED
    BY <1>1, <2>1, <2>2
<1> QED
  BY <1>2, <1>3, <1>6, <1>7, <1>8, <1>9, <1>10, <1>11, <1>12 DEF Ends

LEMMA BareKept ==
  ASSUME NEW m \in Missions, Bare(m), open'[m] = open[m], events' = events,
         handler' = handler, row'[m] = row[m], rec'[m] = rec[m]
  PROVE  Bare(m)'
BY DEF Bare

\* An event of m is none of another mission.
LEMMA BareEmit ==
  ASSUME WorldType, NEW m \in Missions, NEW kind \in Kinds, Emit(kind, m),
         NEW o \in Missions, o # m \/ row'[o].thread # "none", Bare(o),
         o # m => open'[o] = open[o] /\ row'[o] = row[o] /\ rec'[o] = rec[o] /\ handler' = handler
  PROVE  Bare(o)'
<1> DEFINE e == [kind |-> kind, of |-> m]
<1>1. events \in Seq(Event) /\ events' = Append(events, e) /\ e \in Event
  BY DEF WorldType, Emit, Event
<1>2. /\ DOMAIN events = 1..Len(events) /\ DOMAIN events' = 1..(Len(events) + 1)
      /\ Len(events) \in Nat /\ events'[Len(events) + 1] = e
      /\ \A i \in 1..Len(events) : events'[i] = events[i]
  BY <1>1
<1>3. e.of = m
  OBVIOUS
<1> HIDE DEF e
<1>4. CASE o = m
  BY <1>4 DEF Bare
<1>5. CASE o # m
  <2>1. (\A i \in DOMAIN events : events[i].of # o)
          => \A i \in DOMAIN events' : events'[i].of # o
    BY <1>2, <1>3, <1>5
  <2> QED
    BY <1>5, <2>1 DEF Bare
<1> QED
  BY <1>4, <1>5

LEMMA BareReconcile ==
  ASSUME TasksType, WorldType, BareInv, NEW m \in Missions, Reconcile(m)
  PROVE  BareInv'
<1>1. Apart(m) /\ TasksType' /\ Bare(m)
  BY ReconcileKeeps DEF BareInv
<1>2. row[m].thread \in {"none", "own"} /\ rec[m].tid \in {"none", "own"}
  BY DEF TasksType, Task, Row
<1>3. handler' = handler
  BY AcceptedKept DEF StartTurn, TurnTimesOut
<1>4. CASE Accept(m) /\ rec[m].tid = "own" /\ row'[m].thread = row[m].thread
  <2>1. /\ Emit("turnStarted", m) /\ "turnStarted" \in Kinds
        /\ \A o \in Missions \ {m} : open'[o] = open[o]
    BY <1>4, AcceptCounts DEF Emit, Kinds
  <2>2. row'[m].thread # "none"
    BY <1>1, <1>2, <1>4 DEF Bare
  <2>3. ASSUME NEW o \in Missions PROVE Bare(o)'
    <3>1. /\ o # m \/ row'[o].thread # "none"
          /\ o # m => open'[o] = open[o] /\ row'[o] = row[o] /\ rec'[o] = rec[o] /\ handler' = handler
          /\ Bare(o)
      BY <1>1, <1>3, <2>1, <2>2 DEF Apart, BareInv
    <3> QED
      BY <2>1, <3>1, BareEmit
  <2> QED
    BY <2>3 DEF BareInv
<1>5. StartTurn(m) \/ (TurnTimesOut(m) /\ Accept(m)) =>
        Accept(m) /\ rec[m].tid = "own" /\ row'[m].thread = row[m].thread
  BY EndsEnd DEF StartTurn, TurnTimesOut, tableVars, Ended, Spared, Ends
<1>6. CASE open' = open /\ events' = events /\ ~StartTurn(m)
  <2>1. ASSUME NEW o \in Missions, o # m PROVE Bare(o)'
    BY <1>1, <1>3, <1>6, <2>1, BareKept DEF Apart, BareInv
  <2>2. Bare(m)'
    <3> SUFFICES ASSUME row'[m].thread = "none"
                 PROVE  /\ row[m].thread = "none" /\ row'[m].inProgress = FALSE
                        /\ rec'[m].tid = "none" /\ rec'[m].pc \notin {"recording", "rebinding"}
                        /\ rec'[m].pc # "idle" => rec'[m].snap.thread = "none"
      BY <1>1, <1>3, <1>6 DEF Bare
    <3>1. CASE Ends(m)
      <4>1. Unlock(m)
        BY <3>1 DEF Ends, RepairFinal, NotReconciled, Queue, AwaitApproval, CompleteAtLimit,
                    AutoYield, LeaveRunning, LaunchTimesOut, TurnRefused, TurnTimesOut, TurnFails
      <4>2. rec'[m].tid = "none" /\ rec'[m].pc = "idle"
        <5>1. rec'[m] = NoTask(m)
          BY <4>1, Unlocked
        <5> QED
          BY <5>1 DEF NoTask
      <4>3. row[m].thread = "none"
        BY <3>1, EndsEnd DEF Ended, Spared
      <4>4. row'[m].inProgress = FALSE
        BY <1>1, <3>1, <4>3, EndsCalmly DEF Bare
      <4> QED
        BY <4>2, <4>3, <4>4
    <3>2. CASE \E stale, quiet \in BOOLEAN : SyncThread(m, stale, quiet)
      <4>1. /\ Onward(m) /\ Spared(m) /\ rec[m].pc = "loaded"
            /\ rec'[m].pc = "synced" \/ rec'[m].pc = "rebinding"
        BY <3>2, SyncGoesOn
      <4>2. row[m].thread = "none" /\ rec[m].snap.thread = "none" /\ row[m].inProgress = FALSE
        BY <1>1, <4>1 DEF Spared, Bare
      <4>3. Update(m, NoWrite) /\ Advance(m, "synced", NoWrite)
        BY <3>2, <4>2 DEF SyncThread
      <4>4. row'[m].inProgress = FALSE
        BY <4>2, <4>3, CalmWrite DEF NoWrite
      <4>5. rec'[m].pc = "synced"
        BY <4>3, NoWrites, Advanced DEF Goes, Stages
      <4> QED
        BY <1>1, <4>1, <4>2, <4>4, <4>5 DEF Onward, Bare
    <3>3. CASE GoOn(m)
      <4>1. /\ Onward(m) /\ Spared(m) /\ rec[m].pc = "synced"
            /\ rec'[m].pc \in {"launching", "starting"}
        BY <3>3, GoOnGoesOn
      <4>2. Update(m, Unblock(rec[m].snap)) /\ rec[m].snap \in Row
        BY <3>3 DEF GoOn, TasksType, Task
      <4>3. row[m].thread = "none" /\ row[m].inProgress = FALSE
        BY <1>1, <4>1 DEF Spared, Bare
      <4>4. row'[m].inProgress = FALSE
        BY <4>2, <4>3, UnblockWrites, CalmWrite
      <4> QED
        BY <1>1, <4>1, <4>3, <4>4 DEF Onward, Bare
    <3>4. CASE LaunchThread(m) \/ RebindThread(m)
      BY <3>4, LaunchGoesOn, RebindGoesOn
    <3>5. CASE ThreadLost(m)
      BY <1>1, <3>5 DEF ThreadLost, tableVars, Bare
    <3>6. CASE RecordTurn(m)
      BY <1>1, <3>6, RecordEnds DEF Bare
    <3>7. CASE RebindFails(m) /\ ~Unlock(m)
      BY <1>1, <3>7, FailedRebindGoesOn DEF Bare, Spared
    <3> QED
      BY <1>6, <3>1, <3>2, <3>3, <3>4, <3>5, <3>6, <3>7 DEF Reconcile, Ends
  <2> QED
    BY <2>1, <2>2 DEF BareInv
<1>7. \/ StartTurn(m) \/ (TurnTimesOut(m) /\ Accept(m))
      \/ (open' = open /\ events' = events /\ ~StartTurn(m))
  BY AcceptedKept DEF TurnTimesOut, StartTurn
<1> QED
  BY <1>4, <1>5, <1>6, <1>7

LEMMA BareServer ==
  ASSUME WorldType, BareInv, NEW m \in Missions, Server(m)
  PROVE  BareInv'
<1>1. row' = row /\ rec' = rec /\ handler' = handler /\ open[m] > 0
  BY DEF Server, ReportItem, AskApproval, Reply, EndTurn, tableVars, taskVars
<1>2. PICK kind \in Kinds : Emit(kind, m)
  BY DEF Server, ReportItem, AskApproval, Reply, EndTurn, Kinds
<1>3. \A o \in Missions \ {m} : open'[o] = open[o]
  BY DEF Server, ReportItem, AskApproval, Reply, EndTurn, serverVars, WorldType
<1>4. row'[m].thread # "none"
  BY <1>1 DEF BareInv, Bare
<1>5. ASSUME NEW o \in Missions PROVE Bare(o)'
  <2>1. /\ o # m \/ row'[o].thread # "none"
        /\ o # m => open'[o] = open[o] /\ row'[o] = row[o] /\ rec'[o] = rec[o] /\ handler' = handler
        /\ Bare(o)
    BY <1>1, <1>3, <1>4 DEF BareInv
  <2> QED
    BY <1>2, <2>1, BareEmit
<1> QED
  BY <1>5 DEF BareInv

LEMMA BareDeliver ==
  ASSUME WorldType, BareInv, Deliver
  PROVE  BareInv'
<1> DEFINE e == Head(events)
           n == Len(events) - 1
<1>1. /\ events \in Seq(Event) /\ events # <<>> /\ events' = Tail(events)
      /\ row' = row /\ rec' = rec /\ open' = open
      /\ handler' = handler \/ handler'.of = e.of
  BY DEF Deliver, serverVars, WorldType
<1>2. /\ n \in Nat /\ DOMAIN events = 1..(n + 1) /\ DOMAIN events' = 1..n
      /\ events[1] = e /\ \A i \in 1..n : events'[i] = events[i + 1]
  BY <1>1
<1>3. 1 \in DOMAIN events /\ \A i \in 1..n : i + 1 \in DOMAIN events
  BY <1>2
<1> HIDE DEF e, n
<1>4. ASSUME NEW o \in Missions PROVE Bare(o)'
  BY <1>1, <1>2, <1>3 DEF BareInv, Bare
<1> QED
  BY <1>4 DEF BareInv

LEMMA BareStep == TypeOK /\ BareInv /\ [Next]_vars => BareInv'
<1> SUFFICES ASSUME TasksType, WorldType, BareInv, [Next]_vars PROVE BareInv'
  BY TypesAre
<1>1. ASSUME UNCHANGED <<events, handler, open, row, rec>> PROVE BareInv'
  BY <1>1, BareKept DEF BareInv
\* The row was written by somebody who says nothing of a turn.
<1>2. ASSUME NEW m \in Missions, UNCHANGED <<events, handler, open, rec>>, Touched(m),
             row[m].inProgress = FALSE => row'[m].inProgress = FALSE
      PROVE  BareInv'
  <2>1. ASSUME NEW o \in Missions, o # m PROVE Bare(o)'
    BY <1>2, <2>1, BareKept DEF Touched, BareInv
  <2>2. Bare(m)'
    BY <1>2 DEF Touched, Spared, BareInv, Bare
  <2> QED
    BY <2>1, <2>2 DEF BareInv
<1>3. CASE UNCHANGED vars
  BY <1>1, <1>3 DEF vars, tableVars, taskVars, eventVars, serverVars
<1>4. CASE Deliver
  BY <1>4, BareDeliver
<1>5. CASE HandleEvent
  <2>1. handler \in Handler
    BY <1>5 DEF HandleEvent, WorldType
  <2>2. /\ handler.of \in Missions /\ handler' = NoEvent /\ events' = events /\ rec' = rec
        /\ open' = open
    BY <1>5, <2>1 DEF HandleEvent, taskVars, serverVars, Handler
  <2>3. row[handler.of].thread # "none"
    BY <1>5, <2>2 DEF HandleEvent, BareInv, Bare
  <2>4. /\ \A o \in Missions \ {handler.of} : row'[o] = row[o]
        /\ row'[handler.of].thread = row[handler.of].thread
    BY <1>5, <2>1, EventTouches
  <2>5. ASSUME NEW o \in Missions PROVE Bare(o)'
    <3>1. CASE o = handler.of
      BY <2>3, <2>4, <3>1 DEF Bare
    <3>2. CASE o # handler.of
      BY <2>2, <2>4, <3>2 DEF BareInv, Bare
    <3> QED
      BY <3>1, <3>2
  <2> QED
    BY <2>5 DEF BareInv
<1>6. CASE Restart
  <2> SUFFICES ASSUME NEW m \in Missions PROVE Bare(m)'
    BY DEF BareInv
  <2>1. row' = row /\ events' = <<>> /\ open'[m] = 0 /\ handler' = NoEvent /\ rec'[m] = NoTask(m)
    BY <1>6 DEF Restart, tableVars
  <2>2. rec'[m].pc = "idle" /\ rec'[m].tid = "none"
    BY <2>1 DEF NoTask
  <2> QED
    BY <2>1, <2>2 DEF BareInv, Bare
<1>7. ASSUME NEW m \in Missions, NEW force \in BOOLEAN, Lock(m, force),
             UNCHANGED <<events, handler, open, row>>
      PROVE  BareInv'
  <2>1. /\ \A o \in Missions \ {m} : rec'[o] = rec[o]
        /\ rec'[m] = [pc |-> "loaded", force |-> force, tid |-> row[m].thread,
                      rebind |-> "no", snap |-> row[m]]
    BY <1>7, Locked
  <2>2. /\ rec'[m].pc = "loaded" /\ rec'[m].tid = row[m].thread
        /\ rec'[m].snap.thread = row[m].thread
    BY <2>1
  <2>3. Bare(m)'
    BY <1>7, <2>2 DEF BareInv, Bare
  <2>4. ASSUME NEW o \in Missions, o # m PROVE Bare(o)'
    BY <1>7, <2>1, <2>4, BareKept DEF BareInv
  <2> QED
    BY <2>3, <2>4 DEF BareInv
<1>8. ASSUME NEW m \in Missions, RunnerEnters(m) \/ RunNowEnters(m) PROVE BareInv'
  BY <1>7, <1>8 DEF RunnerEnters, RunNowEnters, tableVars, eventVars, serverVars
<1>9. ASSUME NEW m \in Missions, Pause(m) \/ Complete(m) \/ Resume(m) \/ RunNow(m)
      PROVE  BareInv'
  <2>1. ASSUME row[m].inProgress = FALSE PROVE row'[m].inProgress = FALSE
    <3>1. ASSUME NEW w, Update(m, w), "inProgress" \in DOMAIN w => w["inProgress"] = FALSE
          PROVE  row'[m].inProgress = FALSE
      BY <2>1, <3>1, CalmWrite
    <3>2. \/ row' = row
          \/ Update(m, [status |-> "paused", queued |-> FALSE, inProgress |-> FALSE])
          \/ Update(m, [status |-> "completed", queued |-> FALSE, inProgress |-> FALSE])
          \/ Update(m, [status |-> "active", queued |-> FALSE, error |-> "none"])
      BY <1>9 DEF Pause, Complete, Resume, RunNow
    <3> QED
      BY <2>1, <3>1, <3>2
  <2>2. Touched(m)
    BY <1>9, OperatorTouches
  <2>3. UNCHANGED <<events, handler, open, rec>>
    BY <1>9 DEF Pause, Complete, Resume, RunNow, taskVars, eventVars, serverVars
  <2> QED
    BY <1>2, <2>1, <2>2, <2>3
<1>10. ASSUME NEW m \in Missions, AskRunNow(m) \/ ResolveApproval(m) PROVE BareInv'
  BY <1>1, <1>10 DEF AskRunNow, ResolveApproval, tableVars, taskVars, eventVars, serverVars
<1>11. ASSUME NEW m \in Missions, Reconcile(m) PROVE BareInv'
  BY <1>11, BareReconcile
<1>12. ASSUME NEW m \in Missions, Server(m) PROVE BareInv'
  BY <1>12, BareServer
<1> QED
  BY <1>3, <1>4, <1>5, <1>6, <1>8, <1>9, <1>10, <1>11, <1>12 DEF Next, Operator

\* A row says that a turn is in progress only where there is a thread to run it.
ProgressHasThread ==
  \A m \in Missions : row[m].inProgress => row[m].thread = "own"

THEOREM NoProgressWithoutThread == Spec => []ProgressHasThread
<1>1. Init => BareInv
  BY DEF Init, BareInv, Bare, NewRow, NoTask
<1>2. TypeOK /\ BareInv /\ [Next]_vars => BareInv'
  BY BareStep
<1>3. TypeOK /\ BareInv => ProgressHasThread
  <2> SUFFICES ASSUME TasksType, BareInv, NEW m \in Missions, row[m].inProgress
               PROVE  row[m].thread = "own"
    BY TypesAre DEF ProgressHasThread
  <2>1. row[m].thread \in {"none", "own"}
    BY DEF TasksType, Row
  <2> QED
    BY <2>1 DEF BareInv, Bare
<1> QED
  BY <1>1, <1>2, <1>3, MissionTypeCorrect, PTL DEF Spec

\* A write that says that no turn is in progress.
SaysIdle(w) == "inProgress" \in DOMAIN w /\ w["inProgress"] = FALSE

LEMMA StillIdle ==
  ASSUME NEW w, SaysIdle(w), NEW x
  PROVE  /\ SaysIdle(w @@ x)
         /\ ("inProgress" \in DOMAIN x => x["inProgress"] = FALSE) => SaysIdle(x @@ w)
BY DEF SaysIdle, @@

\* A stale turn of a thread that is not seen active is settled, whatever else the
\* reconcile finds to write.
LEMMA SyncSettles ==
  ASSUME NEW s, s.inProgress = TRUE, NEW v, v # "active", NEW w \in ThreadWrites(s, v, TRUE)
  PROVE  SaysIdle(w)
<1> DEFINE w1 == SettleStale(s, v, TRUE)
           f == FollowThread(w1 @@ s, v)
           w2 == f @@ w1
           h == HealFailure(w2 @@ s, v)
           w3 == h @@ w2
           o == ReopenCompleted(w3 @@ s, v, s)
           w4 == o @@ w3
<1>1. w = w4
  <2> DEFINE settled == {w1}
             followed == {FollowThread(x @@ s, v) @@ x : x \in settled}
             healed == {HealFailure(x @@ s, v) @@ x : x \in followed}
  <2>1. w \in {ReopenCompleted(x @@ s, v, s) @@ x : x \in healed}
    BY DEF ThreadWrites
  <2>2. followed = {w2}
    OBVIOUS
  <2>3. healed = {w3}
    BY <2>2
  <2> QED
    BY <2>1, <2>3
<1>2. SaysIdle(w1)
  BY DEF SettleStale, SaysIdle
<1> HIDE DEF w1
<1>3. "inProgress" \in DOMAIN f => f["inProgress"] = FALSE
  BY DEF FollowThread, NoWrite
<1> HIDE DEF f
<1>4. SaysIdle(w2)
  BY <1>2, <1>3, StillIdle
<1> HIDE DEF w2
<1>5. "inProgress" \in DOMAIN h => h["inProgress"] = FALSE
  <2> DEFINE a == [status |-> "active", error |-> "none"]
             b == IF v \in {"active", "idle"}
                  THEN [queued |-> FALSE, inProgress |-> v = "active"] ELSE NoWrite
  <2>1. h = IF CanHeal((w2 @@ s).error) THEN a @@ b ELSE NoWrite
    BY DEF HealFailure
  <2>2. "inProgress" \notin DOMAIN a /\ "inProgress" \notin DOMAIN NoWrite
    BY DEF NoWrite
  <2>3. "inProgress" \in DOMAIN b => b["inProgress"] = FALSE
    BY <2>2
  <2> HIDE DEF a, b
  <2>4. "inProgress" \in DOMAIN (a @@ b) => (a @@ b)["inProgress"] = FALSE
    BY <2>2, <2>3 DEF @@
  <2> HIDE DEF h
  <2> QED
    BY <2>1, <2>2, <2>4
<1> HIDE DEF h
<1>6. SaysIdle(w3)
  BY <1>4, <1>5, StillIdle
<1> HIDE DEF w3
<1>7. (w3 @@ s)["inProgress"] = FALSE
  BY <1>6, StillIdle DEF SaysIdle
<1>8. "inProgress" \notin DOMAIN o
  BY <1>7 DEF ReopenCompleted, NoWrite
<1> HIDE DEF o
<1>9. SaysIdle(w4)
  BY <1>6, <1>8, StillIdle
<1> QED
  BY <1>1, <1>9

\* ProgressIsSettled but for the fairness: a row adrift is never hidden behind a thread
\* that seems to be active, and the reconcile that reads it as it stands, when nothing was
\* heard of it for long enough, puts it right.
AdriftIsSettled ==
  \A m \in Missions :
    Adrift(m) /\ rec[m].snap = row[m] /\ SyncThread(m, TRUE, TRUE) => ~Adrift(m)'

THEOREM SyncPutsRight ==
  Spec => [](\A m \in Missions : Adrift(m) => view[m] # "active") /\ [][AdriftIsSettled]_vars
<1>1. EndsAreComing => \A m \in Missions : Adrift(m) => view[m] # "active"
  BY DEF EndsAreComing, IsTended, EndComes, Adrift
<1>2. ASSUME TypeOK, EndsAreComing, ProgressHasThread PROVE AdriftIsSettled
  <2> SUFFICES ASSUME TasksType, NEW m \in Missions, Adrift(m), rec[m].snap = row[m],
                      SyncThread(m, TRUE, TRUE)
               PROVE  row'[m].inProgress = FALSE
    BY <1>2, TypesAre DEF AdriftIsSettled, Adrift
  <2>1. /\ view[m] # "active" /\ row[m].thread # "none" /\ row[m].inProgress = TRUE
        /\ row[m] \in Row
    BY <1>1, <1>2 DEF Adrift, ProgressHasThread, TasksType, Row
  <2>2. PICK w \in ThreadWrites(row[m], view[m], TRUE) : Update(m, w)
    BY <2>1 DEF SyncThread
  <2>3. Writes(w) /\ SaysIdle(w) /\ "inProgress" \in Columns
    BY <2>1, SyncWrites, SyncSettles DEF Columns
  <2> QED
    BY <2>2, <2>3, Updated DEF SaysIdle
<1> QED
  BY <1>1, <1>2, ActiveEnds, NoProgressWithoutThread, MissionTypeCorrect, PTL DEF Spec

=============================================================================
