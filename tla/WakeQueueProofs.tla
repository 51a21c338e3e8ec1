--------------------------- MODULE WakeQueueProofs ---------------------------
(***************************************************************************)
(* Proofs about the queued wakes of WakeQueue: for any calls, threads and  *)
(* number of failures, a row is submitted by one dispatch, once.           *)
(***************************************************************************)
EXTENDS WakeQueue, WellFoundedInduction, FiniteSetTheorems, TLAPS

Armed == [at |-> "armed"]
RowIsGone == [st : {"none", "deleted"}]
RowIsKept == [st : {"pending", "claimed", "dispatched"}, mode : WakeModes, text : WakeTexts]

Thinking == [at : {"looking"}, modes : SUBSET WakeModes, said : SUBSET WakeTexts]
Merging == [at : {"merging"}, modes : SUBSET WakeModes, said : SUBSET WakeTexts,
            row : WakeIds, rows : SUBSET WakeIds, text : WakeTexts]
Working == [at : {"chosen", "submitting", "completing", "releasing"}, modes : SUBSET WakeModes,
            said : SUBSET WakeTexts, row : WakeIds, text : WakeTexts]
Reading == [at : {"read"}, mode : WakeModes, rows : SUBSET WakeIds, text : WakeTexts]

QueueType ==
  /\ queue \in [WakeIds -> RowIsGone \cup RowIsKept]
  /\ worker \in [Workers -> {Off, Armed} \cup Thinking \cup Merging \cup Working]
  /\ waker \in [Wakers -> [at : {"idle", "written", "ok", "lost"}] \cup Reading]
  /\ submits \in [WakeIds -> 0..1]

TimersType ==
  /\ nowTimer \in NowTimers \cup {Nobody}
  /\ retryTimer \in RetryTimers \cup {Nobody}
  /\ retryTimer # Nobody => worker[retryTimer] = Armed
  /\ retryModes \in SUBSET WakeModes /\ cooling \in BOOLEAN /\ heartbeats \in BOOLEAN
  /\ attention \in {"on", "closing", "off", "down"}

\* A row that somebody has read is in the table, and does not leave it but as deleted.
RowsAreThere ==
  /\ \A w \in Wakers : waker[w].at = "read" => waker[w].rows \cap In("none") = {}
  /\ \A d \in Workers :
       /\ worker[d].at = "merging" => worker[d].rows # {} /\ worker[d].rows \cap In("none") = {}
       /\ worker[d].at \notin {"off", "armed", "looking"} => queue[worker[d].row].st # "none"

\* A dispatch at work has claimed its row, which others may have deleted since.
HoldersClaim ==
  \A d \in Workers : Holds(d) => queue[worker[d].row].st \in {"claimed", "deleted"}

OneHolder ==
  \A d, e \in Workers : Holds(d) /\ Holds(e) /\ worker[d].row = worker[e].row => d = e

\* A row that can still be claimed, or given back, has not been submitted.
Unsubmitted ==
  /\ \A i \in WakeIds : queue[i].st \in {"none", "pending"} => submits[i] = 0
  /\ \A d \in Workers : worker[d].at \in {"submitting", "releasing"} => submits[worker[d].row] = 0

WakeInv ==
  QueueType /\ TimersType /\ RowsAreThere /\ HoldersClaim /\ OneHolder /\ Unsubmitted

---------------------------------------------------------------------------
(* Rows of the table *)

LEMMA IdsAreNaturals == WakeIds \subseteq Nat /\ Cardinality(Wakers) \in Nat
BY WakeAssumption, FS_CardinalityType DEF WakeIds

\* The order of the naturals is well-founded.
LEMMA LeastOf ==
  ASSUME NEW S \in SUBSET Nat, S # {}
  PROVE  \E n \in S : \A m \in S : n <= m
<1> DEFINE Less == OpToRel(<, Nat)
<1>1. \A m, n \in Nat : m < n => <<m, n>> \in Less
  BY DEF OpToRel
<1> HIDE DEF Less
<1>2. \E n \in S : \A m \in S : <<m, n>> \notin Less
  <2>1. IsWellFoundedOn(Less, Nat)
    BY NatLessThanWellFounded DEF Less
  <2> QED
    BY <2>1, WFMin
<1>3. PICK n \in S : \A m \in S : <<m, n>> \notin Less
  BY <1>2
<1>4. ASSUME NEW m \in S PROVE n <= m
  <2>1. ~ (m < n)
    BY <1>1, <1>3
  <2> QED
    BY <2>1
<1> QED
  BY <1>4

LEMMA MinIsOne ==
  ASSUME NEW S \in SUBSET WakeIds, S # {}
  PROVE  Min(S) \in S
<1>1. \E n \in S : \A m \in S : n <= m
  BY IdsAreNaturals, LeastOf
<1> QED
  BY <1>1 DEF Min

\* The largest is where the distance to the end is smallest.
LEMMA MaxIsOne ==
  ASSUME NEW S \in SUBSET WakeIds, S # {}
  PROVE  Max(S) \in S
<1> DEFINE N == Cardinality(Wakers)
           D == {n \in Nat : N - n \in S}
<1>1. D # {}
  <2>1. PICK m \in S : TRUE
    OBVIOUS
  <2>2. m \in 1..N /\ N \in Nat
    BY IdsAreNaturals DEF WakeIds
  <2>3. N - (N - m) = m /\ N - m \in Nat
    BY <2>2
  <2> QED
    BY <2>1, <2>3
<1>2. PICK n \in D : \A m \in D : n <= m
  <2>1. D \in SUBSET Nat
    OBVIOUS
  <2> HIDE DEF D
  <2> QED
    BY <1>1, <2>1, LeastOf
<1>3. \A m \in S : N - n >= m
  <2> SUFFICES ASSUME NEW m \in S PROVE N - n >= m
    OBVIOUS
  <2>1. m \in 1..N /\ N \in Nat
    BY IdsAreNaturals DEF WakeIds
  <2>2. N - (N - m) = m /\ N - m \in Nat
    BY <2>1
  <2>3. n <= N - m
    BY <1>2, <2>2
  <2> QED
    BY <2>1, <2>3
<1>4. N - n \in S
  BY <1>2
<1> HIDE DEF N, D
<1> QED
  BY <1>3, <1>4 DEF Max

LEMMA WinnerIsAText ==
  ASSUME QueueType, NEW rows \in SUBSET WakeIds, rows # {}, rows \cap In("none") = {},
         rows \cap In("deleted") = {}
  PROVE  WinnerOf(rows) \in WakeTexts
<1> DEFINE urgent == {i \in rows : queue[i].text \in Urgent}
           win == Max(IF urgent = {} THEN rows ELSE urgent)
<1>1. win \in rows
  <2>1. CASE urgent = {}
    BY <2>1, MaxIsOne
  <2>2. CASE urgent # {}
    <3>1. urgent \in SUBSET WakeIds
      OBVIOUS
    <3>2. win = Max(urgent)
      BY <2>2
    <3>3. Max(urgent) \in urgent
      BY <2>2, <3>1, MaxIsOne
    <3> QED
      BY <3>2, <3>3
  <2> QED
    BY <2>1, <2>2
<1> HIDE DEF win
<1>2. queue[win] \in RowIsKept
  BY <1>1 DEF QueueType, In, RowIsGone
<1>3. queue[win].text \in WakeTexts
  BY <1>2 DEF RowIsKept
<1> QED
  BY <1>3 DEF win, WinnerOf

\* Rows that are merged keep their status, but for those that are deleted; no
\* row gets the status of one that can be claimed.
LEMMA MergedRows ==
  ASSUME QueueType, NEW rows \in SUBSET WakeIds, rows # {}, rows \cap In("none") = {},
         NEW text \in WakeTexts
  PROVE  /\ Merged(rows, text) \in [WakeIds -> RowIsGone \cup RowIsKept]
         /\ \A i \in WakeIds :
              \/ Merged(rows, text)[i].st = queue[i].st
              \/ Merged(rows, text)[i].st = "deleted" /\ queue[i].st # "none"
<1> DEFINE low == Min(rows)
<1>1. \A i \in rows : queue[i].st # "none"
  BY DEF In
<1> HIDE DEF low
<1>2. Merged(rows, text) =
        [i \in WakeIds |->
           CASE i = low /\ queue[i].st # "deleted" -> [queue[i] EXCEPT !.text = text]
             [] i \in rows \ {low} -> [st |-> "deleted"]
             [] OTHER -> queue[i]]
  BY DEF Merged, low
<1>3. low \in rows
  BY MinIsOne DEF low
<1>4. ASSUME NEW i \in WakeIds
      PROVE  /\ Merged(rows, text)[i] \in RowIsGone \cup RowIsKept
             /\ \/ Merged(rows, text)[i].st = queue[i].st
                \/ Merged(rows, text)[i].st = "deleted" /\ queue[i].st # "none"
  <2> DEFINE row == queue[i]
             new == CASE i = low /\ row.st # "deleted" -> [row EXCEPT !.text = text]
                      [] i \in rows \ {low} -> [st |-> "deleted"]
                      [] OTHER -> row
  <2>1. Merged(rows, text)[i] = new
    BY <1>2
  <2>2. row \in RowIsGone \cup RowIsKept
    BY DEF QueueType
  <2>3. CASE i \in rows \ {low}
    BY <1>1, <2>1, <2>3 DEF RowIsGone
  <2>4. CASE i = low /\ row.st # "deleted"
    <3>1. row \in RowIsKept
      BY <1>1, <1>3, <2>2, <2>4 DEF RowIsGone
    <3>2. new = [row EXCEPT !.text = text]
      BY <2>4
    <3> HIDE DEF row, new
    <3> QED
      BY <2>1, <3>1, <3>2 DEF RowIsKept, row
  <2>5. CASE ~(i \in rows \ {low}) /\ ~(i = low /\ row.st # "deleted")
    BY <2>1, <2>2, <2>5
  <2> QED
    BY <2>3, <2>4, <2>5
<1>5. Merged(rows, text) \in [WakeIds -> RowIsGone \cup RowIsKept]
  BY <1>2, <1>4
<1> QED
  BY <1>4, <1>5

LEMMA BecomesOne ==
  ASSUME QueueType, NEW i \in WakeIds, queue[i].st # "none",
         NEW st \in {"pending", "claimed", "dispatched"}, Becomes(i, st)
  PROVE  /\ queue' \in [WakeIds -> RowIsGone \cup RowIsKept]
         /\ \A j \in WakeIds : queue'[j] = queue[j] \/ (j = i /\ queue'[j].st = st)
<1>1. CASE queue[i].st = "deleted"
  BY <1>1 DEF Becomes, QueueType
<1>2. CASE queue[i].st # "deleted"
  <2>1. queue[i] \in RowIsKept
    BY <1>2 DEF QueueType, RowIsGone
  <2>2. queue' = [queue EXCEPT ![i].st = st]
    BY <1>2 DEF Becomes
  <2> QED
    BY <2>1, <2>2 DEF QueueType, RowIsKept
<1> QED
  BY <1>1, <1>2

---------------------------------------------------------------------------
(* Workers and timers *)

Thoughts == Thinking \cup Merging \cup Working
WorkerIs == worker \in [Workers -> {Off, Armed} \cup Thoughts]

LEMMA ThreadIsIdle ==
  ASSUME NEW threads, Idle(threads) # {}
  PROVE  Thread(threads) \in threads /\ worker[Thread(threads)] = Off
BY DEF Thread, Idle

LEMMA ThoughtsAre ==
  ASSUME NEW x \in Thoughts
  PROVE  /\ x.at \in {"looking", "merging", "chosen", "submitting", "completing", "releasing"}
         /\ x.modes \in SUBSET WakeModes /\ x.said \in SUBSET WakeTexts
         /\ x.at # "looking" => x.row \in WakeIds /\ x.text \in WakeTexts
         /\ x.at = "merging" => x \in Merging
         /\ x.at \notin {"looking", "merging"} => x \in Working
BY DEF Thoughts, Thinking, Merging, Working

LEMMA WorkersAre ==
  ASSUME WorkerIs, NEW d \in Workers
  PROVE  /\ worker[d].at \notin {"off", "armed"} => worker[d] \in Thoughts
         /\ worker[d].at = "off" => worker[d] = Off
         /\ worker[d].at = "armed" => worker[d] = Armed
<1>1. worker[d] \in Thoughts => worker[d].at \notin {"off", "armed"}
  BY ThoughtsAre
<1> QED
  BY <1>1 DEF WorkerIs, Off, Armed

\* What happens to a timer of a retry: it is armed, or there is one.
LEMMA RetryLaterMeans ==
  ASSUME WorkerIs, TimersType, NEW d \in Workers, d \in RetryTimers => worker[d] \notin {Off, Armed},
         NEW next \in {Off} \cup Thoughts, NEW modes \in SUBSET WakeModes,
         RetryLater(d, next, modes)
  PROVE  /\ WorkerIs' /\ worker'[d] = next
         /\ \A e \in Workers \ {d} : worker'[e] = worker[e] \/ worker'[e] = Armed
         /\ retryModes' \in SUBSET WakeModes /\ retryTimer' \in RetryTimers \cup {Nobody}
         /\ retryTimer' # Nobody => worker'[retryTimer'] = Armed
<1>1. CASE retryTimer # Nobody
  BY <1>1, WakeAssumption DEF RetryLater, WorkerIs, TimersType, Workers
<1>2. CASE retryTimer = Nobody
  <2> DEFINE r == Thread(RetryTimers)
  <2>1. r \in RetryTimers /\ worker[r] = Off
    BY <1>2, ThreadIsIdle DEF RetryLater
  <2>2. r # d
    BY <2>1
  <2>3. /\ worker' = [worker EXCEPT ![r] = Armed, ![d] = next]
        /\ retryTimer' = r /\ retryModes' = modes
    BY <1>2 DEF RetryLater, Armed
  <2> HIDE DEF r
  <2> QED
    BY <2>1, <2>2, <2>3 DEF WorkerIs, Workers
<1> QED
  BY <1>1, <1>2

\* A dispatch that starts looks for a row, or puts itself off.
LEMMA StartMeans ==
  ASSUME WorkerIs, TimersType, NEW d \in Workers \ RetryTimers, NEW modes \in SUBSET WakeModes,
         StartDispatch(d, modes)
  PROVE  /\ WorkerIs' /\ worker'[d].at \in {"off", "looking"}
         /\ \A e \in Workers \ {d} : worker'[e] = worker[e] \/ worker'[e] = Armed
         /\ retryModes' \in SUBSET WakeModes /\ retryTimer' \in RetryTimers \cup {Nobody}
         /\ retryTimer' # Nobody => worker'[retryTimer'] = Armed
         /\ cooling' = cooling
<1>1. CASE cooling
  BY <1>1, RetryLaterMeans DEF StartDispatch, Off
<1>2. CASE ~cooling
  BY <1>2 DEF StartDispatch, Looking, WorkerIs, Thoughts, Thinking, TimersType, Workers
<1> QED
  BY <1>1, <1>2

\* A timer that is dropped is off.
LEMMA NoRetryMeans ==
  ASSUME TimersType, NEW workers \in [Workers -> {Off, Armed} \cup Thoughts]
  PROVE  /\ NoRetry(workers) \in [Workers -> {Off, Armed} \cup Thoughts]
         /\ \A e \in Workers : \/ NoRetry(workers)[e] = workers[e]
                               \/ NoRetry(workers)[e] = Off /\ e = retryTimer
BY DEF NoRetry, TimersType, Workers

---------------------------------------------------------------------------
(* Steps *)

\* A dispatch that looks finds a row that is pending, or ends.
LEMMA LookMeans ==
  ASSUME QueueType, TimersType, NEW d \in Workers, Look(d)
  PROVE  /\ \/ worker' = [worker EXCEPT ![d] = Off]
            \/ \E next \in Merging \cup Working :
                 /\ worker' = [worker EXCEPT ![d] = next] /\ ~Holds(d)'
                 /\ queue[next.row].st = "pending"
                 /\ next.at = "merging" => next.rows # {} /\ next.rows \subseteq In("pending")
         /\ nowTimer' \in {nowTimer, Nobody}
         /\ UNCHANGED <<queue, waker, retryTimer, retryModes, cooling, switchVars, submits, upsets>>
<1> DEFINE seen == {i \in In("pending") : queue[i].mode \in worker[d].modes}
           row == Min(seen)
           same == PendingOf(queue[row].mode)
<1>1. UNCHANGED <<queue, waker, retryTimer, retryModes, cooling, switchVars, submits, upsets>>
  BY DEF Look
<1>2. CASE seen # {}
  <2>1. row \in seen
    BY <1>2, MinIsOne DEF In
  <2>2. row \in WakeIds /\ queue[row].st = "pending" /\ queue[row] \in RowIsKept
    BY <2>1 DEF In, QueueType, RowIsGone
  <2>3. same \subseteq In("pending") /\ row \in same /\ same \in SUBSET WakeIds
    BY <2>1 DEF PendingOf, In
  <2>4. worker[d] \in Thinking
    BY DEF Look, Works, QueueType, Off, Armed, Thinking, Merging, Working
  <2>5. CASE same = {row}
    <3> DEFINE next == [at |-> "chosen", modes |-> worker[d].modes, said |-> worker[d].said,
                        row |-> row, text |-> queue[row].text]
    <3>1. worker' = [worker EXCEPT ![d] = next] /\ nowTimer' = nowTimer
      BY <1>2, <2>5 DEF Look
    <3>2. next \in Working
      BY <2>2, <2>4 DEF Thinking, Working, RowIsKept
    <3> HIDE DEF seen, row, same
    <3>3. ~Holds(d)'
      BY <3>1 DEF Holds, QueueType
    <3>4. queue[next.row].st = "pending" /\ next.at # "merging"
      BY <2>2
    <3> HIDE DEF next
    <3> QED
      BY <1>1, <3>1, <3>2, <3>3, <3>4
  <2>6. CASE same # {row}
    <3> DEFINE next == [at |-> "merging", modes |-> worker[d].modes, said |-> worker[d].said,
                        row |-> row, rows |-> same, text |-> WinnerOf(same)]
    <3>1. worker' = [worker EXCEPT ![d] = next] /\ nowTimer' = nowTimer
      BY <1>2, <2>6 DEF Look
    <3>2. WinnerOf(same) \in WakeTexts
      BY <2>3, WinnerIsAText DEF In
    <3>3. next \in Merging
      <4> HIDE DEF row, same
      <4> QED
        BY <2>2, <2>3, <2>4, <3>2 DEF Thinking, Merging
    <3> HIDE DEF seen, row, same
    <3>4. ~Holds(d)'
      BY <3>1 DEF Holds, QueueType
    <3>5. queue[next.row].st = "pending" /\ next.rows # {} /\ next.rows \subseteq In("pending")
      BY <2>2, <2>3
    <3> HIDE DEF next
    <3> QED
      BY <1>1, <3>1, <3>3, <3>4, <3>5
  <2> QED
    BY <2>5, <2>6
<1>3. CASE seen = {}
  <2>1. worker' = [worker EXCEPT ![d] = Off] /\ nowTimer' \in {nowTimer, Nobody}
    BY <1>3 DEF Look
  <2> QED
    BY <1>1, <2>1
<1> HIDE DEF seen
<1> QED
  BY <1>2, <1>3

\* The workers and the timers keep their types.
LEMMA WorkersStep ==
  ASSUME QueueType, TimersType, [QueueNext]_queueVars
  PROVE  WorkerIs' /\ TimersType'
<1>0. WorkerIs
  BY DEF QueueType, WorkerIs, Thoughts
<1>1. Off \in {Off, Armed} \cup Thoughts /\ Armed \in {Off, Armed} \cup Thoughts
  OBVIOUS
<1>2. Loop \in Workers \ (NowTimers \cup RetryTimers) /\ NowTimers \subseteq Workers \ RetryTimers
      /\ RetryTimers \subseteq Workers /\ Nobody \notin Workers
  BY WakeAssumption DEF Workers
<1>3. Off # Armed
  BY DEF Off, Armed
<1>4. ASSUME NEW w \in Wakers,
             WriteQueue(w) \/ \E mode \in WakeModes, text \in WakeTexts : ReadQueue(w, mode, text)
      PROVE  UNCHANGED <<worker, timerVars, switchVars>>
  BY <1>4 DEF ReadQueue, WriteQueue
<1>5. ASSUME NEW w \in Wakers, DispatchNow(w) PROVE WorkerIs' /\ TimersType'
  <2>1. UNCHANGED <<retryTimer, retryModes, cooling, switchVars>>
    BY <1>5 DEF DispatchNow
  <2>2. CASE heartbeats /\ nowTimer = Nobody
    <3>1. /\ Thread(NowTimers) \in NowTimers /\ worker[Thread(NowTimers)] = Off
          /\ worker' = [worker EXCEPT ![Thread(NowTimers)] = Armed] /\ nowTimer' = Thread(NowTimers)
      BY <1>5, <2>2, ThreadIsIdle DEF DispatchNow, Armed
    <3> HIDE DEF Thread
    <3> QED
      BY <1>0, <1>2, <1>3, <2>1, <3>1 DEF WorkerIs, TimersType, switchVars
  <2>3. CASE ~(heartbeats /\ nowTimer = Nobody)
    BY <1>0, <1>5, <2>1, <2>3 DEF DispatchNow, WorkerIs, TimersType, switchVars
  <2> QED
    BY <2>2, <2>3
<1>6. CASE LoopTicks
  <2>1. UNCHANGED <<nowTimer, switchVars>> /\ WakeModes \in SUBSET WakeModes
        /\ StartDispatch(Loop, WakeModes)
    BY <1>6 DEF LoopTicks
  <2> QED
    BY <1>0, <1>2, <2>1, StartMeans DEF TimersType, switchVars
<1>7. ASSUME NEW d \in Workers, TimerFires(d) PROVE WorkerIs' /\ TimersType'
  <2>1. d \in NowTimers /\ UNCHANGED switchVars /\ nowTimer' \in {nowTimer, Nobody}
    BY <1>7 DEF TimerFires
  <2>2. CASE heartbeats
    <3>1. StartDispatch(d, {"now"}) /\ {"now"} \in SUBSET WakeModes
      BY <1>7, <2>2 DEF TimerFires, WakeModes
    <3> QED
      BY <1>0, <1>2, <2>1, <3>1, StartMeans DEF TimersType, switchVars
  <2>3. CASE ~heartbeats
    BY <1>0, <1>2, <1>7, <2>1, <2>3 DEF TimerFires, WorkerIs, TimersType, switchVars
  <2> QED
    BY <2>2, <2>3
<1>8. ASSUME NEW d \in Workers, RetryFires(d) PROVE WorkerIs' /\ TimersType'
  <2>1. Looking(retryModes) \in Thoughts
    BY DEF Looking, Thoughts, Thinking, TimersType
  <2> QED
    BY <1>0, <1>8, <2>1 DEF RetryFires, WorkerIs, TimersType, switchVars
<1>9. CASE Cool
  BY <1>0, <1>9 DEF Cool, WorkerIs, TimersType, switchVars
\* One dispatch goes on; whoever that is, its thread is not the timer of a retry.
<1>10. ASSUME NEW d \in Workers, worker[d] \notin {Off, Armed}, NEW next \in {Off, Armed} \cup Thoughts,
              worker' = [worker EXCEPT ![d] = next], nowTimer' \in NowTimers \cup {Nobody},
              UNCHANGED <<retryTimer, retryModes, switchVars>>, cooling' \in BOOLEAN
       PROVE  WorkerIs' /\ TimersType'
  BY <1>0, <1>2, <1>10 DEF WorkerIs, TimersType, switchVars
<1>11. ASSUME NEW d \in Workers, Look(d) PROVE WorkerIs' /\ TimersType'
  <2>1. worker[d] \notin {Off, Armed}
    BY <1>11 DEF Look, Works, Off, Armed
  <2>2. \E next \in {Off, Armed} \cup Thoughts : worker' = [worker EXCEPT ![d] = next]
    BY <1>11, LookMeans DEF Thoughts
  <2>3. nowTimer' \in NowTimers \cup {Nobody} /\ UNCHANGED <<retryTimer, retryModes, switchVars>>
        /\ cooling' \in BOOLEAN
    BY <1>11, LookMeans DEF TimersType
  <2> QED
    BY <1>10, <2>1, <2>2, <2>3
<1>12. ASSUME NEW d \in Workers, MergeRows(d) \/ Claim(d) \/ Submit(d) \/ Complete(d)
       PROVE  WorkerIs' /\ TimersType'
  <2>1. worker[d].at \in {"merging", "chosen", "submitting", "completing"}
        /\ UNCHANGED <<timerVars, switchVars>>
    BY <1>12 DEF MergeRows, Claim, Submit, Complete, Works
  <2>2. worker[d] \in Thoughts /\ worker[d] \notin {Off, Armed}
    BY <1>0, <2>1, WorkersAre DEF Off, Armed
  <2>3. \E next \in Thoughts : worker' = [worker EXCEPT ![d] = next]
    <3> DEFINE back == [Looking(worker[d].modes) EXCEPT !.said = worker[d].said]
    <3>0. back \in Thoughts
      BY <2>2, ThoughtsAre DEF Looking, Thoughts, Thinking
    <3>1. CASE MergeRows(d)
      <4> DEFINE next == [at |-> "chosen", modes |-> worker[d].modes, said |-> worker[d].said,
                          row |-> worker[d].row, text |-> worker[d].text]
      <4>1. next \in Thoughts
        BY <2>2, <3>1, ThoughtsAre DEF MergeRows, Works, Thoughts, Working
      <4>2. worker' = [worker EXCEPT ![d] = back] \/ worker' = [worker EXCEPT ![d] = next]
        BY <3>1 DEF MergeRows, LooksOn
      <4> HIDE DEF next, back
      <4> QED
        BY <3>0, <4>1, <4>2
    <3>2. CASE Claim(d)
      <4> DEFINE next == [worker[d] EXCEPT !.at = "submitting"]
      <4>1. next \in Thoughts
        BY <2>2, <3>2, ThoughtsAre DEF Claim, Works, Thoughts, Working
      <4>2. worker' = [worker EXCEPT ![d] = back] \/ worker' = [worker EXCEPT ![d] = next]
        BY <3>2 DEF Claim, Goes, LooksOn
      <4> HIDE DEF next, back
      <4> QED
        BY <3>0, <4>1, <4>2
    <3>3. CASE Submit(d)
      <4> DEFINE next == [worker[d] EXCEPT !.at = "completing",
                                           !.said = worker[d].said \cup {worker[d].text}]
      <4>1. next \in Thoughts
        BY <2>2, <3>3, ThoughtsAre DEF Submit, Works, Thoughts, Working
      <4>2. worker' = [worker EXCEPT ![d] = next]
        BY <2>2, <3>3 DEF Submit, WorkerIs
      <4> HIDE DEF next
      <4> QED
        BY <4>1, <4>2
    <3>4. CASE Complete(d)
      <4>1. worker' = [worker EXCEPT ![d] = back]
        BY <3>4 DEF Complete, LooksOn
      <4> HIDE DEF back
      <4> QED
        BY <3>0, <4>1
    <3> QED
      BY <1>12, <3>1, <3>2, <3>3, <3>4
  <2> QED
    BY <1>10, <2>1, <2>2, <2>3 DEF timerVars, TimersType
<1>13. ASSUME NEW d \in Workers, SubmitFails(d) PROVE WorkerIs' /\ TimersType'
  <2>1. worker[d].at = "submitting" /\ UNCHANGED <<nowTimer, switchVars>> /\ cooling' = TRUE
    BY <1>13 DEF SubmitFails, Works
  <2>2. worker[d] \in Thoughts /\ worker[d] \notin {Off, Armed}
    BY <1>0, <2>1, WorkersAre DEF Off, Armed
  <2>3. [worker[d] EXCEPT !.at = "releasing"] \in {Off} \cup Thoughts
        /\ worker[d].modes \in SUBSET WakeModes
    BY <2>1, <2>2, ThoughtsAre DEF Thoughts, Working
  <2>4. RetryLater(d, [worker[d] EXCEPT !.at = "releasing"], worker[d].modes)
    BY <1>13 DEF SubmitFails
  <2> QED
    BY <1>0, <2>1, <2>2, <2>3, <2>4, RetryLaterMeans DEF TimersType, switchVars
<1>14. ASSUME NEW workers \in [Workers -> {Off, Armed} \cup Thoughts], worker' = NoRetry(workers),
              ClearRetry, nowTimer' \in NowTimers \cup {Nobody}, heartbeats' \in BOOLEAN,
              attention' \in {"on", "closing", "off", "down"}
       PROVE  WorkerIs' /\ TimersType'
  BY <1>14, NoRetryMeans DEF WorkerIs, TimersType, ClearRetry
<1>15. ASSUME NEW d \in Workers, Release(d) PROVE WorkerIs' /\ TimersType'
  <2>1. worker[d].at = "releasing" /\ UNCHANGED switchVars
    BY <1>15 DEF Release, Works
  <2>2. worker[d] \notin {Off, Armed}
    BY <2>1 DEF Off, Armed
  <2>3. CASE d \in NowTimers
    <3> DEFINE next == IF heartbeats THEN Armed ELSE Off
               workers == [worker EXCEPT ![d] = next]
    <3>1. workers \in [Workers -> {Off, Armed} \cup Thoughts]
      BY <1>0, <1>1 DEF WorkerIs
    <3>2. worker' = NoRetry(workers) /\ ClearRetry /\ nowTimer' \in NowTimers \cup {Nobody}
      BY <1>15, <2>3 DEF Release, Armed
    <3> HIDE DEF workers
    <3> QED
      BY <1>14, <2>1, <3>1, <3>2 DEF switchVars, TimersType
  <2>4. CASE d \notin NowTimers
    BY <1>10, <1>15, <2>1, <2>2, <2>4 DEF Release, timerVars, TimersType
  <2> QED
    BY <2>3, <2>4
<1>16. CASE SwitchOff
  <2> DEFINE workers == [d \in Workers |->
                           IF d = nowTimer /\ worker[d].at = "armed" THEN Off ELSE worker[d]]
  <2>1. workers \in [Workers -> {Off, Armed} \cup Thoughts]
    BY <1>0 DEF WorkerIs
  <2>2. worker' = NoRetry(workers) /\ ClearRetry /\ nowTimer' = Nobody /\ heartbeats' = FALSE
        /\ attention' \in {attention, "closing"}
    BY <1>16 DEF SwitchOff
  <2> HIDE DEF workers
  <2> QED
    BY <1>14, <2>1, <2>2 DEF TimersType
<1>17. CASE AttentionEnds
  <2> DEFINE workers == [worker EXCEPT ![Loop] = Off]
  <2>1. workers \in [Workers -> {Off, Armed} \cup Thoughts]
    BY <1>0 DEF WorkerIs
  <2>2. worker' = NoRetry(workers) /\ ClearRetry /\ UNCHANGED <<nowTimer, heartbeats>>
        /\ attention' = "off"
    BY <1>17 DEF AttentionEnds
  <2> HIDE DEF workers
  <2> QED
    BY <1>14, <2>1, <2>2 DEF TimersType
<1>18. CASE SwitchOn
  <2>1. worker' = NoRetry(worker) /\ ClearRetry /\ UNCHANGED nowTimer /\ heartbeats' = TRUE
        /\ attention' \in {attention, "on"}
    BY <1>18 DEF SwitchOn
  <2> QED
    BY <1>0, <1>14, <2>1 DEF TimersType, WorkerIs
<1>19. CASE Outage
  BY <1>19 DEF Outage, WorkerIs, TimersType, ClearRetry
<1>20. CASE Restart
  BY <1>0, <1>20 DEF Restart, WorkerIs, TimersType, timerVars
<1>21. CASE UNCHANGED <<worker, timerVars, switchVars>>
  BY <1>0, <1>21 DEF WorkerIs, TimersType, timerVars, switchVars
<1>22. CASE UNCHANGED queueVars
  BY <1>21, <1>22 DEF queueVars
<1> HIDE DEF WorkerIs, TimersType
<1> QED
  BY <1>4, <1>5, <1>6, <1>7, <1>8, <1>9, <1>11, <1>12, <1>13, <1>15, <1>16, <1>17, <1>18, <1>19,
     <1>20, <1>21, <1>22
  DEF QueueNext, WorkerStep

LEMMA WorkingOn ==
  ASSUME QueueType, NEW d \in Workers, worker[d].at \notin {"off", "armed", "looking"}
  PROVE  /\ worker[d].row \in WakeIds /\ worker[d].text \in WakeTexts
         /\ worker[d].at = "merging" => worker[d].rows \in SUBSET WakeIds
         /\ worker[d].at \in {"merging", "chosen", "submitting", "completing", "releasing"}
<1>1. worker[d] \in Thoughts
  BY WorkersAre DEF QueueType, WorkerIs, Thoughts
<1> QED
  BY <1>1, ThoughtsAre DEF Merging

\* What a step may do to the row i.
RowStays(i) == queue'[i].st = queue[i].st
RowGoes(i) == queue'[i].st = "deleted" /\ queue[i].st # "none"
RowComes(i) == queue'[i].st = "pending" /\ queue[i].st = "none"
RowMoves(i) ==
  \E d \in Workers :
    /\ worker[d].row = i
    /\ \/ Claim(d) /\ queue'[i].st = "claimed" /\ queue[i].st = "pending"
       \/ Complete(d) /\ queue'[i].st = "dispatched"
       \/ Release(d) /\ queue'[i].st = "pending"

LEMMA RowsStep ==
  ASSUME QueueType, TimersType, RowsAreThere, [QueueNext]_queueVars
  PROVE  /\ queue' \in [WakeIds -> RowIsGone \cup RowIsKept]
         /\ \A i \in WakeIds : RowStays(i) \/ RowGoes(i) \/ RowComes(i) \/ RowMoves(i)
<1> DEFINE Good == /\ queue' \in [WakeIds -> RowIsGone \cup RowIsKept]
                   /\ \A i \in WakeIds : RowStays(i) \/ RowGoes(i) \/ RowComes(i) \/ RowMoves(i)
<1>1. CASE UNCHANGED queue
  BY <1>1 DEF QueueType, RowStays
<1>2. ASSUME NEW rows \in SUBSET WakeIds, rows # {}, rows \cap In("none") = {},
             NEW text \in WakeTexts, queue' = Merged(rows, text)
      PROVE  Good
  BY <1>2, MergedRows DEF RowStays, RowGoes
<1>3. ASSUME NEW w \in Wakers, WriteQueue(w) PROVE Good
  <2>1. waker[w] \in Reading /\ waker[w].rows \cap In("none") = {}
    BY <1>3 DEF WriteQueue, QueueType, RowsAreThere
  <2>2. waker[w].mode \in WakeModes /\ waker[w].rows \in SUBSET WakeIds
        /\ waker[w].text \in WakeTexts
    BY <2>1 DEF Reading
  <2>3. CASE waker[w].rows # {}
    <3>1. queue' = Merged(waker[w].rows, waker[w].text)
      BY <1>3, <2>3 DEF WriteQueue
    <3> QED
      BY <1>2, <2>1, <2>2, <2>3, <3>1
  <2>4. CASE waker[w].rows = {}
    <3> DEFINE new == Min(In("none"))
               row == [st |-> "pending", mode |-> waker[w].mode, text |-> waker[w].text]
    <3>1. new \in WakeIds /\ queue[new].st = "none"
      BY <1>3, <2>4, MinIsOne DEF WriteQueue, In
    <3>2. queue' = [queue EXCEPT ![new] = row]
      BY <1>3, <2>4 DEF WriteQueue
    <3>3. row \in RowIsKept /\ row.st = "pending"
      BY <2>2 DEF RowIsKept
    <3> HIDE DEF new, row
    <3> QED
      BY <3>1, <3>2, <3>3 DEF QueueType, RowStays, RowComes
  <2> QED
    BY <2>3, <2>4
<1>4. ASSUME NEW d \in Workers, MergeRows(d) PROVE Good
  <2>1. worker[d].rows \in SUBSET WakeIds /\ worker[d].rows \cap In("none") = {}
        /\ worker[d].text \in WakeTexts /\ queue' = Merged(worker[d].rows, worker[d].text)
    BY <1>4, WorkingOn DEF MergeRows, Works, RowsAreThere
  <2>2. worker[d].rows # {}
    BY <1>4 DEF MergeRows, Works, RowsAreThere
  <2> QED
    BY <1>2, <2>1, <2>2
<1>5. ASSUME NEW d \in Workers, NEW st \in {"pending", "claimed", "dispatched"},
             Becomes(worker[d].row, st), worker[d].at \notin {"off", "armed", "looking"}
      PROVE  /\ queue' \in [WakeIds -> RowIsGone \cup RowIsKept]
             /\ \A i \in WakeIds : RowStays(i) \/ (i = worker[d].row /\ queue'[i].st = st)
  <2>1. worker[d].row \in WakeIds /\ queue[worker[d].row].st # "none"
    BY <1>5, WorkingOn DEF RowsAreThere
  <2> QED
    BY <1>5, <2>1, BecomesOne DEF RowStays
<1>6. ASSUME NEW d \in Workers, Claim(d) PROVE Good
  <2>1. CASE queue[worker[d].row].st = "pending"
    <3>1. Becomes(worker[d].row, "claimed") /\ worker[d].at \notin {"off", "armed", "looking"}
      BY <1>6, <2>1 DEF Claim, Works
    <3> QED
      BY <1>5, <1>6, <2>1, <3>1 DEF RowMoves
  <2>2. CASE queue[worker[d].row].st # "pending"
    BY <1>1, <1>6, <2>2 DEF Claim
  <2> QED
    BY <2>1, <2>2
<1>7. ASSUME NEW d \in Workers, Complete(d) PROVE Good
  <2>1. Becomes(worker[d].row, "dispatched") /\ worker[d].at \notin {"off", "armed", "looking"}
    BY <1>7 DEF Complete, Works
  <2> QED
    BY <1>5, <1>7, <2>1 DEF RowMoves
<1>8. ASSUME NEW d \in Workers, Release(d) PROVE Good
  <2>1. Becomes(worker[d].row, "pending") /\ worker[d].at \notin {"off", "armed", "looking"}
    BY <1>8 DEF Release, Works
  <2> QED
    BY <1>5, <1>8, <2>1 DEF RowMoves
<1> HIDE DEF Good
<1>9. \/ UNCHANGED queue \/ \E w \in Wakers : WriteQueue(w)
      \/ \E d \in Workers : MergeRows(d) \/ Claim(d) \/ Complete(d) \/ Release(d)
  <2>1. ASSUME NEW d \in Workers, Look(d) PROVE UNCHANGED queue
    BY <2>1, LookMeans
  <2> QED
    BY <2>1 DEF QueueNext, WorkerStep, queueVars, ReadQueue, DispatchNow, TimerFires, RetryFires,
       Submit, SubmitFails, LoopTicks, Cool, SwitchOff, AttentionEnds, SwitchOn, Outage, Restart
<1>10. Good
  BY <1>1, <1>3, <1>4, <1>6, <1>7, <1>8, <1>9 DEF Good
<1> QED
  BY <1>10 DEF Good

\* A row that is there is never as if it had not been.
LEMMA NoneIsNew ==
  ASSUME QueueType, TimersType, RowsAreThere, [QueueNext]_queueVars,
         NEW i \in WakeIds, queue[i].st # "none"
  PROVE  queue'[i].st # "none"
BY RowsStep DEF RowStays, RowGoes, RowComes, RowMoves

\* What a step may do to the worker e.
WorkerRests(e) == worker'[e].at \in {"off", "armed", "looking"}
WorkerFinds(e) ==
  /\ worker'[e].at \in {"merging", "chosen"} /\ queue[worker'[e].row].st = "pending"
  /\ UNCHANGED queue
  /\ worker'[e].at = "merging" => worker'[e].rows # {} /\ worker'[e].rows \subseteq In("pending")
WorkerGoesOn(e) ==
  /\ worker'[e].row = worker[e].row
  /\ \/ MergeRows(e) /\ worker'[e].at = "chosen"
     \/ Claim(e) /\ worker'[e].at = "submitting" /\ queue[worker[e].row].st = "pending"
     \/ Submit(e) /\ worker'[e].at = "completing"
     \/ SubmitFails(e) /\ worker'[e].at = "releasing"

LEMMA WorkerMoves ==
  ASSUME QueueType, TimersType, [QueueNext]_queueVars, NEW e \in Workers
  PROVE  worker'[e] = worker[e] \/ WorkerRests(e) \/ WorkerFinds(e) \/ WorkerGoesOn(e)
<1> DEFINE Good == worker'[e] = worker[e] \/ WorkerRests(e) \/ WorkerFinds(e) \/ WorkerGoesOn(e)
<1>0. WorkerIs /\ worker \in [Workers -> {Off, Armed} \cup Thoughts]
  BY DEF QueueType, WorkerIs, Thoughts
<1>1. Loop \in Workers \ (NowTimers \cup RetryTimers) /\ NowTimers \subseteq Workers \ RetryTimers
      /\ RetryTimers \subseteq Workers /\ Nobody \notin Workers
  BY WakeAssumption DEF Workers
<1>2. Off.at = "off" /\ Armed.at = "armed"
  BY DEF Off, Armed
<1>3. ASSUME worker'[e] \in {worker[e], Off, Armed} PROVE Good
  BY <1>2, <1>3 DEF WorkerRests
<1>4. ASSUME NEW workers \in [Workers -> {Off, Armed} \cup Thoughts], worker' = NoRetry(workers),
              workers[e] \in {worker[e], Off, Armed}
      PROVE  Good
  BY <1>3, <1>4, NoRetryMeans
<1>5. ASSUME NEW w \in Wakers, DispatchNow(w) PROVE Good
  BY <1>0, <1>3, <1>5 DEF DispatchNow, Armed
<1>6. CASE LoopTicks
  <2>1. StartDispatch(Loop, WakeModes) /\ WakeModes \in SUBSET WakeModes
    BY <1>6 DEF LoopTicks
  <2> QED
    BY <1>0, <1>1, <1>3, <2>1, StartMeans DEF WorkerRests
<1>7. ASSUME NEW d \in Workers, TimerFires(d) PROVE Good
  <2>1. d \in Workers \ RetryTimers /\ {"now"} \in SUBSET WakeModes
    BY <1>1, <1>7 DEF TimerFires, WakeModes
  <2>2. CASE heartbeats
    BY <1>0, <1>3, <1>7, <2>1, <2>2, StartMeans DEF TimerFires, WorkerRests
  <2>3. CASE ~heartbeats
    BY <1>0, <1>3, <1>7, <2>3 DEF TimerFires
  <2> QED
    BY <2>2, <2>3
<1>8. ASSUME NEW d \in Workers, RetryFires(d) PROVE Good
  BY <1>0, <1>8 DEF RetryFires, Looking, WorkerRests
<1>9. ASSUME NEW d \in Workers, Look(d) PROVE Good
  <2>1. UNCHANGED queue
    BY <1>9, LookMeans
  <2>2. CASE worker' = [worker EXCEPT ![d] = Off]
    BY <1>0, <1>3, <2>2
  <2>3. ASSUME NEW next \in Merging \cup Working, worker' = [worker EXCEPT ![d] = next],
               ~Holds(d)', queue[next.row].st = "pending",
               next.at = "merging" => next.rows # {} /\ next.rows \subseteq In("pending")
        PROVE  Good
    <3>1. CASE e # d
      BY <1>0, <2>3, <3>1
    <3>2. CASE e = d
      <4>1. worker'[e] = next
        BY <1>0, <2>3, <3>2
      <4>2. next.at \in {"merging", "chosen"}
        BY <2>3, <3>2, <4>1 DEF Merging, Working, Holds
      <4> QED
        BY <2>1, <2>3, <4>1, <4>2 DEF WorkerFinds
    <3> QED
      BY <3>1, <3>2
  <2> QED
    BY <1>9, <2>2, <2>3, LookMeans
<1>10. ASSUME NEW d \in Workers, LooksOn(d) PROVE Good
  BY <1>0, <1>10 DEF LooksOn, Looking, WorkerRests
<1>11. ASSUME NEW d \in Workers, MergeRows(d) PROVE Good
  BY <1>0, <1>10, <1>11 DEF MergeRows, WorkerGoesOn
<1>12. ASSUME NEW d \in Workers, Complete(d) PROVE Good
  BY <1>10, <1>12 DEF Complete
<1>13. ASSUME NEW d \in Workers, NEW at, worker' = [worker EXCEPT ![d].at = at],
              worker[d].at \notin {"off", "armed", "looking"}
       PROVE  /\ e # d => worker'[e] = worker[e]
              /\ worker'[d].at = at /\ worker'[d].row = worker[d].row
  <2>1. worker[d] \in Merging \cup Working
    BY <1>0, <1>13, WorkersAre DEF Thoughts, Thinking
  <2> QED
    BY <1>0, <1>13, <2>1 DEF Merging, Working
<1>14. ASSUME NEW d \in Workers, Claim(d) PROVE Good
  <2>1. CASE queue[worker[d].row].st = "pending"
    BY <1>3, <1>13, <1>14, <2>1 DEF Claim, Works, Goes, WorkerGoesOn
  <2>2. CASE queue[worker[d].row].st # "pending"
    BY <1>10, <1>14, <2>2 DEF Claim
  <2> QED
    BY <2>1, <2>2
<1>15. ASSUME NEW d \in Workers, Submit(d) PROVE Good
  <2>1. worker[d] \in Working
    BY <1>0, <1>15, WorkersAre DEF Submit, Works, Thoughts, Thinking, Merging
  <2> QED
    BY <1>0, <1>15, <2>1 DEF Submit, Working, WorkerGoesOn
<1>16. ASSUME NEW d \in Workers, SubmitFails(d) PROVE Good
  <2> DEFINE next == [worker[d] EXCEPT !.at = "releasing"]
  <2>1. worker[d] \in Working
    BY <1>0, <1>16, WorkersAre DEF SubmitFails, Works, Thoughts, Thinking, Merging
  <2>2. next \in Thoughts /\ next.at = "releasing" /\ next.row = worker[d].row
        /\ worker[d].modes \in SUBSET WakeModes /\ worker[d] \notin {Off, Armed}
    BY <1>16, <2>1 DEF Working, Thoughts, Off, Armed, SubmitFails, Works
  <2>3. RetryLater(d, next, worker[d].modes)
    BY <1>16 DEF SubmitFails
  <2> HIDE DEF next
  <2>4. worker'[d] = next /\ \A f \in Workers \ {d} : worker'[f] = worker[f] \/ worker'[f] = Armed
    BY <1>0, <2>2, <2>3, RetryLaterMeans
  <2> QED
    BY <1>3, <1>16, <2>2, <2>4 DEF WorkerGoesOn
<1>17. ASSUME NEW d \in Workers, Release(d) PROVE Good
  <2>1. CASE d \in NowTimers
    <3> DEFINE workers == [worker EXCEPT ![d] = IF heartbeats THEN Armed ELSE Off]
    <3>1. worker' = NoRetry(workers)
      BY <1>17, <2>1 DEF Release, Armed
    <3> QED
      BY <1>0, <1>4, <3>1
  <2>2. CASE d \notin NowTimers
    BY <1>0, <1>3, <1>17, <2>2 DEF Release
  <2> QED
    BY <2>1, <2>2
<1>18. CASE SwitchOff
  <2> DEFINE workers == [d \in Workers |->
                           IF d = nowTimer /\ worker[d].at = "armed" THEN Off ELSE worker[d]]
  <2>1. worker' = NoRetry(workers) /\ workers \in [Workers -> {Off, Armed} \cup Thoughts]
        /\ workers[e] \in {worker[e], Off}
    BY <1>0, <1>18 DEF SwitchOff
  <2> HIDE DEF workers
  <2> QED
    BY <1>4, <2>1
<1>19. CASE AttentionEnds
  <2> DEFINE workers == [worker EXCEPT ![Loop] = Off]
  <2>1. worker' = NoRetry(workers) /\ workers \in [Workers -> {Off, Armed} \cup Thoughts]
        /\ workers[e] \in {worker[e], Off}
    BY <1>0, <1>19 DEF AttentionEnds
  <2> HIDE DEF workers
  <2> QED
    BY <1>4, <2>1
<1>20. CASE SwitchOn
  BY <1>0, <1>4, <1>20 DEF SwitchOn
<1>21. CASE Outage
  BY <1>3, <1>21 DEF Outage
<1>22. CASE UNCHANGED worker
  BY <1>22
<1> HIDE DEF Good
<1>23. Good
  <2>1. \/ \E w \in Wakers : DispatchNow(w)
        \/ \E d \in Workers : WorkerStep(d)
        \/ LoopTicks \/ SwitchOff \/ AttentionEnds \/ SwitchOn \/ Outage \/ UNCHANGED worker
    BY DEF QueueNext, queueVars, ReadQueue, WriteQueue, Cool, Restart
  <2>2. ASSUME NEW d \in Workers, WorkerStep(d) PROVE Good
    BY <1>7, <1>8, <1>9, <1>11, <1>12, <1>14, <1>15, <1>16, <1>17, <2>2 DEF WorkerStep
  <2> QED
    BY <1>5, <1>6, <1>18, <1>19, <1>20, <1>21, <1>22, <2>1, <2>2 DEF Good
<1> QED
  BY <1>23 DEF Good

\* A dispatch that ends with its row holds it no more.
LEMMA EndsWithRow ==
  ASSUME QueueType, TimersType, NEW d \in Workers, Complete(d) \/ Release(d)
  PROVE  ~Holds(d)' /\ UNCHANGED submits
<1>1. CASE Complete(d)
  BY <1>1 DEF Complete, LooksOn, Looking, Holds, QueueType
<1>2. CASE Release(d) /\ d \in NowTimers
  <2> DEFINE workers == [worker EXCEPT ![d] = IF heartbeats THEN Armed ELSE Off]
  <2>1. workers \in [Workers -> {Off, Armed} \cup Thoughts] /\ workers[d] \in {Off, Armed}
    BY DEF QueueType, Thoughts
  <2>2. worker' = NoRetry(workers) /\ UNCHANGED submits
    BY <1>2 DEF Release, Armed
  <2> HIDE DEF workers
  <2>3. worker'[d] \in {Off, Armed}
    BY <2>1, <2>2, NoRetryMeans
  <2> QED
    BY <2>2, <2>3 DEF Holds, Off, Armed
<1>3. CASE Release(d) /\ d \notin NowTimers
  BY <1>3 DEF Release, Holds, Off, QueueType
<1> QED
  BY <1>1, <1>2, <1>3

\* Who comes to hold a row has just claimed it; the others keep theirs.
LEMMA HoldersStep ==
  ASSUME QueueType, TimersType, [QueueNext]_queueVars, NEW e \in Workers, Holds(e)'
  PROVE  /\ worker'[e].row = worker[e].row
         /\ \/ Claim(e) /\ queue[worker[e].row].st = "pending"
            \/ Holds(e)
BY WorkerMoves DEF WorkerRests, WorkerFinds, WorkerGoesOn, Holds, MergeRows, Claim, Submit,
   SubmitFails, Works

LEMMA ClaimMeans ==
  ASSUME QueueType, RowsAreThere, NEW d \in Workers, Claim(d), queue[worker[d].row].st = "pending"
  PROVE  /\ queue'[worker[d].row].st = "claimed" /\ UNCHANGED submits
         /\ \A e \in Workers \ {d} : worker'[e] = worker[e]
         /\ ~Holds(d)
<1>1. worker[d].row \in WakeIds
  BY WorkingOn DEF Claim, Works
<1>2. queue' = [queue EXCEPT ![worker[d].row].st = "claimed"]
  BY DEF Claim, Becomes
<1>3. queue[worker[d].row] \in RowIsKept
  BY <1>1 DEF QueueType, RowIsGone
<1>4. queue'[worker[d].row].st = "claimed"
  BY <1>1, <1>2, <1>3 DEF QueueType, RowIsKept
<1> QED
  BY <1>4 DEF Claim, Goes, Works, Holds, QueueType

LEMMA HoldersClaimStep ==
  ASSUME WakeInv, [QueueNext]_queueVars
  PROVE  HoldersClaim' /\ OneHolder'
<1> USE DEF WakeInv
<1>1. ASSUME NEW e \in Workers, Holds(e)'
      PROVE  queue'[worker'[e].row].st \in {"claimed", "deleted"}
  <2>1. worker'[e].row = worker[e].row /\ worker[e].row \in WakeIds
    BY <1>1, HoldersStep, WorkingOn DEF Holds, Claim, Works
  <2>2. CASE Claim(e) /\ queue[worker[e].row].st = "pending"
    BY <2>1, <2>2, ClaimMeans
  <2>3. CASE Holds(e)
    <3>1. queue[worker[e].row].st \in {"claimed", "deleted"}
      BY <2>3 DEF HoldersClaim
    <3>2. ASSUME NEW d \in Workers, worker[d].row = worker[e].row, Complete(d) \/ Release(d)
          PROVE  FALSE
      <4>1. Holds(d)
        BY <3>2 DEF Complete, Release, Works, Holds
      <4>2. d = e
        BY <2>3, <3>2, <4>1 DEF OneHolder
      <4> QED
        BY <1>1, <3>2, <4>2, EndsWithRow
    <3>3. RowStays(worker[e].row) \/ RowGoes(worker[e].row)
          \/ RowComes(worker[e].row) \/ RowMoves(worker[e].row)
      BY <2>1, RowsStep
    <3> QED
      BY <2>1, <3>1, <3>2, <3>3 DEF RowStays, RowGoes, RowComes, RowMoves
  <2> QED
    BY <1>1, <2>2, <2>3, HoldersStep
<1>2. ASSUME NEW d \in Workers, NEW e \in Workers, Holds(d)', Holds(e)',
             worker'[d].row = worker'[e].row, d # e
      PROVE  FALSE
  <2>1. worker'[d].row = worker[d].row /\ worker'[e].row = worker[e].row
    BY <1>2, HoldersStep
  <2>2. CASE Holds(d) /\ Holds(e)
    BY <1>2, <2>1, <2>2 DEF OneHolder
  \* Whoever claims the row finds it pending, so nobody held it; nobody else claims it with him.
  <2>3. ASSUME NEW f \in Workers, NEW g \in Workers, f # g, Holds(g)',
               worker[f].row = worker[g].row, Claim(f), queue[worker[f].row].st = "pending"
        PROVE  FALSE
    <3>1. worker'[g] = worker[g]
      BY <2>3, ClaimMeans
    <3>2. Holds(g)
      BY <2>3, <3>1 DEF Holds
    <3> QED
      BY <2>3, <3>2 DEF HoldersClaim
  <2> QED
    BY <1>2, <2>1, <2>2, <2>3, HoldersStep
<1> HIDE DEF WakeInv
<1> QED
  BY <1>1, <1>2 DEF HoldersClaim, OneHolder

LEMMA SubmitsStep ==
  ASSUME QueueType, [QueueNext]_queueVars
  PROVE  \/ UNCHANGED submits
         \/ \E d \in Workers : /\ Submit(d) /\ worker'[d].at = "completing"
                               /\ submits' = [submits EXCEPT ![worker[d].row] = @ + 1]
<1>1. ASSUME NEW d \in Workers, Submit(d)
      PROVE  /\ worker'[d].at = "completing"
             /\ \/ UNCHANGED submits
                \/ submits' = [submits EXCEPT ![worker[d].row] = @ + 1]
  <2>1. worker[d] \in Working
    BY <1>1, WorkersAre DEF QueueType, Submit, Works, Thoughts, Thinking, Merging, Off, Armed
  <2> QED
    BY <1>1, <2>1 DEF Submit, Working, QueueType
<1>2. (\E d \in Workers : Submit(d)) \/ UNCHANGED submits
  <2>1. ASSUME NEW d \in Workers, WorkerStep(d), ~Submit(d) PROVE UNCHANGED submits
    BY <2>1 DEF WorkerStep, TimerFires, RetryFires, Look, MergeRows, Claim, SubmitFails, Complete,
       Release
  <2> QED
    BY <2>1 DEF QueueNext, queueVars, ReadQueue, WriteQueue, DispatchNow, LoopTicks, Cool,
       SwitchOff, AttentionEnds, SwitchOn, Outage, Restart
<1> QED
  BY <1>1, <1>2

LEMMA UnsubmittedStep ==
  ASSUME WakeInv, [QueueNext]_queueVars
  PROVE  Unsubmitted' /\ submits' \in [WakeIds -> 0..1]
<1> USE DEF WakeInv
<1>1. submits \in [WakeIds -> 0..1]
  BY DEF QueueType
<1>2. ASSUME NEW d \in Workers, Submit(d)
      PROVE  /\ worker[d].row \in WakeIds /\ submits[worker[d].row] = 0 /\ Holds(d)
             /\ queue[worker[d].row].st \in {"claimed", "deleted"}
  <2>1. worker[d].at = "submitting"
    BY <1>2 DEF Submit, Works
  <2> QED
    BY <2>1, WorkingOn DEF Unsubmitted, HoldersClaim, Holds
<1>3. submits' \in [WakeIds -> 0..1]
  BY <1>1, <1>2, SubmitsStep
<1>4. ASSUME NEW i \in WakeIds, queue'[i].st \in {"none", "pending"} PROVE submits'[i] = 0
  <2>1. RowStays(i) \/ RowGoes(i) \/ RowComes(i) \/ RowMoves(i)
    BY RowsStep
  <2>2. CASE queue[i].st \in {"none", "pending"}
    <3>1. submits[i] = 0
      BY <2>2 DEF Unsubmitted
    <3>2. ASSUME NEW d \in Workers, Submit(d) PROVE worker[d].row # i
      BY <1>2, <2>2, <3>2
    <3> QED
      BY <1>1, <3>1, <3>2, SubmitsStep
  <2>3. ASSUME NEW d \in Workers, Release(d), worker[d].row = i PROVE submits'[i] = 0
    BY <2>3, EndsWithRow DEF Release, Works, Unsubmitted
  <2> QED
    BY <1>4, <2>1, <2>2, <2>3 DEF RowStays, RowGoes, RowComes, RowMoves
<1>5. ASSUME NEW e \in Workers, worker'[e].at \in {"submitting", "releasing"}
      PROVE  submits'[worker'[e].row] = 0
  <2>1. worker'[e].row = worker[e].row /\ Holds(e)'
    BY <1>5, HoldersStep DEF Holds
  <2>2. CASE Claim(e) /\ queue[worker[e].row].st = "pending"
    BY <2>1, <2>2, ClaimMeans, WorkingOn DEF Unsubmitted, Claim, Works
  <2>3. CASE Holds(e)
    <3>1. worker[e].at \in {"submitting", "releasing"}
      BY <1>5, <2>3, WorkerMoves DEF WorkerRests, WorkerFinds, WorkerGoesOn, Holds, MergeRows, Claim,
         Submit, SubmitFails, Works
    <3>2. submits[worker[e].row] = 0
      BY <3>1 DEF Unsubmitted
    <3>3. ASSUME NEW d \in Workers, Submit(d), worker'[d].at = "completing"
          PROVE  worker[d].row # worker[e].row
      BY <1>2, <1>5, <2>3, <3>3 DEF OneHolder
    <3>4. worker[e].row \in WakeIds
      BY <3>1, WorkingOn
    <3> QED
      BY <1>1, <2>1, <3>2, <3>3, <3>4, SubmitsStep
  <2> QED
    BY <2>1, <2>2, <2>3, HoldersStep
<1> HIDE DEF WakeInv
<1> QED
  BY <1>3, <1>4, <1>5 DEF Unsubmitted

LEMMA WakersStep ==
  ASSUME QueueType, TimersType, [QueueNext]_queueVars
  PROVE  /\ waker' \in [Wakers -> [at : {"idle", "written", "ok", "lost"}] \cup Reading]
         /\ \A w \in Wakers : waker'[w].at = "read" =>
              waker'[w] = waker[w] \/ (waker'[w].rows \subseteq In("pending") /\ UNCHANGED queue)
<1> DEFINE Rest == [at : {"idle", "written", "ok", "lost"}]
           Good == /\ waker' \in [Wakers -> Rest \cup Reading]
                   /\ \A w \in Wakers : waker'[w].at = "read" =>
                        \/ waker'[w] = waker[w]
                        \/ waker'[w].rows \subseteq In("pending") /\ UNCHANGED queue
<1>0. waker \in [Wakers -> Rest \cup Reading]
  BY DEF QueueType
<1>1. ASSUME NEW w \in Wakers, NEW mode \in WakeModes, NEW text \in WakeTexts,
             ReadQueue(w, mode, text)
      PROVE  Good
  <2> DEFINE rows == PendingOf(mode)
             said == IF rows # {} /\ text \notin Urgent /\ WinnerOf(rows) \in Urgent
                     THEN WinnerOf(rows) ELSE text
             next == [at |-> "read", mode |-> mode, rows |-> rows, text |-> said]
  <2>1. rows \subseteq In("pending") /\ rows \in SUBSET WakeIds
    BY DEF PendingOf, In
  <2>2. said \in WakeTexts
    BY WakeAssumption
  <2>3. waker' = [waker EXCEPT ![w] = next] /\ UNCHANGED queue
    BY <1>1 DEF ReadQueue
  <2> HIDE DEF rows, said
  <2>4. next \in Reading
    BY <2>1, <2>2 DEF Reading
  <2> QED
    BY <1>0, <2>1, <2>3, <2>4
<1>2. ASSUME NEW w \in Wakers, WriteQueue(w) PROVE Good
  BY <1>0, <1>2 DEF WriteQueue
<1>3. ASSUME NEW w \in Wakers, DispatchNow(w) PROVE Good
  BY <1>0, <1>3 DEF DispatchNow, Reading
<1>4. CASE Outage
  BY <1>0, <1>4 DEF Outage, Reading
<1>5. CASE UNCHANGED waker
  BY <1>0, <1>5
<1> HIDE DEF Good
<1>6. Good
  <2>1. \/ \E w \in Wakers : \/ \E mode \in WakeModes, text \in WakeTexts : ReadQueue(w, mode, text)
                             \/ WriteQueue(w) \/ DispatchNow(w)
        \/ Outage \/ UNCHANGED waker
    <3>1. ASSUME NEW d \in Workers, WorkerStep(d) PROVE UNCHANGED waker
      BY <3>1 DEF WorkerStep, TimerFires, RetryFires, Look, MergeRows, Claim, Submit, SubmitFails,
         Complete, Release
    <3> QED
      BY <3>1 DEF QueueNext, queueVars, LoopTicks, Cool, SwitchOff, AttentionEnds, SwitchOn, Restart
  <2> QED
    BY <1>1, <1>2, <1>3, <1>4, <1>5, <2>1 DEF Good
<1> QED
  BY <1>6 DEF Good

LEMMA RowsAreThereStep ==
  ASSUME QueueType, TimersType, RowsAreThere, [QueueNext]_queueVars
  PROVE  RowsAreThere'
<1>1. ASSUME NEW rows \in SUBSET WakeIds, rows \cap In("none") = {}
      PROVE  rows \cap In("none")' = {}
  BY <1>1, NoneIsNew DEF In
<1>2. ASSUME NEW rows, rows \subseteq In("pending"), UNCHANGED queue
      PROVE  rows \cap In("none")' = {}
  BY <1>2 DEF In
<1>3. ASSUME NEW w \in Wakers, waker'[w].at = "read" PROVE waker'[w].rows \cap In("none")' = {}
  <2>1. CASE waker'[w] = waker[w]
    <3>1. waker[w].rows \in SUBSET WakeIds /\ waker[w].rows \cap In("none") = {}
      BY <1>3, <2>1 DEF QueueType, Reading, RowsAreThere
    <3> QED
      BY <1>1, <2>1, <3>1
  <2> QED
    BY <1>2, <1>3, <2>1, WakersStep
<1>4. ASSUME NEW d \in Workers, worker'[d].at = "merging"
      PROVE  worker'[d].rows # {} /\ worker'[d].rows \cap In("none")' = {}
  <2>1. CASE worker'[d] = worker[d]
    <3>1. worker[d].rows \in SUBSET WakeIds /\ worker[d].rows \cap In("none") = {}
          /\ worker[d].rows # {}
      BY <1>4, <2>1, WorkingOn DEF RowsAreThere
    <3> QED
      BY <1>1, <2>1, <3>1
  <2>2. CASE WorkerFinds(d)
    BY <1>2, <1>4, <2>2 DEF WorkerFinds
  <2> QED
    BY <1>4, <2>1, <2>2, WorkerMoves DEF WorkerRests, WorkerGoesOn
<1>5. ASSUME NEW d \in Workers, worker'[d].at \notin {"off", "armed", "looking"}
      PROVE  queue'[worker'[d].row].st # "none"
  <2>1. CASE worker'[d] = worker[d]
    BY <1>5, <2>1, WorkingOn, NoneIsNew DEF RowsAreThere
  <2>2. CASE WorkerFinds(d)
    BY <2>2 DEF WorkerFinds
  <2>3. CASE WorkerGoesOn(d)
    <3>1. worker'[d].row = worker[d].row /\ worker[d].at \notin {"off", "armed", "looking"}
      BY <2>3 DEF WorkerGoesOn, MergeRows, Claim, Submit, SubmitFails, Works
    <3> QED
      BY <3>1, WorkingOn, NoneIsNew DEF RowsAreThere
  <2> QED
    BY <1>5, <2>1, <2>2, <2>3, WorkerMoves DEF WorkerRests
<1> QED
  BY <1>3, <1>4, <1>5 DEF RowsAreThere

---------------------------------------------------------------------------
(* Theorems *)

LEMMA WakeStarts == QueueInit => WakeInv
<1> SUFFICES ASSUME QueueInit PROVE WakeInv
  OBVIOUS
<1>1. QueueType
  BY DEF QueueInit, QueueType, RowIsGone, Unasked
<1>2. TimersType
  BY DEF QueueInit, TimersType
<1>3. RowsAreThere /\ HoldersClaim /\ OneHolder /\ Unsubmitted
  BY DEF QueueInit, RowsAreThere, HoldersClaim, OneHolder, Unsubmitted, Holds, In, Off, Unasked
<1> QED
  BY <1>1, <1>2, <1>3 DEF WakeInv

LEMMA WakeStep == WakeInv /\ [QueueNext]_queueVars => WakeInv'
<1> SUFFICES ASSUME WakeInv, [QueueNext]_queueVars PROVE WakeInv'
  OBVIOUS
<1>1. QueueType /\ TimersType /\ RowsAreThere
  BY DEF WakeInv
<1>2. WorkerIs' /\ TimersType' /\ RowsAreThere'
  BY <1>1, WorkersStep, RowsAreThereStep
<1>3. HoldersClaim' /\ OneHolder' /\ Unsubmitted' /\ submits' \in [WakeIds -> 0..1]
  BY HoldersClaimStep, UnsubmittedStep
<1>4. QueueType'
  BY <1>1, <1>2, <1>3, RowsStep, WakersStep DEF QueueType, WorkerIs, Thoughts
<1> QED
  BY <1>2, <1>3, <1>4 DEF WakeInv

\* A row is submitted by one dispatch, and once: the claim is guarded by the
\* status, and no order of the attention loop, the threads of the immediate
\* wakes, the retries, the switches and the deaths takes a row back that its
\* text has gone out of.
THEOREM RowsGoOnce == QueueSpec => []RowsAreSubmittedOnce
<1>1. WakeInv => RowsAreSubmittedOnce
  <2> SUFFICES ASSUME WakeInv, NEW i \in WakeIds
               PROVE  /\ submits[i] <= 1
                      /\ \A d, e \in Workers : Holds(d) /\ Holds(e) /\ worker[d].row = i
                                               /\ worker[e].row = i => d = e
    BY DEF RowsAreSubmittedOnce
  <2>1. submits[i] \in 0..1
    BY DEF WakeInv, QueueType
  <2> QED
    BY <2>1 DEF WakeInv, OneHolder
<1> QED
  BY <1>1, WakeStarts, WakeStep, PTL DEF QueueSpec

\* Every variable of the model keeps its type.
THEOREM QueueTypeCorrect == QueueSpec => []QueueTypeOK
<1>1. WakeInv => QueueTypeOK
  <2> SUFFICES ASSUME WakeInv PROVE QueueTypeOK
    OBVIOUS
  <2>1. \A i \in WakeIds : \/ queue[i] \in [st : {"none", "deleted"}]
                           \/ queue[i] \in [st : {"pending", "claimed", "dispatched"},
                                            mode : WakeModes, text : WakeTexts]
    BY DEF WakeInv, QueueType, RowIsGone, RowIsKept
  <2>2. \A w \in Wakers : waker[w].at \in {"idle", "read", "written", "ok", "lost"}
    BY DEF WakeInv, QueueType, Reading
  <2>3. ASSUME NEW d \in Workers
        PROVE  /\ worker[d].at \in {"off", "armed", "looking", "merging", "chosen",
                                    "submitting", "completing", "releasing"}
               /\ worker[d].at \notin {"off", "armed"} =>
                    worker[d].modes \in SUBSET WakeModes /\ worker[d].said \in SUBSET WakeTexts
               /\ Holds(d) => worker[d].row \in WakeIds /\ worker[d].text \in WakeTexts
    <3>1. worker[d] \in {Off, Armed} \cup Thoughts
      BY DEF WakeInv, QueueType, Thoughts
    <3> QED
      BY <3>1, ThoughtsAre DEF Off, Armed, Holds
  <2>4. TimersType
    BY DEF WakeInv
  <2> QED
    BY <2>1, <2>2, <2>3, <2>4 DEF QueueTypeOK, TimersType, Armed
<1> QED
  BY <1>1, WakeStarts, WakeStep, PTL DEF QueueSpec

=============================================================================
