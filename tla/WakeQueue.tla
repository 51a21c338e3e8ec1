------------------------------ MODULE WakeQueue -------------------------------
(***************************************************************************)
(* The queued wakes of one target: GatewayWakeService.wake, the table      *)
(* gateway_wake_requests (database.py) and those who work it off: the      *)
(* attention loop of ControlChatService, the timer threads of app.py for   *)
(* wakes of mode "now", and the timer threads of a retry.  Each thread has *)
(* an event loop of its own, so their steps interleave with those of the   *)
(* server, and a wake's SELECT and its UPDATE are two steps.  The server   *)
(* is the leader of its control plane, which alone has an attention loop.  *)
(***************************************************************************)
EXTENDS Naturals, FiniteSets, FiniteSetsExt

CONSTANTS
  Wakers,      \* calls of wake()
  WakeTexts,   \* texts asked for, each with its reason
  Urgent,      \* those whose reason has the higher priority
  NowTimers,   \* bound: threads of the immediate wakes
  RetryTimers, \* bound: threads of the retry
  Loop, Nobody,
  MaxUpsets    \* bound: failures of submit(), set-heartbeats requests and deaths of the server

Workers == NowTimers \cup RetryTimers \cup {Loop}

ASSUME WakeAssumption ==
  /\ Urgent \subseteq WakeTexts /\ IsFiniteSet(Wakers)
  /\ MaxUpsets \in Nat
  /\ NowTimers \cap RetryTimers = {} /\ Loop \notin NowTimers \cup RetryTimers
  /\ Nobody \notin Workers

WakeModes == {"now", "next-heartbeat"}
WakeIds == 1..Cardinality(Wakers)

VARIABLES
  queue,      \* rows of gateway_wake_requests
  waker,      \* where each wake() is
  worker,     \* where each dispatch is
  nowTimer,   \* pending_immediate_wake_timer
  retryTimer, \* _wake_retry_timer
  retryModes, \* _wake_retry_modes
  cooling,    \* _wake_retry_due_at is set and to come
  heartbeats, \* attention_queue_runtime_enabled
  attention,  \* _attention_task
  submits,    \* history: times submit() took a row's text
  upsets      \* bound: so far

timerVars == <<nowTimer, retryTimer, retryModes, cooling>>
switchVars == <<heartbeats, attention>>
queueVars == <<queue, waker, worker, timerVars, switchVars, submits, upsets>>

Unasked == [at |-> "idle"]
Off == [at |-> "off"]

QueueInit ==
  /\ queue = [i \in WakeIds |-> [st |-> "none"]]
  /\ waker = [w \in Wakers |-> Unasked]
  /\ worker = [d \in Workers |-> Off]
  /\ nowTimer = Nobody /\ retryTimer = Nobody /\ retryModes = {} /\ cooling = FALSE
  /\ heartbeats = TRUE /\ attention = "on"
  /\ submits = [i \in WakeIds |-> 0]
  /\ upsets = 0

Upset == upsets < MaxUpsets /\ upsets' = upsets + 1

---------------------------------------------------------------------------
(* The table *)

In(st) == {i \in WakeIds : queue[i].st = st}
PendingOf(mode) == {i \in In("pending") : queue[i].mode = mode}

\* Of rows with one target: the higher priority wins, then the newer row.
WinnerOf(rows) ==
  LET urgent == {i \in rows : queue[i].text \in Urgent}
  IN  queue[Max(IF urgent = {} THEN rows ELSE urgent)].text

\* The rows that were pending when they were read become one, whatever their
\* status is by now.
Merged(rows, text) ==
  [i \in WakeIds |->
     CASE i = Min(rows) /\ queue[i].st # "deleted" -> [queue[i] EXCEPT !.text = text]
       [] i \in rows \ {Min(rows)} -> [st |-> "deleted"]
       [] OTHER -> queue[i]]

\* UPDATE ... WHERE id = i, which finds no deleted row
Becomes(i, st) ==
  queue' = IF queue[i].st = "deleted" THEN queue ELSE [queue EXCEPT ![i].st = st]

---------------------------------------------------------------------------
(* wake() *)

\* A new thread: any that is not in use.  There are as many as a run needs.
Idle(threads) == {d \in threads : worker[d] = Off}
Thread(threads) == CHOOSE d \in threads : worker[d] = Off

\* create_gateway_wake_request reads the pending rows of the target ...
ReadQueue(w, mode, text) ==
  LET rows == PendingOf(mode)
      kept == rows # {} /\ text \notin Urgent /\ WinnerOf(rows) \in Urgent
  IN  /\ waker[w].at = "idle" /\ attention # "down"
      /\ waker' = [waker EXCEPT ![w] =
           [at |-> "read", mode |-> mode, rows |-> rows,
            text |-> IF kept THEN WinnerOf(rows) ELSE text]]
      /\ UNCHANGED <<queue, worker, timerVars, switchVars, submits, upsets>>

\* ... and writes what it made of them.
WriteQueue(w) ==
  /\ waker[w].at = "read"
  /\ waker[w].rows # {} \/ In("none") # {}
  /\ queue' = IF waker[w].rows = {}
              THEN [queue EXCEPT ![Min(In("none"))] =
                      [st |-> "pending", mode |-> waker[w].mode, text |-> waker[w].text]]
              ELSE Merged(waker[w].rows, waker[w].text)
  /\ waker' = [waker EXCEPT ![w] = [at |-> IF @.mode = "now" THEN "written" ELSE "ok"]]
  /\ UNCHANGED <<worker, timerVars, switchVars, submits, upsets>>

\* dispatch_gateway_wake_now starts a timer unless one is alive.
DispatchNow(w) ==
  /\ waker[w].at = "written" /\ waker' = [waker EXCEPT ![w].at = "ok"]
  /\ IF heartbeats /\ nowTimer = Nobody
     THEN LET d == Thread(NowTimers)
          IN  /\ Idle(NowTimers) # {} /\ nowTimer' = d
              /\ worker' = [worker EXCEPT ![d] = [at |-> "armed"]]
     ELSE UNCHANGED <<worker, nowTimer>>
  /\ UNCHANGED <<queue, retryTimer, retryModes, cooling, switchVars, submits, upsets>>

---------------------------------------------------------------------------
(* _dispatch_next_wake_modes *)

\* _schedule_wake_retry: a timer that waits is kept and takes more modes.
\* The dispatch d goes on as "next".
RetryLater(d, next, modes) ==
  IF retryTimer # Nobody
  THEN /\ retryModes' = retryModes \cup modes
       /\ worker' = [worker EXCEPT ![d] = next] /\ UNCHANGED retryTimer
  ELSE LET r == Thread(RetryTimers)
       IN  /\ Idle(RetryTimers) # {}
           /\ worker' = [worker EXCEPT ![r] = [at |-> "armed"], ![d] = next]
           /\ retryTimer' = r /\ retryModes' = modes

Looking(modes) == [at |-> "looking", modes |-> modes, said |-> {}]

\* A dispatch starts, unless one that failed is less than a second ago.
StartDispatch(d, modes) ==
  IF cooling THEN RetryLater(d, Off, modes) /\ UNCHANGED cooling
  ELSE /\ worker' = [worker EXCEPT ![d] = Looking(modes)]
       /\ UNCHANGED <<retryTimer, retryModes, cooling>>

Cool ==
  /\ cooling /\ cooling' = FALSE
  /\ UNCHANGED <<queue, waker, worker, nowTimer, retryTimer, retryModes, switchVars,
                 submits, upsets>>

\* tick_attention_queue
LoopTicks ==
  /\ attention = "on" /\ worker[Loop] = Off /\ StartDispatch(Loop, WakeModes)
  /\ UNCHANGED <<queue, waker, nowTimer, switchVars, submits, upsets>>

\* run_pending_immediate_wakes
TimerFires(d) ==
  /\ d \in NowTimers /\ worker[d].at = "armed"
  /\ IF heartbeats THEN StartDispatch(d, {"now"})
     ELSE worker' = [worker EXCEPT ![d] = Off] /\ UNCHANGED <<retryTimer, retryModes, cooling>>
  /\ nowTimer' = IF ~heartbeats \/ cooling THEN Nobody ELSE nowTimer
  /\ UNCHANGED <<queue, waker, switchVars, submits, upsets>>

\* run_retry and _run_scheduled_wake_retry
RetryFires(d) ==
  /\ d \in RetryTimers /\ worker[d].at = "armed"
  /\ worker' = [worker EXCEPT ![d] = Looking(retryModes)]
  /\ retryTimer' = Nobody /\ retryModes' = {} /\ cooling' = FALSE
  /\ UNCHANGED <<queue, waker, nowTimer, switchVars, submits, upsets>>

\* The attention task does no step once it is cancelled.
Works(d, at) == worker[d].at = at /\ (d = Loop => attention = "on")
Goes(d, at) == worker' = [worker EXCEPT ![d].at = at]
LooksOn(d) == worker' = [worker EXCEPT ![d] = [Looking(@.modes) EXCEPT !.said = worker[d].said]]

\* claim_next_gateway_wake_request: the SELECTs.  Without a row the dispatch
\* ends, and with it the timer, if there is one.
Look(d) ==
  /\ Works(d, "looking")
  /\ LET seen == {i \in In("pending") : queue[i].mode \in worker[d].modes}
         row == Min(seen)
         same == PendingOf(queue[row].mode)
     IN  IF seen = {}
         THEN /\ worker' = [worker EXCEPT ![d] = Off]
              /\ nowTimer' = IF d \in NowTimers THEN Nobody ELSE nowTimer
         ELSE /\ worker' = [worker EXCEPT ![d] =
                   IF same = {row}
                   THEN [at |-> "chosen", modes |-> @.modes, said |-> @.said, row |-> row,
                         text |-> queue[row].text]
                   ELSE [at |-> "merging", modes |-> @.modes, said |-> @.said, row |-> row,
                         rows |-> same, text |-> WinnerOf(same)]]
              /\ UNCHANGED nowTimer
  /\ UNCHANGED <<queue, waker, retryTimer, retryModes, cooling, switchVars, submits, upsets>>

\* Rows of one target are made one, which is read again.
MergeRows(d) ==
  /\ Works(d, "merging")
  /\ queue' = Merged(worker[d].rows, worker[d].text)
  /\ IF queue[worker[d].row].st = "deleted" THEN LooksOn(d)
     ELSE worker' = [worker EXCEPT ![d] = [at |-> "chosen", modes |-> @.modes, said |-> @.said,
                                           row |-> @.row, text |-> @.text]]
  /\ UNCHANGED <<waker, timerVars, switchVars, submits, upsets>>

\* Mutant: the row is taken whatever its status.
ClaimAnyway(d) ==
  /\ Works(d, "chosen")
  /\ Becomes(worker[d].row, "claimed") /\ Goes(d, "submitting")
  /\ UNCHANGED <<waker, timerVars, switchVars, submits, upsets>>

\* The guarded UPDATE: the row is claimed with the text that was read, or
\* somebody has it and the search begins again.
Claim(d) ==
  /\ Works(d, "chosen")
  /\ IF queue[worker[d].row].st = "pending"
     THEN Becomes(worker[d].row, "claimed") /\ Goes(d, "submitting")
     ELSE LooksOn(d) /\ UNCHANGED queue
  /\ UNCHANGED <<waker, timerVars, switchVars, submits, upsets>>

\* submit() does what the text says; a text this dispatch has submitted
\* already is not repeated.
Submit(d) ==
  LET row == worker[d].row
      text == worker[d].text
  IN  /\ Works(d, "submitting")
      /\ worker' = [worker EXCEPT ![d].at = "completing", ![d].said = @ \cup {text}]
      /\ submits' = IF text \in worker[d].said THEN submits ELSE [submits EXCEPT ![row] = @ + 1]
      /\ UNCHANGED <<queue, waker, timerVars, switchVars, upsets>>

\* submit() raises.
SubmitFails(d) ==
  /\ Works(d, "submitting") /\ worker[d].text \notin worker[d].said
  /\ Upset
  /\ cooling' = TRUE
  /\ RetryLater(d, [worker[d] EXCEPT !.at = "releasing"], worker[d].modes)
  /\ UNCHANGED <<queue, waker, nowTimer, switchVars, submits>>

Complete(d) ==
  /\ Works(d, "completing")
  /\ Becomes(worker[d].row, "dispatched") /\ LooksOn(d)
  /\ UNCHANGED <<waker, timerVars, switchVars, submits, upsets>>

\* clear_wake_retry_state
NoRetry(workers) ==
  IF retryTimer = Nobody THEN workers ELSE [workers EXCEPT ![retryTimer] = Off]
ClearRetry == retryTimer' = Nobody /\ retryModes' = {} /\ cooling' = FALSE

\* Mutant: the row of a failed submit() is not given back.
ReleaseNothing(d) ==
  /\ Works(d, "releasing") /\ UNCHANGED queue
  /\ IF d \in NowTimers
     THEN /\ ClearRetry
          /\ worker' = NoRetry([worker EXCEPT ![d] = IF heartbeats THEN [at |-> "armed"] ELSE Off])
          /\ nowTimer' = IF heartbeats THEN d ELSE Nobody
     ELSE worker' = [worker EXCEPT ![d] = Off] /\ UNCHANGED timerVars
  /\ UNCHANGED <<waker, switchVars, submits, upsets>>

\* The row of a failed submit() is given back and the dispatch raises: the
\* thread of an immediate wake drops the retry for a timer of its own.
Release(d) ==
  /\ Works(d, "releasing") /\ Becomes(worker[d].row, "pending")
  /\ IF d \in NowTimers
     THEN /\ ClearRetry
          /\ worker' = NoRetry([worker EXCEPT ![d] = IF heartbeats THEN [at |-> "armed"] ELSE Off])
          /\ nowTimer' = IF heartbeats THEN d ELSE Nobody
     ELSE worker' = [worker EXCEPT ![d] = Off] /\ UNCHANGED timerVars
  /\ UNCHANGED <<waker, switchVars, submits, upsets>>

---------------------------------------------------------------------------
(* set_gateway_heartbeats_enabled, and the death of the server *)

\* Off: a timer that waits is cancelled, one whose thread runs goes on.  The
\* attention task is cancelled; its end is awaited.
SwitchOff ==
  /\ attention # "down" /\ Upset
  /\ heartbeats' = FALSE
  /\ worker' = NoRetry([d \in Workers |->
       IF d = nowTimer /\ worker[d].at = "armed" THEN Off ELSE worker[d]])
  /\ nowTimer' = Nobody /\ ClearRetry
  /\ attention' = IF attention = "on" THEN "closing" ELSE attention
  /\ UNCHANGED <<queue, waker, submits>>

\* A row the task had claimed stays claimed.
AttentionEnds ==
  /\ attention = "closing" /\ attention' = "off"
  /\ worker' = NoRetry([worker EXCEPT ![Loop] = Off]) /\ ClearRetry
  /\ UNCHANGED <<queue, waker, nowTimer, heartbeats, submits, upsets>>

\* start_attention_queue does nothing while the old task is there.
SwitchOn ==
  /\ attention # "down" /\ Upset
  /\ heartbeats' = TRUE
  /\ worker' = NoRetry(worker) /\ ClearRetry
  /\ attention' = IF attention = "off" THEN "on" ELSE attention
  /\ UNCHANGED <<queue, waker, nowTimer, submits>>

\* The rows are all that is left.
Outage ==
  /\ attention # "down" /\ Upset
  /\ attention' = "down" /\ UNCHANGED heartbeats
  /\ worker' = [d \in Workers |-> Off]
  /\ waker' = [w \in Wakers |-> IF waker[w].at \in {"idle", "ok"} THEN waker[w]
                                ELSE [at |-> "lost"]]
  /\ nowTimer' = Nobody /\ ClearRetry
  /\ UNCHANGED <<queue, submits>>

\* The attention loop starts; no row changes its status.
Restart ==
  /\ attention = "down" /\ attention' = "on" /\ heartbeats' = TRUE
  /\ UNCHANGED <<queue, waker, worker, timerVars, submits, upsets>>

---------------------------------------------------------------------------

WorkerStep(d) ==
  \/ TimerFires(d) \/ RetryFires(d) \/ Look(d) \/ MergeRows(d) \/ Claim(d)
  \/ Submit(d) \/ SubmitFails(d) \/ Complete(d) \/ Release(d)

QueueNext ==
  \/ \E w \in Wakers :
       \/ \E mode \in WakeModes, text \in WakeTexts : ReadQueue(w, mode, text)
       \/ WriteQueue(w) \/ DispatchNow(w)
  \/ \E d \in Workers : WorkerStep(d)
  \/ LoopTicks \/ Cool \/ SwitchOff \/ AttentionEnds \/ SwitchOn \/ Outage \/ Restart

QueueSpec == QueueInit /\ [][QueueNext]_queueVars

---------------------------------------------------------------------------

Holds(d) == worker[d].at \in {"submitting", "completing", "releasing"}

QueueTypeOK ==
  /\ \A i \in WakeIds :
       \/ queue[i] \in [st : {"none", "deleted"}]
       \/ queue[i] \in [st : {"pending", "claimed", "dispatched"}, mode : WakeModes, text : WakeTexts]
  /\ \A w \in Wakers : waker[w].at \in {"idle", "read", "written", "ok", "lost"}
  /\ \A d \in Workers :
       /\ worker[d].at \in {"off", "armed", "looking", "merging", "chosen",
                            "submitting", "completing", "releasing"}
       /\ worker[d].at \notin {"off", "armed"} =>
            worker[d].modes \in SUBSET WakeModes /\ worker[d].said \in SUBSET WakeTexts
       /\ Holds(d) => worker[d].row \in WakeIds /\ worker[d].text \in WakeTexts
  /\ nowTimer \in NowTimers \cup {Nobody}
  /\ retryTimer \in RetryTimers \cup {Nobody}
  /\ retryTimer # Nobody => worker[retryTimer].at = "armed"
  /\ retryModes \in SUBSET WakeModes /\ cooling \in BOOLEAN /\ heartbeats \in BOOLEAN
  /\ attention \in {"on", "closing", "off", "down"}

\* A row is submitted by one dispatch, once, however the loop, the timers and
\* the retries overlap, and through rows that are given back and claimed
\* anew, switched off or left behind by a server that died.
RowsAreSubmittedOnce ==
  \A i \in WakeIds :
    /\ submits[i] <= 1
    /\ \A d, e \in Workers : Holds(d) /\ Holds(e) /\ worker[d].row = i /\ worker[e].row = i
                             => d = e

\* A queued wake comes to its end, after failures and cooldowns and in rows
\* that are merged, as long as the server is up and heartbeats are on.
QueuedWakesGo ==
  \A i \in WakeIds :
    queue[i].st = "pending" ~> queue[i].st \in {"dispatched", "deleted"} \/ attention # "on"

=============================================================================
