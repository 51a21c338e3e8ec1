------------------------------ MODULE CodexRpc ------------------------------
(***************************************************************************)
(* CodexAppServerClient (services/codex_rpc.py): one object that spawns a  *)
(* Codex app server over stdio, correlates JSON-RPC calls with the answers *)
(* a reader task takes off the server's output, and is closed and          *)
(* connected again over its life.                                          *)
(*                                                                         *)
(* asyncio runs one task at a time and switches only at an await, so an    *)
(* action is the code between two awaits.  A process stands for one spawn: *)
(* its output pipe, its reader task and its OS process share its number.   *)
(***************************************************************************)
EXTENDS Naturals, Sequences

CONSTANTS
  Lifecycle,     \* tasks that run connect() and close()
  Callers,       \* tasks that run call()
  MaxProc,       \* bound: processes spawned
  MaxId,         \* bound: requests sent
  MaxEvents,     \* bound: notifications the servers emit
  CallbackRaises, \* whether an event callback may raise
  CancelLingers  \* whether a cancelled callback may outlast a spawn

ASSUME CodexRpcAssumption ==
  /\ MaxProc \in Nat /\ MaxId \in Nat /\ MaxEvents \in Nat
  /\ CallbackRaises \in BOOLEAN /\ CancelLingers \in BOOLEAN
  /\ Lifecycle \cap Callers = {}

Tasks == Lifecycle \cup Callers
Procs == 1..MaxProc
Ids == 1..MaxId

VARIABLES
  connected,   \* info.connected
  initialized, \* info.initialized
  process,     \* self.process, 0 for None
  readerTask,  \* self._reader_task, 0 for None
  spawned,     \* how many processes were spawned
  alive,       \* OS processes that run
  inbox,       \* requests each process received and did not answer
  output,      \* what each process wrote and its reader did not read
  events,      \* notifications emitted so far
  reader,      \* state of each reader task
  nextId,      \* self._next_id (which starts at 0; here 0 says "no request")
  pending,     \* keys of self._pending
  future,      \* the future made for each request
  pc,          \* where each task is
  req,         \* the request a task is in the middle of
  target,      \* the process a closing task waits for
  outcome,     \* history: how the call of each request came back
  answered     \* history: requests some server answered

connVars == <<connected, initialized, process, readerTask>>
procVars == <<spawned, alive, inbox, output, events, reader>>
callVars == <<nextId, pending, future>>
taskVars == <<pc, req, target>>
history == <<outcome, answered>>
vars == <<connVars, procVars, callVars, taskVars, history>>

Message == [kind : {"result", "error", "event"}, id : 0..MaxId]
ReaderStates == {"none", "reading", "callback", "cancelling", "ended"}
TaskStates == {"idle", "spawning", "sending", "waiting", "closing"}
FutureStates == {"none", "waiting", "result", "error", "cancelled"}

Init ==
  /\ connected = FALSE /\ initialized = FALSE
  /\ process = 0 /\ readerTask = 0
  /\ spawned = 0 /\ alive = {} /\ events = 0
  /\ inbox = [p \in Procs |-> {}]
  /\ output = [p \in Procs |-> <<>>]
  /\ reader = [p \in Procs |-> "none"]
  /\ nextId = 1 /\ pending = {}
  /\ future = [i \in Ids |-> "none"]
  /\ pc = [t \in Tasks |-> "idle"]
  /\ req = [t \in Tasks |-> 0]
  /\ target = [t \in Tasks |-> 0]
  /\ outcome = [i \in Ids |-> "unused"]
  /\ answered = {}

-----------------------------------------------------------------------------
(* call(): the future is registered, then the request is written, then the *)
(* task waits for the future with a timeout.                               *)

\* The synchronous start of call(), up to the send lock of _send_json.
Register(t) ==
  /\ nextId <= MaxId
  /\ nextId' = nextId + 1
  /\ pending' = pending \cup {nextId}
  /\ future' = [future EXCEPT ![nextId] = "waiting"]
  /\ req' = [req EXCEPT ![t] = nextId]
  /\ pc' = [pc EXCEPT ![t] = "sending"]
  /\ outcome' = [outcome EXCEPT ![nextId] = "open"]
  /\ UNCHANGED answered

Call(t) ==
  /\ t \in Callers
  /\ pc[t] = "idle"
  /\ Register(t)
  /\ UNCHANGED <<connVars, procVars, target>>

\* What a task does when its call is over.
Leave(t, how) ==
  /\ pc' = [pc EXCEPT ![t] = "idle"]
  /\ req' = [req EXCEPT ![t] = 0]
  /\ outcome' = [outcome EXCEPT ![req[t]] = how]
  /\ UNCHANGED <<target, answered>>

\* The write went through; a process that already exited never reads it.
SendOk(t) ==
  /\ pc[t] = "sending"
  /\ process # 0
  /\ inbox' = IF process \in alive
              THEN [inbox EXCEPT ![process] = @ \cup {req[t]}]
              ELSE inbox
  /\ pc' = [pc EXCEPT ![t] = "waiting"]
  /\ UNCHANGED <<connVars, spawned, alive, output, events, reader, callVars, req,
                 target, history>>

\* No process, or the pipe is broken: _send_json raises outside the try, so
\* the entry of _pending stays behind.
SendFails(t) ==
  /\ pc[t] = "sending"
  /\ process = 0 \/ process \notin alive
  /\ Leave(t, "raised")
  /\ UNCHANGED <<connVars, procVars, callVars>>

\* Mutant: a cancelled future is taken for an empty answer.
ResumeSwallowsCancel(t) ==
  /\ pc[t] = "waiting"
  /\ future[req[t]] \in {"result", "error", "cancelled"}
  /\ pending' = pending \ {req[t]}
  /\ initialized' = (initialized \/ (t \in Lifecycle /\ future[req[t]] = "result"))
  /\ Leave(t, "answer")
  /\ UNCHANGED <<connected, process, readerTask, procVars, nextId, future>>

\* The future is done and wait_for returns; the finally pops the entry.  For
\* the initialize call, connect() goes on and records the handshake.
Resume(t) ==
  /\ pc[t] = "waiting"
  /\ future[req[t]] \in {"result", "error", "cancelled"}
  /\ pending' = pending \ {req[t]}
  /\ initialized' = (initialized \/ (t \in Lifecycle /\ future[req[t]] = "result"))
  /\ Leave(t, IF future[req[t]] = "cancelled" THEN "raised" ELSE "answer")
  /\ UNCHANGED <<connected, process, readerTask, procVars, nextId, future>>

\* Mutant: the timeout leaves its entry in _pending.
CallTimeoutNoPop(t) ==
  /\ pc[t] = "waiting"
  /\ future[req[t]] = "waiting"
  /\ future' = [future EXCEPT ![req[t]] = "cancelled"]
  /\ Leave(t, "raised")
  /\ UNCHANGED <<connVars, procVars, nextId, pending>>

\* Mutant: no timeout once the connection is known to be lost.
CallTimeoutWhileConnected(t) ==
  /\ connected
  /\ pc[t] = "waiting"
  /\ future[req[t]] = "waiting"
  /\ pending' = pending \ {req[t]}
  /\ future' = [future EXCEPT ![req[t]] = "cancelled"]
  /\ Leave(t, "raised")
  /\ UNCHANGED <<connVars, procVars, nextId>>

\* wait_for gives up: it cancels the future, and the finally pops the entry.
CallTimeout(t) ==
  /\ pc[t] = "waiting"
  /\ future[req[t]] = "waiting"
  /\ pending' = pending \ {req[t]}
  /\ future' = [future EXCEPT ![req[t]] = "cancelled"]
  /\ Leave(t, "raised")
  /\ UNCHANGED <<connVars, procVars, nextId>>

-----------------------------------------------------------------------------
(* connect()                                                               *)

ConnectBegin(t) ==
  /\ t \in Lifecycle
  /\ pc[t] = "idle"
  /\ ~connected
  /\ pc' = [pc EXCEPT ![t] = "spawning"]
  /\ UNCHANGED <<connVars, procVars, callVars, req, target, history>>

\* create_subprocess_exec returned: the object names the new process and its
\* reader, is connected, and starts the initialize call.  A cancelled reader
\* is over by then, unless its callback is slow to give up.
Spawned(t) ==
  /\ pc[t] = "spawning"
  /\ spawned < MaxProc
  /\ CancelLingers \/ \A p \in Procs : reader[p] # "cancelling"
  /\ spawned' = spawned + 1
  /\ process' = spawned + 1
  /\ readerTask' = spawned + 1
  /\ alive' = alive \cup {spawned + 1}
  /\ reader' = [reader EXCEPT ![spawned + 1] = "reading"]
  /\ connected' = TRUE
  /\ Register(t)
  /\ UNCHANGED <<initialized, inbox, output, events, target>>

SpawnFails(t) ==
  /\ pc[t] = "spawning"
  /\ pc' = [pc EXCEPT ![t] = "idle"]
  /\ UNCHANGED <<connVars, procVars, callVars, req, target, history>>

-----------------------------------------------------------------------------
(* close()                                                                 *)

CancelReader ==
  reader' = [reader EXCEPT ![readerTask] =
               IF @ \in {"reading", "callback"} THEN "cancelling" ELSE @]

\* Mutant: the map is emptied and its futures are forgotten.
DropEntriesOnly ==
  /\ process' = 0
  /\ CancelReader
  /\ pending' = {}
  /\ UNCHANGED <<readerTask, nextId, future>>

\* The end of close(): the reader is cancelled, every unfinished future of
\* _pending is cancelled and the map is emptied.
DropEverything ==
  /\ process' = 0
  /\ CancelReader
  /\ future' = [i \in Ids |->
                  IF i \in pending /\ future[i] = "waiting"
                  THEN "cancelled" ELSE future[i]]
  /\ pending' = {}
  /\ UNCHANGED <<readerTask, nextId>>

\* Nothing to wait for: no process, or one that exited already.
CloseAtOnce(t) ==
  /\ t \in Lifecycle
  /\ pc[t] = "idle"
  /\ process \notin alive
  /\ connected' = FALSE
  /\ initialized' = FALSE
  /\ DropEverything
  /\ UNCHANGED <<spawned, alive, inbox, output, events, taskVars, history>>

\* The process is asked to terminate and the task waits for its exit.
CloseBegin(t) ==
  /\ t \in Lifecycle
  /\ pc[t] = "idle"
  /\ process \in alive
  /\ connected' = FALSE
  /\ initialized' = FALSE
  /\ target' = [target EXCEPT ![t] = process]
  /\ pc' = [pc EXCEPT ![t] = "closing"]
  /\ UNCHANGED <<process, readerTask, procVars, callVars, req, history>>

\* Mutant: the handle is dropped before the process is gone.
CloseWithoutWaiting(t) ==
  /\ pc[t] = "closing"
  /\ DropEverything
  /\ pc' = [pc EXCEPT ![t] = "idle"]
  /\ target' = [target EXCEPT ![t] = 0]
  /\ UNCHANGED <<connected, initialized, spawned, alive, inbox, output, events, req,
                 history>>

CloseEnd(t) ==
  /\ pc[t] = "closing"
  /\ target[t] \notin alive
  /\ DropEverything
  /\ pc' = [pc EXCEPT ![t] = "idle"]
  /\ target' = [target EXCEPT ![t] = 0]
  /\ UNCHANGED <<connected, initialized, spawned, alive, inbox, output, events, req,
                 history>>

\* Mutant: close() waits for a process that ignores SIGTERM.
CloseNeverKills(t) == FALSE

\* The grace period is over: close() kills, and then waits for, whatever
\* self.process names by now.
CloseKill(t) ==
  /\ pc[t] = "closing"
  /\ target[t] \in alive
  /\ process # 0
  /\ alive' = alive \ {process}
  /\ inbox' = [inbox EXCEPT ![process] = {}]
  /\ target' = [target EXCEPT ![t] = process]
  /\ UNCHANGED <<connVars, spawned, output, events, reader, callVars, pc, req, history>>

\* Another close() ended meanwhile: self.process is None and close() raises.
CloseRaises(t) ==
  /\ pc[t] = "closing"
  /\ target[t] \in alive
  /\ process = 0
  /\ pc' = [pc EXCEPT ![t] = "idle"]
  /\ target' = [target EXCEPT ![t] = 0]
  /\ UNCHANGED <<connVars, procVars, callVars, req, history>>

-----------------------------------------------------------------------------
(* The reader task of process p                                            *)

\* A response: ignored unless its future is registered and unfinished.
ReadResponse(p) ==
  /\ reader[p] = "reading"
  /\ output[p] # <<>>
  /\ Head(output[p]).kind # "event"
  /\ LET m == Head(output[p]) IN
       future' = IF m.id \in pending /\ future[m.id] = "waiting"
                 THEN [future EXCEPT ![m.id] = m.kind]
                 ELSE future
  /\ output' = [output EXCEPT ![p] = Tail(@)]
  /\ UNCHANGED <<connVars, spawned, alive, inbox, events, reader, nextId, pending,
                 taskVars, history>>

\* A notification or a server request: the reader awaits its callback and
\* reads nothing more until it returns.
ReadEvent(p) ==
  /\ reader[p] = "reading"
  /\ output[p] # <<>>
  /\ Head(output[p]).kind = "event"
  /\ reader' = [reader EXCEPT ![p] = "callback"]
  /\ output' = [output EXCEPT ![p] = Tail(@)]
  /\ UNCHANGED <<connVars, spawned, alive, inbox, events, callVars, taskVars, history>>

CallbackReturns(p) ==
  /\ reader[p] = "callback"
  /\ reader' = [reader EXCEPT ![p] = "reading"]
  /\ UNCHANGED <<connVars, spawned, alive, inbox, output, events, callVars, taskVars,
                 history>>

\* Mutant: the reader loop has no finally.
ReaderEndsSilently(p) ==
  /\ reader' = [reader EXCEPT ![p] = "ended"]
  /\ UNCHANGED <<connVars, spawned, alive, inbox, output, events, callVars, taskVars,
                 history>>

\* However the loop ends, its finally clears info.connected.
ReaderEnds(p) ==
  /\ reader' = [reader EXCEPT ![p] = "ended"]
  /\ connected' = FALSE
  /\ UNCHANGED <<initialized, process, readerTask, spawned, alive, inbox, output,
                 events, callVars, taskVars, history>>

ReaderEof(p) ==
  /\ reader[p] = "reading" /\ output[p] = <<>> /\ p \notin alive
  /\ ReaderEnds(p)

ReaderCrashes(p) ==
  /\ CallbackRaises /\ reader[p] = "callback"
  /\ ReaderEnds(p)

ReaderCancelled(p) ==
  /\ reader[p] = "cancelling"
  /\ ReaderEnds(p)

-----------------------------------------------------------------------------
(* The app server                                                          *)

Answer(p, i, kind) ==
  /\ p \in alive /\ i \in inbox[p]
  /\ inbox' = [inbox EXCEPT ![p] = @ \ {i}]
  /\ output' = [output EXCEPT ![p] = Append(@, [kind |-> kind, id |-> i])]
  /\ answered' = answered \cup {i}
  /\ UNCHANGED <<connVars, spawned, alive, events, reader, callVars, taskVars, outcome>>

Emit(p) ==
  /\ p \in alive /\ events < MaxEvents
  /\ events' = events + 1
  /\ output' = [output EXCEPT ![p] = Append(@, [kind |-> "event", id |-> 0])]
  /\ UNCHANGED <<connVars, spawned, alive, inbox, reader, callVars, taskVars, history>>

Exit(p) ==
  /\ p \in alive
  /\ alive' = alive \ {p}
  /\ inbox' = [inbox EXCEPT ![p] = {}]
  /\ UNCHANGED <<connVars, spawned, output, events, reader, callVars, taskVars, history>>

-----------------------------------------------------------------------------
CallStep(t) == Call(t) \/ SendOk(t) \/ SendFails(t) \/ Resume(t) \/ CallTimeout(t)
ConnectStep(t) == ConnectBegin(t) \/ Spawned(t) \/ SpawnFails(t)
CloseStep(t) ==
  CloseAtOnce(t) \/ CloseBegin(t) \/ CloseEnd(t) \/ CloseKill(t) \/ CloseRaises(t)
ReaderStep(p) ==
  \/ ReadResponse(p) \/ ReadEvent(p) \/ CallbackReturns(p)
  \/ ReaderEof(p) \/ ReaderCrashes(p) \/ ReaderCancelled(p)
ServerStep(p) ==
  \/ \E i \in Ids, kind \in {"result", "error"} : Answer(p, i, kind)
  \/ Emit(p) \/ Exit(p)

Next ==
  \/ \E t \in Tasks : CallStep(t) \/ ConnectStep(t) \/ CloseStep(t)
  \/ \E p \in Procs : ReaderStep(p) \/ ServerStep(p)

\* The event loop runs every task that can run, its timers fire, and a
\* killed process exits.  The server and its callbacks owe nothing.
Fairness ==
  \A t \in Tasks :
    /\ WF_vars(SendOk(t) \/ SendFails(t))
    /\ WF_vars(Resume(t) \/ CallTimeout(t))
    /\ WF_vars(CloseEnd(t) \/ CloseKill(t) \/ CloseRaises(t))

Spec == Init /\ [][Next]_vars
FairSpec == Spec /\ Fairness

-----------------------------------------------------------------------------
(* Properties                                                              *)

InCall(t) == pc[t] \in {"sending", "waiting"}

FlagType == connected \in BOOLEAN /\ initialized \in BOOLEAN
HandleType == process \in 0..MaxProc /\ readerTask \in 0..MaxProc
ServerType ==
  /\ spawned \in 0..MaxProc /\ alive \subseteq Procs /\ events \in 0..MaxEvents
  /\ inbox \in [Procs -> SUBSET Ids]
OutputType ==
  /\ output \in [Procs -> Seq(Message)]
  /\ reader \in [Procs -> ReaderStates]
CallType ==
  /\ nextId \in 1..(MaxId + 1)
  /\ pending \subseteq Ids
  /\ future \in [Ids -> FutureStates]
TaskType ==
  /\ pc \in [Tasks -> TaskStates]
  /\ req \in [Tasks -> 0..MaxId]
  /\ target \in [Tasks -> 0..MaxProc]
  /\ \A t \in Tasks : InCall(t) => req[t] # 0
HistoryType ==
  /\ outcome \in [Ids -> {"unused", "open", "answer", "raised"}]
  /\ answered \subseteq Ids

TypeOK ==
  /\ FlagType /\ HandleType /\ ServerType /\ OutputType
  /\ CallType /\ TaskType /\ HistoryType

\* A call still waiting for its answer is in _pending, where the reader looks
\* the answer up and where close() finds the futures it must cancel: no close,
\* however it interleaves with calls, strands a waiter (codex_rpc.py:231-234).
WaiterIsRegistered ==
  \A t \in Tasks :
    InCall(t) /\ future[req[t]] = "waiting" => req[t] \in pending

\* An entry of _pending belongs to a task that is in that call, or it is the
\* leftover of a call whose write failed and that raised (codex_rpc.py:253).
PendingIsAccountedFor ==
  \A i \in pending :
    \/ \E t \in Tasks : InCall(t) /\ req[t] = i
    \/ outcome[i] = "raised" /\ i \notin answered

\* Two tasks never wait for the same request, whatever close and connect do in
\* between: _next_id only grows (codex_rpc.py:242-243).
NoSharedRequest ==
  \A t, u \in Tasks : InCall(t) /\ InCall(u) /\ req[t] = req[u] => t = u

\* With one task at a time in connect and close, an object that says it is
\* connected has a reader that still reads its current process: there is no
\* connected client that no answer can reach (codex_rpc.py:180-186, 474).
ConnectedHasReader ==
  connected => /\ readerTask = process
               /\ process # 0
               /\ reader[readerTask] \in {"reading", "callback"}

\* With one task in connect and close, and callbacks that neither raise nor
\* linger when cancelled, a process that runs is the one the object names: none
\* is left running with no handle to terminate it (codex_rpc.py:161, 218-227).
NoOrphanProcess == alive \subseteq {process}

\* What makes the two properties above inductive: where a request that was
\* not written, was not issued, or was left behind cannot be.
FreshIsUnknown ==
  \A i \in Ids : i >= nextId =>
    /\ i \notin pending /\ i \notin answered
    /\ future[i] = "none" /\ outcome[i] = "unused"
    /\ \A p \in Procs : i \notin inbox[p]

IssuedIsRecorded == \A i \in Ids : i < nextId => outcome[i] # "unused"

CallIsOpen ==
  \A t \in Tasks : InCall(t) =>
    req[t] \in Ids /\ req[t] < nextId /\ outcome[req[t]] = "open"

UnwrittenIsUnsent ==
  \A t \in Tasks : pc[t] = "sending" =>
    req[t] \notin answered /\ \A p \in Procs : req[t] \notin inbox[p]

LeftoverIsUnsent ==
  \A i \in pending :
    \/ \E t \in Tasks : InCall(t) /\ req[t] = i
    \/ /\ outcome[i] = "raised" /\ i \notin answered
       /\ \A p \in Procs : i \notin inbox[p]

AnswersAreRecorded ==
  /\ \A i \in Ids : future[i] \in {"result", "error"} => i \in answered
  /\ \A p \in Procs : \A k \in 1..Len(output[p]) :
       output[p][k].kind # "event" => output[p][k].id \in answered

RpcInv ==
  /\ TypeOK /\ FreshIsUnknown /\ IssuedIsRecorded /\ CallIsOpen
  /\ UnwrittenIsUnsent /\ LeftoverIsUnsent /\ AnswersAreRecorded
  /\ WaiterIsRegistered /\ NoSharedRequest

Ledger == INSTANCE CallLedger

\* call() keeps the promise of CallLedger: one outcome for each request, an
\* answer only when a server answered that request, and never silence.
ImplementsLedger == Ledger!LedgerSafety
CallsComeBack == Ledger!LedgerLiveness

\* A close() that began ends, although the process may ignore the request to
\* terminate (codex_rpc.py:221-226).
CloseEnds == \A t \in Tasks : pc[t] = "closing" ~> pc[t] # "closing"
=============================================================================
