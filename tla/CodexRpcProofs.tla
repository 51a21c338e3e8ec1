--------------------------- MODULE CodexRpcProofs ---------------------------
(* Proofs about CodexRpc for any number of tasks, processes and requests. *)
EXTENDS CodexRpc, TLAPS

USE CodexRpcAssumption DEF Procs, Ids, ReaderStates, TaskStates, FutureStates
USE DEF InCall, FlagType, HandleType, ServerType, OutputType, CallType, TaskType, HistoryType

\* The initial state is well typed.
LEMMA InitType == Init => TypeOK
<1> SUFFICES ASSUME Init PROVE TypeOK
  OBVIOUS
<1>1. FlagType
  BY DEF Init, TypeOK
<1>2. HandleType
  BY DEF Init, TypeOK
<1>3. ServerType
  BY DEF Init, TypeOK
<1>4. OutputType
  BY DEF Init, TypeOK
<1>5. CallType
  BY DEF Init, TypeOK
<1>6. TaskType
  BY DEF Init, TypeOK
<1>7. HistoryType
  BY DEF Init, TypeOK
<1> QED
  BY <1>1, <1>2, <1>3, <1>4, <1>5, <1>6, <1>7 DEF TypeOK

\* Every step keeps the state well typed.
LEMMA NextType == TypeOK /\ [Next]_vars => TypeOK'
<1> SUFFICES ASSUME TypeOK, [Next]_vars PROVE TypeOK'
  OBVIOUS
<1> USE DEF connVars, procVars, callVars, taskVars, history
<1>1. ASSUME NEW t \in Tasks, CallStep(t) PROVE TypeOK'
  <2>1. CASE Call(t)
    BY <2>1 DEF Call, Register, TypeOK
  <2>2. CASE SendOk(t)
    <3>1. FlagType'
      BY <2>2 DEF SendOk, TypeOK
    <3>2. HandleType'
      BY <2>2 DEF SendOk, TypeOK
    <3>3. ServerType'
      <4>1. req[t] \in Ids
        BY <2>2 DEF SendOk, TypeOK
      <4>2. inbox' \in [Procs -> SUBSET Ids]
        BY <2>2, <4>1 DEF SendOk, TypeOK
      <4> QED
        BY <2>2, <4>2 DEF SendOk, TypeOK
    <3>4. OutputType'
      BY <2>2 DEF SendOk, TypeOK
    <3>5. CallType'
      BY <2>2 DEF SendOk, TypeOK
    <3>6. TaskType'
      BY <2>2 DEF SendOk, TypeOK
    <3>7. HistoryType'
      BY <2>2 DEF SendOk, TypeOK
    <3> QED
      BY <3>1, <3>2, <3>3, <3>4, <3>5, <3>6, <3>7 DEF TypeOK
  <2>3. CASE SendFails(t)
    <3>1. FlagType'
      BY <2>3 DEF SendFails, Leave, TypeOK
    <3>2. HandleType'
      BY <2>3 DEF SendFails, Leave, TypeOK
    <3>3. ServerType'
      BY <2>3 DEF SendFails, Leave, TypeOK
    <3>4. OutputType'
      BY <2>3 DEF SendFails, Leave, TypeOK
    <3>5. CallType'
      BY <2>3 DEF SendFails, Leave, TypeOK
    <3>6. TaskType'
      BY <2>3 DEF SendFails, Leave, TypeOK
    <3>7. HistoryType'
      BY <2>3 DEF SendFails, Leave, TypeOK
    <3> QED
      BY <3>1, <3>2, <3>3, <3>4, <3>5, <3>6, <3>7 DEF TypeOK
  <2>4. CASE Resume(t)
    <3>1. FlagType'
      BY <2>4 DEF Resume, Leave, TypeOK
    <3>2. HandleType'
      BY <2>4 DEF Resume, Leave, TypeOK
    <3>3. ServerType'
      BY <2>4 DEF Resume, Leave, TypeOK
    <3>4. OutputType'
      BY <2>4 DEF Resume, Leave, TypeOK
    <3>5. CallType'
      BY <2>4 DEF Resume, Leave, TypeOK
    <3>6. TaskType'
      BY <2>4 DEF Resume, Leave, TypeOK
    <3>7. HistoryType'
      BY <2>4 DEF Resume, Leave, TypeOK
    <3> QED
      BY <3>1, <3>2, <3>3, <3>4, <3>5, <3>6, <3>7 DEF TypeOK
  <2>5. CASE CallTimeout(t)
    <3>1. FlagType'
      BY <2>5 DEF CallTimeout, Leave, TypeOK
    <3>2. HandleType'
      BY <2>5 DEF CallTimeout, Leave, TypeOK
    <3>3. ServerType'
      BY <2>5 DEF CallTimeout, Leave, TypeOK
    <3>4. OutputType'
      BY <2>5 DEF CallTimeout, Leave, TypeOK
    <3>5. CallType'
      BY <2>5 DEF CallTimeout, Leave, TypeOK
    <3>6. TaskType'
      BY <2>5 DEF CallTimeout, Leave, TypeOK
    <3>7. HistoryType'
      BY <2>5 DEF CallTimeout, Leave, TypeOK
    <3> QED
      BY <3>1, <3>2, <3>3, <3>4, <3>5, <3>6, <3>7 DEF TypeOK
  <2> QED
    BY <1>1, <2>1, <2>2, <2>3, <2>4, <2>5 DEF CallStep
<1>2. ASSUME NEW t \in Tasks, ConnectStep(t) PROVE TypeOK'
  <2>1. CASE ConnectBegin(t)
    BY <2>1 DEF ConnectBegin, TypeOK
  <2>2. CASE Spawned(t)
    BY <2>2 DEF Spawned, Register, TypeOK
  <2>3. CASE SpawnFails(t)
    BY <2>3 DEF SpawnFails, TypeOK
  <2> QED
    BY <1>2, <2>1, <2>2, <2>3 DEF ConnectStep
<1>3. ASSUME NEW t \in Tasks, CloseStep(t) PROVE TypeOK'
  <2>1. CASE CloseAtOnce(t)
    <3>1. FlagType'
      BY <2>1 DEF CloseAtOnce, DropEverything, CancelReader, TypeOK
    <3>2. HandleType'
      <4>1. process' = 0 /\ readerTask' = readerTask
        BY <2>1 DEF CloseAtOnce, DropEverything
      <4> QED
        BY <4>1 DEF TypeOK
    <3>3. ServerType'
      BY <2>1 DEF CloseAtOnce, DropEverything, CancelReader, TypeOK
    <3>4. OutputType'
      BY <2>1 DEF CloseAtOnce, DropEverything, CancelReader, TypeOK
    <3>5. CallType'
      BY <2>1 DEF CloseAtOnce, DropEverything, CancelReader, TypeOK
    <3>6. TaskType'
      BY <2>1 DEF CloseAtOnce, DropEverything, CancelReader, TypeOK
    <3>7. HistoryType'
      BY <2>1 DEF CloseAtOnce, DropEverything, CancelReader, TypeOK
    <3> QED
      BY <3>1, <3>2, <3>3, <3>4, <3>5, <3>6, <3>7 DEF TypeOK
  <2>2. CASE CloseBegin(t)
    BY <2>2 DEF CloseBegin, TypeOK
  <2>3. CASE CloseEnd(t)
    <3>1. FlagType'
      BY <2>3 DEF CloseEnd, DropEverything, CancelReader, TypeOK
    <3>2. HandleType'
      BY <2>3 DEF CloseEnd, DropEverything, CancelReader, TypeOK
    <3>3. ServerType'
      BY <2>3 DEF CloseEnd, DropEverything, CancelReader, TypeOK
    <3>4. OutputType'
      BY <2>3 DEF CloseEnd, DropEverything, CancelReader, TypeOK
    <3>5. CallType'
      BY <2>3 DEF CloseEnd, DropEverything, CancelReader, TypeOK
    <3>6. TaskType'
      BY <2>3 DEF CloseEnd, DropEverything, CancelReader, TypeOK
    <3>7. HistoryType'
      BY <2>3 DEF CloseEnd, DropEverything, CancelReader, TypeOK
    <3> QED
      BY <3>1, <3>2, <3>3, <3>4, <3>5, <3>6, <3>7 DEF TypeOK
  <2>4. CASE CloseKill(t)
    BY <2>4 DEF CloseKill, TypeOK
  <2>5. CASE CloseRaises(t)
    BY <2>5 DEF CloseRaises, TypeOK
  <2> QED
    BY <1>3, <2>1, <2>2, <2>3, <2>4, <2>5 DEF CloseStep
<1>4. ASSUME NEW p \in Procs, ReaderStep(p) PROVE TypeOK'
  <2>1. CASE ReadResponse(p)
    <3>1. FlagType'
      BY <2>1 DEF ReadResponse, TypeOK, Message
    <3>2. HandleType'
      BY <2>1 DEF ReadResponse, TypeOK, Message
    <3>3. ServerType'
      BY <2>1 DEF ReadResponse, TypeOK, Message
    <3>4. OutputType'
      <4>1. Tail(output[p]) \in Seq(Message)
        BY <2>1 DEF ReadResponse, TypeOK
      <4> QED
        BY <2>1, <4>1 DEF ReadResponse, TypeOK
    <3>5. CallType'
      <4>1. Head(output[p]) \in Message
        BY <2>1 DEF ReadResponse, TypeOK
      <4>2. Head(output[p]).kind \in {"result", "error"}
        BY <2>1, <4>1 DEF ReadResponse, Message
      <4>3. future' \in [Ids -> FutureStates]
        BY <2>1, <4>2 DEF ReadResponse, TypeOK
      <4> QED
        BY <2>1, <4>3 DEF ReadResponse, TypeOK
    <3>6. TaskType'
      BY <2>1 DEF ReadResponse, TypeOK, Message
    <3>7. HistoryType'
      BY <2>1 DEF ReadResponse, TypeOK, Message
    <3> QED
      BY <3>1, <3>2, <3>3, <3>4, <3>5, <3>6, <3>7 DEF TypeOK
  <2>2. CASE ReadEvent(p)
    BY <2>2 DEF ReadEvent, TypeOK
  <2>3. CASE CallbackReturns(p)
    BY <2>3 DEF CallbackReturns, TypeOK
  <2>4. CASE ReaderEof(p) \/ ReaderCrashes(p) \/ ReaderCancelled(p)
    BY <2>4 DEF ReaderEof, ReaderCrashes, ReaderCancelled, ReaderEnds, TypeOK
  <2> QED
    BY <1>4, <2>1, <2>2, <2>3, <2>4 DEF ReaderStep
<1>5. ASSUME NEW p \in Procs, ServerStep(p) PROVE TypeOK'
  <2>1. CASE \E i \in Ids, kind \in {"result", "error"} : Answer(p, i, kind)
    <3>1. FlagType'
      BY <2>1 DEF Answer, TypeOK, Message
    <3>2. HandleType'
      BY <2>1 DEF Answer, TypeOK, Message
    <3>3. ServerType'
      BY <2>1 DEF Answer, TypeOK, Message
    <3>4. OutputType'
      <4>1. PICK i \in Ids, kind \in {"result", "error"} : Answer(p, i, kind)
        BY <2>1
      <4>2. [kind |-> kind, id |-> i] \in Message
        BY DEF Message
      <4>3. Append(output[p], [kind |-> kind, id |-> i]) \in Seq(Message)
        BY <4>2 DEF TypeOK
      <4> QED
        BY <4>1, <4>3 DEF Answer, TypeOK
    <3>5. CallType'
      BY <2>1 DEF Answer, TypeOK, Message
    <3>6. TaskType'
      BY <2>1 DEF Answer, TypeOK, Message
    <3>7. HistoryType'
      BY <2>1 DEF Answer, TypeOK, Message
    <3> QED
      BY <3>1, <3>2, <3>3, <3>4, <3>5, <3>6, <3>7 DEF TypeOK
  <2>2. CASE Emit(p)
    <3>1. FlagType'
      BY <2>2 DEF Emit, TypeOK, Message
    <3>2. HandleType'
      BY <2>2 DEF Emit, TypeOK, Message
    <3>3. ServerType'
      BY <2>2 DEF Emit, TypeOK, Message
    <3>4. OutputType'
      <4>1. [kind |-> "event", id |-> 0] \in Message
        BY DEF Message
      <4>2. Append(output[p], [kind |-> "event", id |-> 0]) \in Seq(Message)
        BY <4>1 DEF TypeOK
      <4> QED
        BY <2>2, <4>2 DEF Emit, TypeOK
    <3>5. CallType'
      BY <2>2 DEF Emit, TypeOK, Message
    <3>6. TaskType'
      BY <2>2 DEF Emit, TypeOK, Message
    <3>7. HistoryType'
      BY <2>2 DEF Emit, TypeOK, Message
    <3> QED
      BY <3>1, <3>2, <3>3, <3>4, <3>5, <3>6, <3>7 DEF TypeOK
  <2>3. CASE Exit(p)
    BY <2>3 DEF Exit, TypeOK
  <2> QED
    BY <1>5, <2>1, <2>2, <2>3 DEF ServerStep
<1>6. CASE UNCHANGED vars
  BY <1>6 DEF vars, TypeOK
<1> QED
  BY <1>1, <1>2, <1>3, <1>4, <1>5, <1>6 DEF Next

\* The state of CodexAppServerClient and of the calls in flight stays inside its
\* declared domains, for any number of tasks, processes and requests.
THEOREM TypeCorrect == Spec => []TypeOK
<1>1. Init => TypeOK
  BY InitType
<1>2. TypeOK /\ [Next]_vars => TypeOK'
  BY NextType
<1> QED
  BY <1>1, <1>2, PTL DEF Spec

-----------------------------------------------------------------------------
(* The invariant behind the properties of calls.                           *)

\* What most steps of connect, close, the reader and the server leave alone.
CallsUntouched ==
  /\ UNCHANGED <<nextId, pending, future, req, outcome, answered>>
  /\ \A p \in Procs : inbox'[p] \subseteq inbox[p]
  /\ \A t \in Tasks : pc'[t] = pc[t] \/ {pc'[t], pc[t]} \cap {"sending", "waiting"} = {}

\* A step that leaves the calls alone keeps the invariant.
LEMMA UntouchedKeeps ==
  ASSUME RpcInv, TypeOK', CallsUntouched, AnswersAreRecorded' PROVE RpcInv'
<1> USE DEF CallsUntouched
<1>t. TypeOK /\ TypeOK'
  BY DEF RpcInv
<1>i. \A t \in Tasks : InCall(t)' <=> InCall(t)
  OBVIOUS
<1>1. FreshIsUnknown'
  BY <1>t DEF TypeOK, RpcInv, FreshIsUnknown, CallIsOpen
<1>2. IssuedIsRecorded'
  BY <1>t DEF TypeOK, RpcInv, IssuedIsRecorded
<1>3. CallIsOpen'
  BY <1>t DEF TypeOK, RpcInv, CallIsOpen, NoSharedRequest, FreshIsUnknown
<1>4. UnwrittenIsUnsent'
  BY <1>t DEF TypeOK, RpcInv, UnwrittenIsUnsent, NoSharedRequest, CallIsOpen, FreshIsUnknown
<1>5. LeftoverIsUnsent'
  BY <1>t DEF TypeOK, RpcInv, LeftoverIsUnsent, UnwrittenIsUnsent, FreshIsUnknown, CallIsOpen, NoSharedRequest
<1>6. AnswersAreRecorded'
  OBVIOUS
<1>7. WaiterIsRegistered'
  BY <1>t DEF TypeOK, RpcInv, WaiterIsRegistered, FreshIsUnknown, NoSharedRequest, CallIsOpen
<1>8. NoSharedRequest'
  BY <1>t DEF TypeOK, RpcInv, NoSharedRequest, CallIsOpen
<1> QED
  BY <1>t, <1>1, <1>2, <1>3, <1>4, <1>5, <1>6, <1>7, <1>8 DEF RpcInv

\* The start of a call, by a task that is in no call, keeps it too.
LEMMA RegisterKeeps ==
  ASSUME RpcInv, TypeOK', NEW t \in Tasks, ~InCall(t), Register(t),
         UNCHANGED <<inbox, output>>
  PROVE  RpcInv'
<1>t. TypeOK /\ TypeOK'
  BY DEF RpcInv
<1>1. FreshIsUnknown'
  BY <1>t DEF Register, TypeOK, RpcInv, FreshIsUnknown, CallIsOpen
<1>2. IssuedIsRecorded'
  BY <1>t DEF Register, TypeOK, RpcInv, IssuedIsRecorded
<1>3. CallIsOpen'
  BY <1>t DEF Register, TypeOK, RpcInv, CallIsOpen, NoSharedRequest, FreshIsUnknown
<1>4. UnwrittenIsUnsent'
  BY <1>t DEF Register, TypeOK, RpcInv, UnwrittenIsUnsent, NoSharedRequest, CallIsOpen, FreshIsUnknown
<1>5. LeftoverIsUnsent'
  <2>1. pending' = pending \cup {nextId} /\ pc'[t] = "sending" /\ req'[t] = nextId
    BY <1>t DEF Register, TypeOK
  <2>2. ASSUME NEW i \in pending, NEW u \in Tasks, InCall(u), req[u] = i
        PROVE  pc'[u] = pc[u] /\ req'[u] = i
    BY <1>t, <2>2 DEF Register, TypeOK
  <2>3. \A i \in pending : i # nextId /\ outcome'[i] = outcome[i]
    BY <1>t DEF Register, TypeOK, RpcInv, FreshIsUnknown
  <2>4. UNCHANGED answered
    BY DEF Register
  <2> QED
    BY <2>1, <2>2, <2>3, <2>4 DEF RpcInv, LeftoverIsUnsent
<1>6. AnswersAreRecorded'
  BY <1>t DEF Register, TypeOK, RpcInv, AnswersAreRecorded
<1>7. WaiterIsRegistered'
  BY <1>t DEF Register, TypeOK, RpcInv, WaiterIsRegistered, FreshIsUnknown, NoSharedRequest, CallIsOpen
<1>8. NoSharedRequest'
  <2>1. req'[t] = nextId
    BY <1>t DEF Register, TypeOK
  <2>2. \A u \in Tasks : u # t => pc'[u] = pc[u] /\ req'[u] = req[u]
    BY <1>t DEF Register, TypeOK
  <2>3. \A u \in Tasks : u # t /\ InCall(u) => req[u] # nextId
    BY <1>t DEF TypeOK, RpcInv, CallIsOpen
  <2> QED
    BY <2>1, <2>2, <2>3 DEF RpcInv, NoSharedRequest
<1> QED
  BY <1>t, <1>1, <1>2, <1>3, <1>4, <1>5, <1>6, <1>7, <1>8 DEF RpcInv

\* Every step keeps the invariant.
LEMMA NextInv == RpcInv /\ [Next]_vars => RpcInv'
<1> SUFFICES ASSUME RpcInv, [Next]_vars PROVE RpcInv'
  OBVIOUS
<1>t. TypeOK /\ TypeOK'
  BY NextType DEF RpcInv
<1> USE DEF connVars, procVars, callVars, taskVars, history
<1>1. ASSUME NEW t \in Tasks, CallStep(t) PROVE RpcInv'
  <2>1. CASE Call(t)
    BY <2>1, <1>t, RegisterKeeps DEF Call
  <2>2. CASE SendOk(t)
    <3>1. FreshIsUnknown'
      BY <2>2, <1>t DEF SendOk, TypeOK, RpcInv, FreshIsUnknown, CallIsOpen
    <3>2. IssuedIsRecorded'
      BY <2>2, <1>t DEF SendOk, TypeOK, RpcInv, IssuedIsRecorded
    <3>3. CallIsOpen'
      BY <2>2, <1>t DEF SendOk, TypeOK, RpcInv, CallIsOpen, NoSharedRequest, FreshIsUnknown
    <3>4. UnwrittenIsUnsent'
      BY <2>2, <1>t DEF SendOk, TypeOK, RpcInv, UnwrittenIsUnsent, NoSharedRequest, CallIsOpen, FreshIsUnknown
    <3>5. LeftoverIsUnsent'
      BY <2>2, <1>t DEF SendOk, TypeOK, RpcInv, LeftoverIsUnsent, UnwrittenIsUnsent, FreshIsUnknown, CallIsOpen, NoSharedRequest
    <3>6. AnswersAreRecorded'
      BY <2>2, <1>t DEF SendOk, TypeOK, RpcInv, AnswersAreRecorded
    <3>7. WaiterIsRegistered'
      BY <2>2, <1>t DEF SendOk, TypeOK, RpcInv, WaiterIsRegistered, FreshIsUnknown, NoSharedRequest, CallIsOpen
    <3>8. NoSharedRequest'
      BY <2>2, <1>t DEF SendOk, TypeOK, RpcInv, NoSharedRequest, CallIsOpen
    <3> QED
      BY <1>t, <3>1, <3>2, <3>3, <3>4, <3>5, <3>6, <3>7, <3>8 DEF RpcInv
  <2>3. CASE SendFails(t)
    <3>1. FreshIsUnknown'
      BY <2>3, <1>t DEF SendFails, Leave, TypeOK, RpcInv, FreshIsUnknown, CallIsOpen
    <3>2. IssuedIsRecorded'
      BY <2>3, <1>t DEF SendFails, Leave, TypeOK, RpcInv, IssuedIsRecorded
    <3>3. CallIsOpen'
      BY <2>3, <1>t DEF SendFails, Leave, TypeOK, RpcInv, CallIsOpen, NoSharedRequest, FreshIsUnknown
    <3>4. UnwrittenIsUnsent'
      BY <2>3, <1>t DEF SendFails, Leave, TypeOK, RpcInv, UnwrittenIsUnsent, NoSharedRequest, CallIsOpen, FreshIsUnknown
    <3>5. LeftoverIsUnsent'
      BY <2>3, <1>t DEF SendFails, Leave, TypeOK, RpcInv, LeftoverIsUnsent, UnwrittenIsUnsent, FreshIsUnknown, CallIsOpen, NoSharedRequest
    <3>6. AnswersAreRecorded'
      BY <2>3, <1>t DEF SendFails, Leave, TypeOK, RpcInv, AnswersAreRecorded
    <3>7. WaiterIsRegistered'
      BY <2>3, <1>t DEF SendFails, Leave, TypeOK, RpcInv, WaiterIsRegistered, FreshIsUnknown, NoSharedRequest, CallIsOpen
    <3>8. NoSharedRequest'
      BY <2>3, <1>t DEF SendFails, Leave, TypeOK, RpcInv, NoSharedRequest, CallIsOpen
    <3> QED
      BY <1>t, <3>1, <3>2, <3>3, <3>4, <3>5, <3>6, <3>7, <3>8 DEF RpcInv
  <2>4. CASE Resume(t)
    <3>1. FreshIsUnknown'
      BY <2>4, <1>t DEF Resume, Leave, TypeOK, RpcInv, FreshIsUnknown, CallIsOpen
    <3>2. IssuedIsRecorded'
      BY <2>4, <1>t DEF Resume, Leave, TypeOK, RpcInv, IssuedIsRecorded
    <3>3. CallIsOpen'
      BY <2>4, <1>t DEF Resume, Leave, TypeOK, RpcInv, CallIsOpen, NoSharedRequest, FreshIsUnknown
    <3>4. UnwrittenIsUnsent'
      BY <2>4, <1>t DEF Resume, Leave, TypeOK, RpcInv, UnwrittenIsUnsent, NoSharedRequest, CallIsOpen, FreshIsUnknown
    <3>5. LeftoverIsUnsent'
      BY <2>4, <1>t DEF Resume, Leave, TypeOK, RpcInv, LeftoverIsUnsent, UnwrittenIsUnsent, FreshIsUnknown, CallIsOpen, NoSharedRequest
    <3>6. AnswersAreRecorded'
      BY <2>4, <1>t DEF Resume, Leave, TypeOK, RpcInv, AnswersAreRecorded
    <3>7. WaiterIsRegistered'
      BY <2>4, <1>t DEF Resume, Leave, TypeOK, RpcInv, WaiterIsRegistered, FreshIsUnknown, NoSharedRequest, CallIsOpen
    <3>8. NoSharedRequest'
      BY <2>4, <1>t DEF Resume, Leave, TypeOK, RpcInv, NoSharedRequest, CallIsOpen
    <3> QED
      BY <1>t, <3>1, <3>2, <3>3, <3>4, <3>5, <3>6, <3>7, <3>8 DEF RpcInv
  <2>5. CASE CallTimeout(t)
    <3>1. FreshIsUnknown'
      BY <2>5, <1>t DEF CallTimeout, Leave, TypeOK, RpcInv, FreshIsUnknown, CallIsOpen
    <3>2. IssuedIsRecorded'
      BY <2>5, <1>t DEF CallTimeout, Leave, TypeOK, RpcInv, IssuedIsRecorded
    <3>3. CallIsOpen'
      BY <2>5, <1>t DEF CallTimeout, Leave, TypeOK, RpcInv, CallIsOpen, NoSharedRequest, FreshIsUnknown
    <3>4. UnwrittenIsUnsent'
      BY <2>5, <1>t DEF CallTimeout, Leave, TypeOK, RpcInv, UnwrittenIsUnsent, NoSharedRequest, CallIsOpen, FreshIsUnknown
    <3>5. LeftoverIsUnsent'
      BY <2>5, <1>t DEF CallTimeout, Leave, TypeOK, RpcInv, LeftoverIsUnsent, UnwrittenIsUnsent, FreshIsUnknown, CallIsOpen, NoSharedRequest
    <3>6. AnswersAreRecorded'
      BY <2>5, <1>t DEF CallTimeout, Leave, TypeOK, RpcInv, AnswersAreRecorded
    <3>7. WaiterIsRegistered'
      BY <2>5, <1>t DEF CallTimeout, Leave, TypeOK, RpcInv, WaiterIsRegistered, FreshIsUnknown, NoSharedRequest, CallIsOpen
    <3>8. NoSharedRequest'
      BY <2>5, <1>t DEF CallTimeout, Leave, TypeOK, RpcInv, NoSharedRequest, CallIsOpen
    <3> QED
      BY <1>t, <3>1, <3>2, <3>3, <3>4, <3>5, <3>6, <3>7, <3>8 DEF RpcInv
  <2> QED
    BY <1>1, <2>1, <2>2, <2>3, <2>4, <2>5 DEF CallStep
<1>2. ASSUME NEW t \in Tasks, ConnectStep(t) PROVE RpcInv'
  <2>1. CASE ConnectBegin(t) \/ SpawnFails(t)
    <3>1. CallsUntouched
      BY <2>1, <1>t DEF ConnectBegin, SpawnFails, CallsUntouched, TypeOK
    <3>2. AnswersAreRecorded'
      BY <2>1 DEF ConnectBegin, SpawnFails, RpcInv, AnswersAreRecorded
    <3> QED
      BY <1>t, <3>1, <3>2, UntouchedKeeps
  <2>2. CASE Spawned(t)
    BY <2>2, <1>t, RegisterKeeps DEF Spawned
  <2> QED
    BY <1>2, <2>1, <2>2 DEF ConnectStep
<1>3. ASSUME NEW t \in Tasks, CloseStep(t) PROVE RpcInv'
  <2>1. CASE CloseAtOnce(t)
    <3>1. FreshIsUnknown'
      BY <2>1, <1>t DEF CloseAtOnce, DropEverything, TypeOK, RpcInv, FreshIsUnknown, CallIsOpen
    <3>2. IssuedIsRecorded'
      BY <2>1, <1>t DEF CloseAtOnce, DropEverything, TypeOK, RpcInv, IssuedIsRecorded
    <3>3. CallIsOpen'
      BY <2>1, <1>t DEF CloseAtOnce, DropEverything, TypeOK, RpcInv, CallIsOpen, NoSharedRequest, FreshIsUnknown
    <3>4. UnwrittenIsUnsent'
      BY <2>1, <1>t DEF CloseAtOnce, DropEverything, TypeOK, RpcInv, UnwrittenIsUnsent, NoSharedRequest, CallIsOpen, FreshIsUnknown
    <3>5. LeftoverIsUnsent'
      BY <2>1, <1>t DEF CloseAtOnce, DropEverything, TypeOK, RpcInv, LeftoverIsUnsent, UnwrittenIsUnsent, FreshIsUnknown, CallIsOpen, NoSharedRequest
    <3>6. AnswersAreRecorded'
      BY <2>1, <1>t DEF CloseAtOnce, DropEverything, TypeOK, RpcInv, AnswersAreRecorded
    <3>7. WaiterIsRegistered'
      BY <2>1, <1>t DEF CloseAtOnce, DropEverything, TypeOK, RpcInv, WaiterIsRegistered, FreshIsUnknown, NoSharedRequest, CallIsOpen
    <3>8. NoSharedRequest'
      BY <2>1, <1>t DEF CloseAtOnce, DropEverything, TypeOK, RpcInv, NoSharedRequest, CallIsOpen
    <3> QED
      BY <1>t, <3>1, <3>2, <3>3, <3>4, <3>5, <3>6, <3>7, <3>8 DEF RpcInv
  <2>2. CASE CloseEnd(t)
    <3>1. FreshIsUnknown'
      BY <2>2, <1>t DEF CloseEnd, DropEverything, TypeOK, RpcInv, FreshIsUnknown, CallIsOpen
    <3>2. IssuedIsRecorded'
      BY <2>2, <1>t DEF CloseEnd, DropEverything, TypeOK, RpcInv, IssuedIsRecorded
    <3>3. CallIsOpen'
      BY <2>2, <1>t DEF CloseEnd, DropEverything, TypeOK, RpcInv, CallIsOpen, NoSharedRequest, FreshIsUnknown
    <3>4. UnwrittenIsUnsent'
      BY <2>2, <1>t DEF CloseEnd, DropEverything, TypeOK, RpcInv, UnwrittenIsUnsent, NoSharedRequest, CallIsOpen, FreshIsUnknown
    <3>5. LeftoverIsUnsent'
      BY <2>2, <1>t DEF CloseEnd, DropEverything, TypeOK, RpcInv, LeftoverIsUnsent, UnwrittenIsUnsent, FreshIsUnknown, CallIsOpen, NoSharedRequest
    <3>6. AnswersAreRecorded'
      BY <2>2, <1>t DEF CloseEnd, DropEverything, TypeOK, RpcInv, AnswersAreRecorded
    <3>7. WaiterIsRegistered'
      BY <2>2, <1>t DEF CloseEnd, DropEverything, TypeOK, RpcInv, WaiterIsRegistered, FreshIsUnknown, NoSharedRequest, CallIsOpen
    <3>8. NoSharedRequest'
      BY <2>2, <1>t DEF CloseEnd, DropEverything, TypeOK, RpcInv, NoSharedRequest, CallIsOpen
    <3> QED
      BY <1>t, <3>1, <3>2, <3>3, <3>4, <3>5, <3>6, <3>7, <3>8 DEF RpcInv
  <2>3. CASE CloseBegin(t) \/ CloseKill(t) \/ CloseRaises(t)
    <3> USE DEF CloseBegin, CloseKill, CloseRaises
    <3>a. UNCHANGED <<nextId, pending, future, req, outcome, answered>>
      BY <2>3
    <3>b. \A p \in Procs : inbox'[p] \subseteq inbox[p]
      BY <2>3, <1>t DEF TypeOK
    <3>c. \A u \in Tasks :
            pc'[u] = pc[u] \/ {pc'[u], pc[u]} \cap {"sending", "waiting"} = {}
      BY <2>3, <1>t DEF TypeOK
    <3>1. CallsUntouched
      BY <3>a, <3>b, <3>c DEF CallsUntouched
    <3>2. AnswersAreRecorded'
      BY <2>3 DEF CloseBegin, CloseKill, CloseRaises, RpcInv, AnswersAreRecorded
    <3> QED
      BY <1>t, <3>1, <3>2, UntouchedKeeps
  <2> QED
    BY <1>3, <2>1, <2>2, <2>3 DEF CloseStep
<1>4. ASSUME NEW p \in Procs, ReaderStep(p) PROVE RpcInv'
  <2>1. CASE ReadResponse(p)
    <3>1. FreshIsUnknown'
      BY <2>1, <1>t DEF ReadResponse, TypeOK, RpcInv, FreshIsUnknown, CallIsOpen
    <3>2. IssuedIsRecorded'
      BY <2>1, <1>t DEF ReadResponse, TypeOK, RpcInv, IssuedIsRecorded
    <3>3. CallIsOpen'
      BY <2>1, <1>t DEF ReadResponse, TypeOK, RpcInv, CallIsOpen, NoSharedRequest, FreshIsUnknown
    <3>4. UnwrittenIsUnsent'
      BY <2>1, <1>t DEF ReadResponse, TypeOK, RpcInv, UnwrittenIsUnsent, NoSharedRequest, CallIsOpen, FreshIsUnknown
    <3>5. LeftoverIsUnsent'
      BY <2>1, <1>t DEF ReadResponse, TypeOK, RpcInv, LeftoverIsUnsent, UnwrittenIsUnsent, FreshIsUnknown, CallIsOpen, NoSharedRequest
    <3>6. AnswersAreRecorded'
      BY <2>1, <1>t DEF ReadResponse, TypeOK, OutputType, Message, RpcInv, AnswersAreRecorded
    <3>7. WaiterIsRegistered'
      BY <2>1, <1>t DEF ReadResponse, TypeOK, RpcInv, WaiterIsRegistered, FreshIsUnknown, NoSharedRequest, CallIsOpen
    <3>8. NoSharedRequest'
      BY <2>1, <1>t DEF ReadResponse, TypeOK, RpcInv, NoSharedRequest, CallIsOpen
    <3> QED
      BY <1>t, <3>1, <3>2, <3>3, <3>4, <3>5, <3>6, <3>7, <3>8 DEF RpcInv
  <2>2. CASE ReadEvent(p)
    <3>1. CallsUntouched
      BY <2>2, <1>t DEF ReadEvent, CallsUntouched, TypeOK
    <3>2. AnswersAreRecorded'
      BY <2>2, <1>t DEF ReadEvent, TypeOK, OutputType, RpcInv, AnswersAreRecorded
    <3> QED
      BY <1>t, <3>1, <3>2, UntouchedKeeps
  <2>3. CASE CallbackReturns(p) \/ ReaderEof(p) \/ ReaderCrashes(p) \/ ReaderCancelled(p)
    <3> USE DEF CallbackReturns, ReaderEof, ReaderCrashes, ReaderCancelled, ReaderEnds
    <3>1. CallsUntouched
      BY <2>3, <1>t DEF CallsUntouched, TypeOK
    <3>2. AnswersAreRecorded'
      BY <2>3 DEF RpcInv, AnswersAreRecorded
    <3> QED
      BY <1>t, <3>1, <3>2, UntouchedKeeps
  <2> QED
    BY <1>4, <2>1, <2>2, <2>3 DEF ReaderStep
<1>5. ASSUME NEW p \in Procs, ServerStep(p) PROVE RpcInv'
  <2>1. ASSUME NEW i \in Ids, NEW kind \in {"result", "error"}, Answer(p, i, kind)
        PROVE  RpcInv'
    <3>1. FreshIsUnknown'
      BY <2>1, <1>t DEF Answer, TypeOK, RpcInv, FreshIsUnknown, CallIsOpen
    <3>2. IssuedIsRecorded'
      BY <2>1, <1>t DEF Answer, TypeOK, RpcInv, IssuedIsRecorded
    <3>3. CallIsOpen'
      BY <2>1, <1>t DEF Answer, TypeOK, RpcInv, CallIsOpen, NoSharedRequest, FreshIsUnknown
    <3>4. UnwrittenIsUnsent'
      BY <2>1, <1>t DEF Answer, TypeOK, RpcInv, UnwrittenIsUnsent, NoSharedRequest, CallIsOpen, FreshIsUnknown
    <3>5. LeftoverIsUnsent'
      <4>1. \A j \in pending : j # i \/ \E t \in Tasks : InCall(t) /\ req[t] = j
        BY <2>1 DEF Answer, RpcInv, LeftoverIsUnsent
      <4>2. \A q \in Procs : inbox'[q] \subseteq inbox[q]
        BY <2>1, <1>t DEF Answer, TypeOK
      <4>3. answered' = answered \cup {i} /\ UNCHANGED <<pending, pc, req, outcome>>
        BY <2>1 DEF Answer
      <4> QED
        BY <4>1, <4>2, <4>3 DEF RpcInv, LeftoverIsUnsent
    <3>6. AnswersAreRecorded'
      <4>1. output' = [output EXCEPT ![p] = Append(@, [kind |-> kind, id |-> i])]
        BY <2>1 DEF Answer
      <4>2. answered' = answered \cup {i} /\ future' = future
        BY <2>1 DEF Answer
      <4>3. ASSUME NEW q \in Procs, NEW k \in 1..Len(output'[q]), output'[q][k].kind # "event"
            PROVE  output'[q][k].id \in answered'
        <5>1. CASE q = p /\ k = Len(output[p]) + 1
          BY <1>t, <4>1, <4>2, <5>1 DEF TypeOK, OutputType
        <5>2. CASE ~(q = p /\ k = Len(output[p]) + 1)
          <6>a. output[q] \in Seq(Message)
            BY <1>t DEF TypeOK, OutputType
          <6>b. ASSUME q = p PROVE k \in 1..Len(output[q]) /\ output'[q][k] = output[q][k]
            <7>1. output'[q] = Append(output[q], [kind |-> kind, id |-> i])
              BY <1>t, <4>1, <6>b DEF TypeOK, OutputType
            <7> QED
              BY <5>2, <6>a, <6>b, <7>1
          <6>c. ASSUME q # p PROVE k \in 1..Len(output[q]) /\ output'[q][k] = output[q][k]
            <7>1. output'[q] = output[q]
              BY <1>t, <4>1, <6>c DEF TypeOK, OutputType
            <7> QED
              BY <7>1
          <6>1. k \in 1..Len(output[q]) /\ output'[q][k] = output[q][k]
            BY <6>b, <6>c
          <6> QED
            BY <4>2, <4>3, <6>1 DEF RpcInv, AnswersAreRecorded
        <5> QED
          BY <5>1, <5>2
      <4> QED
        BY <4>2, <4>3 DEF RpcInv, AnswersAreRecorded
    <3>7. WaiterIsRegistered'
      BY <2>1, <1>t DEF Answer, TypeOK, RpcInv, WaiterIsRegistered, FreshIsUnknown, NoSharedRequest, CallIsOpen
    <3>8. NoSharedRequest'
      BY <2>1, <1>t DEF Answer, TypeOK, RpcInv, NoSharedRequest, CallIsOpen
    <3> QED
      BY <1>t, <3>1, <3>2, <3>3, <3>4, <3>5, <3>6, <3>7, <3>8 DEF RpcInv
  <2>2. CASE Emit(p)
    <3>1. CallsUntouched
      BY <2>2, <1>t DEF Emit, CallsUntouched, TypeOK
    <3>2. AnswersAreRecorded'
      BY <2>2, <1>t DEF Emit, TypeOK, OutputType, RpcInv, AnswersAreRecorded
    <3> QED
      BY <1>t, <3>1, <3>2, UntouchedKeeps
  <2>3. CASE Exit(p)
    <3>1. CallsUntouched
      BY <2>3, <1>t DEF Exit, CallsUntouched, TypeOK
    <3>2. AnswersAreRecorded'
      BY <2>3 DEF Exit, RpcInv, AnswersAreRecorded
    <3> QED
      BY <1>t, <3>1, <3>2, UntouchedKeeps
  <2> QED
    BY <1>5, <2>1, <2>2, <2>3 DEF ServerStep
<1>6. CASE UNCHANGED vars
  <2>1. CallsUntouched /\ AnswersAreRecorded'
    BY <1>6 DEF vars, CallsUntouched, RpcInv, AnswersAreRecorded
  <2> QED
    BY <1>t, <2>1, UntouchedKeeps
<1> QED
  BY <1>1, <1>2, <1>3, <1>4, <1>5, <1>6 DEF Next

LEMMA InitInv == Init => RpcInv
<1> SUFFICES ASSUME Init PROVE RpcInv
  OBVIOUS
<1>1. TypeOK
  BY InitType
<1>2. FreshIsUnknown /\ IssuedIsRecorded
  BY DEF Init, FreshIsUnknown, IssuedIsRecorded
<1>3. CallIsOpen /\ UnwrittenIsUnsent /\ WaiterIsRegistered /\ NoSharedRequest
  BY DEF Init, CallIsOpen, UnwrittenIsUnsent, WaiterIsRegistered, NoSharedRequest
<1>4. LeftoverIsUnsent /\ AnswersAreRecorded
  BY DEF Init, LeftoverIsUnsent, AnswersAreRecorded
<1> QED
  BY <1>1, <1>2, <1>3, <1>4 DEF RpcInv

\* The invariant holds in every state the client can reach.
THEOREM InvHolds == Spec => []RpcInv
<1>1. Init => RpcInv
  BY InitInv
<1>2. RpcInv /\ [Next]_vars => RpcInv'
  BY NextInv
<1> QED
  BY <1>1, <1>2, PTL DEF Spec

\* However connect, close and calls interleave, a call that still waits is one
\* the reader can answer and close() will cancel.
THEOREM WaitersAreRegistered == Spec => []WaiterIsRegistered
<1>1. RpcInv => WaiterIsRegistered
  BY DEF RpcInv
<1> QED
  BY <1>1, InvHolds, PTL

\* Two calls never wait for the same request.
THEOREM RequestsAreNotShared == Spec => []NoSharedRequest
<1>1. RpcInv => NoSharedRequest
  BY DEF RpcInv
<1> QED
  BY <1>1, InvHolds, PTL

\* Nothing stays in _pending but calls under way and the leftovers of writes
\* that failed, which no server ever answered.
THEOREM PendingAccounted == Spec => []PendingIsAccountedFor
<1>1. RpcInv => PendingIsAccountedFor
  BY DEF RpcInv, LeftoverIsUnsent, PendingIsAccountedFor
<1> QED
  BY <1>1, InvHolds, PTL

-----------------------------------------------------------------------------
(* call() implements CallLedger.                                           *)

\* Each step of the client is a step of the ledger or leaves it as it was.
LEMMA StepRefines == RpcInv /\ [Next]_vars => [Ledger!LedgerNext]_(Ledger!ledgerVars)
<1> SUFFICES ASSUME RpcInv, [Next]_vars
             PROVE  Ledger!LedgerNext \/ UNCHANGED Ledger!ledgerVars
  OBVIOUS
<1> USE DEF Ledger!LedgerNext, Ledger!ledgerVars, history
<1>t. TypeOK
  BY DEF RpcInv
<1>1. ASSUME NEW t \in Tasks, ~InCall(t), Register(t) PROVE Ledger!LedgerNext
  <2>1. nextId \in Ids
    BY <1>1, <1>t DEF Register, TypeOK
  <2>2. outcome[nextId] = "unused"
    BY <2>1 DEF RpcInv, FreshIsUnknown
  <2>3. Ledger!Open(nextId)
    BY <1>1, <2>2 DEF Register, Ledger!Open
  <2> QED
    BY <2>1, <2>3
<1>2. ASSUME NEW t \in Tasks, CallStep(t)
      PROVE  Ledger!LedgerNext \/ UNCHANGED Ledger!ledgerVars
  <2>1. CASE Call(t)
    BY <2>1, <1>1 DEF Call
  <2>2. CASE SendOk(t)
    BY <2>2 DEF SendOk
  <2>3. CASE SendFails(t) \/ CallTimeout(t)
    <3>1. req[t] \in Ids /\ outcome[req[t]] = "open"
      BY <2>3 DEF SendFails, CallTimeout, RpcInv, CallIsOpen
    <3>2. Ledger!Raise(req[t])
      BY <2>3, <3>1 DEF SendFails, CallTimeout, Leave, Ledger!Raise
    <3> QED
      BY <3>1, <3>2
  <2>4. CASE Resume(t)
    <3>1. req[t] \in Ids /\ outcome[req[t]] = "open"
      BY <2>4 DEF Resume, RpcInv, CallIsOpen
    <3>2. CASE future[req[t]] = "cancelled"
      BY <2>4, <3>1, <3>2 DEF Resume, Leave, Ledger!Raise
    <3>3. CASE future[req[t]] \in {"result", "error"}
      <4>1. req[t] \in answered
        BY <3>1, <3>3 DEF RpcInv, AnswersAreRecorded
      <4> QED
        BY <2>4, <3>1, <3>3, <4>1 DEF Resume, Leave, Ledger!ReturnAnswer
    <3> QED
      BY <2>4, <3>2, <3>3 DEF Resume
  <2> QED
    BY <1>2, <2>1, <2>2, <2>3, <2>4 DEF CallStep
<1>3. ASSUME NEW t \in Tasks, ConnectStep(t)
      PROVE  Ledger!LedgerNext \/ UNCHANGED Ledger!ledgerVars
  BY <1>1, <1>3 DEF ConnectStep, ConnectBegin, Spawned, SpawnFails
<1>4. ASSUME NEW t \in Tasks, CloseStep(t) PROVE UNCHANGED Ledger!ledgerVars
  BY <1>4 DEF CloseStep, CloseAtOnce, CloseBegin, CloseEnd, CloseKill, CloseRaises
<1>5. ASSUME NEW p \in Procs, ReaderStep(p) PROVE UNCHANGED Ledger!ledgerVars
  BY <1>5 DEF ReaderStep, ReadResponse, ReadEvent, CallbackReturns, ReaderEof,
              ReaderCrashes, ReaderCancelled, ReaderEnds
<1>6. ASSUME NEW p \in Procs, ServerStep(p)
      PROVE  Ledger!LedgerNext \/ UNCHANGED Ledger!ledgerVars
  <2>1. ASSUME NEW i \in Ids, NEW kind \in {"result", "error"}, Answer(p, i, kind)
        PROVE  Ledger!LedgerNext \/ UNCHANGED Ledger!ledgerVars
    <3>1. outcome[i] # "unused"
      BY <2>1, <1>t DEF Answer, RpcInv, FreshIsUnknown, IssuedIsRecorded, TypeOK
    <3> QED
      BY <2>1, <3>1 DEF Answer, Ledger!Answer
  <2>2. CASE Emit(p) \/ Exit(p)
    BY <2>2 DEF Emit, Exit
  <2> QED
    BY <1>6, <2>1, <2>2 DEF ServerStep
<1>7. CASE UNCHANGED vars
  BY <1>7 DEF vars
<1> QED
  BY <1>2, <1>3, <1>4, <1>5, <1>6, <1>7 DEF Next

\* Every behaviour of the client is one of CallLedger: a call comes back at most
\* once, and with an answer only if a server answered that request.
THEOREM Refinement == Spec => ImplementsLedger
<1>1. Init => Ledger!LedgerInit
  BY DEF Init, Ledger!LedgerInit
<1>2. RpcInv /\ [Next]_vars => [Ledger!LedgerNext]_(Ledger!ledgerVars)
  BY StepRefines
<1> QED
  BY <1>1, <1>2, InvHolds, PTL DEF Spec, ImplementsLedger, Ledger!LedgerSafety
-----------------------------------------------------------------------------
(* One task in connect and close                                           *)

OneOwner == \A t, u \in Lifecycle : t = u

OwnersOnly == \A t \in Tasks : pc[t] \in {"spawning", "closing"} => t \in Lifecycle
CloseDisconnects == \A t \in Tasks : pc[t] = "closing" => ~connected
ReaderInv == TypeOK /\ OwnersOnly /\ CloseDisconnects /\ ConnectedHasReader

\* A step that no part of connect, close or the readers takes.
ConnUntouched ==
  /\ UNCHANGED <<connected, process, readerTask, reader, spawned, target>>
  /\ alive' \subseteq alive
  /\ \A t \in Tasks : pc'[t] = pc[t] \/ pc'[t] \notin {"spawning", "closing"}
  /\ \A t \in Tasks : pc[t] = "closing" => pc'[t] = "closing"

LEMMA CallLeavesConn ==
  ASSUME TypeOK, NEW t \in Tasks, CallStep(t)
  PROVE  ConnUntouched
<1> USE DEF connVars, procVars, callVars, taskVars, history, ConnUntouched, TypeOK
<1>1. CASE Call(t)
  BY <1>1 DEF Call, Register
<1>2. CASE SendOk(t)
  BY <1>2 DEF SendOk
<1>3. CASE SendFails(t)
  BY <1>3 DEF SendFails, Leave
<1>4. CASE Resume(t)
  BY <1>4 DEF Resume, Leave
<1>5. CASE CallTimeout(t)
  BY <1>5 DEF CallTimeout, Leave
<1> QED
  BY <1>1, <1>2, <1>3, <1>4, <1>5 DEF CallStep

LEMMA ServerLeavesConn ==
  ASSUME TypeOK, NEW p \in Procs, ServerStep(p)
  PROVE  ConnUntouched
<1> USE DEF connVars, callVars, taskVars, history, ConnUntouched
<1>1. CASE \E i \in Ids, kind \in {"result", "error"} : Answer(p, i, kind)
  BY <1>1 DEF Answer
<1>2. CASE Emit(p) \/ Exit(p)
  BY <1>2 DEF Emit, Exit
<1> QED
  BY <1>1, <1>2 DEF ServerStep

LEMMA StutterLeavesConn == UNCHANGED vars => ConnUntouched
BY DEF vars, connVars, procVars, taskVars, ConnUntouched

\* Only the owner is in connect and close.
LEMMA OwnersKept ==
  ASSUME TypeOK, OwnersOnly, [Next]_vars
  PROVE  OwnersOnly'
<1> USE DEF OwnersOnly, TypeOK
<1>1. ASSUME ConnUntouched PROVE OwnersOnly'
  BY <1>1 DEF ConnUntouched
<1>2. ASSUME NEW t \in Tasks, ConnectStep(t) PROVE OwnersOnly'
  BY <1>2 DEF ConnectStep, ConnectBegin, Spawned, SpawnFails, Register
<1>3. ASSUME NEW t \in Tasks, CloseStep(t) PROVE OwnersOnly'
  BY <1>3 DEF CloseStep, CloseAtOnce, CloseBegin, CloseEnd, CloseKill, CloseRaises, taskVars
<1>4. ASSUME NEW p \in Procs, ReaderStep(p) PROVE OwnersOnly'
  BY <1>4 DEF ReaderStep, ReadResponse, ReadEvent, CallbackReturns, ReaderEof,
              ReaderCrashes, ReaderCancelled, ReaderEnds, taskVars
<1> QED
  BY <1>1, <1>2, <1>3, <1>4, CallLeavesConn, ServerLeavesConn, StutterLeavesConn DEF Next

\* While the owner is in one of connect and close, nobody is in the other.
LEMMA Owner ==
  ASSUME OneOwner, OwnersOnly, NEW t \in Lifecycle, pc[t] # "closing"
  PROVE  \A u \in Tasks : pc[u] # "closing"
BY DEF OneOwner, OwnersOnly

LEMMA ReaderInvNext ==
  ASSUME OneOwner
  PROVE  ReaderInv /\ [Next]_vars => ReaderInv'
<1> SUFFICES ASSUME ReaderInv, [Next]_vars PROVE ReaderInv'
  OBVIOUS
<1>t. TypeOK /\ TypeOK' /\ OwnersOnly /\ OwnersOnly'
  BY NextType, OwnersKept DEF ReaderInv
<1> DEFINE Goal == CloseDisconnects' /\ ConnectedHasReader'
<1> USE DEF CloseDisconnects, ConnectedHasReader, ReaderInv
<1>0. ASSUME ConnUntouched PROVE Goal
  BY <1>0 DEF ConnUntouched
<1>2. ASSUME NEW t \in Tasks, ConnectStep(t) PROVE Goal
  <2>1. CASE ConnectBegin(t) \/ SpawnFails(t)
    BY <1>t, <2>1 DEF ConnectBegin, SpawnFails, connVars, procVars, TypeOK
  <2>2. CASE Spawned(t)
    <3>1. \A u \in Tasks : pc'[u] # "closing"
      <4>1. t \in Lifecycle /\ pc[t] = "spawning"
        BY <1>t, <2>2 DEF Spawned, OwnersOnly
      <4>2. \A u \in Tasks : pc[u] # "closing"
        BY <1>t, <4>1, Owner
      <4> QED
        BY <1>t, <2>2, <4>2 DEF Spawned, Register, TypeOK
    <3>2. reader'[spawned + 1] = "reading" /\ process' = spawned + 1
          /\ readerTask' = spawned + 1 /\ spawned + 1 # 0
      BY <1>t, <2>2 DEF Spawned, TypeOK
    <3> QED
      BY <3>1, <3>2
  <2> QED
    BY <1>2, <2>1, <2>2 DEF ConnectStep
<1>3. ASSUME NEW t \in Tasks, CloseStep(t) PROVE Goal
  <2>1. CASE CloseAtOnce(t) \/ CloseBegin(t)
    BY <2>1 DEF CloseAtOnce, CloseBegin
  <2>2. CASE CloseEnd(t) \/ CloseKill(t) \/ CloseRaises(t)
    <3>1. ~connected /\ connected' = connected
      BY <2>2 DEF CloseEnd, CloseKill, CloseRaises, connVars
    <3> QED
      BY <3>1
  <2> QED
    BY <1>3, <2>1, <2>2 DEF CloseStep
<1>4. ASSUME NEW p \in Procs, ReaderStep(p) PROVE Goal
  <2>1. CASE ReadResponse(p) \/ ReadEvent(p) \/ CallbackReturns(p)
    <3>1. UNCHANGED <<connected, readerTask, process, pc>>
      BY <2>1 DEF ReadResponse, ReadEvent, CallbackReturns, connVars, taskVars
    <3>2. reader' = reader \/ reader' = [reader EXCEPT ![p] = "callback"]
          \/ reader' = [reader EXCEPT ![p] = "reading"]
      BY <2>1 DEF ReadResponse, ReadEvent, CallbackReturns
    <3>3. connected => readerTask \in Procs
      BY <1>t DEF TypeOK
    <3> QED
      BY <1>t, <3>1, <3>2, <3>3 DEF TypeOK
  <2>2. CASE ReaderEof(p) \/ ReaderCrashes(p) \/ ReaderCancelled(p)
    BY <2>2 DEF ReaderEof, ReaderCrashes, ReaderCancelled, ReaderEnds
  <2> QED
    BY <1>4, <2>1, <2>2 DEF ReaderStep
<1>5. Goal
  BY <1>t, <1>0, <1>2, <1>3, <1>4, CallLeavesConn, ServerLeavesConn, StutterLeavesConn
  DEF Next
<1> QED
  BY <1>t, <1>5

\* If one task at a time connects and closes the client, a client that says it
\* is connected can receive answers, whatever callbacks raise and however late
\* a cancelled reader ends.
THEOREM ConnectedIsRead ==
  ASSUME OneOwner
  PROVE  Spec => []ConnectedHasReader
<1>1. Init => ReaderInv
  BY InitType DEF Init, ReaderInv, OwnersOnly, CloseDisconnects, ConnectedHasReader
<1>2. ReaderInv /\ [Next]_vars => ReaderInv'
  BY ReaderInvNext
<1>3. ReaderInv => ConnectedHasReader
  BY DEF ReaderInv
<1> QED
  BY <1>1, <1>2, <1>3, PTL DEF Spec

\* What else is so when callbacks neither raise nor linger.
Calm == ~connected /\ \A t \in Tasks : pc[t] # "closing"
Reads(p) == reader[p] \in {"reading", "callback"}

ConnectsFromCalm == \A t \in Tasks : pc[t] = "spawning" => ~connected
CalmIsEmpty == Calm => alive = {} /\ \A p \in Procs : ~ Reads(p)
OneReader == \A p \in Procs : Reads(p) => p = readerTask
NoneLingers == \A p \in Procs : reader[p] = "cancelling" => Calm
ClosesItsOwn ==
  \A t \in Tasks : pc[t] = "closing" => target[t] = process /\ process # 0

OwnerInv ==
  /\ ReaderInv /\ ConnectsFromCalm /\ CalmIsEmpty /\ OneReader /\ NoneLingers
  /\ ClosesItsOwn /\ NoOrphanProcess

LEMMA UntouchedKeepsOwner ==
  ASSUME OwnerInv, ReaderInv', ConnUntouched
  PROVE  OwnerInv'
<1> USE DEF OwnerInv, ConnUntouched, Reads
<1>1. Calm' <=> Calm
  BY DEF Calm
<1>2. ConnectsFromCalm' /\ ClosesItsOwn' /\ NoOrphanProcess'
  BY DEF ConnectsFromCalm, ClosesItsOwn, NoOrphanProcess
<1>3. CalmIsEmpty' /\ OneReader' /\ NoneLingers'
  BY <1>1 DEF CalmIsEmpty, OneReader, NoneLingers
<1> QED
  BY <1>2, <1>3

LEMMA ConnectKeepsOwner ==
  ASSUME OneOwner, ~CancelLingers, OwnerInv, ReaderInv', NEW t \in Tasks, ConnectStep(t)
  PROVE  OwnerInv'
<1>t. TypeOK /\ TypeOK' /\ OwnersOnly
  BY DEF OwnerInv, ReaderInv
<1>1. CASE SpawnFails(t)
  <2>1. ConnUntouched
    BY <1>1, <1>t DEF SpawnFails, ConnUntouched, connVars, procVars, TypeOK
  <2> QED
    BY <2>1, UntouchedKeepsOwner
<1>2. CASE ConnectBegin(t)
  <2>0. pc' = [pc EXCEPT ![t] = "spawning"] /\ pc[t] = "idle" /\ ~connected
        /\ UNCHANGED <<connected, process, readerTask, reader, alive, target>>
    BY <1>2 DEF ConnectBegin, connVars, procVars
  <2>1. \A u \in Tasks : pc'[u] = "closing" <=> pc[u] = "closing"
    BY <1>t, <2>0 DEF TypeOK
  <2>2. Calm' <=> Calm
    BY <2>0, <2>1 DEF Calm
  <2>3. ConnectsFromCalm' /\ ClosesItsOwn' /\ NoOrphanProcess'
    BY <2>0, <2>1 DEF OwnerInv, ConnectsFromCalm, ClosesItsOwn, NoOrphanProcess
  <2>4. CalmIsEmpty' /\ OneReader' /\ NoneLingers'
    BY <2>0, <2>2 DEF OwnerInv, CalmIsEmpty, OneReader, NoneLingers, Reads
  <2> QED
    BY <2>3, <2>4 DEF OwnerInv
<1>3. CASE Spawned(t)
  <2>0. /\ t \in Lifecycle /\ pc[t] = "spawning" /\ ~connected
    BY <1>t, <1>3 DEF Spawned, OwnerInv, OwnersOnly, ConnectsFromCalm
  <2>1. \A u \in Tasks : pc[u] # "closing"
    BY <1>t, <2>0, Owner
  <2>2. alive = {} /\ \A p \in Procs : ~ Reads(p) /\ reader[p] # "cancelling"
    BY <1>3, <2>0, <2>1 DEF Spawned, OwnerInv, CalmIsEmpty, Calm
  <2>3. /\ process' = spawned + 1 /\ readerTask' = spawned + 1 /\ connected'
        /\ alive' = {spawned + 1} /\ target' = target
        /\ reader' = [reader EXCEPT ![spawned + 1] = "reading"]
        /\ pc' = [pc EXCEPT ![t] = "sending"]
    BY <1>3, <2>2 DEF Spawned, Register
  <2>4. \A u \in Tasks : pc'[u] \notin {"spawning", "closing"}
    <3>1. \A u \in Tasks : pc[u] = "spawning" => u = t
      BY <1>t, <2>0 DEF OwnersOnly, OneOwner
    <3> QED
      BY <1>t, <2>1, <2>3, <3>1 DEF TypeOK
  <2>5. \A p \in Procs : p # spawned + 1 => ~ Reads(p)' /\ reader'[p] # "cancelling"
    BY <1>t, <2>2, <2>3 DEF TypeOK, Reads
  <2>6. \A p \in Procs : reader'[p] # "cancelling"
    BY <1>t, <2>3, <2>5 DEF TypeOK
  <2>7. ConnectsFromCalm' /\ ClosesItsOwn' /\ NoOrphanProcess'
    BY <2>3, <2>4 DEF ConnectsFromCalm, ClosesItsOwn, NoOrphanProcess
  <2>8. CalmIsEmpty' /\ OneReader' /\ NoneLingers'
    BY <2>3, <2>5, <2>6 DEF CalmIsEmpty, Calm, OneReader, NoneLingers
  <2> QED
    BY <2>7, <2>8 DEF OwnerInv
<1> QED
  BY <1>1, <1>2, <1>3 DEF ConnectStep

\* The end of close(): the process is gone and its reader is cancelled.
LEMMA DropKeepsOwner ==
  ASSUME OwnerInv, ReaderInv', DropEverything, alive = {}, alive' = {}, ~connected',
         \A t \in Tasks : pc'[t] # "closing"
  PROVE  OwnerInv'
<1>0. TypeOK /\ readerTask' = readerTask /\ process' = 0
      /\ reader' = [reader EXCEPT ![readerTask] =
                      IF @ \in {"reading", "callback"} THEN "cancelling" ELSE @]
  BY DEF OwnerInv, ReaderInv, DropEverything, CancelReader
<1>1. \A p \in Procs : ~ Reads(p)'
  BY <1>0 DEF OwnerInv, OneReader, Reads, TypeOK
<1>2. Calm'
  BY DEF Calm
<1>3. ClosesItsOwn' /\ NoOrphanProcess' /\ ConnectsFromCalm'
  BY DEF ClosesItsOwn, NoOrphanProcess, ConnectsFromCalm
<1>4. CalmIsEmpty' /\ OneReader' /\ NoneLingers'
  BY <1>1, <1>2 DEF CalmIsEmpty, OneReader, NoneLingers
<1> QED
  BY <1>3, <1>4 DEF OwnerInv

LEMMA CloseKeepsOwner ==
  ASSUME OneOwner, OwnerInv, ReaderInv', NEW t \in Tasks, CloseStep(t)
  PROVE  OwnerInv'
<1>t. TypeOK /\ TypeOK' /\ OwnersOnly /\ CloseDisconnects
  BY DEF OwnerInv, ReaderInv
<1>1. CASE CloseAtOnce(t)
  <2>1. alive = {} /\ alive' = {}
    BY <1>1 DEF CloseAtOnce, OwnerInv, NoOrphanProcess
  <2>2. \A u \in Tasks : pc'[u] # "closing"
    BY <1>1, <1>t, Owner DEF CloseAtOnce, taskVars
  <2> QED
    BY <1>1, <2>1, <2>2, DropKeepsOwner DEF CloseAtOnce, taskVars
<1>2. CASE CloseBegin(t)
  <2>0. /\ t \in Lifecycle /\ pc[t] = "idle" /\ process \in alive /\ connected' = FALSE
        /\ target' = [target EXCEPT ![t] = process] /\ pc' = [pc EXCEPT ![t] = "closing"]
        /\ UNCHANGED <<process, readerTask, reader, alive>>
    BY <1>2 DEF CloseBegin, procVars
  <2>1. \A u \in Tasks : pc[u] # "closing"
    BY <1>t, <2>0, Owner
  <2>2. connected /\ \A p \in Procs : reader[p] # "cancelling"
    BY <2>0, <2>1 DEF OwnerInv, CalmIsEmpty, NoneLingers, Calm
  <2>3. pc'[t] = "closing" /\ target'[t] = process /\ process # 0
        /\ \A u \in Tasks : pc'[u] = "closing" => u = t
    BY <1>t, <2>0, <2>1 DEF TypeOK
  <2>4. ~ Calm'
    BY <2>3 DEF Calm
  <2>5. ConnectsFromCalm' /\ ClosesItsOwn' /\ NoOrphanProcess'
    BY <2>0, <2>3 DEF OwnerInv, ConnectsFromCalm, ClosesItsOwn, NoOrphanProcess
  <2>6. CalmIsEmpty' /\ OneReader' /\ NoneLingers'
    BY <2>0, <2>2, <2>4 DEF OwnerInv, CalmIsEmpty, OneReader, NoneLingers, Reads
  <2> QED
    BY <2>5, <2>6 DEF OwnerInv
<1>3. ASSUME pc[t] = "closing"
      PROVE  /\ t \in Lifecycle /\ target[t] = process /\ process # 0 /\ ~connected
             /\ \A u \in Tasks : pc[u] \in {"spawning", "closing"} => u = t
  BY <1>3, <1>t DEF OwnerInv, OwnersOnly, CloseDisconnects, ClosesItsOwn, OneOwner
<1>4. CASE CloseEnd(t)
  <2>0. /\ pc[t] = "closing" /\ target[t] \notin alive /\ DropEverything
        /\ pc' = [pc EXCEPT ![t] = "idle"] /\ alive' = alive /\ connected' = connected
    BY <1>4 DEF CloseEnd
  <2>1. alive = {} /\ ~connected
    BY <1>3, <2>0 DEF OwnerInv, NoOrphanProcess
  <2>2. \A u \in Tasks : pc'[u] # "closing"
    BY <1>t, <1>3, <2>0 DEF TypeOK
  <2> QED
    BY <2>0, <2>1, <2>2, DropKeepsOwner
<1>5. CASE CloseKill(t)
  <2>0. /\ pc[t] = "closing" /\ alive' = alive \ {process} /\ pc' = pc
        /\ target' = [target EXCEPT ![t] = process]
        /\ UNCHANGED <<connected, process, readerTask, reader>>
    BY <1>5 DEF CloseKill, connVars
  <2>1. Calm' <=> Calm
    BY <2>0 DEF Calm
  <2>2. ConnectsFromCalm' /\ NoOrphanProcess'
    BY <2>0 DEF OwnerInv, ConnectsFromCalm, NoOrphanProcess
  <2>3. ClosesItsOwn'
    BY <1>t, <1>3, <2>0 DEF ClosesItsOwn, TypeOK
  <2>4. CalmIsEmpty' /\ OneReader' /\ NoneLingers'
    BY <2>0, <2>1 DEF OwnerInv, CalmIsEmpty, OneReader, NoneLingers, Reads
  <2> QED
    BY <2>2, <2>3, <2>4 DEF OwnerInv
<1>6. CASE CloseRaises(t)
  BY <1>3, <1>6 DEF CloseRaises
<1> QED
  BY <1>1, <1>2, <1>4, <1>5, <1>6 DEF CloseStep

LEMMA ReaderKeepsOwner ==
  ASSUME OneOwner, ~CallbackRaises, OwnerInv, ReaderInv', NEW p \in Procs, ReaderStep(p)
  PROVE  OwnerInv'
<1>t. TypeOK /\ TypeOK' /\ ConnectedHasReader
  BY DEF OwnerInv, ReaderInv
<1>1. CASE ReadResponse(p) \/ ReadEvent(p) \/ CallbackReturns(p)
  <2>1. UNCHANGED <<connected, readerTask, process, alive, pc, target>>
    BY <1>1 DEF ReadResponse, ReadEvent, CallbackReturns, connVars, taskVars
  <2>2. \/ reader' = reader
        \/ Reads(p) /\ reader' = [reader EXCEPT ![p] = "callback"]
        \/ Reads(p) /\ reader' = [reader EXCEPT ![p] = "reading"]
    BY <1>1 DEF ReadResponse, ReadEvent, CallbackReturns, Reads
  <2>3. \A q \in Procs : (Reads(q)' <=> Reads(q))
                         /\ (reader'[q] = "cancelling" <=> reader[q] = "cancelling")
    <3>1. reader \in [Procs -> ReaderStates]
      BY <1>t DEF TypeOK
    <3>2. ASSUME NEW q \in Procs, q # p PROVE reader'[q] = reader[q]
      BY <2>2, <3>1, <3>2
    <3>3. \/ reader' = reader
          \/ Reads(p) /\ (reader'[p] = "callback" \/ reader'[p] = "reading")
      BY <2>2, <3>1
    <3> QED
      BY <3>2, <3>3 DEF Reads
  <2>4. Calm' <=> Calm
    BY <2>1 DEF Calm
  <2>5. ConnectsFromCalm' /\ ClosesItsOwn' /\ NoOrphanProcess'
    BY <2>1 DEF OwnerInv, ConnectsFromCalm, ClosesItsOwn, NoOrphanProcess
  <2>6. CalmIsEmpty' /\ OneReader' /\ NoneLingers'
    BY <2>1, <2>3, <2>4 DEF OwnerInv, CalmIsEmpty, OneReader, NoneLingers
  <2> QED
    BY <2>5, <2>6 DEF OwnerInv
<1>2. ASSUME ReaderEnds(p), reader[p] = "cancelling" \/ (Reads(p) /\ p \notin alive)
      PROVE  OwnerInv'
  <2>0. /\ reader' = [reader EXCEPT ![p] = "ended"] /\ connected' = FALSE
        /\ UNCHANGED <<process, readerTask, alive, pc, target>>
    BY <1>2 DEF ReaderEnds, taskVars
  <2>1. \A q \in Procs : /\ Reads(q)' => Reads(q) /\ q # p
                         /\ reader'[q] = "cancelling" => reader[q] = "cancelling"
    BY <1>t, <2>0 DEF TypeOK, Reads
  <2>2. CalmIsEmpty'
    <3> SUFFICES ASSUME Calm' PROVE alive' = {} /\ \A q \in Procs : ~ Reads(q)'
      BY DEF CalmIsEmpty
    <3>1. CASE Calm
      BY <2>0, <2>1, <3>1 DEF OwnerInv, CalmIsEmpty
    <3>2. CASE ~Calm
      <4>1. connected
        BY <2>0, <3>2 DEF Calm
      <4>2. Reads(p) /\ p \notin alive
        BY <1>2, <3>2 DEF OwnerInv, NoneLingers
      <4>3. p = readerTask /\ readerTask = process
        BY <1>t, <4>1, <4>2 DEF OwnerInv, OneReader, ConnectedHasReader
      <4> QED
        BY <2>0, <2>1, <4>2, <4>3 DEF OwnerInv, OneReader, NoOrphanProcess
    <3> QED
      BY <3>1, <3>2
  <2>3. OneReader'
    BY <2>0, <2>1 DEF OwnerInv, OneReader
  <2>4. Calm => Calm'
    BY <2>0 DEF Calm
  <2>5. NoneLingers'
    BY <2>1, <2>4 DEF OwnerInv, NoneLingers
  <2>6. ConnectsFromCalm' /\ ClosesItsOwn' /\ NoOrphanProcess'
    BY <2>0 DEF OwnerInv, ConnectsFromCalm, ClosesItsOwn, NoOrphanProcess
  <2> QED
    BY <2>2, <2>3, <2>5, <2>6 DEF OwnerInv
<1>3. CASE ReaderEof(p)
  BY <1>2, <1>3 DEF ReaderEof, Reads
<1>4. CASE ReaderCancelled(p)
  BY <1>2, <1>4 DEF ReaderCancelled
<1>5. CASE ReaderCrashes(p)
  BY <1>5 DEF ReaderCrashes
<1> QED
  BY <1>1, <1>3, <1>4, <1>5 DEF ReaderStep

\* If besides no callback raises, and a cancelled reader is over before the
\* next process is spawned, every process that runs is the one the client
\* names, and can be terminated through it.
THEOREM NoOrphans ==
  ASSUME OneOwner, ~CallbackRaises, ~CancelLingers
  PROVE  Spec => []NoOrphanProcess
<1>1. Init => OwnerInv
  <2> SUFFICES ASSUME Init PROVE OwnerInv
    OBVIOUS
  <2>1. ReaderInv
    BY InitType DEF Init, ReaderInv, OwnersOnly, CloseDisconnects, ConnectedHasReader
  <2>2. alive = {} /\ \A p \in Procs : reader[p] = "none"
    BY DEF Init
  <2>3. \A t \in Tasks : pc[t] = "idle"
    BY DEF Init
  <2> QED
    BY <2>1, <2>2, <2>3 DEF OwnerInv, ConnectsFromCalm, CalmIsEmpty, OneReader,
       NoneLingers, ClosesItsOwn, NoOrphanProcess, Reads
<1>2. OwnerInv /\ [Next]_vars => OwnerInv'
  <2> SUFFICES ASSUME OwnerInv, [Next]_vars PROVE OwnerInv'
    OBVIOUS
  <2>1. ReaderInv' /\ TypeOK
    BY ReaderInvNext DEF OwnerInv, ReaderInv
  <2> QED
    BY <2>1, CallLeavesConn, ServerLeavesConn, StutterLeavesConn, UntouchedKeepsOwner,
       ConnectKeepsOwner, CloseKeepsOwner, ReaderKeepsOwner DEF Next
<1>3. OwnerInv => NoOrphanProcess
  BY DEF OwnerInv
<1> QED
  BY <1>1, <1>2, <1>3, PTL DEF Spec

=============================================================================
