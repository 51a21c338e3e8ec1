\* Two tasks connect and close one client while a third calls, against a
\* server that may stay silent and a callback that may raise.
CONSTANTS
  Lifecycle = {own1, own2}
  Callers = {c1}
  own1 = own1
  own2 = own2
  c1 = c1
  MaxProc = 2
  MaxId = 2
  MaxEvents = 1
  CallbackRaises = TRUE
  CancelLingers = TRUE
SPECIFICATION FairSpec
INVARIANTS WaiterIsRegistered PendingIsAccountedFor
PROPERTIES ImplementsLedger  CloseEnds
