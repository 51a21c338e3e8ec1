\* One task connects and closes the client; callbacks return normally.
CONSTANTS
  Lifecycle = {owner}
  Callers = {c1, c2}
  owner = owner
  c1 = c1
  c2 = c2
  MaxProc = 3
  MaxId = 3
  MaxEvents = 1
  CallbackRaises = FALSE
  CancelLingers = FALSE
SPECIFICATION Spec
SYMMETRY Interchangeable
INVARIANTS ConnectedHasReader 
