\* A turn on a fresh thread.
CONSTANTS
  m1 = m1
  Missions = {m1}
  Threaded = {}
  Started = {m1}
  Fresh = {m1}
  Hot = {}
  MaxTurns = 2
  AutoRecover = TRUE
  RecoverLimit = 1
  PauseOnApproval = TRUE
  Commands = {}
  Faults = {}
  MaxAccepted = 4
  MaxApprovals = 0
  MaxReplies = 1
  MaxItems = 0
  MaxCommands = 0
  MaxRestarts = 0
  MaxFaults = 0
SPECIFICATION Spec
INVARIANTS TurnHasThread
CHECK_DEADLOCK FALSE
