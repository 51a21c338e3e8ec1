\* A mission with an operator: types and counters.
CONSTANTS
  m1 = m1
  Missions = {m1}
  Threaded = {}
  Started = {m1}
  Fresh = {m1}
  Hot = {m1}
  MaxTurns = 2
  AutoRecover = FALSE
  RecoverLimit = 1
  PauseOnApproval = TRUE
  Commands = {"pause", "resume", "complete", "runNow"}
  Faults = {"refuse"}
  MaxAccepted = 2
  MaxApprovals = 1
  MaxReplies = 0
  MaxItems = 1
  MaxCommands = 1
  MaxRestarts = 0
  MaxFaults = 1
SPECIFICATION Spec
INVARIANTS TypeOK TurnsAreCounted
CHECK_DEADLOCK FALSE
