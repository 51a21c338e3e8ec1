\* One mission with faults finishes.
CONSTANTS
  m1 = m1
  Missions = {m1}
  Threaded = {}
  Started = {m1}
  Fresh = {}
  Hot = {}
  MaxTurns = 1
  AutoRecover = TRUE
  RecoverLimit = 1
  PauseOnApproval = TRUE
  Commands = {}
  Faults = {"launch", "refuse", "timeout", "turn"}
  MaxAccepted = 8
  MaxApprovals = 0
  MaxReplies = 1
  MaxItems = 0
  MaxCommands = 0
  MaxRestarts = 1
  MaxFaults = 1
SPECIFICATION FairSpec
PROPERTIES MissionsFinish ProgressIsSettled
CHECK_DEADLOCK FALSE
