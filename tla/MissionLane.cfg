\* Two missions share a lane; m1 may yield it. The poll loop drives them.
CONSTANTS
  m1 = m1
  m2 = m2
  Missions = {m1, m2}
  Threaded = {m1, m2}
  Started = {m1, m2}
  Fresh = {}
  Hot = {m1}
  MaxTurns = 1
  AutoRecover = TRUE
  RecoverLimit = 1
  PauseOnApproval = TRUE
  Commands = {}
  Faults = {}
  MaxAccepted = 6
  MaxApprovals = 0
  MaxReplies = 0
  MaxItems = 0
  MaxCommands = 0
  MaxRestarts = 0
  MaxFaults = 0
SPECIFICATION FairSpec
 
PROPERTIES QueueMoves
CHECK_DEADLOCK FALSE
