\* One connector, one disconnector: what a disconnect does to the runner.
SPECIFICATION RuntimeSpec
CONSTANTS
  Connectors = {i1}
  Disconnectors = {e1}
  MaxClients = 2
  MaxDrains = 1
  MaxEvents = 1
INVARIANT RunnerSurvives
CHECK_DEADLOCK FALSE
