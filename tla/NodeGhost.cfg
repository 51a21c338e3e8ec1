\* Two syncs overlap: a deleted lane.
CONSTANTS
  s1 = s1
  s2 = s2
  r1 = r1
  run = run
  Nodes = {1, 2}
  Conns = {1, 2}
  Sessions = {}
  Commands = {run}
  Requests = {r1}
  Owner <- MCOwner
  Target <- MCTarget
  Command <- MCCommand
  Key <- MCKey
  Foreground = {}
  NoConn = NoConn
  MaxQueue = 1
  Syncs = {s1, s2}
SPECIFICATION Spec
INVARIANTS SyncSettles
