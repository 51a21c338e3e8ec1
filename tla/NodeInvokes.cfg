\* Three invokes of one node, r2 a retry of r1, against everything else.
CONSTANTS
  n1 = n1
  c1 = c1
  r1 = r1
  r2 = r2
  r3 = r3
  s1 = s1
  present = present
  Nodes = {n1}
  Conns = {c1}
  Sessions = {s1}
  Commands = {present}
  Requests = {r1, r2, r3}
  Owner <- MCOwner
  Target <- MCTarget
  Command <- MCCommand
  Key <- MCKey
  Foreground = {r1, r2, r3}
  NoConn = NoConn
  MaxQueue = 1
SPECIFICATION FairRegistrySpec
INVARIANTS RegistryTypeOK InvokesAreTracked SessionsAreReachable SubscriptionsMirror 
PROPERTIES InvokeLedger
