SPECIFICATION ServicesSafety
CONSTANTS
  Services = {"hub", "work", "probes", "deliveries", "wakes", "missions", "queue", "runtime", "pairing"}
  Clients = {c1, c2}
  Sockets = {s1, s2, s3}
  Sessions = {k1}
  MaxPublished = 1
  WorkNodes = {n1}
  WorkTypes = {"status.request", "location.request"}
  MaxItems = {1, 2}
  MaxEnqueued = 3
  ProbeNodes = {n1, n2}
  Askers = {a1, a2, a3}
  MaxProbes = 4
  MaxCancels = 2
  Keys = {d1}
  Senders = {p1, p2}
  Replayers = {r1, r2}
  MaxRetries = 2
  MaxCrashes = 1
  MaxAborts = 1
  MaxReplays = 3
  WakeJobs = {w}
  MissionJobs = {m}
  Fleeting = {w}
  Operators = {o}
  MaxMissions = 2
  MaxMishaps = 1
  MaxAsked = 1
  Wakers = {w1, w2}
  WakeTexts = {plain, urgent}
  Urgent = {urgent}
  NowTimers = {t1, t2}
  RetryTimers = {b1, b2}
  Loop = loop
  Nobody = nobody
  MaxUpsets = 1
  Connectors = {i1, i2}
  Disconnectors = {e1}
  MaxClients = 2
  MaxDrains = 3
  MaxEvents = 2
  PairRoles = {"node", "operator"}
  Requesters = {q1}
  Approvers = {v1}
  Keepers = {g1}
  MaxPairIds = 2
  MaxPairDeaths = 1
INVARIANTS
  ServicesTypeOK
  OneProbePerNode
  DirectOnce
  SendsAreCounted
  RowsAreSubmittedOnce
  
  SpentWasRun
  
  ConnectedHasClient
  OneDrain
  AskedRolesStay
  GrantsHaveTokens
PROPERTIES
  SubscriptionsFollowListeners
  RevisionGrows
  DeliveredStays
CHECK_DEADLOCK FALSE
