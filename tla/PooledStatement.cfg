CONSTANTS
  c1 = c1
  c2 = c2
  r1 = r1
  Clients = {c1, c2}
  Conns = {b1}
  Roles = {r1}
  RoleOf <- MCRoleOf
  NumReplicas = 1
  MaxSize = 1
  NoClient = NoClient
  NoId = NoId
  Modes = {"statement"}
  Resets = {TRUE, FALSE}
  MaxPipeline = 1
  MaxInbox = 1
  MaxWire = 2
  MaxCancels = 0
  NoConn = NoConn
  Faults = {"crash", "abort", "dial", "error"}
SPECIFICATION FairSpec
INVARIANTS CleanIdle
PROPERTIES QueryAnswered HangupEnds
