CONSTANTS
  c1 = c1
  c2 = c2
  r1 = r1
  Clients = {c1, c2}
  Conns = {b1, b2}
  Roles = {r1}
  RoleOf <- MCRoleOf
  NumReplicas = 1
  MaxSize = 1
  NoClient = NoClient
  NoId = NoId
  Modes = {"transaction"}
  Resets = {TRUE}
  MaxPipeline = 2
  MaxInbox = 1
  MaxWire = 2
  MaxCancels = 0
  NoConn = NoConn
  Faults = {}
SPECIFICATION Spec
SYMMETRY Symmetry
INVARIANTS CleanIdle
