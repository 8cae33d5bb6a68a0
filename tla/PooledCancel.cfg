CONSTANTS
  c1 = c1
  c2 = c2
  r1 = r1
  Clients = {c1, c2}
  Conns = {b1, b2, b3}
  Roles = {r1}
  RoleOf <- MCRoleOf
  NumReplicas = 2
  MaxSize = 1
  NoClient = NoClient
  NoId = NoId
  Modes = {"transaction", "session"}
  Resets = {TRUE}
  MaxPipeline = 1
  MaxInbox = 1
  MaxWire = 2
  MaxCancels = 1
  NoConn = NoConn
  Faults = {"crash", "abort", "error"}
SPECIFICATION Spec
SYMMETRY Symmetry
INVARIANTS OwnReplies SlotTracksLease StatementCancellable LateCancelSpares
