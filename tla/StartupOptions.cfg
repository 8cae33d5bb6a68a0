CONSTANTS
  c1 = c1
  c2 = c2
  c3 = c3
  r1 = r1
  r2 = r2
  Clients = {c1, c2, c3}
  Conns = {b1, b2}
  Roles = {r1, r2}
  RoleOf <- MCRoleOf
  NumReplicas = 2
  MaxSize = 2
  NoClient = NoClient
  NoId = NoId
SPECIFICATION PoolSpec
INVARIANTS OwnStartup
