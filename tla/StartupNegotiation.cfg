CONSTANTS
  Minors = {0, 2, 3}
  Auths = {"cleartext"}
  Modes = {"pooled"}
  BackMaxs = {0, 2}
  BackAuths = {"trust"}
  Passwords = {p1, p2}
  Salts = {s1}
  NoPassword = NoPassword
  NoSalt = NoSalt
  NoSecret = NoSecret
  NoFirst = NoFirst
  NoBackend = NoBackend
SPECIFICATION StartupSpec
INVARIANTS RejectedByBackend
CHECK_DEADLOCK FALSE
