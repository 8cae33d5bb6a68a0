CONSTANTS
  Minors = {0, 2, 3}
  Auths = {"passthrough", "cleartext", "scram"}
  Modes = {"direct", "pooled", "custom"}
  BackMaxs = {0, 2}
  BackAuths = {"trust", "cleartext", "scram", "md5"}
  Passwords = {p1, p2}
  Salts = {s1, s2}
  NoPassword = NoPassword
  NoSalt = NoSalt
  NoSecret = NoSecret
  NoFirst = NoFirst
  NoBackend = NoBackend
SPECIFICATION StartupFairSpec
INVARIANTS
  TlsFirst VerifiedFirst RightAccepted KeysReusable OneCompletion KeyMediated VersionAgrees
  KeyFitsVersion
PROPERTIES StartupEnds
CHECK_DEADLOCK FALSE
