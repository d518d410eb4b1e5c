SPECIFICATION Spec
CONSTANTS
  c1 = c1
  c2 = c2
  c3 = c3
  h1 = h1
  h2 = h2
  Conns = {c1, c2, c3}
  Reverse = {}
  Hosts = {h1, h2}
  HostOf <- TwoHosts
  PasswdFile = TRUE
  Supplied = FALSE
  AllowNoAuth = FALSE
  MaxAttempts = 1
  NeverShared = FALSE
  AlwaysShared = FALSE
  DontDisconnect = TRUE
INVARIANTS PasswordNeeded FailuresBounded
PROPERTY LockoutHolds
SYMMETRY Symmetry
