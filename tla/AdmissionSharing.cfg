SPECIFICATION FairSpec
CONSTANTS
  c1 = c1
  c2 = c2
  c3 = c3
  h1 = h1
  h2 = h2
  Conns = {c1, c2, c3}
  Reverse = {c3}
  Hosts = {h1}
  HostOf <- OneHost
  PasswdFile = FALSE
  Supplied = FALSE
  AllowNoAuth = TRUE
  MaxAttempts = 1
  NeverShared = FALSE
  AlwaysShared = FALSE
  DontDisconnect = FALSE
INVARIANTS ExclusiveUse
 
