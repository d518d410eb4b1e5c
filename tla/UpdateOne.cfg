SPECIFICATION FairSpec
CONSTANTS
  Clients = {c1}
  Pixels = {p1, p2}
  DeferUpdate = TRUE
  Encodings = TRUE
  BrokenEncodings = TRUE
  UnregisterWhenNoConnections = TRUE
INVARIANT MutexProtects
PROPERTIES ImplementsMirror  TrafficEndsOutput
