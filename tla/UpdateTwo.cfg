SPECIFICATION Spec
CONSTANTS
  Clients = {c1, c2}
  Pixels = {p1}
  DeferUpdate = TRUE
  Encodings = FALSE
  BrokenEncodings = FALSE
  UnregisterWhenNoConnections = TRUE
INVARIANT NoUseAfterFree
PROPERTY DamageIsOwed
SYMMETRY Symmetry
