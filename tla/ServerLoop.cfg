SPECIFICATION FairSpec
CONSTANTS
  Clients = {c1, c2}
  Listeners = {ip4}
  Displays <- SizesAndDepths
  Reverse = {c2}
  UnregisterWhenNoConnections = TRUE
INVARIANTS RegisteredOnce ScreenAgrees VisitsHeld MutexesReturned
PROPERTIES GeometryChangesInPrivate ScreenFollows
