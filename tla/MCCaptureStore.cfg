SPECIFICATION Spec
CONSTANTS
  Sessions = {1, 2}
  Long = {2}
  Clients = {c1}
  Sweeper = sweeper
  Cap = 1
  Quiet = 0
  Starts = {{1, 2}}
  Versions <- mcVersions
  MaxTime = 1
  MaxMishaps = 1
CHECK_DEADLOCK FALSE
INVARIANTS BodyBehindEvent
PROPERTIES Forgotten EventuallyCaptured StubReplaced
