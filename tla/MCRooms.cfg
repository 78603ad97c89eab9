SPECIFICATION RoomSpec
CONSTANTS
  Agents = {1, 2, 3}
  founder = 1
  admin = 2
  Others = {3}
  MaxOps = 3
  MaxFailures = 1
INVARIANTS Convergence AllInformed
PROPERTIES KickHolds
CHECK_DEADLOCK FALSE
