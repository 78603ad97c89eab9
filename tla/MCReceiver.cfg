SPECIFICATION Spec
CONSTANTS
  Mailboxes <- mcMailboxes
  PageSize = 2
  Hwm = 1
  MaxPulls = 1
  MaxMishaps = 1
CHECK_DEADLOCK FALSE
INVARIANTS StrictCursor 
 
