SPECIFICATION Spec
CONSTANTS
  Contacts <- mcContacts
  Messages <- mcMessages
  ContactOf <- mcContactOf
  ThreadOf <- mcThreadOf
  Recency = 1
  Stale = 1
  Structural = 1
  Hourly = 1
  Retention = 2
  HourlyCap = 2
  DailyCap = 2
  GlobalCap = 2
  LedgerCap = 2
  MaxTime = 2
  MaxMishaps = 2
CHECK_DEADLOCK FALSE
INVARIANTS AnsweredOnce BudgetHeld ConfirmedWasSent
PROPERTY NeverStranded
