\* One seat, two passengers, a departure that leaves and a process that dies.
SPECIFICATION FairSpec
CONSTANTS
  MaxEntries = 2
  Wants <- OneEach
  Capacity = 1
  MaxHolds = 2
  MaxAttempts = 1
  Limit = 1
  MaxCalls = 1
  Departs = TRUE
  Crashes = TRUE
PROPERTIES SweepReaches OrphansCollected
CHECK_DEADLOCK FALSE
