\* Two seats, two passengers who want both, two calls at once.
SPECIFICATION WaitlistSpec
CONSTANTS
  MaxEntries = 2
  Wants <- TwoEach
  Capacity = 2
  MaxHolds = 2
  MaxAttempts = 2
  Limit = 2
  MaxCalls = 2
  Departs = FALSE
  Crashes = TRUE
INVARIANTS OfferBacked
PROPERTIES ServedInOrder
CHECK_DEADLOCK FALSE
