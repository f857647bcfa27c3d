\* Two tickets in two coaches, two jobs; a batch of one.
SPECIFICATION Spec
CONSTANTS
  c1 = c1
  c2 = c2
  Tickets = {1, 2}
  Coaches = {c1, c2}
  CoachOf <- OneAndRest
  Trip = Trip
  JobIds = {1, 2}
  Clerks = {k1}
  Batch = 1
  MaxInterruptions = 1
INVARIANTS RefundedOnce EveryoneIsOwed
PROPERTY OwedAreSettled
CHECK_DEADLOCK FALSE
