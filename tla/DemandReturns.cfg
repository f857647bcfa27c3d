\* Two segments, three tickets; a maximum that does not split evenly; no symmetry,
\* because a liveness property is checked.
SPECIFICATION FairSpec
CONSTANTS
  LastSegment = 1
  Tickets = {t1, t2, t3}
  Free = Free
  Maximum = 3
INVARIANTS RefundedIsSumOfShares ResaleAlwaysPays OnePayoutPerSale SettledIsPaidInFull
PROPERTIES ClosedIsFinal DepartedRefundsClose
CHECK_DEADLOCK FALSE
