\* Two seats, two segments, two checkouts, three tickets.
SPECIFICATION Spec
CONSTANTS
  Seats = {s1, s2}
  LastSegment = 1
  Holds = {h1, h2}
  Tickets = {t1, t2, t3}
  MaxSeats = 2
  Free = Free
  Blocked = Blocked
SYMMETRY Symmetry
INVARIANTS RowsMatchRecords NoOversell RefundedBookingIsEmpty
PROPERTY ImplementsLedger
CHECK_DEADLOCK FALSE
