\* One seat over two segments; no symmetry, because a liveness property is checked.
SPECIFICATION FairSpec
CONSTANTS
  Seats = {s1}
  LastSegment = 1
  Holds = {h1, h2}
  Tickets = {t1, t2}
  MaxSeats = 1
  Free = Free
  Blocked = Blocked
PROPERTY AbandonedSeatsReturn
CHECK_DEADLOCK FALSE
