SPECIFICATION FairSpec
CONSTANTS
  ka = ka
  ga = ga
  Coaches = {ka, ga}
  Order <- Train
  Missing = 0
  Passengers = {p1, p2}
  MaxStanding = 2
  Operators = {o}
  MaxSkips = 1
  Stops = 3
  SeatFrom = 2
  SeatTo = 3
  Capacity = 1
  NoCoach = NoCoach
  Nobody = Nobody
INVARIANT RecordOutlives
INVARIANT CapHolds
INVARIANT CouplingOrder
PROPERTY MadeWhole
CHECK_DEADLOCK FALSE
