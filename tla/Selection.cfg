SPECIFICATION Spec
CONSTANTS
  Seats = {1, 2, 3, 4, 5, 6}
  CoachOf <- Coach
  RowOf <- Row
  CellOf <- Cell
  LastStop = 3
  Rules <- TwoRules
  Operators = {o1, o2}
  MaxMoves = 3
  Scenes <- AllScenes
  MaxAttempts = 3
INVARIANT Explained
PROPERTY HandPlacedStands
PROPERTY OffersWhatIsOnOffer
PROPERTY AsCloseAsCan
PROPERTY NoSilentLetDown
CHECK_DEADLOCK FALSE
