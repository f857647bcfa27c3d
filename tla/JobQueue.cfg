\* Two jobs, two workers, one loss; no symmetry, because a liveness property is checked.
SPECIFICATION FairSpec
CONSTANTS
  Jobs = {j1, j2}
  Workers = {w1, w2}
  Nobody = Nobody
  Gone = Gone
  MaxAttempts = 2
  MaxClaims = 6
  MaxCrashes = 1
  MaxRetries = 1
CHECK_DEADLOCK FALSE
INVARIANTS OneRunner AttemptsAccounted
PROPERTY EveryJobEnds
