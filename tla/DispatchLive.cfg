SPECIFICATION LiveSpec
CONSTANTS
  RoundCap = 2
  MaxAttempts = 2
  PageSize = 2
  Timeouts = FALSE
  EcsExpires = FALSE
  MaxDispatches = 1
  MaxOrphans = 1
  MaxPulls = 1
  MaxReviews = 2
PROPERTIES Settles DecidedPullEnds RequestsAnswered
CHECK_DEADLOCK FALSE
