SPECIFICATION Spec
CONSTANTS
  RoundCap = 1
  MaxAttempts = 3
  PageSize = 2
  Timeouts = FALSE
  EcsExpires = FALSE
  MaxDispatches = 2
  MaxOrphans = 0
  MaxPulls = 2
  MaxReviews = 1
PROPERTY MergedPullIsThisDispatchs
CHECK_DEADLOCK FALSE
