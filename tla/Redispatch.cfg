SPECIFICATION Spec
CONSTANTS
  RoundCap = 1
  MaxAttempts = 2
  PageSize = 2
  Timeouts = FALSE
  EcsExpires = FALSE
  MaxDispatches = 2
  MaxOrphans = 1
  MaxPulls = 2
  MaxReviews = 1
INVARIANTS FreshStart EndsAfterItsSpecialist
CHECK_DEADLOCK FALSE
