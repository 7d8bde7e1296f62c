SPECIFICATION Spec
CONSTANTS
  RoundCap = 2
  MaxAttempts = 2
  PageSize = 3
  Timeouts = TRUE
  EcsExpires = TRUE
  MaxDispatches = 1
  MaxOrphans = 1
  MaxPulls = 1
  MaxReviews = 3
INVARIANTS HandedBack NeverSilent OutcomeIsTrue AnswersAreFresh ClaimsRetired NotWatchedIsSaid
PROPERTY KeepsContract
CHECK_DEADLOCK FALSE
