CONSTANTS
  Targets <- targets
  Revisions <- revisions
  MaxTurns = 2
  Drops <- drops
  Unset <- unsets
  Skills <- optional
SPECIFICATION Spec
INVARIANTS ContextIsInput MandatoryAreRead SilenceHadSession
CHECK_DEADLOCK FALSE
