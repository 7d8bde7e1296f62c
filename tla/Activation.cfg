SPECIFICATION FairSpec
CONSTANTS
  r1 = r1
  r2 = r2
  Runs = {r1, r2}
  MaxPauseContinuations = 1
  MaxStreamRetries = 1
  MaxRestarts = 1
  TrackerFaults = TRUE
INVARIANTS OneVerdict ClaimsRetired CallsAreBounded
PROPERTY RunsConclude
CHECK_DEADLOCK FALSE
