CONSTANTS
  Names <- names
  Placeholders <- placeholders
  Documents <- documents
  Stories <- stories
  MaxAttempts = 2
  MaxEdits = 2
SPECIFICATION Spec
INVARIANTS TargetIsOneRepo OverrideDecides RefusalsAreGrounded RegenerationIsStable TyposCostNothing
CHECK_DEADLOCK FALSE
