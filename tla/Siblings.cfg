SPECIFICATION Spec
CONSTANTS
  s1 = s1
  s2 = s2
  s3 = s3
  absent = absent
  Absent = absent
  Stories = {s1, s2}
  MaxAttempts = 3
  MaxDispatches = 1
  MaxBase = 1
SYMMETRY Interchangeable
INVARIANTS OwnBranchIsAccepted MergedIsOnDisplay
PROPERTIES CutFromEpic
CHECK_DEADLOCK FALSE
