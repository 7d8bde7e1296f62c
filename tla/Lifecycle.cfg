SPECIFICATION FairSpec
CONSTANTS
  s1 = s1
  s2 = s2
  Stories = {s1}
  MaxMoves = 2
  MaxRuns = 2
  MaxRestarts = 1
  TrackerFaults = TRUE
  TemporalFaults = TRUE
  LostReplies = TRUE
INVARIANTS OneDispatch InProgressIsExplained
PROPERTIES RunsEnd
CHECK_DEADLOCK FALSE
