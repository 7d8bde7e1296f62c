SPECIFICATION RoutingSpec
CONSTANTS
  issue = issue
  ours = ours
  shared = shared
  us = us
  them = them
  TypeOf <- Types
  TeamsOf <- Teams
  Allowed = {us}
  Entities = {issue, ours, shared}
  Statuses <- StatusNames
  Labels <- LabelNames
  Replies = {"found", "part", "refused", "throws"}
  MaxActs = 2
INVARIANTS RoutingTypeOK RoutedAsMeant PresenceFailsClosed
CHECK_DEADLOCK FALSE
