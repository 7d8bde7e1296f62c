SPECIFICATION McpSpec
CONSTANTS
  empty = empty
  a = a
  b = b
  project = project
  x = x
  y = y
  Empty = empty
  Prefixed = {"save_comment"}
  ReadTools = {"get_issue"}
  Calls <- Mixed
  MaxCalls = 3
INVARIANTS  RetriesAreBelieved
CHECK_DEADLOCK FALSE
