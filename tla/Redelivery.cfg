SPECIFICATION FairSpec
CONSTANTS
  reply = reply
  touch = touch
  epic = epic
  NoDelivery = NoDelivery
  Events = {reply, touch}
  Entities = {epic}
  EntityOf <- OneEntity
  PassOf <- Passes
  SeenCap = 1
  MaxAttempts = 2
  MaxRestarts = 1
INVARIANTS StartsOnce DedupeWindow TimerHoldsLatest DeliveredIsTaken
PROPERTY RepliesAreRead
CHECK_DEADLOCK FALSE
