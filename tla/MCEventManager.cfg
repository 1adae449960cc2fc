CONSTANTS
  e1 = e1
  e2 = e2
  h1 = h1
  Events = {e1, e2}
  Critical = {e1}
  Handlers = {h1}
  Limit <- MCLimit
  MaxRetries = 2
  BatchSize = 2
  DeadLetterLimit = 2
  DeadLetterKept = 1
SPECIFICATION FairSpec
CHECK_DEADLOCK FALSE
INVARIANTS
  TypeOK
  NoEventLost
  NoSlotLeaks
PROPERTIES
  CompletedStays
  EventsSettle
