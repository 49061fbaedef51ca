SPECIFICATION ImpactSpec
CONSTANTS
  Annotators = {a1}
  Changes <- SomeChanges
  Desks <- SomeDesks
INVARIANT CriticalTrafficIsSeen
CHECK_DEADLOCK FALSE
