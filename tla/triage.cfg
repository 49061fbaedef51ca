SPECIFICATION MCSpec
CONSTANTS
  p1 = p1
  p2 = p2
  Actions = {look, good, bad}
  Finalizers = {good, bad}
  Grounded = {good}
  Rewards = {0, 2}
  Bonus <- BonusTable
  NBranches = 2
  MaxRollouts = 3
  MaxDepth = 2
  Analyses = {p1, p2}
  Episodes <- SomeEpisodes
  Incidents <- SomeIncidents
  Torn = {"part", "no newline", "split"}
INVARIANTS StatisticsConserved SearchBounded ResultIsGrounded StoredOncePerAnalysis ReportedIsRemembered SeedsAreBest
PROPERTIES FailedComesLast SearchEndsOnBench
CHECK_DEADLOCK FALSE
