SPECIFICATION MCSpec
CONSTANTS
  none = none
  None = none
  Alarms <- SomeAlarms
  Exports <- SomeExports
  Golden <- GoldenKpis
  Claims <- SomeClaims
  LogProposals <- SomeLogProposals
  Library <- SomeLibrary
  Memory <- SomeMemory
  Selections <- SomeSelections
  Placeholders <- SomePlaceholders
  Allowed <- AllowedArguments
  Annotators = {a1, a2}
  Changes <- SomeChanges
  Desks <- SomeDesks
SYMMETRY AnnotatorSymmetry
INVARIANTS LowIsKnown AnnotatedIsRecorded ReportOmitsNothing AcceptedIsLocated CitationsResolve LinksAreExact ContextIsRelevant ProposalIsBound
PROPERTIES FailuresGradeHigh
CHECK_DEADLOCK FALSE
