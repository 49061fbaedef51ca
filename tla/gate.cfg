SPECIFICATION Spec
CONSTANTS
  Incidents = {inc1}
  Operators = {op1}
  Desk <- SharedDesk
  Proposals = {restart, reseed, observe}
  Acting = {restart, reseed}
  Textual = {restart, observe}
  NoProposal = NoProposal
  KeyShapes = {"scalar", "null", "unhashable"}
  Covered = {}
  Faults = {"edit", "io", "crash", "sandbox", "stub"}
  MaxCalls = 6
INVARIANTS TypeOK AppliedWasApproved FinishedIsRemembered ClosedWasExecuted RecordMatchesGate
PROPERTIES DecisionIsFinal OutcomeIsFinal EpisodesStay
CHECK_DEADLOCK FALSE
