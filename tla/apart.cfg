SPECIFICATION FairSpec
CONSTANTS
  Incidents = {inc1, inc2}
  Operators = {op1, op2}
  Desk <- OwnDesk
  Proposals = {restart}
  Acting = {restart}
  Textual = {restart}
  NoProposal = NoProposal
  KeyShapes = {"scalar"}
  Covered = {inc2}
  Faults = {}
  MaxCalls = 5
INVARIANTS AppliedAtMostOnce DraftFromResolved
PROPERTIES SettlingFinishes
CHECK_DEADLOCK FALSE
