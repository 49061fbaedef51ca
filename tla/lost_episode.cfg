SPECIFICATION Spec
CONSTANTS
  Incidents = {inc1, inc2}
  Operators = {op1, op2}
  Desk <- OwnDesk
  Proposals = {restart}
  Acting = {restart}
  Textual = {restart}
  NoProposal = NoProposal
  KeyShapes = {"scalar"}
  Covered = {}
  Faults = {}
  MaxCalls = 5
PROPERTY EpisodesStay
CHECK_DEADLOCK FALSE
