SPECIFICATION Spec
CONSTANTS
  Incidents = {inc1}
  Operators = {op1}
  Desk <- SharedDesk
  Proposals = {restart}
  Acting = {restart}
  Textual = {restart}
  NoProposal = NoProposal
  KeyShapes = {"scalar"}
  Covered = {}
  Faults = {}
  MaxCalls = 3
INVARIANT RejectCloses
CHECK_DEADLOCK FALSE
