SPECIFICATION Spec
CONSTANTS
  Incidents = {inc1}
  Operators = {op1}
  Desk <- SharedDesk
  Proposals = {reseed}
  Acting = {reseed}
  Textual = {}
  NoProposal = NoProposal
  KeyShapes = {"scalar"}
  Covered = {}
  Faults = {}
  MaxCalls = 3
INVARIANT DecidedIsRemembered
CHECK_DEADLOCK FALSE
