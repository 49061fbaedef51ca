SPECIFICATION Spec
CONSTANTS
  Incidents = {inc1}
  Operators = {op1}
  Desk <- SharedDesk
  Proposals = {restart}
  Acting = {restart}
  Textual = {restart}
  NoProposal = NoProposal
  KeyShapes = {"scalar"}
  Covered = {}
  Faults = {"edit"}
  MaxCalls = 3
INVARIANT OnlyExecuteApplies
CHECK_DEADLOCK FALSE
