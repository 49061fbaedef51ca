SPECIFICATION Spec
CONSTANTS
  Incidents = {inc1}
  Operators = {op1}
  Desk <- SharedDesk
  Proposals = {restart, reseed, observe}
  Acting = {restart, reseed}
  Textual = {restart, observe}
  NoProposal = NoProposal
  KeyShapes = {"scalar", "null", "unhashable"}
  Covered = {}
  Faults = {"edit", "io", "torn", "sandbox", "stub"}
  MaxCalls = 5
CHECK_DEADLOCK FALSE
INVARIANTS RejectedUntouched HandleLeavesGate
PROPERTY GateSpec
