SPECIFICATION Spec
CONSTANTS
  Runs = {r1}
  Roots = {1, 2}
  RunOfRoot <- MCRunOfRoot
  YoloRuns = {r1}
  MaxRevisions = 1
  Cells = {posture, note}
  HumanCells = {posture}
  Values = {old, new}
  Blank <- MCBlank
  Proposals <- MCProposals
  Confident <- MCConfident
  Evaluations <- MCEvaluations
  MaxDrafts = 3
  Handlers = {h1}
  Passes = {p1}
  Revisers = {v1}
  None = None
  r1 = r1
  posture = posture
  note = note
  old = old
  new = new
CHECK_DEADLOCK FALSE
INVARIANTS GateTypeOK GateIsConsistent
PROPERTIES PublishesWhatWasShown ImplementsPublication
