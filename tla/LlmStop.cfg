SPECIFICATION Spec
CONSTANTS
  r1 = r1
  p1 = p1
  t1 = t1
  t2 = t2
  None = None
  Runs <- OneRun
  Keys = {k1}
  Payloads = {q1}
  Calls = {c1, c2}
  Budget <- Budget4
  Opening <- NoSpend
  Bounds = {2, 5}
  Charges = {0, 3}
  Estimates = {1}
  Attested = {0, 1}
  Periods = {}
  Cap <- NoPeriod
  Times = {t1}
  Window <- NoPeriod
  Environment = {"run"}
INVARIANTS StopReceiptIsReal
SYMMETRY CallSymmetry
CHECK_DEADLOCK FALSE
