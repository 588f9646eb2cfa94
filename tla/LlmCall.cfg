SPECIFICATION Spec
CONSTANTS
  r1 = r1
  p1 = p1
  t1 = t1
  t2 = t2
  None = None
  Runs <- OneRun
  Keys = {k1}
  Payloads = {q1, q2}
  Calls = {c1, c2, c3}
  Budget <- Budget3
  Opening <- NoSpend
  Bounds = {2}
  Charges = {0, 1, 3}
  Estimates = {1, 3}
  Attested = {0, 3}
  Periods = {}
  Cap <- NoPeriod
  Times = {t1}
  Window <- NoPeriod
  Environment = {"abandon", "d1"}
INVARIANTS TypeOK OneInvocation ChargeIsCounted SettledIsTrue AnswersAgree
PROPERTIES ReconciledIsFinal DecidesOnWhatIsSeen
SYMMETRY CallSymmetry
CHECK_DEADLOCK FALSE
