SPECIFICATION Spec
CONSTANTS
  r1 = r1
  p1 = p1
  t1 = t1
  t2 = t2
  None = None
  Runs <- OneRun
  Keys = {k1, k2}
  Payloads = {q1}
  Calls = {c1, c2}
  Budget <- Budget5
  Opening <- Spent1
  Bounds = {2, 3}
  Charges = {3}
  Estimates = {1}
  Attested = {0}
  Periods <- OnePeriod
  Cap <- Cap3
  Times = {t1}
  Window <- FirstDay
  Environment = {"run", "provision"}
INVARIANTS RunWithinBudget PeriodWithinCap FencedIsSettled
PROPERTIES ImplementsPaidWork
SYMMETRY MoneySymmetry
CHECK_DEADLOCK FALSE
