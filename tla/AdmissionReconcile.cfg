SPECIFICATION Spec
CONSTANTS
  d1 = d1
  None = None
  Dates <- MCDates
  SuffixSpace = 1
  Keys = {k1}
  OperatorOrigins = {"manual"}
  Handlers = {h1}
  LegacyRuns <- NoLegacy
  LegacyStatus = {}
  LegacyStarted = {1}
  MaxRestarts = 1
  MaxClock = 1
  Events = {"giveup"}
PROPERTIES ReconcilesActualStatus
