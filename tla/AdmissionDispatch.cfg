SPECIFICATION Spec
CONSTANTS
  d1 = d1
  None = None
  Dates <- MCDates
  SuffixSpace = 1
  Keys = {k1}
  OperatorOrigins = {"manual"}
  Handlers = {h1, h2}
  LegacyRuns <- NoLegacy
  LegacyStatus = {}
  LegacyStarted = {1}
  MaxRestarts = 1
  MaxClock = 1
  Events = {"evict", "giveup", "replay", "paid"}
INVARIANTS AtMostOneCreate StartedIsReal
PROPERTIES SealedStaysSealed
SYMMETRY HandlerSymmetry
