SPECIFICATION FairSpec
CONSTANTS
  d1 = d1
  None = None
  Dates <- MCDates
  SuffixSpace = 1
  Keys = {k1}
  OperatorOrigins = {"manual"}
  Handlers = {h1}
  LegacyRuns <- NoLegacy
  LegacyStatus = {}
  LegacyStarted = {1}
  MaxRestarts = 0
  MaxClock = 1
  Events = {"giveup", "paid"}
PROPERTIES DateComesFree
