SPECIFICATION Spec
CONSTANTS
  d1 = d1
  None = None
  Dates <- MCDates
  SuffixSpace = 2
  Keys = {k1}
  OperatorOrigins = {"manual"}
  Handlers = {h1}
  LegacyRuns <- MCLegacy
  LegacyStatus = {"absent", "running", "published"}
  LegacyStarted = {2}
  MaxRestarts = 0
  MaxClock = 2
  Events = {"giveup"}
INVARIANTS TypeOK AdmissionInv OneScheduledRun ReleasedIsQuiescent PublishedChain
PROPERTIES ImplementsDateLock
