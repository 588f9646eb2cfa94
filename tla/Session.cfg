SPECIFICATION FairSessionSpec
CONSTANTS ExitCodes = {0, 1}
 LegacyPolls = 0
 SessionModes = {"legacy", "auto"}
INVARIANTS SessionTypeOK SuccessIsEarned SessionIsReal
CHECK_DEADLOCK FALSE
PROPERTY PollSettles
