SPECIFICATION ToolingSpec
CONSTANTS
  Parts = {"stories", "hooks", "policy", "sprint", "install", "agents", "log", "evals", "layout", "commands", "render", "loop", "relay", "roots", "roster", "catalog"}
  StoryRefs <- MCStoryRefs
  EpicNames <- MCEpicNames
  EpicDocs <- MCEpicDocs
  StoryKeys <- MCStoryKeys
  HeadingsOf <- MCHeadingsOf
  Selections <- MCSelections
  MaxRows = 2
  MaxFiles = 1
  MaxEpicFiles = 2
  Installers = {i1, i2}
  HookConfigs <- MCHookConfigs
  HookFiles <- MCHookFiles
  MaxHookEdits = 1
  Docs = {"d1"}
  Budgets = {1, 2}
  Instructions = {FALSE, TRUE}
  MaxSnapshots = 2
  MaxPolicyChanges = 2
  SprintKeys <- MCSprintKeys
  SprintEpics <- MCSprintEpics
  DevStatuses = {"contexted", "done", "doing"}
  PlanSets <- MCPlanSets
  RetroRequests <- MCRetroRequests
  MaxTurns = 3
  Modules = {"m1", "m2"}
  ModuleVars = {"var", "pref"}
  UserVars = {"pref"}
  ConfigValues = {"a", "b"}
  Questions <- MCQuestions
  OldConfigs <- MCOldConfigs
  SkillsIn <- MCSkillsIn
  InstalledSkills = {"s1"}
  MaxSetups = 2
  AgentConfigs <- MCAgentConfigs
  PresetNames = {"p"}
  Levels = {"medium", "high"}
  Tasks = {"dev", "retro"}
  Providers = {"codex", "claude"}
  LogWriters = {w1}
  LogFields = {"topic"}
  MaxCommands = 4
  EvalJobs = {1, 2, 3}
  JobDir <- MCJobDir
  TriggerRuns = {11, 12, 21}
  Queries = {1, 2}
  QueryOf <- MCQueryOf
  ShouldTrigger = {1}
  PoolSize = 2
  Adapters = {"none", "ok"}
  Environments <- MCEnvironments
  BmadConfigs = {"absent", "outside"}
  MaxInstalls = 2
  Workflows = {"session_exit", "artifact", "invalid"}
  MaxPolls = 1
  Documents = {s1, s2}
  MaxWork = 1
  MaxUpdates = 2
  Renderers = {r1, r2}
  SourceFiles = {"workflow.md", "step.md"}
  TokensOf <- MCTokensOf
  CentralLayers <- MCCentralLayers
  SkillLayers <- MCSkillLayers
  FirstCentral <- MCFirstCentral
  FirstSkill <- MCFirstSkill
  MaxEdits = 2
  CreationGates = {"verify", "counts"}
  LoopPolicies <- MCLoopPolicies
  MaxAttempts = 2
  MaxCycles = 2
  MaxStoryFiles = 2
  Hooks = {h1, h2}
  EventSize = 2
  Dirs = {"home", "proj", "nested", "skills"}
  UpFrom <- MCUpFrom
  WorkDirs = {"proj", "nested"}
  SkillDirs = {"skills", "proj"}
  ScriptDirs = {"proj", "home"}
  MaxMakes = 4
  AgentCards <- MCAgentCards
  MemberCards <- MCMemberCards
  ShippedMembers <- MCShippedMembers
  PartyGroups <- MCPartyGroups
  AliasOf <- MCAliasOf
  MaxCastings = 3
  ShippedRows <- MCShippedRows
  Overlays <- MCOverlays
  MaxDraw = 4
INVARIANTS ToolsTypeOK StoriesAreKnown EpicsAreAgreed HookIsInstalled  SprintFileIsKept OutputsAreWhatHappened CommandsAreTruthful
PROPERTIES FilesAreKept StepsAreGrounded
CHECK_DEADLOCK FALSE
