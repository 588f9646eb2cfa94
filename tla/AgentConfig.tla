---------------------------- MODULE AgentConfig -----------------------------
(***************************************************************************)
(* Which agent and model run each task of a story: the configuration a     *)
(* user gives, presets of it (commands/agent_config_cmd.py), its copy in   *)
(* the state document (commands/state.py) and the agents plan built from   *)
(* it (commands/orchestrator_epic_agents.py).  core/agent_config.py has a  *)
(* second resolver, which the package offers to its callers.               *)
(*                                                                         *)
(* A JSON object is a function on the keys it has; "FALSE" and "NULL"      *)
(* stand for JSON's false and null, "none" for any sentinel word.          *)
(***************************************************************************)
CONSTANTS AgentConfigs,   \* the configurations users give
          PresetNames,
          Levels, Tasks,  \* complexity levels, and the tasks agents are asked for
          Providers       \* the runtimes the automator may be running under

\* The agents it can start; runtime_provider answers with one of them.
Runtimes == {"codex", "claude"}
ASSUME AgentAssumption == Providers \subseteq Runtimes

VARIABLES given,    \* the configuration of this run
          presets,  \* the presets file: name -> configuration
          stated,   \* the agentConfig block of the state document, NoStateDoc before it is written
          agents,   \* the agents plan: level and task -> selection, NoStateDoc before it is written
          runtimeProvider, \* the runtime provider of the process that asks
          selected  \* the answer of the last agents-resolve or retro-agent

agentVars == <<given, presets, stated, agents, runtimeProvider, selected>>

NoStateDoc == [none |-> "none"]
Empty == [k \in {} |-> k]
Get(object, key, default) == IF key \in DOMAIN object THEN object[key] ELSE default
Truthy(value) == value \notin {"", "FALSE", "NULL"}
Or(value, other) == IF Truthy(value) THEN value ELSE other
WithKey(object, key, value) == [k \in DOMAIN object \cup {key} |-> IF k = key THEN value ELSE object[k]]
Without(object, keys) == [k \in DOMAIN object \ keys |-> object[k]]

NormalizeModel(raw) == IF raw \in {"", "FALSE", "NULL", "none", "auto"} THEN "" ELSE raw

NormalizeFallbackValue(raw) ==
  IF raw \in {"FALSE", "none"} THEN "false" ELSE IF raw = "NULL" THEN "" ELSE raw

ResolvePrimaryAgent(raw) == IF raw \in {"", "NULL", "FALSE", "auto"} THEN runtimeProvider ELSE raw

ResolveFallbackAgent(raw) ==
  IF NormalizeFallbackValue(raw) \in {"", "auto", "false"} THEN "false" ELSE NormalizeFallbackValue(raw)

(***************************************************************************)
(* The resolver of the orchestrator's commands.                            *)
(***************************************************************************)
WithRetro(data) ==
  LET perTask == Get(data, "perTask", Empty)
  IN IF "retro" \in DOMAIN data /\ "retro" \notin DOMAIN perTask THEN WithKey(perTask, "retro", data.retro) ELSE perTask

ParseAgentConfig(data) ==
  LET raw == Get(data, "defaultFallback", Get(data, "fallback", "FALSE")) IN
  [primary |-> Or(Get(data, "defaultPrimary", ""), Or(Get(data, "primary", ""), "auto")),
   fallback |-> IF raw \in {"FALSE", "none"} THEN "false" ELSE Or(raw, "false"),
   model |-> NormalizeModel(Get(data, "defaultModel", "NULL")),
   perTask |-> WithRetro(data),
   overrides |-> Get(data, "complexityOverrides", Empty)]

\* What one entry makes of the selection so far.
Applied(selection, entry) ==
  [primary |-> Get(entry, "primary", selection.primary),
   fallback |-> Get(entry, "fallback", selection.fallback),
   model |-> IF "model" \in DOMAIN entry THEN NormalizeModel(entry.model) ELSE selection.model]

ResolveAgent(config, level, task) ==
  LET default == [primary |-> config.primary, fallback |-> config.fallback, model |-> config.model]
      forTask == Applied(default, Get(config.perTask, task, Empty))
      forLevel == Applied(forTask, Get(Get(config.overrides, level, Empty), task, Empty))
  IN [primary |-> ResolvePrimaryAgent(forLevel.primary),
      fallback |-> ResolveFallbackAgent(forLevel.fallback), model |-> forLevel.model]

(***************************************************************************)
(* The resolver of core/agent_config.py.                                   *)
(***************************************************************************)
\* str() makes words of null and of false.
AsWord(value) == CASE value = "NULL" -> "none" [] value = "FALSE" -> "false" [] OTHER -> value

ParseTaskEntry(raw) ==
  [primary |-> AsWord(Get(raw, "primary", "")), fallback |-> Get(raw, "fallback", "NULL"),
   model |-> IF "model" \in DOMAIN raw THEN NormalizeModel(raw.model) ELSE "NULL"]

ParseTaskMap(raw) == [task \in DOMAIN raw |-> ParseTaskEntry(raw[task])]

ParseAgentConfigJson(data) ==
  LET raw == Get(data, "defaultFallback", Get(data, "fallback", "FALSE"))
      overrides == Get(data, "complexityOverrides", Empty)
  IN [primary |-> Or(Get(data, "defaultPrimary", ""), Or(Get(data, "primary", ""), "auto")),
      fallback |-> Or(NormalizeFallbackValue(raw), "false"),
      model |-> NormalizeModel(Get(data, "defaultModel", "NULL")),
      perTask |-> ParseTaskMap(WithRetro(data)),
      overrides |-> [level \in DOMAIN overrides |-> ParseTaskMap(overrides[level])]]

Overridden(selection, entry) ==
  [primary |-> Or(entry.primary, selection.primary),
   fallback |-> IF entry.fallback = "NULL" THEN selection.fallback ELSE NormalizeFallbackValue(entry.fallback),
   model |-> IF entry.model = "NULL" THEN selection.model ELSE entry.model]

NoEntry == [primary |-> "", fallback |-> "NULL", model |-> "NULL"]
ResolveAgentForTask(config, level, task) ==
  LET default == [primary |-> config.primary, fallback |-> config.fallback, model |-> config.model]
      forTask == Overridden(default, Get(config.perTask, task, NoEntry))
      forLevel == Overridden(forTask, Get(Get(config.overrides, level, Empty), task, NoEntry))
  IN [primary |-> ResolvePrimaryAgent(forLevel.primary),
      fallback |-> ResolveFallbackAgent(forLevel.fallback), model |-> forLevel.model]

(***************************************************************************)
(* The state document's copy.                                              *)
(***************************************************************************)
\* Mutant: a model that is a sentinel is not written at all.
WrittenWithoutSentinels(entry) ==
  [k \in {k \in DOMAIN entry : k = "model" => NormalizeModel(entry.model) # ""} |-> entry[k]]

\* A model line is written when the entry has the key, "" for a sentinel.
WrittenEntry(entry) ==
  [k \in DOMAIN entry |-> IF k = "model" THEN NormalizeModel(entry.model) ELSE entry[k]]
WrittenMap(map) == [task \in DOMAIN map |-> WrittenEntry(map[task])]

\* build-state-doc: the agentConfig block it puts in the front matter.
WrittenConfig(data) ==
  LET fallback == Get(data, "defaultFallback", Get(data, "fallback", "FALSE"))
      primary == Get(data, "defaultPrimary", "NULL")
      overrides == Get(data, "complexityOverrides", Empty)
      block == [defaultPrimary |-> IF primary = "NULL" THEN Or(Get(data, "primary", ""), "auto") ELSE primary,
                defaultFallback |-> IF fallback = "NULL" THEN "FALSE" ELSE fallback,
                perTask |-> WrittenMap(WithRetro(data)),
                complexityOverrides |-> [level \in {l \in DOMAIN overrides : overrides[l] # Empty} |-> WrittenMap(overrides[level])]]
  IN IF "defaultModel" \in DOMAIN data THEN WithKey(block, "defaultModel", NormalizeModel(data.defaultModel)) ELSE block

\* _parse_scalar: an unquoted null comes back as a word, which is a sentinel.
ParseScalar(value) == IF value = "NULL" THEN "none" ELSE value
ReadEntry(entry) == [k \in DOMAIN entry |-> ParseScalar(entry[k])]
ReadMap(map) == [task \in DOMAIN map |-> ReadEntry(map[task])]

Reread(block) ==
  [block EXCEPT !.perTask = ReadMap(@), !.complexityOverrides = [l \in DOMAIN @ |-> ReadMap(@[l])]]

LoadAgentConfigFromState == ParseAgentConfig(IF stated = NoStateDoc THEN Empty ELSE Reread(stated))

\* validate-state accepts a block that states some agent.
HasRuntimeCommandConfig(written) ==
  \/ DOMAIN written \cap {"perTask", "complexityOverrides", "retro"} # {}
  \/ \E key \in DOMAIN written \cap {"defaultPrimary", "defaultFallback"} : written[key] # ""

(***************************************************************************)
(* tmux-wrapper: an environment has AI_AGENT and AI_COMMAND, "" when not   *)
(* set; a command is named after the program it runs.                      *)
(***************************************************************************)
RawAgentSelection(env) ==
  IF env.agent # "" THEN env.agent ELSE IF env.command \in {"codex", "claude"} THEN env.command ELSE "auto"

ResolveAgentSelection(agent) == IF agent \in {"", "auto"} THEN runtimeProvider ELSE agent

\* The agent that spawn records for the session, by which it is watched.
SpawnAgent(asked, env) == ResolveAgentSelection(Or(asked, RawAgentSelection(env)))

AgentCli(agent) == IF agent = "codex" THEN "codex" ELSE "claude"

\* AI_COMMAND replaces the program, unless AI_AGENT is set; codex then loses its model.
BuildCmd(asked, model, env) ==
  LET agent == SpawnAgent(asked, env)
  IN IF env.command # "" /\ env.agent = "" THEN [cli |-> env.command, model |-> ""]
     ELSE [cli |-> AgentCli(agent), model |-> IF agent = "codex" /\ env.command # "" THEN "" ELSE model]

(***************************************************************************)
(* The commands.                                                           *)
(***************************************************************************)
PresetSave(name) ==
  /\ presets' = [n \in DOMAIN presets \cup {name} |-> IF n = name THEN given ELSE presets[n]]
  /\ UNCHANGED <<given, stated, agents, runtimeProvider, selected>>

PresetLoad(name) ==
  /\ name \in DOMAIN presets /\ given' = presets[name]
  /\ stated = NoStateDoc /\ agents = NoStateDoc
  /\ UNCHANGED <<presets, stated, agents, runtimeProvider, selected>>

PresetDelete(name) ==
  /\ name \in DOMAIN presets /\ presets' = Without(presets, {name})
  /\ UNCHANGED <<given, stated, agents, runtimeProvider, selected>>

\* The agentConfig part of build-state-doc.
BuildStateDoc ==
  /\ stated = NoStateDoc /\ stated' = WrittenConfig(given)
  /\ UNCHANGED <<given, presets, agents, runtimeProvider, selected>>

\* A selection without a model has no model key; a false fallback is JSON's.
Selection(chosen) ==
  LET pair == [primary |-> chosen.primary, fallback |-> IF chosen.fallback = "false" THEN "FALSE" ELSE chosen.fallback]
  IN IF chosen.model # "" THEN WithKey(pair, "model", chosen.model) ELSE pair

AgentsBuild ==
  /\ agents = NoStateDoc
  /\ agents' = [level \in Levels |-> [task \in Tasks \ {"retro"} |->
                 Selection(ResolveAgent(ParseAgentConfig(given), level, task))]]
  /\ UNCHANGED <<given, presets, stated, runtimeProvider, selected>>

AgentsResolve(level, task) ==
  /\ agents # NoStateDoc /\ task # "retro"
  /\ LET selection == agents[level][task] IN
     selected' = [level |-> level, task |-> task, primary |-> selection.primary,
                  fallback |-> NormalizeFallbackValue(selection.fallback),
                  model |-> NormalizeModel(Get(selection, "model", "NULL"))]
  /\ UNCHANGED <<given, presets, stated, agents, runtimeProvider>>

RetroAgent ==
  /\ stated # NoStateDoc
  /\ LET chosen == ResolveAgent(LoadAgentConfigFromState, "medium", "retro") IN
     selected' = [level |-> "medium", task |-> "retro", primary |-> chosen.primary,
                  fallback |-> chosen.fallback, model |-> chosen.model]
  /\ UNCHANGED <<given, presets, stated, agents, runtimeProvider>>

AgentInit == /\ given \in AgentConfigs /\ runtimeProvider \in Providers
             /\ presets = Empty /\ stated = NoStateDoc /\ agents = NoStateDoc /\ selected = NoStateDoc

AgentNext == \/ \E name \in PresetNames : PresetSave(name) \/ PresetLoad(name) \/ PresetDelete(name)
             \/ BuildStateDoc \/ AgentsBuild \/ RetroAgent
             \/ \E level \in Levels, task \in Tasks : AgentsResolve(level, task)

AgentSpec == AgentInit /\ [][AgentNext]_agentVars

-----------------------------------------------------------------------------
AgentTypeOK ==
  /\ given \in AgentConfigs /\ DOMAIN presets \subseteq PresetNames
  /\ \A name \in DOMAIN presets : presets[name] \in AgentConfigs
  /\ runtimeProvider \in Providers

\* The entries that decide the agent of a task: the task's own and that of its level.
EntriesOf(data, level, task) ==
  {Get(WithRetro(data), task, Empty), Get(Get(Get(data, "complexityOverrides", Empty), level, Empty), task, Empty)}

\* What decides the agent of a task is stated or left out, never empty or null.
IsStated(entry) == Truthy(Get(entry, "primary", "auto")) /\ Get(entry, "fallback", "") # "NULL"
StatesAgents(data, level, task) ==
  Truthy(Get(data, "defaultPrimary", "auto")) /\ \A entry \in EntriesOf(data, level, task) : IsStated(entry)

\* And it is an agent there is, or a word for the runtime or for no fallback.
Fallbacks == Runtimes \cup {"", "auto", "false", "FALSE", "none"}
NamesAgents(entry) ==
  Get(entry, "primary", "auto") \in Runtimes \cup {"auto"} /\ Get(entry, "fallback", "") \in Fallbacks
StatesRuntimes(data, level, task) ==
  /\ \A key \in {"defaultPrimary", "primary"} : Get(data, key, "auto") \in Runtimes \cup {"auto"}
  /\ \A key \in {"defaultFallback", "fallback"} : Get(data, key, "") \in Fallbacks \cup {"NULL"}
  /\ \A entry \in EntriesOf(data, level, task) : NamesAgents(entry)

\* A task that a configuration states the agents of gets from the state document's copy
\* the agent, the fallback and the model that the configuration gives it, a model cleared
\* by a sentinel included.  An empty or null primary means the runtime to one reader and
\* the inherited agent, or an agent named null, to another.
StatedAgentsAreGiven ==
  stated # NoStateDoc => \A level \in Levels, task \in Tasks :
    StatesAgents(given, level, task) =>
      ResolveAgent(LoadAgentConfigFromState, level, task) = ResolveAgent(ParseAgentConfig(given), level, task)

\* What is answered for such a task, from the plan or from the state document, is what
\* the other resolver of the package makes of the user's configuration.
AnswerIsTheOtherResolvers ==
  selected # NoStateDoc /\ StatesAgents(given, selected.level, selected.task) =>
    Without(selected, {"level", "task"})
      = ResolveAgentForTask(ParseAgentConfigJson(given), selected.level, selected.task)

\* The model that was answered is what the command built for it starts with, and so is the
\* agent, by which the session is watched, when the configuration states runtimes: claude
\* is started for any other.  A command line that the user puts in place of all agents is
\* the only exception (build-cmd, spawn).
AnsweredAgentRuns ==
  selected # NoStateDoc =>
    \A env \in [agent : {"", "auto", "claude"}, command : {"", "claude", "my-agent"}] :
      LET built == BuildCmd(selected.primary, selected.model, env)
          retried == BuildCmd(selected.fallback, "", env)
      IN /\ env.command = "" => built.model = selected.model
         /\ (env.command = "" \/ env.agent # "") /\ StatesRuntimes(given, selected.level, selected.task) =>
              /\ built.cli = selected.primary /\ SpawnAgent(selected.primary, env) = built.cli
              /\ selected.fallback # "false" => retried.cli = selected.fallback

\* A state document that build-state-doc has written passes validate-state.
StatedConfigIsValid == stated # NoStateDoc => HasRuntimeCommandConfig(stated)
=============================================================================
