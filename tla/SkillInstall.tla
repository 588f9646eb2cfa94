---------------------------- MODULE SkillInstall ----------------------------
(***************************************************************************)
(* Setting up a module in _bmad/: merge-config.py folds the answers of the *)
(* user and the values of the old per-module files into config.yaml and    *)
(* config.user.yaml, merge-help-csv.py its rows into module-help.csv, and  *)
(* cleanup-legacy.py removes the old directories.  The first two write     *)
(* different files and may run side by side; each may die between two of   *)
(* its writes, and a write of config.yaml that dies leaves the file empty, *)
(* which the next run takes for a project without configuration.           *)
(***************************************************************************)
EXTENDS Integers, FiniteSets

CONSTANTS Modules,        \* codes of the modules that are set up
          ModuleVars,     \* variables that every module.yaml defines
          UserVars,       \* those of them with user_setting: true
          ConfigValues,   \* what a setting may hold
          Questions,      \* answers files: [core, module], two partial functions
          OldConfigs,     \* states of the old per-module files in which a setup finds them
          SkillsIn,       \* skills of every old directory
          InstalledSkills,\* skills found in .claude/skills
          MaxSetups       \* setups that are explored

ASSUME InstallAssumption ==
  /\ UserVars \subseteq ModuleVars /\ MaxSetups \in Nat /\ "core" \notin Modules
  /\ \A old \in OldConfigs :
       /\ DOMAIN old = Modules \cup {"core"}
       /\ \A d \in DOMAIN old : \A k \in DOMAIN old[d].values : old[d].values[k] \in ConfigValues

VARIABLES config,      \* config.yaml: [core, nested, sections], `nested` its old core: section
          userConfig,  \* config.user.yaml
          legacy,      \* for every directory the values of its config.yaml, if it is there
          oldDirs,     \* old directories still there
          helpRows,    \* rows of module-help.csv: <<module, setup that wrote it>>
          oldHelp,     \* directories whose own module-help.csv is still there
          merger, helper, cleaner,  \* the three scripts
          setups       \* setups started

installVars == <<config, userConfig, legacy, oldDirs, helpRows, oldHelp, merger, helper, cleaner, setups>>

SharedKeys == {"output_folder"}
CoreUserKeys == {"user_name"}
CoreKeys == SharedKeys \cup CoreUserKeys
Directories == Modules \cup {"core"}

Partial(D, R) == UNION {[S -> R] : S \in SUBSET D}

\* The setup skills ask for the core settings and for the variables of module.yaml.
ASSUME QuestionsAssumption ==
  \A q \in Questions : q.core \in Partial(CoreKeys, ConfigValues) /\ q.module \in Partial(ModuleVars, ConfigValues)

Only(f, S) == [k \in DOMAIN f \cap S |-> f[k]]
Over(f, g) == [k \in DOMAIN f \cup DOMAIN g |-> IF k \in DOMAIN g THEN g[k] ELSE f[k]]
NoConfig == [core |-> <<>>, nested |-> <<>>, sections |-> <<>>]
Gone == [there |-> FALSE, values |-> <<>>]
Rest == [step |-> "idle", module |-> "", answers |-> [core |-> <<>>, module |-> <<>>], new |-> NoConfig]

\* load_legacy_values: the core file first, the module's own core keys after it.
LegacyCore(m) == Over(Only(legacy[m].values, CoreKeys), Only(legacy["core"].values, CoreKeys))
LegacyModule(m) == Only(legacy[m].values, ModuleVars)

\* apply_legacy_defaults: they fill what the answers leave out.
WithLegacy(answers, m) == [core |-> Over(LegacyCore(m), answers.core),
                           module |-> Over(LegacyModule(m), answers.module)]

\* merge_config: an old core: section moves to the root, the keys of the user leave the
\* file, the answers are written, and the section of the module is built anew.
MergeConfig(old, m, answers) ==
  LET root == Only(Over(old.core, old.nested), SharedKeys) IN
  [core |-> Over(root, Only(answers.core, SharedKeys)),
   nested |-> <<>>,
   sections |-> [x \in DOMAIN old.sections \cup {m} |->
                   IF x = m THEN answers.module ELSE old.sections[x]]]

\* extract_user_settings.
UserSettings(answers) == Over(Only(answers.core, CoreUserKeys), Only(answers.module, UserVars))
-----------------------------------------------------------------------------
\* A setup starts both merge scripts on the same answers.  merge-config reads all of its
\* inputs at once, merge-help-csv reads when it writes.
StartSetup ==
  /\ setups < MaxSetups /\ setups' = setups + 1
  /\ merger.step \in {"idle", "done", "dead"} /\ helper.step \in {"idle", "done", "dead"}
  /\ cleaner.step \in {"idle", "done", "dead"}
  /\ \E m \in Modules, q \in Questions :
       LET answers == WithLegacy(q, m) IN
       /\ merger' = [step |-> "config", module |-> m, answers |-> answers,
                     new |-> MergeConfig(config, m, answers)]
       /\ helper' = [Rest EXCEPT !.step = "rows", !.module = m]
       /\ cleaner' = [Rest EXCEPT !.module = m]
  /\ UNCHANGED <<config, userConfig, legacy, oldDirs, helpRows, oldHelp>>

MergerAt(from, to) == merger.step = from /\ merger' = [merger EXCEPT !.step = to]
HelperAt(from, to) == helper.step = from /\ helper' = [helper EXCEPT !.step = to]
KeepMerge == UNCHANGED <<config, userConfig, legacy, merger>>
KeepHelp == UNCHANGED <<helpRows, oldHelp, helper>>
KeepClean == UNCHANGED <<oldDirs, cleaner, setups>>

\* write_config truncates the file and then dumps into it.
WriteConfig == /\ MergerAt("config", "user") /\ config' = merger.new
               /\ UNCHANGED <<userConfig, legacy>> /\ KeepHelp /\ KeepClean
TornConfig == /\ MergerAt("config", "dead") /\ config' = NoConfig
              /\ UNCHANGED <<userConfig, legacy>> /\ KeepHelp /\ KeepClean

\* config.user.yaml is read only now, and written if there is anything to write.
WriteUserConfig == /\ MergerAt("user", "own")
                   /\ userConfig' = Over(userConfig, UserSettings(merger.answers))
                   /\ UNCHANGED <<config, legacy>> /\ KeepHelp /\ KeepClean
TornUserConfig == /\ MergerAt("user", "dead") /\ UserSettings(merger.answers) # <<>> /\ userConfig' = <<>>
                  /\ UNCHANGED <<config, legacy>> /\ KeepHelp /\ KeepClean

\* cleanup_legacy_configs: the module's file, then the core file.
DropOwnLegacy == /\ MergerAt("own", "core") /\ legacy' = [legacy EXCEPT ![merger.module] = Gone]
                 /\ UNCHANGED <<config, userConfig>> /\ KeepHelp /\ KeepClean
DropCoreLegacy == /\ MergerAt("core", "done") /\ legacy' = [legacy EXCEPT !["core"] = Gone]
                  /\ UNCHANGED <<config, userConfig>> /\ KeepHelp /\ KeepClean

MergerDies == /\ merger.step \in {"config", "user", "own", "core"}
              /\ merger' = [merger EXCEPT !.step = "dead"]
              /\ UNCHANGED <<config, userConfig, legacy>> /\ KeepHelp /\ KeepClean

\* merge-help-csv: the rows of the module are replaced; a write that dies leaves none.
MergeHelp == /\ HelperAt("rows", "old")
             /\ helpRows' = {r \in helpRows : r[1] # helper.module} \cup {<<helper.module, setups>>}
             /\ UNCHANGED oldHelp /\ KeepMerge /\ KeepClean
TornHelp == /\ HelperAt("rows", "dead") /\ helpRows' = {}
            /\ UNCHANGED oldHelp /\ KeepMerge /\ KeepClean
DropOldHelp == /\ HelperAt("old", "done") /\ oldHelp' = oldHelp \ {helper.module, "core"}
               /\ UNCHANGED helpRows /\ KeepMerge /\ KeepClean

\* cleanup-legacy, after both merges: every skill of the directories must be installed
\* before any of them goes; then they go one by one, and a removal may fail.
Removed == {cleaner.module, "core"} \cap oldDirs
SkillsAreInstalled == \A d \in Removed : SkillsIn[d] \subseteq InstalledSkills
StartCleanup ==
  /\ merger.step = "done" /\ helper.step = "done" /\ cleaner.step = "idle"
  /\ cleaner' = [cleaner EXCEPT !.step = IF SkillsAreInstalled THEN "remove" ELSE "dead"]
  /\ UNCHANGED <<oldDirs, setups>> /\ KeepMerge /\ KeepHelp
RemoveDir ==
  /\ cleaner.step = "remove"
  /\ IF Removed = {} THEN cleaner' = [cleaner EXCEPT !.step = "done"]
                          /\ UNCHANGED <<oldDirs, legacy, oldHelp>>
     ELSE \E d \in Removed :
            \/ /\ oldDirs' = oldDirs \ {d} /\ legacy' = [legacy EXCEPT ![d] = Gone]
               /\ oldHelp' = oldHelp \ {d} /\ UNCHANGED cleaner
            \/ cleaner' = [cleaner EXCEPT !.step = "dead"] /\ UNCHANGED <<oldDirs, legacy, oldHelp>>
  /\ UNCHANGED <<config, userConfig, merger, helpRows, helper, setups>>

InstallInit ==
  /\ \E nested \in Partial(CoreKeys, ConfigValues), core \in Partial(SharedKeys, ConfigValues) :
       config = [core |-> core, nested |-> nested, sections |-> <<>>]
  /\ userConfig \in Partial(CoreUserKeys, ConfigValues)
  /\ legacy \in OldConfigs
  /\ oldDirs = Directories /\ oldHelp = Directories /\ helpRows = {}
  /\ merger = Rest /\ helper = Rest /\ cleaner = Rest /\ setups = 0

InstallNext ==
  \/ StartSetup
  \/ WriteConfig \/ TornConfig \/ WriteUserConfig \/ TornUserConfig \/ DropOwnLegacy \/ DropCoreLegacy \/ MergerDies
  \/ MergeHelp \/ TornHelp \/ DropOldHelp
  \/ StartCleanup \/ RemoveDir

InstallSpec == InstallInit /\ [][InstallNext]_installVars
-----------------------------------------------------------------------------
InstallTypeOK ==
  /\ config.core \in Partial(SharedKeys, ConfigValues)
  /\ config.nested \in Partial(CoreKeys, ConfigValues)
  /\ config.sections \in Partial(Modules, Partial(ModuleVars, ConfigValues))
  /\ userConfig \in Partial(CoreUserKeys \cup UserVars, ConfigValues)
  /\ DOMAIN legacy = Directories /\ oldDirs \subseteq Directories /\ oldHelp \subseteq Directories
  /\ setups \in 0..MaxSetups

\* An old file goes only when the new ones hold a value for each of its settings that is
\* still in the schema, whatever died before: its values are read from it again until then
\* (merge-config.py:395-401 and 417-422).
MigratedBeforeDeleted ==
  [][\A d \in Directories : legacy[d].there /\ ~legacy'[d].there =>
       /\ DOMAIN Only(legacy[d].values, SharedKeys) \subseteq DOMAIN config.core
       /\ DOMAIN Only(legacy[d].values, CoreUserKeys) \subseteq DOMAIN userConfig
       /\ d \in Modules => /\ d \in DOMAIN config.sections
                           /\ DOMAIN Only(legacy[d].values, ModuleVars) \subseteq DOMAIN config.sections[d]
    ]_installVars

\* A setup of one module leaves the section, the old files and the help rows of another
\* alone, unless one of its writes was torn (merge-config.py:271-278, merge-help-csv.py:202-213).
OtherModulesAreKept ==
  [][\A m \in Modules \ {merger.module} :
       /\ legacy'[m] = legacy[m] /\ (m \in oldDirs => m \in oldDirs')
       /\ ~(merger'.step = "dead" /\ merger.step # "dead") /\ m \in DOMAIN config.sections =>
            m \in DOMAIN config'.sections /\ config'.sections[m] = config.sections[m]
       /\ ~(helper'.step = "dead") => {r \in helpRows : r[1] = m} \subseteq helpRows'
    ]_installVars
=============================================================================
