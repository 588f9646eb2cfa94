----------------------------- MODULE StopHooks ------------------------------
(***************************************************************************)
(* ensure-stop-hook: the installation of the story automator's Stop hook,  *)
(* core/stop_hooks.py and commands/basic.py.  A run prepares the new text  *)
(* of config.toml and of hooks.json from what it read, and only then       *)
(* replaces the one and the other.  Runs may overlap, a run may die        *)
(* between its steps, and a user or another tool edits the same files.     *)
(*                                                                         *)
(* config.toml is a sequence of lines, since the code patches lines that   *)
(* its patterns match and never the parsed document; hooks.json is the     *)
(* sequence of the handlers of its Stop event.                             *)
(***************************************************************************)
EXTENDS Integers, Sequences, FiniteSets, SequencesExt

CONSTANTS Installers,  \* the runs of ensure-stop-hook
          HookConfigs, \* texts of config.toml to start from
          HookFiles,   \* contents of hooks.json (of settings.json for claude) to start from
          MaxHookEdits \* bound: edits by others

VARIABLES hookProvider, \* "claude" or "codex"
          hookConfig, \* the lines of config.toml
          hooks,     \* the handlers of hooks.json
          original,  \* both as they were before the first run
          trust,     \* whether the user's own configuration trusts the project
          hookEdits, \* edits by others so far
          step, installPlan, \* per run: where it is and the texts it prepared
          quiet,     \* per run: whether an earlier run had succeeded when it began
          answer     \* per run: what it printed

hookVars == <<hookProvider, hookConfig, hooks, original, trust, hookEdits, step, installPlan, quiet, answer>>

NoFile == <<"absent">>
Broken == <<"unreadable">>
Handlers == {"ours", "stale", "foreign"}
ASSUME HookAssumption ==
  /\ MaxHookEdits \in Nat /\ HookFiles \subseteq ({NoFile, Broken} \cup Seq(Handlers))
  /\ \A lines \in HookConfigs :
       /\ lines \in Seq(Range(lines))
       /\ \A line \in Range(lines) : line.items \in Seq(Range(line.items)) /\ (line.kind = "header" => line.name # "")
NoAnswer == [ok |-> FALSE, error |-> "", changed |-> FALSE, reason |-> "", trusted |-> FALSE]

(***************************************************************************)
(* config.toml.  A line is a table header, a key of the table it stands    *)
(* in, a dotted features.* key or an inline features table; a quoted key   *)
(* is the same key to the parser and invisible to the patterns.            *)
(***************************************************************************)
Line(kind, name, on) == [kind |-> kind, name |-> name, on |-> on, plain |-> TRUE, items |-> <<>>]
Header(table) == Line("header", table, FALSE)
Key(name, on) == Line("key", name, on)
Quoted(name, on) == [Key(name, on) EXCEPT !.plain = FALSE]
Dotted(name, on) == Line("dotted", name, on)
Inline(items) == [Line("inline", "features", FALSE) EXCEPT !.items = items]
NoHookConfig == <<Header("no file")>>
BrokenConfig == <<Header("unreadable")>>

IsLine(line, kind, name) == line.kind = kind /\ line.plain /\ line.name = name
LeastOf(at) == IF at = {} THEN 0 ELSE CHOOSE i \in at : \A j \in at : i <= j

\* The table a line belongs to: that of the last header above it.
TableAt(lines, i) ==
  LET above == {j \in 1..(i - 1) : lines[j].kind = "header"}
  IN IF above = {} THEN "" ELSE lines[CHOOSE j \in above : \A k \in above : k <= j].name

InFeatures(lines) ==
  {i \in DOMAIN lines : \/ lines[i].kind = "key" /\ TableAt(lines, i) = "features"
                        \/ lines[i].kind = "dotted" /\ TableAt(lines, i) = ""}
Inlines(lines) == {i \in DOMAIN lines : lines[i].kind = "inline" /\ TableAt(lines, i) = ""}
Headers(lines, name) == {i \in DOMAIN lines : lines[i].kind = "header" /\ lines[i].name = name}

\* What tomllib reads as the features table ...
Features(lines) ==
  {<<lines[i].name, lines[i].on>> : i \in InFeatures(lines)}
    \cup UNION {{<<lines[i].items[k].name, lines[i].items[k].on>> : k \in DOMAIN lines[i].items} : i \in Inlines(lines)}

\* ... unless a table or a key is defined twice.
ParsesToml(lines) ==
  /\ lines # BrokenConfig
  /\ \A t \in {"features", "other", "trust"} : Cardinality(Headers(lines, t)) <= 1
  /\ Cardinality(Inlines(lines)) <= 1
  /\ Inlines(lines) # {} => InFeatures(lines) = {} /\ Headers(lines, "features") = {}
  /\ Headers(lines, "features") # {} => \A i \in InFeatures(lines) : lines[i].kind = "key"
  /\ \A i, j \in DOMAIN lines :
       i # j /\ lines[i].kind \in {"key", "dotted"} /\ lines[i].kind = lines[j].kind
         /\ TableAt(lines, i) = TableAt(lines, j) => lines[i].name # lines[j].name
  /\ \A i \in Inlines(lines) : \A j, k \in DOMAIN lines[i].items :
       j # k => lines[i].items[j].name # lines[i].items[k].name

HooksEnabled(lines) ==
  <<"hooks", TRUE>> \in Features(lines) /\ \A on \in BOOLEAN : <<"codex_hooks", on>> \notin Features(lines)

\* _apply_feature_hooks: enable the key where it stands and drop the deprecated one,
\* or rename the deprecated one, or insert a line.
ApplyFeatureHooks(lines, insertAfter, hooksAt, legacyAt, line) ==
  IF hooksAt # 0
  THEN LET enabled == [lines EXCEPT ![hooksAt] = line]
       IN IF legacyAt # 0 THEN RemoveAt(enabled, legacyAt) ELSE enabled
  ELSE IF legacyAt # 0 THEN [lines EXCEPT ![legacyAt] = line]
  ELSE InsertAt(lines, insertAfter + 1, line)

\* A table that parses has no key twice.
SetInlineItems(items) ==
  LET at(name) == LeastOf({k \in DOMAIN items : items[k].name = name})
  IN ApplyFeatureHooks(items, Len(items), at("hooks"), at("codex_hooks"), [name |-> "hooks", on |-> TRUE])

SetTopLevelFeaturesHooks(lines) ==
  LET first == LeastOf({i \in DOMAIN lines : lines[i].kind = "header"})
      rootEnd == IF first = 0 THEN Len(lines) ELSE first - 1
      at(name) == LeastOf({i \in 1..rootEnd : IsLine(lines[i], "dotted", name)})
      inline == LeastOf({i \in 1..rootEnd : lines[i].kind = "inline"})
      dotted == {i \in 1..rootEnd : lines[i].kind = "dotted" /\ lines[i].plain}
  IN IF at("hooks") # 0 \/ at("codex_hooks") # 0
     THEN ApplyFeatureHooks(lines, rootEnd, at("hooks"), at("codex_hooks"), Dotted("hooks", TRUE))
     ELSE IF inline # 0 THEN [lines EXCEPT ![inline] = Inline(SetInlineItems(lines[inline].items))]
     ELSE IF dotted # {}
     THEN InsertAt(lines, 1 + (CHOOSE i \in dotted : \A j \in dotted : j <= i), Dotted("hooks", TRUE))
     ELSE lines \o <<Header("features"), Key("hooks", TRUE)>>

SetFeaturesHooks(lines) ==
  LET start == LeastOf({i \in DOMAIN lines : IsLine(lines[i], "header", "features")})
      next == LeastOf({i \in (start + 1)..Len(lines) : lines[i].kind = "header"})
      end == IF next = 0 THEN Len(lines) ELSE next - 1
      at(name) == LeastOf({i \in (start + 1)..end : IsLine(lines[i], "key", name)})
  IN IF lines = <<>> THEN <<Header("features"), Key("hooks", TRUE)>>
     ELSE IF start = 0 THEN SetTopLevelFeaturesHooks(lines)
     ELSE ApplyFeatureHooks(lines, start, at("hooks"), at("codex_hooks"), Key("hooks", TRUE))

\* _prepare_codex_hooks_feature.
PrepareConfig(lines) ==
  IF lines = NoHookConfig
  THEN [error |-> "", written |-> TRUE, data |-> <<Header("features"), Key("hooks", TRUE)>>, reason |-> "created"]
  ELSE IF ~ParsesToml(lines) THEN [error |-> "invalid_toml", written |-> FALSE, data |-> <<>>, reason |-> ""]
  ELSE IF HooksEnabled(lines)
  THEN [error |-> "", written |-> FALSE, data |-> <<>>, reason |-> "already_enabled"]
  ELSE LET updated == SetFeaturesHooks(lines)
       IN IF ParsesToml(updated)
          THEN [error |-> "", written |-> TRUE, data |-> updated, reason |-> "hooks_enabled"]
          ELSE [error |-> "invalid_toml", written |-> FALSE, data |-> <<>>, reason |-> ""]

ConfigTrusts(lines) == lines \notin {NoHookConfig, BrokenConfig} /\ Headers(lines, "trust") # {}

(***************************************************************************)
(* hooks.json.                                                             *)
(***************************************************************************)
Has(handlers, owner) == \E i \in DOMAIN handlers : handlers[i] = owner
Foreign(handlers) == {i \in DOMAIN handlers : handlers[i] = "foreign"}

\* Mutant: a handler under an older command counts as another one.
PrepareHooksByCommand(handlers) ==
  IF handlers = NoFile THEN [error |-> "", written |-> TRUE, data |-> <<"ours">>, reason |-> "created"]
  ELSE IF handlers = Broken THEN [error |-> "invalid_json", written |-> FALSE, data |-> <<>>, reason |-> ""]
  ELSE IF Has(handlers, "ours") THEN [error |-> "", written |-> FALSE, data |-> <<>>, reason |-> "already_configured"]
  ELSE [error |-> "", written |-> TRUE, data |-> Append(handlers, "ours"), reason |-> "added"]

\* _prepare_json_stop_hook: a handler of the automator under any command is
\* brought up to date, and one is added only when there is none.
PrepareHooks(handlers) ==
  IF handlers = NoFile THEN [error |-> "", written |-> TRUE, data |-> <<"ours">>, reason |-> "created"]
  ELSE IF handlers = Broken THEN [error |-> "invalid_json", written |-> FALSE, data |-> <<>>, reason |-> ""]
  ELSE IF Has(handlers, "stale")
  THEN [error |-> "", written |-> TRUE, reason |-> "hook_normalized",
        data |-> [i \in DOMAIN handlers |-> IF handlers[i] = "stale" THEN "ours" ELSE handlers[i]]]
  ELSE IF Has(handlers, "ours")
  THEN [error |-> "", written |-> FALSE, data |-> <<>>, reason |-> "already_configured"]
  ELSE [error |-> "", written |-> TRUE, data |-> Append(handlers, "ours"), reason |-> "added"]

(***************************************************************************)
(* A run: both texts are prepared before either file is replaced.          *)
(***************************************************************************)
NothingPlanned == [error |-> "", written |-> FALSE, data |-> <<>>, reason |-> ""]
NoPlan == [hookConfig |-> NothingPlanned, hooks |-> NothingPlanned]

EnsureStopHook(p) ==
  /\ step[p] = "idle"
  /\ quiet' = [quiet EXCEPT ![p] = \E q \in Installers : answer[q].ok]
  /\ LET forConfig == IF hookProvider = "codex" THEN PrepareConfig(hookConfig) ELSE NothingPlanned
         forHooks == PrepareHooks(hooks)
         error == IF forConfig.error # "" THEN forConfig.error ELSE forHooks.error
     IN IF error # ""
        THEN /\ answer' = [answer EXCEPT ![p] = [NoAnswer EXCEPT !.error = error]]
             /\ step' = [step EXCEPT ![p] = "done"]
             /\ UNCHANGED installPlan
        ELSE /\ installPlan' = [installPlan EXCEPT ![p] = [hookConfig |-> forConfig, hooks |-> forHooks]]
             /\ step' = [step EXCEPT ![p] = "writeConfig"]
             /\ UNCHANGED answer
  /\ UNCHANGED <<hookProvider, hookConfig, hooks, original, trust, hookEdits>>

WriteHookConfig(p) ==
  /\ step[p] = "writeConfig"
  /\ hookConfig' = IF installPlan[p].hookConfig.written THEN installPlan[p].hookConfig.data ELSE hookConfig
  /\ step' = [step EXCEPT ![p] = "writeHooks"]
  /\ UNCHANGED <<hookProvider, hooks, original, trust, hookEdits, installPlan, quiet, answer>>

WriteHooks(p) ==
  /\ step[p] = "writeHooks"
  /\ hooks' = IF installPlan[p].hooks.written THEN installPlan[p].hooks.data ELSE hooks
  /\ step' = [step EXCEPT ![p] = "report"]
  /\ UNCHANGED <<hookProvider, hookConfig, original, trust, hookEdits, installPlan, quiet, answer>>

Report(p) ==
  /\ step[p] = "report"
  /\ LET changed == installPlan[p].hooks.written \/ installPlan[p].hookConfig.written
         trusted == hookProvider = "codex" /\ (ConfigTrusts(hookConfig) \/ trust)
     IN answer' = [answer EXCEPT ![p] =
          [ok |-> TRUE, error |-> "", changed |-> changed, trusted |-> trusted,
           reason |-> IF hookProvider = "claude" THEN installPlan[p].hooks.reason
                      ELSE IF changed THEN "codex_hook_configured"
                      ELSE IF ~trusted THEN "pending_trust" ELSE "already_configured"]]
  /\ step' = [step EXCEPT ![p] = "done"]
  /\ installPlan' = [installPlan EXCEPT ![p] = NoPlan]
  /\ UNCHANGED <<hookProvider, hookConfig, hooks, original, trust, hookEdits, quiet>>

\* A run that dies leaves what it has written.
InstallerDies(p) ==
  /\ step[p] \in {"writeConfig", "writeHooks", "report"}
  /\ step' = [step EXCEPT ![p] = "done"]
  /\ installPlan' = [installPlan EXCEPT ![p] = NoPlan]
  /\ UNCHANGED <<hookProvider, hookConfig, hooks, original, trust, hookEdits, quiet, answer>>

(***************************************************************************)
(* The others: a tool adds a Stop hook of its own, the user trusts the     *)
(* project.                                                                *)
(***************************************************************************)
AddForeignHook ==
  /\ hookEdits < MaxHookEdits /\ hooks \notin {NoFile, Broken}
  /\ hooks' = Append(hooks, "foreign") /\ hookEdits' = hookEdits + 1
  /\ UNCHANGED <<hookProvider, hookConfig, original, trust, step, installPlan, quiet, answer>>

TrustProject ==
  /\ ~trust /\ trust' = TRUE
  /\ UNCHANGED <<hookProvider, hookConfig, hooks, original, hookEdits, step, installPlan, quiet, answer>>

HooksInit ==
  /\ hookProvider \in {"claude", "codex"}
  /\ hookConfig \in (IF hookProvider = "codex" THEN HookConfigs ELSE {NoHookConfig})
  /\ hooks \in HookFiles
  /\ original = [hookConfig |-> hookConfig, hooks |-> hooks]
  /\ trust = FALSE /\ hookEdits = 0
  /\ step = [p \in Installers |-> "idle"] /\ installPlan = [p \in Installers |-> NoPlan]
  /\ quiet = [p \in Installers |-> FALSE] /\ answer = [p \in Installers |-> NoAnswer]

HooksNext ==
  \/ \E p \in Installers : EnsureStopHook(p) \/ WriteHookConfig(p) \/ WriteHooks(p) \/ Report(p) \/ InstallerDies(p)
  \/ AddForeignHook
  \/ TrustProject

HooksSpec == HooksInit /\ [][HooksNext]_hookVars

-----------------------------------------------------------------------------
(***************************************************************************)
(* Properties.                                                             *)
(***************************************************************************)
\* Every variable has its type; handlers other than ours are never rewritten as ours.
HooksTypeOK ==
  /\ hooks \in {NoFile, Broken} \cup Seq(Handlers)
  /\ hookEdits \in 0..MaxHookEdits /\ trust \in BOOLEAN
  /\ step \in [Installers -> {"idle", "writeConfig", "writeHooks", "report", "done"}]
  /\ quiet \in [Installers -> BOOLEAN]
  /\ \A p \in Installers : answer[p].ok => answer[p].error = ""

\* Two runs that overlap or that die half-way, in any layout of the file, never
\* leave a configuration that codex cannot parse, that is not enabled, or that
\* still holds the deprecated key: a config.toml that a run has replaced is right.
RewrittenConfigIsRight ==
  hookConfig # original.hookConfig => ParsesToml(hookConfig) /\ HooksEnabled(hookConfig)

\* A file that a run cannot understand, or a patch that would not parse, stops
\* the run before it has replaced either file.
ErrorWritesNothing ==
  \/ original.hooks = Broken
  \/ hookProvider = "codex" /\ PrepareConfig(original.hookConfig).error # ""
  => hookConfig = original.hookConfig /\ (hookEdits = 0 => hooks = original.hooks)

\* The installation keeps what it does not own: handlers of others stay where they are
\* unless another edit raced with a run, and every other key of the features table stays.
OthersAreKept ==
  /\ hookEdits = 0 => Foreign(hooks) = Foreign(original.hooks)
  /\ original.hookConfig \notin {NoHookConfig, BrokenConfig} =>
       {f \in Features(original.hookConfig) : f[1] \notin {"hooks", "codex_hooks"}} \subseteq Features(hookConfig)

\* A run that answers ok has left a configuration the agent will load, whatever
\* the other runs were doing and whichever of them died between its two writes.
OkIsInstalled ==
  (\E p \in Installers : answer[p].ok) =>
     /\ Has(hooks, "ours") /\ ~Has(hooks, "stale")
     /\ hookProvider = "codex" => ParsesToml(hookConfig) /\ HooksEnabled(hookConfig)

\* Once a run has succeeded, a later one changes nothing: a session restarted
\* for the hook is not told to restart again.
LaterRunIsQuiet ==
  \A p \in Installers : quiet[p] /\ answer[p].ok => ~answer[p].changed
=============================================================================
