---------------------------- MODULE SkillRender ----------------------------
(***************************************************************************)
(* Rendering a skill into an immutable snapshot                            *)
(* (_bmad/scripts/render_skill.py over the layered configuration of        *)
(* config_utils.py): concurrent renderers read the sources and layers of a *)
(* project that others edit, name the snapshot by a hash of what they      *)
(* read, and publish it by renaming a staging directory.  They may crash   *)
(* at any step, and somebody may edit a published snapshot.                *)
(*                                                                         *)
(* A hash stands for what was hashed.  A layer maps paths to values.       *)
(***************************************************************************)
EXTENDS Naturals, Sequences, FiniteSets, SequencesExt

CONSTANTS Renderers,
          SourceFiles,     \* the Markdown sources of the skill
          TokensOf(_),     \* the tokens written in a source, in order
          CentralLayers,   \* what a layer of _bmad/config.toml and its overrides may hold
          SkillLayers,     \* what a layer of customize.toml and its overrides may hold
          FirstCentral, FirstSkill, \* the layers the project starts with
          MaxEdits         \* bound on the edits of sources, layers and snapshots

LayerItems == [id : STRING, text : STRING]
IsLayer(layer) ==
  \A path \in DOMAIN layer : path \in Seq(STRING) /\ layer[path].items \in Seq(LayerItems)

ASSUME RenderAssumption ==
  /\ MaxEdits \in Nat /\ FirstSkill # <<>>
  /\ FirstCentral \in Seq(Range(FirstCentral)) /\ FirstSkill \in Seq(Range(FirstSkill))
  /\ \A layer \in CentralLayers \cup Range(FirstCentral) \cup SkillLayers \cup Range(FirstSkill) : IsLayer(layer)
  /\ \A f \in SourceFiles : \A token \in Range(TokensOf(f)) :
       /\ token.kind \in {"short", "config", "custom", "snapshot"}
       /\ token.kind \in {"config", "custom"} => token.at \in Seq(STRING)

VARIABLES versions, central, custom, \* the sources and the layers on disk
          snapshots,   \* published generations: their manifest and outputs
          staging,     \* renderers whose staging directory is there
          renderer,    \* what each renderer has read and where it is
          edits, tampered

renderVars == <<versions, central, custom, snapshots, staging, renderer, edits, tampered>>

Text(s) == [list |-> FALSE, text |-> s, items |-> <<>>]
List(items) == [list |-> TRUE, text |-> "", items |-> items]
\* A list item with an empty id is a plain string.
Item(id, text) == [id |-> id, text |-> text]

(***************************************************************************)
(* Layers (config_utils.py).                                               *)
(***************************************************************************)
IsKeyed(items) == items # <<>> /\ \A i \in DOMAIN items : items[i].id # ""

\* Keyed tables replace the item of the same key and else append; other arrays append.
PutItem(items, item) ==
  LET same == {i \in DOMAIN items : items[i].id = item.id}
  IN IF same = {} THEN Append(items, item)
     ELSE [items EXCEPT ![CHOOSE i \in same : \A j \in same : j <= i] = item]
MergeArrays(base, override) ==
  IF IsKeyed(base \o override) THEN FoldLeft(PutItem, base, override) ELSE base \o override

StructuralMerge(base, override) ==
  IF base.list /\ override.list THEN List(MergeArrays(base.items, override.items)) ELSE override

\* A table in one layer replaces a value that is no table, and such a value a table.
Crosses(path, other) == IsStrictPrefix(path, other) \/ IsStrictPrefix(other, path)
MergeLayer(merged, layer) ==
  [path \in {p \in DOMAIN merged : \A over \in DOMAIN layer : ~Crosses(p, over)} \cup DOMAIN layer |->
     IF path \notin DOMAIN layer THEN merged[path]
     ELSE IF path \notin DOMAIN merged THEN layer[path] ELSE StructuralMerge(merged[path], layer[path])]
MergeLayers(layers) == FoldLeft(MergeLayer, <<>>, layers)

(***************************************************************************)
(* Tokens.                                                                 *)
(***************************************************************************)
\* A token is [kind, at]: "short" a key, "config" a path, "custom" a path, "snapshot" a source.
Unresolved == [ok |-> FALSE, source |-> <<>>, value |-> Text(""), layers |-> FALSE]
Resolved(source, value, layers) == [ok |-> TRUE, source |-> source, value |-> value, layers |-> layers]
IsFilled(value) == ~value.list /\ value.text # ""

\* The same value under several modules is no ambiguity.
ResolveShortConfig(config, key) ==
  LET found == {path \in DOMAIN config : Last(path) = key /\ ~config[path].list}
      path == CHOOSE p \in found : TRUE
  IN IF found # {} /\ \A p \in found : IsFilled(config[p]) /\ config[p] = config[path]
     THEN Resolved(<<"config">> \o path, config[path], FALSE) ELSE Unresolved

ResolveConfig(config, path) ==
  IF path \in DOMAIN config /\ IsFilled(config[path]) THEN Resolved(<<"config">> \o path, config[path], FALSE) ELSE Unresolved

ReviewLayersAreValid(items) ==
  \A i \in DOMAIN items : items[i].id # "" /\ \A j \in DOMAIN items : items[i].id = items[j].id => i = j

\* The type of the default says what the value must be.
ResolveCustomization(merged, defaults, path) ==
  IF path \notin DOMAIN merged \/ path \notin DOMAIN defaults THEN Unresolved
  ELSE LET value == merged[path] default == defaults[path] IN
       IF ~default.list
       THEN IF ~value.list /\ (default.text # "" => value.text # "")
            THEN Resolved(<<"custom">> \o path, value, FALSE) ELSE Unresolved
       ELSE IF value.list /\ IsKeyed(default.items) /\ ReviewLayersAreValid(value.items)
       THEN Resolved(<<"custom">> \o path, value, TRUE)
       ELSE IF value.list /\ ~IsKeyed(default.items) /\ \A i \in DOMAIN value.items : value.items[i].id = ""
       THEN Resolved(<<"custom">> \o path, value, FALSE) ELSE Unresolved

\* What a token becomes: only review layers with an instruction are written,
\* and without any the skill is told to stop.
Rendered(resolved) ==
  LET Active(item) == item.text # ""
      active == SelectSeq(resolved.value.items, Active)
  IN IF ~resolved.layers THEN resolved.value
     ELSE IF active = <<>> THEN Text("no active review layers") ELSE List(active)

AllTokens == UNION {Range(TokensOf(f)) : f \in SourceFiles}

Resolve(read, token) ==
  CASE token.kind = "short" -> ResolveShortConfig(MergeLayers(read.central), token.at)
    [] token.kind = "config" -> ResolveConfig(MergeLayers(read.central), token.at)
    [] token.kind = "custom" -> ResolveCustomization(MergeLayers(read.custom), read.defaults, token.at)
    [] OTHER -> IF token.at \in SourceFiles THEN Resolved(<<"snapshot">>, Text(token.at), FALSE) ELSE Unresolved

CanRender(read) == \A token \in AllTokens : Resolve(read, token).ok

(***************************************************************************)
(* A generation is named by the sources and the resolved values.           *)
(***************************************************************************)
Identity(read) ==
  LET inputs == {Resolve(read, token) : token \in {t \in AllTokens : t.kind # "snapshot"}}
  IN [sources |-> read.sources,
      values |-> {<<input.source, input.value>> : input \in inputs}]

Outputs(read) ==
  [f \in SourceFiles |-> [version |-> read.sources[f],
                          tokens |-> [i \in DOMAIN TokensOf(f) |-> Rendered(Resolve(read, TokensOf(f)[i]))]]]

Generation(read) == [manifest |-> Identity(read), outputs |-> Outputs(read), hashes |-> Outputs(read)]

\* _verify_existing: the manifest is the expected one and the files have its hashes.
VerifyExisting(read) ==
  LET there == snapshots[Identity(read)]
  IN there.manifest = Identity(read) /\ there.hashes = Outputs(read) /\ there.outputs = there.hashes

(***************************************************************************)
(* The renderers.                                                          *)
(***************************************************************************)
Unread == [step |-> "idle", sources |-> <<>>, central |-> <<>>, defaults |-> <<>>, custom |-> <<>>]
At(r, step) == renderer[r].step = step
Becomes(r, state) == renderer' = [renderer EXCEPT ![r] = state]
Goes(r, step) == Becomes(r, [renderer[r] EXCEPT !.step = step])
SameProject == UNCHANGED <<versions, central, custom, edits, tampered>>

\* The sources are read one file after the other.
LoadSources(r) ==
  /\ At(r, "idle")
  /\ \E f \in SourceFiles \ DOMAIN renderer[r].sources :
       LET read == [g \in DOMAIN renderer[r].sources \cup {f} |->
                      IF g = f THEN versions[f] ELSE renderer[r].sources[g]]
       IN Becomes(r, [renderer[r] EXCEPT !.sources = read, !.step = IF DOMAIN read = SourceFiles THEN "central" ELSE "idle"])
  /\ UNCHANGED <<snapshots, staging>> /\ SameProject

LoadCentral(r) ==
  /\ At(r, "central") /\ Becomes(r, [renderer[r] EXCEPT !.central = central, !.step = "defaults"])
  /\ UNCHANGED <<snapshots, staging>> /\ SameProject

\* customize.toml is read for its defaults and then again with its overrides.
LoadDefaults(r) ==
  /\ At(r, "defaults") /\ Becomes(r, [renderer[r] EXCEPT !.defaults = custom[1], !.step = "custom"])
  /\ UNCHANGED <<snapshots, staging>> /\ SameProject
LoadCustomization(r) ==
  /\ At(r, "custom") /\ Becomes(r, [renderer[r] EXCEPT !.custom = custom, !.step = "resolve"])
  /\ UNCHANGED <<snapshots, staging>> /\ SameProject

Verified(r) == IF VerifyExisting(renderer[r]) THEN "done" ELSE "halt"

\* A generation that exists is verified, never written again.
RenderOrHalt(r) ==
  /\ At(r, "resolve")
  /\ \/ ~CanRender(renderer[r]) /\ Goes(r, "halt") /\ UNCHANGED staging
     \/ /\ CanRender(renderer[r]) /\ Identity(renderer[r]) \in DOMAIN snapshots
        /\ Goes(r, Verified(r)) /\ UNCHANGED staging
     \/ /\ CanRender(renderer[r]) /\ Identity(renderer[r]) \notin DOMAIN snapshots
        /\ Goes(r, "staged") /\ staging' = staging \cup {r}
  /\ UNCHANGED snapshots /\ SameProject

\* The rename fails when somebody else has published the generation meanwhile.
Publish(r) ==
  LET name == Identity(renderer[r])
  IN /\ At(r, "staged")
     /\ IF name \in DOMAIN snapshots THEN Goes(r, Verified(r)) /\ UNCHANGED snapshots
        ELSE /\ Goes(r, "done")
             /\ snapshots' = [n \in DOMAIN snapshots \cup {name} |-> IF n = name THEN Generation(renderer[r]) ELSE snapshots[n]]
     /\ staging' = staging \ {r} /\ SameProject

\* A crash leaves the staging directory behind.
RendererDies(r) ==
  /\ ~At(r, "idle") /\ ~At(r, "done") /\ ~At(r, "halt") /\ Goes(r, "dead")
  /\ UNCHANGED <<snapshots, staging>> /\ SameProject

(***************************************************************************)
(* The project changes.                                                    *)
(***************************************************************************)
Editing == edits < MaxEdits /\ edits' = edits + 1 /\ UNCHANGED <<staging, renderer>>

UpgradeSource(f) ==
  Editing /\ versions' = [versions EXCEPT ![f] = @ + 1] /\ UNCHANGED <<central, custom, snapshots, tampered>>
EditCentral(i, layer) ==
  Editing /\ central' = [central EXCEPT ![i] = layer] /\ UNCHANGED <<versions, custom, snapshots, tampered>>
EditCustom(i, layer) ==
  Editing /\ custom' = [custom EXCEPT ![i] = layer] /\ UNCHANGED <<versions, central, snapshots, tampered>>
TamperWith(name, f) ==
  /\ Editing /\ snapshots' = [snapshots EXCEPT ![name].outputs[f].version = 0]
  /\ tampered' = TRUE /\ UNCHANGED <<versions, central, custom>>

RenderInit ==
  /\ versions = [f \in SourceFiles |-> 1] /\ central = FirstCentral /\ custom = FirstSkill
  /\ snapshots = <<>> /\ staging = {} /\ renderer = [r \in Renderers |-> Unread]
  /\ edits = 0 /\ tampered = FALSE

RenderNext ==
  \/ \E r \in Renderers : \/ LoadSources(r) \/ LoadCentral(r) \/ LoadDefaults(r) \/ LoadCustomization(r)
                          \/ RenderOrHalt(r) \/ Publish(r) \/ RendererDies(r)
  \/ \E f \in SourceFiles : UpgradeSource(f) \/ \E name \in DOMAIN snapshots : TamperWith(name, f)
  \/ \E i \in DOMAIN central, layer \in CentralLayers : EditCentral(i, layer)
  \/ \E i \in DOMAIN custom, layer \in SkillLayers : EditCustom(i, layer)

RenderSpec == RenderInit /\ [][RenderNext]_renderVars

-----------------------------------------------------------------------------
\* The renderers and what they have published.
RenderTypeOK ==
  /\ staging \subseteq Renderers /\ edits \in 0..MaxEdits
  /\ \A r \in Renderers : /\ DOMAIN renderer[r].sources \subseteq SourceFiles
                          /\ At(r, "staged") => r \in staging

\* An upgrade of customize.toml fell between the two times that this renderer read it.
ReadInBetween(r) == renderer[r].custom # <<>> /\ renderer[r].defaults # renderer[r].custom[1]

\* A layer of this renderer has a plain value, or a table, where customize.toml has a list:
\* what is merged over it next no longer finds the list of the skill.
Flattened(layers, path) ==
  \E i \in DOMAIN layers : \E over \in DOMAIN layers[i] :
    (over = path /\ ~layers[i][over].list) \/ Crosses(path, over)
FlattensAList(r) ==
  renderer[r].custom # <<>> /\ \E path \in DOMAIN renderer[r].custom[1] :
    renderer[r].custom[1][path].list /\ Flattened(renderer[r].custom, path)

\* A renderer halts only for inputs that cannot be resolved or a snapshot that was edited:
\* renderers that race, crash or find an older generation never make one another halt.  One
\* that read in between, or whose layers flatten a list of the skill, may: an empty list is
\* written by the shape of its default, which the name of the snapshot leaves out
\* (render_skill.py:188-199 and :237).
HaltHasACause ==
  \A r \in Renderers : At(r, "halt") =>
    tampered \/ ~CanRender(renderer[r]) \/ \E q \in Renderers : ReadInBetween(q) \/ FlattensAList(q)

\* The path that a renderer names holds exactly what its inputs render to.
AnnouncedIsWhatWasRead ==
  [][\A r \in Renderers : At(r, "done")' /\ ~At(r, "done") =>
       /\ Identity(renderer[r]) \in DOMAIN snapshots'
       /\ snapshots'[Identity(renderer[r])].outputs = Outputs(renderer[r])]_renderVars

\* A published snapshot never changes, whatever is edited and rendered (but by hand).
SnapshotsAreImmutable ==
  [][\A name \in DOMAIN snapshots : name \in DOMAIN snapshots' /\ (~tampered' => snapshots'[name] = snapshots[name])]_renderVars

\* An override may add a review layer or empty one, never lose one of the skill, but by a
\* plain value or a table in place of the list.
ReviewLayersAreKept ==
  \A r \in Renderers : At(r, "done") =>
    \A path \in DOMAIN renderer[r].custom[1] :
      LET default == renderer[r].custom[1][path] merged == MergeLayers(renderer[r].custom) IN
      default.list /\ IsKeyed(default.items) /\ ~Flattened(renderer[r].custom, path) =>
        /\ path \in DOMAIN merged /\ merged[path].list
        /\ {default.items[i].id : i \in DOMAIN default.items} \subseteq {merged[path].items[i].id : i \in DOMAIN merged[path].items}
=============================================================================
