---------------------------- MODULE RuntimeLayout ---------------------------
(***************************************************************************)
(* Where the story automator finds things (core/runtime_layout.py and      *)
(* core/artifact_paths.py): the skills root, the provider, the marker of   *)
(* an active run, and the folder of the implementation artifacts.  Every   *)
(* process resolves them anew from its environment and from what is        *)
(* installed, while installers and agents change what there is.            *)
(*                                                                         *)
(* A skills root is named by the folder it is in; a folder of the project  *)
(* that is no runtime's is "local", one outside the project "elsewhere".   *)
(***************************************************************************)
EXTENDS Naturals, Sequences, SequencesExt

CONSTANTS Environments, \* what processes may have: [explicit, current, provider, marker]
          BmadConfigs,  \* what _bmad/bmm/config.yaml may say of the artifacts folder
          MaxInstalls   \* bound: installs, removals and artifact writes

ASSUME LayoutAssumption == MaxInstalls \in Nat

VARIABLES installed, \* skills root -> "none", "dir", "skill" or "policy": what is there of the automator
          artifacts, \* the artifact folders and files there are
          bmadConfig,
          layoutChanges

layoutVars == <<installed, artifacts, bmadConfig, layoutChanges>>

ProjectRoots == {"agents", "claude", "codex", "local"}
SkillsRoots == ProjectRoots \cup {"homeCodex", "homeClaude", "elsewhere"}
NotSet == "unset"

(***************************************************************************)
(* The skills root.                                                        *)
(***************************************************************************)
Standard == <<"agents", "claude", "codex", "homeCodex", "homeClaude">>
Known(root) == IF root = NotSet THEN <<>> ELSE <<root>>

\* The code keeps the first of each root, which no search can tell.
CandidateSkillsRoots(env) == Known(env.explicit) \o Known(env.current) \o Standard

SkillPresent(root, policy) == installed[root] \in IF policy THEN {"policy"} ELSE {"skill", "policy"}

\* The first candidate that has the skill, or the explicit root when it is reached before.
ResolveSkillsRoot(env, policy) ==
  LET roots == CandidateSkillsRoots(env)
      ends == {i \in DOMAIN roots : SkillPresent(roots[i], policy) \/ roots[i] = env.explicit}
  IN IF ends = {} THEN "claude" ELSE roots[CHOOSE i \in ends : \A j \in ends : i <= j]

\* resolve_skills_root without a skill's name: any folder will do.
AnySkillsRoot(env) ==
  LET roots == CandidateSkillsRoots(env)
      ends == {i \in DOMAIN roots : installed[roots[i]] # "none" \/ roots[i] = env.explicit}
  IN IF ends = {} THEN "claude" ELSE roots[CHOOSE i \in ends : \A j \in ends : i <= j]

\* bundled_story_skill_root, "none" when it raises.
BundledStorySkillRoot(env) ==
  LET root == ResolveSkillsRoot(env, TRUE)
  IN IF SkillPresent(root, TRUE) THEN root
     ELSE IF env.current # NotSet /\ SkillPresent(env.current, TRUE) THEN env.current ELSE "none"

InferProviderFromRoot(root) ==
  IF root \in {"claude", "homeClaude"} THEN "claude"
  ELSE IF root \in {"agents", "codex", "homeCodex"} THEN "codex" ELSE NotSet

RuntimeProvider(env) ==
  IF env.provider # NotSet THEN env.provider
  ELSE IF InferProviderFromRoot(env.explicit) # NotSet THEN InferProviderFromRoot(env.explicit)
  ELSE IF InferProviderFromRoot(env.current) # NotSet THEN InferProviderFromRoot(env.current)
  ELSE IF installed["agents"] \in {"skill", "policy"} \/ installed["codex"] \in {"skill", "policy"} THEN "codex" ELSE "claude"

\* The marker follows the skills root of the project it runs from.
ActiveMarkerPath(env) ==
  LET root == ResolveSkillsRoot(env, FALSE)
      follows == /\ root \in {"agents", "claude", "codex"}
                 /\ SkillPresent(root, FALSE) \/ root = env.explicit \/ root = env.current
  IN IF env.marker # NotSet THEN env.marker
     ELSE IF follows THEN root ELSE IF RuntimeProvider(env) = "codex" THEN "agents" ELSE "claude"

\* resolve_portable_path: a path of another layout is a path of the skills root in use,
\* and nothing when it leaves the skill's folder.
ResolvePortablePath(env, path) ==
  IF path.escapes THEN [root |-> "none", escapes |-> FALSE]
  ELSE IF path.root \in {"claude", "agents", "codex", "neutral"}
  THEN [root |-> ResolveSkillsRoot(env, FALSE), escapes |-> FALSE] ELSE [root |-> "none", escapes |-> FALSE]

(***************************************************************************)
(* The artifacts.                                                          *)
(***************************************************************************)
Places == {"legacyStory", "legacyStatus", "outputStatus", "docsFolder", "docsStatus", "configuredStatus"}

\* _configured_artifacts_dir: nothing, a folder of the project, or an error.
ConfiguredArtifactsDir ==
  CASE bmadConfig = "absent" -> "none" [] bmadConfig = "outside" -> "error" [] OTHER -> "configured"

LegacyArtifactsPresent == {"legacyStory", "legacyStatus", "outputStatus"} \cap artifacts # {}

ImplementationArtifactsDir ==
  IF ConfiguredArtifactsDir # "none" THEN ConfiguredArtifactsDir
  ELSE IF ~LegacyArtifactsPresent /\ "docsFolder" \in artifacts THEN "docs" ELSE "legacy"

StatusIn(dir) == CASE dir = "configured" -> "configuredStatus" [] dir = "docs" -> "docsStatus" [] OTHER -> "legacyStatus"

SprintStatusPath ==
  LET preferred == StatusIn(ImplementationArtifactsDir) IN
  IF ImplementationArtifactsDir = "error" THEN "error"
  ELSE IF preferred \notin artifacts /\ "outputStatus" \in artifacts THEN "outputStatus" ELSE preferred

(***************************************************************************)
(* Installers and agents.                                                  *)
(***************************************************************************)
Change == layoutChanges < MaxInstalls /\ layoutChanges' = layoutChanges + 1

InstallSkill(root, what) ==
  /\ Change /\ installed[root] # what /\ installed' = [installed EXCEPT ![root] = what]
  /\ UNCHANGED <<artifacts, bmadConfig>>

\* Agents write where the paths lead them, users where they like.
WriteArtifactAt(place) ==
  /\ Change /\ place \notin artifacts
  /\ artifacts' = artifacts \cup {place} \cup IF place = "docsStatus" THEN {"docsFolder"} ELSE {}
  /\ UNCHANGED <<installed, bmadConfig>>

LayoutInit == /\ installed = [root \in SkillsRoots |-> "none"] /\ artifacts = {}
              /\ bmadConfig \in BmadConfigs /\ layoutChanges = 0

LayoutNext == \/ \E root \in SkillsRoots, what \in {"none", "dir", "skill", "policy"} : InstallSkill(root, what)
              \/ \E place \in Places : WriteArtifactAt(place)

LayoutSpec == LayoutInit /\ [][LayoutNext]_layoutVars

-----------------------------------------------------------------------------
LayoutTypeOK == /\ DOMAIN installed = SkillsRoots /\ artifacts \subseteq Places /\ bmadConfig \in BmadConfigs
                /\ layoutChanges \in 0..MaxInstalls

\* Processes that run from the same folder of the project under the same
\* explicit root agree on the marker, whatever provider each is told: the
\* stop hook and the orchestrator look at the same file.
MarkerIsShared ==
  \A e, f \in Environments :
    /\ e.explicit = f.explicit /\ e.current = f.current /\ e.marker = f.marker
    /\ ResolveSkillsRoot(e, FALSE) \in {"agents", "claude", "codex"} /\ SkillPresent(ResolveSkillsRoot(e, FALSE), FALSE)
    => ActiveMarkerPath(e) = ActiveMarkerPath(f)

\* A process that starts from an installed skill, with no explicit root, uses
\* that skill's own files, and finds its bundled policy when it is complete.
OwnInstallIsUsed ==
  \A e \in Environments : e.explicit = NotSet /\ e.current # NotSet =>
    /\ SkillPresent(e.current, FALSE) => ResolveSkillsRoot(e, FALSE) = e.current /\ AnySkillsRoot(e) = e.current
    /\ SkillPresent(e.current, TRUE) => BundledStorySkillRoot(e) = e.current

\* A portable path leads into the skills root in use, whatever layout it was written for.
PortablePathsAgree ==
  \A e \in Environments : \A a, b \in {"claude", "agents", "codex", "neutral"} :
    ResolvePortablePath(e, [root |-> a, escapes |-> FALSE]) = ResolvePortablePath(e, [root |-> b, escapes |-> FALSE])
=============================================================================
