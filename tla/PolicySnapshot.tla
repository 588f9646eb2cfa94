--------------------------- MODULE PolicySnapshot ---------------------------
(***************************************************************************)
(* The policy that an orchestration run follows, core/runtime_policy.py    *)
(* and build-state-doc of commands/state.py.  A run pins its policy: the   *)
(* effective policy is written to a snapshot file and the state document   *)
(* names that file and its hash.  Every later command finds the state      *)
(* document, and through it the policy, while people edit the override,    *)
(* the prompt templates, the snapshot and the document, and upgrade the    *)
(* skill.                                                                  *)
(*                                                                         *)
(* A file is abstracted to the version of its content, which is also its   *)
(* hash; Missing is the version of a file that is not there.  The policy   *)
(* is reduced to the retry budget, which the layers override, and the      *)
(* prompt template and success contract, files it refers to.               *)
(***************************************************************************)
EXTENDS Integers, Sequences, FiniteSets

CONSTANTS Docs,        \* paths of state documents
          Budgets,     \* retry budgets that a layer may set
          Instructions, \* whether custom instructions may hold the frontmatter's delimiter
          MaxSnapshots, MaxPolicyChanges \* bounds: snapshots and edits by people

ASSUME PolicyAssumption ==
  Budgets \subseteq Nat \ {0} /\ Instructions \subseteq BOOLEAN /\ MaxSnapshots \in Nat /\ MaxPolicyChanges \in Nat

VARIABLES bundled,   \* the skill's own policy: its retry budget
          override,  \* the project's override: a budget, UnsetPolicy, or Invalid
          legacyEnv, \* MAX_CRASH_RETRIES: a budget, UnsetPolicy, or Invalid
          files,     \* content of the data files the policy may resolve to
          policySnapshots, \* the snapshot files
          docs,      \* the state documents
          building,  \* build-state-doc between its two writes
          marker,    \* the active-run marker
          envState,  \* STORY_AUTOMATOR_STATE_FILE
          policyChanges,   \* edits so far
          pinned,    \* per document: what the run was started with
          loaded     \* what the last command loaded

policyVars == <<bundled, override, legacyEnv, files, policySnapshots, docs, building, marker, envState,
                policyChanges, pinned, loaded>>

UnsetPolicy == 0
Invalid == -1
Missing == 0
NoDocument == [exists |-> FALSE, file |-> 0, hash |-> <<>>, version |-> FALSE, legacy |-> "", cut |-> FALSE]
NoPin == [budget |-> 0, template |-> 0, contract |-> 0]
Nowhere == "none"
DataFiles == {"bundleTemplate", "projectTemplate", "contract"}

Failed(error) == [ok |-> FALSE, error |-> error, source |-> "", doc |-> Nowhere, budget |-> 0, template |-> 0, contract |-> 0]
NotLoaded == Failed("")

(***************************************************************************)
(* The layers of a policy and the data files it names.                     *)
(***************************************************************************)
\* _resolve_data_path: the bundle's file hides the project's.
TemplateNow == IF files["bundleTemplate"] # Missing THEN files["bundleTemplate"] ELSE files["projectTemplate"]
ContractNow == files["contract"]

\* The override is merged over the bundled policy, the environment over both.
EffectiveBudget ==
  CASE legacyEnv \in Budgets -> legacyEnv
    [] legacyEnv = UnsetPolicy /\ override \in Budgets -> override
    [] legacyEnv = UnsetPolicy /\ override = UnsetPolicy -> bundled
    [] OTHER -> Invalid
EffectiveValid == override # Invalid /\ legacyEnv # Invalid

\* _set_or_verify_hash: a recorded hash has to be that of the file now; full loads
\* resolve the template, every load the success contract.
ResolvedPolicy(policy, full, source, doc) ==
  IF (full /\ TemplateNow = Missing) \/ ContractNow = Missing THEN Failed("policy data file missing")
  ELSE IF (full /\ policy.template # UnsetPolicy /\ policy.template # TemplateNow)
            \/ (policy.contract # UnsetPolicy /\ policy.contract # ContractNow) THEN Failed("hash mismatch")
  ELSE [ok |-> TRUE, error |-> "", source |-> source, doc |-> doc, budget |-> policy.budget,
        template |-> IF full THEN TemplateNow ELSE UnsetPolicy, contract |-> ContractNow]

Unhashed(budget) == [budget |-> budget, template |-> UnsetPolicy, contract |-> UnsetPolicy]

LoadEffectivePolicy(full) ==
  IF ~EffectiveValid THEN Failed("policy invalid") ELSE ResolvedPolicy(Unhashed(EffectiveBudget), full, "effective", Nowhere)

LoadBundledPolicy(full, doc) == ResolvedPolicy(Unhashed(bundled), full, "bundled", doc)

LoadPolicySnapshot(file, hash, full, doc) ==
  IF policySnapshots[file] = <<>> THEN Failed("policy snapshot missing")
  ELSE IF policySnapshots[file] # hash THEN Failed("policy snapshot hash mismatch")
  ELSE ResolvedPolicy(hash[1], full, "snapshot", doc)

(***************************************************************************)
(* The state document.  Its frontmatter ends at the next delimiter, and    *)
(* the custom instructions stand above the policy's fields.                *)
(***************************************************************************)
Fields(doc) == IF doc.cut THEN NoDocument ELSE doc

LoadPolicyForState(path, full) ==
  LET fields == Fields(docs[path]) IN
  IF ~docs[path].exists THEN Failed("state file unreadable")
  ELSE IF fields.file # 0 \/ fields.hash # <<>>
  THEN IF fields.file = 0 \/ fields.hash = <<>> THEN Failed("state policy metadata incomplete")
       ELSE IF fields.legacy = "true" THEN Failed("state policy metadata contradictory")
       ELSE LoadPolicySnapshot(fields.file, fields.hash, full, path)
  ELSE IF fields.legacy = "false" \/ fields.version THEN Failed("state policy snapshot missing")
  ELSE LoadBundledPolicy(full, path)

\* Mutant: a marker whose document is gone is as good as none.
LoadPolicyLeniently(explicit, full) ==
  IF explicit # Nowhere THEN LoadPolicyForState(explicit, full)
  ELSE IF envState # Nowhere
  THEN IF docs[envState].exists THEN LoadPolicyForState(envState, full) ELSE Failed("env state file missing")
  ELSE IF marker \in Docs /\ docs[marker].exists THEN LoadPolicyForState(marker, full)
  ELSE LoadEffectivePolicy(full)

\* load_runtime_policy: the state file of the command, of the environment, of the marker.
LoadRuntimePolicy(explicit, full) ==
  IF explicit # Nowhere THEN LoadPolicyForState(explicit, full)
  ELSE IF envState # Nowhere
  THEN IF docs[envState].exists THEN LoadPolicyForState(envState, full) ELSE Failed("env state file missing")
  ELSE IF marker = "invalid" THEN Failed("active-run marker invalid")
  ELSE IF marker # Nowhere
  THEN IF docs[marker].exists THEN LoadPolicyForState(marker, full) ELSE Failed("marker state file missing")
  ELSE LoadEffectivePolicy(full)

(***************************************************************************)
(* Commands.                                                               *)
(***************************************************************************)
\* snapshot_effective_policy, then the document; a crash in between leaves a
\* snapshot that nothing names.
WriteSnapshot(path) ==
  /\ building = Nowhere /\ ~docs[path].exists /\ Len(policySnapshots) < MaxSnapshots
  /\ LET policy == LoadEffectivePolicy(TRUE) IN
     /\ policy.ok
     /\ policySnapshots' = Append(policySnapshots, <<[budget |-> policy.budget, template |-> policy.template,
                                           contract |-> policy.contract]>>)
  /\ building' = path
  /\ UNCHANGED <<bundled, override, legacyEnv, files, docs, marker, envState, policyChanges, pinned, loaded>>

WriteStateDoc ==
  /\ building # Nowhere
  /\ \E cut \in Instructions :
       docs' = [docs EXCEPT ![building] =
         [exists |-> TRUE, file |-> Len(policySnapshots), hash |-> policySnapshots[Len(policySnapshots)],
          version |-> TRUE, legacy |-> "false", cut |-> cut]]
  /\ pinned' = [pinned EXCEPT ![building] = policySnapshots[Len(policySnapshots)][1]]
  /\ building' = Nowhere
  /\ UNCHANGED <<bundled, override, legacyEnv, files, policySnapshots, marker, envState, policyChanges, loaded>>

BuildDies ==
  /\ building # Nowhere /\ building' = Nowhere
  /\ UNCHANGED <<bundled, override, legacyEnv, files, policySnapshots, docs, marker, envState, policyChanges, pinned, loaded>>

MarkerCreate(path) ==
  /\ docs[path].exists /\ marker' = path
  /\ UNCHANGED <<bundled, override, legacyEnv, files, policySnapshots, docs, building, envState, policyChanges, pinned, loaded>>

MarkerRemove ==
  /\ marker # Nowhere /\ marker' = Nowhere
  /\ UNCHANGED <<bundled, override, legacyEnv, files, policySnapshots, docs, building, envState, policyChanges, pinned, loaded>>

Load(explicit, full) ==
  /\ loaded = NotLoaded
  /\ loaded' = LoadRuntimePolicy(explicit, full)
  /\ UNCHANGED <<bundled, override, legacyEnv, files, policySnapshots, docs, building, marker, envState, policyChanges, pinned>>

(***************************************************************************)
(* What people change.  A snapshot or a document is edited after it has    *)
(* been written; a document is edited once, and loses some of its fields.  *)
(***************************************************************************)
Edit == policyChanges < MaxPolicyChanges /\ building = Nowhere /\ policyChanges' = policyChanges + 1 /\ loaded' = NotLoaded
          /\ UNCHANGED <<building, envState, pinned>>

EditLayers ==
  /\ Edit
  /\ \/ \E b \in Budgets : bundled' = b /\ UNCHANGED <<override, legacyEnv>>
     \/ \E b \in Budgets \cup {Invalid} : override' = b /\ UNCHANGED <<bundled, legacyEnv>>
     \/ \E b \in Budgets \cup {Invalid} : legacyEnv' = b /\ UNCHANGED <<bundled, override>>
  /\ UNCHANGED <<files, policySnapshots, docs, marker>>

EditFile(name) ==
  /\ Edit
  /\ \E version \in {Missing, files[name] + 1} : files' = [files EXCEPT ![name] = version]
  /\ UNCHANGED <<bundled, override, legacyEnv, policySnapshots, docs, marker>>

EditSnapshot(i) ==
  /\ Edit
  /\ \/ policySnapshots' = [policySnapshots EXCEPT ![i] = <<>>]
     \/ \E b \in Budgets : policySnapshots[i] # <<>> /\ policySnapshots[i][1].budget # b
                            /\ policySnapshots' = [policySnapshots EXCEPT ![i][1].budget = b]
  /\ UNCHANGED <<bundled, override, legacyEnv, files, docs, marker>>

EditDoc(path) ==
  /\ Edit /\ docs[path].hash # <<>> /\ docs[path].file # 0 /\ docs[path].legacy = "false"
  /\ \/ docs' = [docs EXCEPT ![path] = [@ EXCEPT !.file = 0]]
     \/ docs' = [docs EXCEPT ![path] = [@ EXCEPT !.hash = <<>>]]
     \/ docs' = [docs EXCEPT ![path] = [@ EXCEPT !.file = 0, !.hash = <<>>]]
     \/ docs' = [docs EXCEPT ![path] = [@ EXCEPT !.legacy = "true"]]
     \/ docs' = [docs EXCEPT ![path] = [@ EXCEPT !.legacy = "", !.version = FALSE]]
     \/ docs' = [docs EXCEPT ![path] = NoDocument]
  /\ UNCHANGED <<bundled, override, legacyEnv, files, policySnapshots, marker>>

BreakMarker ==
  /\ Edit /\ marker \in Docs /\ marker' = "invalid"
  /\ UNCHANGED <<bundled, override, legacyEnv, files, policySnapshots, docs>>

PolicyInit ==
  /\ bundled \in Budgets /\ override = UnsetPolicy /\ legacyEnv = UnsetPolicy
  /\ files = [name \in DataFiles |-> 1] /\ policySnapshots = <<>>
  /\ docs = [path \in Docs |-> NoDocument] /\ building = Nowhere
  /\ marker = Nowhere /\ envState \in Docs \cup {Nowhere}
  /\ policyChanges = 0 /\ pinned = [path \in Docs |-> NoPin] /\ loaded = NotLoaded

PolicyNext ==
  \/ \E path \in Docs : WriteSnapshot(path) \/ MarkerCreate(path) \/ EditDoc(path)
  \/ WriteStateDoc \/ BuildDies \/ MarkerRemove \/ BreakMarker \/ EditLayers
  \/ \E explicit \in Docs \cup {Nowhere}, full \in BOOLEAN : Load(explicit, full)
  \/ \E name \in DataFiles : EditFile(name)
  \/ \E i \in DOMAIN policySnapshots : EditSnapshot(i)

PolicySpec == PolicyInit /\ [][PolicyNext]_policyVars

-----------------------------------------------------------------------------
PolicyTypeOK ==
  /\ marker \in Docs \cup {Nowhere, "invalid"} /\ envState \in Docs \cup {Nowhere}
  /\ policyChanges \in 0..MaxPolicyChanges /\ Len(policySnapshots) <= MaxSnapshots
  /\ \A path \in Docs : docs[path].file \in 0..Len(policySnapshots)

\* A command that loads the policy of a run gets the policy the run was started with,
\* with the data files as they were, or it fails: no edit of a layer, a template, a
\* snapshot or the document lets it go on with another one.  A document whose custom
\* instructions cut the frontmatter short is one from before the snapshots to its
\* readers: its run follows the bundled policy of the day, never a layer.
LoadedIsPinned ==
  loaded.ok /\ loaded.doc # Nowhere =>
    IF docs[loaded.doc].cut THEN loaded.source = "bundled" /\ loaded.budget = bundled
    ELSE /\ loaded.source = "snapshot"
         /\ loaded.budget = pinned[loaded.doc].budget
         /\ loaded.template \in {UnsetPolicy, pinned[loaded.doc].template}
         /\ loaded.contract = pinned[loaded.doc].contract

\* A command that names no state document never follows the layers of the day
\* while an environment or a marker says that a run is active.
ActiveRunIsFollowed ==
  [][(\E full \in BOOLEAN : Load(Nowhere, full)) /\ (envState # Nowhere \/ marker # Nowhere)
        => loaded'.source # "effective"]_policyVars

=============================================================================
