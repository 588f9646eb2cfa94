----------------------------- MODULE SprintFile -----------------------------
(***************************************************************************)
(* The sprint-status.yaml of a project and the two scripts that rewrite    *)
(* it: sprint_plan.py generate, which merges the plan of the epic files    *)
(* into it, and sprint_status.py update, which closes a retrospective and  *)
(* keeps its action items.  Each reads the file, computes a document,      *)
(* replaces the file, reads it back and puts the original bytes back when  *)
(* what it reads is not what it wrote.  Neither takes a lock: a developer, *)
(* a build agent or the other script may write the file between two of its *)
(* steps.  status, validate and detect-epic only read.                     *)
(***************************************************************************)
EXTENDS Integers, Sequences, FiniteSets, SequencesExt

CONSTANTS SprintKeys,    \* keys of development_status: [kind, epic, name]
          SprintEpics,   \* sets of story keys that the epic files may list
          DevStatuses,   \* statuses that a developer or an agent writes
          PlanSets,      \* values of generate's --set: sets of <<key, status>>
          RetroRequests, \* arguments of update: [epic, retroDone, updates, adds]
          MaxTurns       \* commands started and edits made by hand that are explored

ASSUME SprintAssumption ==
  /\ \A k \in SprintKeys : k.kind \in {"epic", "story", "retro", "other"} /\ k.epic \in Nat
  /\ \A docs \in SprintEpics : docs \subseteq {k \in SprintKeys : k.kind \in {"story", "other"}}
  /\ \A r \in RetroRequests :
       /\ r.epic \in Nat /\ r.adds \in Seq([id : STRING, text : STRING])
       /\ \A update \in r.updates : update.status \in {"open", "in-progress", "done"}
  /\ MaxTurns \in Nat

VARIABLES sprintFile,  \* the document on disk
          epicDocs,       \* story keys of the epic files, and epics that they head
          storyFiles,  \* story keys whose story file exists
          plan,        \* the running generate command
          retro,       \* the running update command
          turns        \* commands started and edits made by hand so far

sprintVars == <<sprintFile, epicDocs, storyFiles, plan, retro, turns>>

Ladder == [story |-> <<"backlog", "ready-for-dev", "in-progress", "review", "done">>,
           epic  |-> <<"backlog", "in-progress", "done">>,
           retro |-> <<"optional", "done">>,
           other |-> <<>>]
Legal(kind) == ToSet(Ladder[kind])
Rank(kind, s) == CHOOSE i \in DOMAIN Ladder[kind] : Ladder[kind][i] = s
ActionStatuses == {"open", "in-progress", "done"}

\* The vocabulary of v6, read by its modern meaning.
Normalized(raw) == CASE raw = "drafted" -> "ready-for-dev"
                     [] raw = "contexted" -> "in-progress"
                     [] OTHER -> raw

\* `kind` is what classify_key makes of a key, "other" when it recognizes none.  A plan
\* takes `### Story 2.6A` for a story, whose key 2-6A-... the classifier refuses.
PlanKind(k) == IF k.kind = "other" THEN "story" ELSE k.kind

\* `dated`: the stamp `generated` is one that validate can read.  A command that finds
\* no stamp writes its own date.
NoDoc == [state |-> "none", dev |-> <<>>, items |-> <<>>, dated |-> TRUE]
Doc(dev, items, dated) == [state |-> "good", dev |-> dev, items |-> items, dated |-> dated]

\* parse_epics: the entries of a plan are the stories of the epic files, whatever the
\* classifier says of their keys, and for every epic they mention the epic itself and
\* its retrospective.
ParsedEntries(docs) ==
  LET nums == {k.epic : k \in docs}
  IN  docs \cup {k \in SprintKeys : k.kind \in {"epic", "retro"} /\ k.epic \in nums}

Computed(k) == CASE k.kind = "retro" -> "optional"
                 [] PlanKind(k) = "story" /\ k \in storyFiles -> "ready-for-dev"
                 [] OTHER -> "backlog"

\* Mutant: what the file says in an old word counts as nothing.
MergeModernStatus(k, raw) ==
  LET kind == PlanKind(k) IN
  IF raw \in Legal(kind) /\ Rank(kind, raw) >= Rank(kind, Computed(k)) THEN raw ELSE Computed(k)

\* _merge_status: the higher of what is computed and what the file says.
MergeStatus(k, raw) ==
  LET existing == Normalized(raw)
      kind == PlanKind(k)
  IN  IF existing \in Legal(kind) /\ Rank(kind, existing) >= Rank(kind, Computed(k))
      THEN existing ELSE Computed(k)

\* build_status, over the development_status of the file or over nothing.
BuildStatus(docs, dev) ==
  [k \in ParsedEntries(docs) |-> IF k \in DOMAIN dev THEN MergeStatus(k, dev[k]) ELSE Computed(k)]

\* _parse_sets: every pair names a planned key and a legal status of it; for a key that
\* the classifier refuses it crashes, which ends the command as well.
SetsAreLegal(sets, dev) == \A p \in sets : p[1] \in DOMAIN dev /\ p[2] \in Legal(p[1].kind)
WithSets(dev, sets) ==
  [k \in DOMAIN dev |-> IF \E p \in sets : p[1] = k THEN (CHOOSE p \in sets : p[1] = k)[2] ELSE dev[k]]
-----------------------------------------------------------------------------
(* The commands, as processes.  `quiet` is a ghost: nobody else wrote the file since
   the command first read it. *)
Idle == [step |-> "idle", docs |-> {}, loaded |-> NoDoc, original |-> NoDoc, new |-> NoDoc,
         fresh |-> FALSE, sets |-> {}, request |-> 0, quiet |-> TRUE, restored |-> TRUE]

Disturbed(c) == [c EXCEPT !.quiet = c.step = "idle"]

\* Both scripts replace the file by a rename: no reader sees a part of it.
ReplaceByPlan(doc) == sprintFile' = doc /\ retro' = Disturbed(retro)
ReplaceByRetro(doc) == sprintFile' = doc /\ plan' = Disturbed(plan)

Ended(c, outcome, restored) ==
  [c EXCEPT !.step = outcome, !.restored = restored, !.loaded = NoDoc, !.new = NoDoc]
PlanEnds(outcome, restored) == plan' = Ended(plan, outcome, restored)

\* cmd_generate parses the epic files and reads the file, which may be missing; a file
\* that is not a mapping fails it before anything is written.
PlanLoad ==
  /\ plan.step \in {"idle", "ok", "failed"} /\ epicDocs # {} /\ turns < MaxTurns /\ turns' = turns + 1
  /\ \E fresh \in BOOLEAN, sets \in PlanSets :
       plan' = IF sprintFile.state = "broken"
               THEN [Idle EXCEPT !.step = "failed", !.original = sprintFile]
               ELSE [Idle EXCEPT !.step = "bytes", !.docs = epicDocs, !.loaded = sprintFile, !.fresh = fresh, !.sets = sets]
  /\ UNCHANGED <<sprintFile, epicDocs, storyFiles, retro>>

\* It reads the bytes that a failure puts back in a read of their own, then merges.
\* A dry run, and a --set that is not legal, end here.
PlanMerge ==
  /\ plan.step = "bytes"
  /\ LET dev == BuildStatus(plan.docs, IF plan.fresh THEN <<>> ELSE plan.loaded.dev)
         read == [plan EXCEPT !.docs = {}, !.original = sprintFile,
                              !.new = Doc(WithSets(dev, plan.sets), plan.loaded.items, plan.loaded.dated)]
     IN  \/ /\ SetsAreLegal(plan.sets, dev) /\ plan' = [read EXCEPT !.step = "write"]
         \/ /\ ~SetsAreLegal(plan.sets, dev) /\ plan' = Ended(read, "failed", TRUE)
         \/ /\ SetsAreLegal(plan.sets, dev) /\ plan' = Ended(read, "failed", TRUE)  \* --dry-run
  /\ UNCHANGED <<sprintFile, epicDocs, storyFiles, retro, turns>>

\* The write lands, or it fails before the rename; its handler then restores too.
PlanWrite ==
  /\ plan.step = "write"
  /\ \/ ReplaceByPlan(plan.new) /\ plan' = [plan EXCEPT !.step = "verify"]
     \/ UNCHANGED <<sprintFile, retro>> /\ plan' = [plan EXCEPT !.step = "restore"]
  /\ UNCHANGED <<epicDocs, storyFiles, turns>>

\* It reads the file back and compares development_status; the reading may fail.
PlanVerify ==
  /\ plan.step = "verify"
  /\ \/ sprintFile.state = "good" /\ sprintFile.dev = plan.new.dev /\ PlanEnds("ok", FALSE)
     \/ plan' = [plan EXCEPT !.step = "restore"]
  /\ UNCHANGED <<sprintFile, epicDocs, storyFiles, retro, turns>>

\* It puts the original bytes back, or removes a file that was not there.
PlanRestore ==
  /\ plan.step = "restore"
  /\ \/ ReplaceByPlan(plan.original) /\ PlanEnds("failed", TRUE)
     \/ plan.original.state # "none" /\ UNCHANGED <<sprintFile, retro>> /\ PlanEnds("failed", FALSE)
  /\ UNCHANGED <<epicDocs, storyFiles, turns>>
-----------------------------------------------------------------------------
RetroEnds(outcome, restored) == retro' = Ended(retro, outcome, restored)
RetroKey(epic) == {k \in SprintKeys : k.kind = "retro" /\ k.epic = epic}

\* _match_action_items: by id when the selector has one, else by epic and text.
Matches(sel, items) ==
  {i \in DOMAIN items : IF sel.id # "" THEN items[i].id = sel.id
                        ELSE items[i].epic = sel.epic /\ items[i].text = sel.text}
SelectorsAreExact(updates, items) ==
  /\ \A sel \in updates : Cardinality(Matches(sel, items)) = 1
  /\ \A s1, s2 \in updates : s1 # s2 => Matches(s1, items) # Matches(s2, items)
Transitioned(updates, items) ==
  [i \in DOMAIN items |->
     LET sel == {s \in updates : i \in Matches(s, items)}
     IN  IF sel = {} THEN items[i] ELSE [items[i] EXCEPT !.status = (CHOOSE s \in sel : TRUE).status]]

\* The items appended, each with its own id or with one made of its epic and its
\* place in the file (the slug of its text adds nothing to tell two items apart by).
AutoId(epic, n) == "item-" \o ToString(epic) \o "-" \o ToString(n)
Appended(epic, adds, items) ==
  items \o [j \in DOMAIN adds |-> [id |-> IF adds[j].id # "" THEN adds[j].id
                                          ELSE AutoId(epic, Len(items) + j),
                                   epic |-> epic, text |-> adds[j].text, status |-> "open"]]

\* cmd_update keeps the original bytes first, and reads the document afterwards.
RetroBytes ==
  /\ retro.step \in {"idle", "ok", "failed"} /\ turns < MaxTurns /\ turns' = turns + 1
  /\ \E r \in RetroRequests :
       retro' = [Idle EXCEPT !.request = r, !.original = sprintFile,
                             !.step = IF sprintFile.state = "none" THEN "failed" ELSE "load"]
  /\ UNCHANGED <<sprintFile, epicDocs, storyFiles, plan>>

RetroLoad ==
  /\ retro.step = "load"
  /\ LET r == retro.request
         keys == RetroKey(r.epic) \cap DOMAIN sprintFile.dev
         dev == [k \in DOMAIN sprintFile.dev |->
                   IF r.retroDone /\ k \in keys THEN "done" ELSE sprintFile.dev[k]]
         items == Appended(r.epic, r.adds, Transitioned(r.updates, sprintFile.items))
     IN  retro' = IF sprintFile.state = "good" /\ SelectorsAreExact(r.updates, sprintFile.items)
                  THEN [retro EXCEPT !.step = "write", !.loaded = sprintFile, !.new = Doc(dev, items, sprintFile.dated)]
                  ELSE Ended(retro, "failed", TRUE)
  /\ UNCHANGED <<sprintFile, epicDocs, storyFiles, plan, turns>>

\* A write that fails has not touched the file, and nothing is restored.
RetroWrite ==
  /\ retro.step = "write"
  /\ \/ ReplaceByRetro(retro.new) /\ retro' = [retro EXCEPT !.step = "verify"]
     \/ UNCHANGED <<sprintFile, plan>> /\ RetroEnds("failed", TRUE)
  /\ UNCHANGED <<epicDocs, storyFiles, turns>>

\* What it wants to read back: the retrospective done, the number of items, and the
\* items it moved.  A comment line that the emitter lost fails it as well.
RetroReadsBack ==
  /\ sprintFile.state = "good"
  /\ \A k \in RetroKey(retro.request.epic) \cap DOMAIN retro.new.dev :
       retro.request.retroDone => k \in DOMAIN sprintFile.dev /\ sprintFile.dev[k] = "done"
  /\ Len(sprintFile.items) = Len(retro.new.items)
  /\ \A i \in DOMAIN retro.loaded.items :
       (\E s \in retro.request.updates : i \in Matches(s, retro.loaded.items))
         => sprintFile.items[i].status = retro.new.items[i].status
RetroVerify ==
  /\ retro.step = "verify"
  /\ \/ RetroReadsBack /\ RetroEnds("ok", FALSE)
     \/ retro' = [retro EXCEPT !.step = "restore"]
  /\ UNCHANGED <<sprintFile, epicDocs, storyFiles, plan, turns>>

RetroRestore ==
  /\ retro.step = "restore"
  /\ \/ ReplaceByRetro(retro.original) /\ RetroEnds("failed", TRUE)
     \/ UNCHANGED <<sprintFile, plan>> /\ RetroEnds("failed", FALSE)
  /\ UNCHANGED <<epicDocs, storyFiles, turns>>
-----------------------------------------------------------------------------
(* What the scripts do not do themselves: a command is killed, and a developer or
   an agent edits the status of a story or the stamp, breaks the file, writes a story or plans. *)
PlanKilled == /\ plan.step \in {"write", "verify", "restore"} /\ plan' = Idle
              /\ UNCHANGED <<sprintFile, epicDocs, storyFiles, retro, turns>>
RetroKilled == /\ retro.step \in {"write", "verify", "restore"} /\ retro' = Idle
               /\ UNCHANGED <<sprintFile, epicDocs, storyFiles, plan, turns>>

HandEdit ==
  /\ turns < MaxTurns /\ turns' = turns + 1
  /\ \/ /\ sprintFile.state = "good"
        /\ \/ \E k \in SprintKeys, s \in DevStatuses :
                sprintFile' = [sprintFile EXCEPT !.dev =
                  [x \in DOMAIN sprintFile.dev \cup {k} |-> IF x = k THEN s ELSE sprintFile.dev[x]]]
           \/ sprintFile' = [sprintFile EXCEPT !.dated = FALSE]
           \/ sprintFile' = [NoDoc EXCEPT !.state = "broken"]
        /\ plan' = Disturbed(plan) /\ retro' = Disturbed(retro)
        /\ UNCHANGED <<epicDocs, storyFiles>>
     \/ /\ \E k \in epicDocs \ storyFiles : storyFiles' = storyFiles \cup {k}
        /\ UNCHANGED <<sprintFile, epicDocs, plan, retro>>
     \/ /\ epicDocs' \in SprintEpics \ {epicDocs}
        /\ UNCHANGED <<sprintFile, storyFiles, plan, retro>>

SprintInit == /\ sprintFile = NoDoc /\ epicDocs \in SprintEpics /\ storyFiles = {}
              /\ plan = Idle /\ retro = Idle /\ turns = 0

SprintNext == \/ PlanLoad \/ PlanMerge \/ PlanWrite \/ PlanVerify \/ PlanRestore \/ PlanKilled
              \/ RetroBytes \/ RetroLoad \/ RetroWrite \/ RetroVerify \/ RetroRestore \/ RetroKilled
              \/ HandEdit

SprintSpec == SprintInit /\ [][SprintNext]_sprintVars
-----------------------------------------------------------------------------
(* The readers. *)
Recognized(dev) == {k \in DOMAIN dev : k.kind # "other"}
IsLegal(dev, k) == Normalized(dev[k]) \in Legal(k.kind)

\* cmd_validate.
Valid(doc) == /\ doc.state = "good" /\ doc.dated /\ DOMAIN doc.dev # {}
              /\ Recognized(doc.dev) = DOMAIN doc.dev
              /\ \A k \in DOMAIN doc.dev : IsLegal(doc.dev, k)
              /\ \A i \in DOMAIN doc.items : doc.items[i].status \in ActionStatuses

\* cmd_status: the story it recommends, from the furthest status down, else an open
\* retrospective, else nothing: all done.
Stories(dev, s) == {k \in DOMAIN dev : k.kind = "story" /\ Normalized(dev[k]) = s}
Wanted == <<"in-progress", "review", "ready-for-dev", "backlog">>
Recommended(dev) ==
  LET open == {i \in DOMAIN Wanted : Stories(dev, Wanted[i]) # {}}
      first == CHOOSE i \in open : \A j \in open : i <= j
  IN  IF open # {} THEN Stories(dev, Wanted[first])
      ELSE {k \in DOMAIN dev : k.kind = "retro" /\ Normalized(dev[k]) = "optional"}
AllDone(dev) == Recommended(dev) = {}

\* cmd_detect_epic: the highest epic with a done story, and its pending stories.
DoneEpics(dev) == {k.epic : k \in {x \in DOMAIN dev : x.kind = "story" /\ dev[x] = "done"}}
Pending(dev, epic) == {k \in DOMAIN dev : k.kind = "story" /\ k.epic = epic /\ dev[k] # "done"}
-----------------------------------------------------------------------------
SprintTypeOK ==
  /\ sprintFile.state \in {"none", "broken", "good"}
  /\ DOMAIN sprintFile.dev \subseteq SprintKeys
  /\ plan.step \in {"idle", "bytes", "write", "verify", "restore", "ok", "failed"}
  /\ retro.step \in {"idle", "load", "write", "verify", "restore", "ok", "failed"}
  /\ epicDocs \subseteq SprintKeys /\ storyFiles \subseteq SprintKeys /\ turns \in 0..MaxTurns

\* No status that the old document holds is lowered, no action item is lost.
KeepsItems(old, new) ==
  /\ Len(old.items) <= Len(new.items)
  /\ \A i \in DOMAIN old.items : new.items[i].id = old.items[i].id /\ new.items[i].text = old.items[i].text
KeepsProgress(old, new, except) ==
  \A k \in DOMAIN old.dev \cap DOMAIN new.dev :
    LET kind == PlanKind(k) IN
    Normalized(old.dev[k]) \in Legal(kind) /\ k \notin except
     => Rank(kind, Normalized(new.dev[k])) >= Rank(kind, Normalized(old.dev[k]))

\* A command that nobody disturbed either did what it was asked, and then every story keeps the
\* progress it had (but for --fresh and --set) and every action item is there, or it left the file
\* as it found it, unless it says that it did not (sprint_plan.py:458-469, sprint_status.py:560-629).
Undisturbed(c, except) ==
  c.quiet => /\ c.step = "ok" => /\ KeepsItems(c.original, sprintFile)
                                 /\ c.fresh \/ KeepsProgress(c.original, sprintFile, except)
             /\ c.step = "failed" /\ c.restored => sprintFile = c.original
CommandIsAllOrNothing == /\ Undisturbed(plan, {p[1] : p \in plan.sets})
                         /\ Undisturbed(retro, {})

\* After a generate that nobody disturbed, every key that the readers recognize has a legal
\* status, and validate accepts the file but for its action items when it recognizes every
\* heading that the plan took for a story and could read the stamp that the plan keeps.  When
\* the status view then says that all is done, no epic has a story that the retrospective's own
\* reader would still find pending (sprint_plan.py:45-57, 402-404, 564-592, 622-640,
\* sprint_status.py:254-326).
GeneratedIsUsable ==
  plan.step = "ok" /\ plan.quiet =>
    /\ \A k \in Recognized(sprintFile.dev) : IsLegal(sprintFile.dev, k)
    /\ Recognized(sprintFile.dev) = DOMAIN sprintFile.dev /\ plan.original.dated
         => Valid([sprintFile EXCEPT !.items = <<>>])
    /\ AllDone(sprintFile.dev) => \A e \in {k.epic : k \in SprintKeys} : Pending(sprintFile.dev, e) = {}
=============================================================================
