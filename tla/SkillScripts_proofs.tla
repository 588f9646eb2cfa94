------------------------ MODULE SkillScripts_proofs -------------------------
(***************************************************************************)
(* What single scripts of the agent skills keep, each for itself: the      *)
(* event relay of bmad-loop for every number of hooks and every size of an *)
(* event, the loop over one story for every bound and policy, memory logs  *)
(* (memlog.py), the eval runners (run_evals.py, run_triggers.py), rendered *)
(* snapshots (render_skill.py over config_utils.py), the draws from a      *)
(* catalog (pick_methods.py), the retrospective that closes an epic        *)
(* (orchestrator_epic_agents.py over story_keys.py) and the agents that a  *)
(* configuration is resolved to (agent_config.py, state.py).               *)
(***************************************************************************)
EXTENDS AgentConfig, HookRelay, StoryLoop, MemoryLog, EvalRuns, SkillRender, Catalog, EpicRun, FiniteSetTheorems, SequenceTheorems, WellFoundedInduction, TLAPS

-----------------------------------------------------------------------------
(***************************************************************************)
(* The event relay.                                                        *)
(***************************************************************************)

EventDirs == {"own", "link"}
HookSteps == {"new", "check", "open", "create", "write", "publish", "rename", "done", "gone"}
FileMaps == UNION {[S -> Nat] : S \in SUBSET Hooks}
DirStates == [files : FileMaps, temps : FileMaps]
HookStates == [step : HookSteps, dir : {"none", "own", "link"}]

\* Steps at which a hook has a directory, and at which it has a temporary file.
HasDir == {"create", "write", "publish", "rename", "done"}
HasTemp == {"write", "publish", "rename"}

RelayShape ==
  /\ anchored \in BOOLEAN /\ eventsPath \in Paths /\ consumed \in FileMaps
  /\ eventDirs \in [EventDirs -> DirStates] /\ hookProcess \in [Hooks -> HookStates]

\* The inductive invariant, by what each part is about: one hook, or one file.
HookInv(h) ==
  LET step == hookProcess[h].step dir == hookProcess[h].dir
  IN /\ step \in HasDir \cup {"open"} => eventsPath # "none"
     /\ step \in HasDir => dir \in EventDirs /\ (anchored => dir = "own")
     /\ step \in {"new", "check", "open", "create"} => \A d \in EventDirs : h \notin DOMAIN eventDirs[d].temps
     /\ step \in HasTemp => \A d \in EventDirs : h \in DOMAIN eventDirs[d].temps <=> d = dir
     /\ step \in {"publish", "rename"} => eventDirs[dir].temps[h] = EventSize
     /\ step = "done" => h \in DOMAIN eventDirs[dir].files
FilesAreWhole == \A d \in EventDirs : \A h \in DOMAIN eventDirs[d].files : eventDirs[d].files[h] = EventSize
RelayInv == RelayShape /\ (\A h \in Hooks : HookInv(h)) /\ FilesAreWhole /\ ConsumedIsWhole

-----------------------------------------------------------------------------
\* Maps of files: what the three ways to change one give.
LEMMA FileMapFacts ==
  ASSUME NEW f \in FileMaps
  PROVE  DOMAIN f \subseteq Hooks /\ \A h \in DOMAIN f : f[h] \in Nat
BY DEF FileMaps

LEMMA FileMapIntro ==
  ASSUME NEW f, NEW S \in SUBSET Hooks, f \in [S -> Nat]
  PROVE  f \in FileMaps
BY DEF FileMaps

LEMMA HoldingFacts ==
  ASSUME NEW f \in FileMaps, NEW h \in Hooks, NEW bytes \in Nat
  PROVE  /\ Holding(f, h, bytes) \in FileMaps
         /\ DOMAIN Holding(f, h, bytes) = DOMAIN f \cup {h}
         /\ Holding(f, h, bytes)[h] = bytes
         /\ \A g \in DOMAIN f : g # h => Holding(f, h, bytes)[g] = f[g]
<1>1. DOMAIN f \subseteq Hooks /\ \A g \in DOMAIN f : f[g] \in Nat
  BY FileMapFacts
<1>2. Holding(f, h, bytes) \in [DOMAIN f \cup {h} -> Nat]
  BY <1>1 DEF Holding
<1>3. DOMAIN f \cup {h} \in SUBSET Hooks
  BY <1>1
<1>4. Holding(f, h, bytes) \in FileMaps
  BY <1>2, <1>3, FileMapIntro
<1> QED BY <1>4 DEF Holding

LEMMA LackingFacts ==
  ASSUME NEW f \in FileMaps, NEW h \in Hooks
  PROVE  /\ Lacking(f, h) \in FileMaps /\ DOMAIN Lacking(f, h) = DOMAIN f \ {h}
         /\ \A g \in DOMAIN f : g # h => Lacking(f, h)[g] = f[g]
<1>1. DOMAIN f \subseteq Hooks /\ \A g \in DOMAIN f : f[g] \in Nat
  BY FileMapFacts
<1>2. Lacking(f, h) \in [DOMAIN f \ {h} -> Nat]
  BY <1>1 DEF Lacking
<1>3. DOMAIN f \ {h} \in SUBSET Hooks
  BY <1>1
<1>4. Lacking(f, h) \in FileMaps
  BY <1>2, <1>3, FileMapIntro
<1> QED BY <1>4 DEF Lacking

LEMMA WrittenFacts ==
  ASSUME NEW f \in FileMaps, NEW h \in DOMAIN f, NEW bytes \in Nat
  PROVE  /\ [f EXCEPT ![h] = bytes] \in FileMaps
         /\ DOMAIN [f EXCEPT ![h] = bytes] = DOMAIN f /\ [f EXCEPT ![h] = bytes][h] = bytes
         /\ \A g \in DOMAIN f : g # h => [f EXCEPT ![h] = bytes][g] = f[g]
<1>1. DOMAIN f \subseteq Hooks /\ f \in [DOMAIN f -> Nat]
  BY DEF FileMaps
<1>2. [f EXCEPT ![h] = bytes] \in [DOMAIN f -> Nat]
  BY <1>1
<1>3. DOMAIN f \in SUBSET Hooks
  BY <1>1
<1>4. [f EXCEPT ![h] = bytes] \in FileMaps
  BY <1>2, <1>3, FileMapIntro
<1> QED BY <1>1, <1>4

LEMMA DirFacts ==
  ASSUME RelayShape, NEW d \in EventDirs
  PROVE  eventDirs[d].files \in FileMaps /\ eventDirs[d].temps \in FileMaps
BY DEF RelayShape, DirStates

-----------------------------------------------------------------------------
\* A step that changes no file: the hook h goes on, the path perhaps changes.
LEMMA HookMoves ==
  ASSUME RelayInv, NEW h \in Hooks, NEW step \in HookSteps, NEW dir \in {"none", "own", "link"},
         HookGoes(h, step, dir), UNCHANGED <<anchored, eventDirs, consumed>>,
         eventsPath' \in Paths, eventsPath # "none" => eventsPath' # "none", HookInv(h)'
  PROVE  RelayInv'
<1>1. hookProcess' = [hookProcess EXCEPT ![h] = [step |-> step, dir |-> dir]]
  BY DEF HookGoes
<1>2. RelayShape'
  BY <1>1 DEF RelayInv, RelayShape, HookStates
<1>3. ASSUME NEW g \in Hooks, g # h PROVE HookInv(g)'
  BY <1>1, <1>3 DEF RelayInv, RelayShape, HookInv
<1>4. FilesAreWhole' /\ ConsumedIsWhole'
  BY DEF RelayInv, FilesAreWhole, ConsumedIsWhole
<1> QED BY <1>2, <1>3, <1>4 DEF RelayInv

\* The directory d is left with these files, and of all the hooks only h sees a difference.
DirBecomes(d, files, temps) == eventDirs' = [eventDirs EXCEPT ![d] = [files |-> files, temps |-> temps]]
OthersKeep(h, d, files, temps) ==
  \A g \in Hooks : g # h => /\ g \in DOMAIN temps <=> g \in DOMAIN eventDirs[d].temps
                            /\ g \in DOMAIN temps => temps[g] = eventDirs[d].temps[g]
                            /\ g \in DOMAIN eventDirs[d].files => g \in DOMAIN files
AllWhole(files) == \A g \in DOMAIN files : files[g] = EventSize

LEMMA TempsOfDir ==
  ASSUME NEW r \in DirStates, NEW x
  PROVE  [r EXCEPT !.temps = x] = [files |-> r.files, temps |-> x]
BY DEF DirStates

LEMMA TempsBecome ==
  ASSUME RelayShape, NEW d \in EventDirs, NEW x, eventDirs' = [eventDirs EXCEPT ![d].temps = x]
  PROVE  DirBecomes(d, eventDirs[d].files, x)
<1>1. eventDirs[d] \in DirStates
  BY DEF RelayShape
<1>2. [eventDirs[d] EXCEPT !.temps = x] = [files |-> eventDirs[d].files, temps |-> x]
  BY <1>1, TempsOfDir
<1> QED BY <1>2 DEF DirBecomes

\* A step that changes the directory d in what it holds of h.
LEMMA DirChanges ==
  ASSUME RelayInv, NEW h \in Hooks, NEW step \in HookSteps, NEW dir \in {"none", "own", "link"},
         NEW d \in EventDirs, NEW files \in FileMaps, NEW temps \in FileMaps,
         HookGoes(h, step, dir), UNCHANGED <<anchored, eventsPath, consumed>>,
         DirBecomes(d, files, temps), OthersKeep(h, d, files, temps), AllWhole(files), HookInv(h)'
  PROVE  RelayInv'
<1> USE DEF DirBecomes, OthersKeep, AllWhole
<1>1. hookProcess' = [hookProcess EXCEPT ![h] = [step |-> step, dir |-> dir]]
  BY DEF HookGoes
<1>2. RelayShape'
  BY <1>1 DEF RelayInv, RelayShape, HookStates, DirStates
<1>3. \A c \in EventDirs : eventDirs'[c] = IF c = d THEN [files |-> files, temps |-> temps] ELSE eventDirs[c]
  BY DEF RelayInv, RelayShape
<1>4. ASSUME NEW g \in Hooks, g # h PROVE HookInv(g)'
  <2>1. hookProcess'[g] = hookProcess[g]
    BY <1>1, <1>4 DEF RelayInv, RelayShape
  <2>2. HookInv(g)
    BY DEF RelayInv
  <2> QED BY <1>3, <1>4, <2>1, <2>2 DEF HookInv, HasDir, HasTemp
<1>5. FilesAreWhole' /\ ConsumedIsWhole'
  BY <1>3 DEF RelayInv, FilesAreWhole, ConsumedIsWhole
<1> QED BY <1>2, <1>4, <1>5 DEF RelayInv

LEMMA RelayInit_Inv == RelayInit => RelayInv
<1> SUFFICES ASSUME RelayInit PROVE RelayInv
  OBVIOUS
<1>1. NoFiles \in [{} -> Nat] /\ DOMAIN NoFiles = {}
  BY DEF NoFiles
<1>2. NoFiles \in FileMaps
  BY <1>1 DEF FileMaps
<1>3. RelayShape
  BY <1>2 DEF RelayInit, RelayShape, DirStates, HookStates, HookSteps, Paths, EventDirs
<1>4. \A h \in Hooks : HookInv(h)
  BY <1>1 DEF RelayInit, HookInv, HasDir, HasTemp, EventDirs
<1> QED BY <1>1, <1>3, <1>4 DEF RelayInit, RelayInv, FilesAreWhole, ConsumedIsWhole, EventDirs

LEMMA CreateTempInv == ASSUME RelayInv, NEW h \in Hooks, CreateTemp(h) PROVE RelayInv'
<1> RelayShape /\ HookInv(h) /\ HookAt(h, "create")
  BY DEF RelayInv, CreateTemp
<1> DEFINE d == Reached(h)
<1>1. d \in EventDirs /\ (anchored => d = "own")
  BY DEF HookInv, HookAt, Reached, HasDir, RelayShape, Paths, EventDirs
<1>2. eventDirs[d].files \in FileMaps /\ eventDirs[d].temps \in FileMaps
  BY <1>1, DirFacts
<1> DEFINE temps == Holding(eventDirs[d].temps, h, 0)
<1>3. temps \in FileMaps /\ DOMAIN temps = DOMAIN eventDirs[d].temps \cup {h}
      /\ \A g \in DOMAIN eventDirs[d].temps : g # h => temps[g] = eventDirs[d].temps[g]
  <2>1. 0 \in Nat
    OBVIOUS
  <2> QED BY <1>2, <2>1, HoldingFacts
<1>4. DirBecomes(d, eventDirs[d].files, temps)
  <2>1. eventDirs' = [eventDirs EXCEPT ![d].temps = temps]
    BY DEF CreateTemp
  <2> HIDE DEF d, temps
  <2> QED BY <1>1, <2>1, TempsBecome
<1>5. HookGoes(h, "write", d) /\ UNCHANGED <<anchored, eventsPath, consumed>>
  BY DEF CreateTemp
<1>6. AllWhole(eventDirs[d].files)
  BY <1>1 DEF RelayInv, FilesAreWhole, AllWhole
<1>7. HookInv(h)'
  <2>1. hookProcess'[h].step = "write" /\ hookProcess'[h].dir = d
    BY <1>5 DEF HookGoes, RelayShape
  <2>2. \A c \in EventDirs : h \in DOMAIN eventDirs'[c].temps <=> c = d
    BY <1>1, <1>3, <1>4 DEF RelayShape, HookInv, HookAt, DirBecomes
  <2>3. eventsPath # "none"
    BY DEF HookInv, HookAt, HasDir
  <2>4. eventsPath' # "none" /\ anchored' = anchored
    BY <1>5, <2>3
  <2> HIDE DEF d, temps
  <2> QED BY <1>1, <2>1, <2>2, <2>4 DEF HookInv, HasDir, HasTemp
<1> HIDE DEF d, temps
<1>8. OthersKeep(h, d, eventDirs[d].files, temps)
  BY <1>3 DEF OthersKeep
<1>9. "write" \in HookSteps /\ d \in {"none", "own", "link"}
  BY <1>1 DEF HookSteps, EventDirs
<1> QED BY <1>1, <1>2, <1>3, <1>4, <1>5, <1>6, <1>7, <1>8, <1>9, DirChanges

LEMMA WriteSomeInv == ASSUME RelayInv, NEW h \in Hooks, WriteSome(h) PROVE RelayInv'
<1> RelayShape /\ HookInv(h) /\ HookAt(h, "write")
  BY DEF RelayInv, WriteSome
<1> DEFINE d == hookProcess[h].dir
<1>1. d \in EventDirs /\ (anchored => d = "own") /\ eventsPath # "none"
      /\ \A c \in EventDirs : h \in DOMAIN eventDirs[c].temps <=> c = d
  BY DEF HookInv, HookAt, HasDir, HasTemp
<1>2. eventDirs[d].files \in FileMaps /\ eventDirs[d].temps \in FileMaps
  BY <1>1, DirFacts
<1>3. PICK bytes \in 1..EventSize :
        /\ eventDirs' = [eventDirs EXCEPT ![d].temps[h] = bytes]
        /\ HookGoes(h, IF bytes = EventSize THEN "publish" ELSE "write", d)
  BY DEF WriteSome
<1> DEFINE temps == [eventDirs[d].temps EXCEPT ![h] = bytes]
           step == IF bytes = EventSize THEN "publish" ELSE "write"
<1>4. bytes \in Nat
  BY HookRelayAssumption
<1>5. temps \in FileMaps /\ DOMAIN temps = DOMAIN eventDirs[d].temps /\ temps[h] = bytes
      /\ \A g \in DOMAIN eventDirs[d].temps : g # h => temps[g] = eventDirs[d].temps[g]
  BY <1>1, <1>2, <1>4, WrittenFacts
<1>6. DirBecomes(d, eventDirs[d].files, temps)
  <2>1. [eventDirs EXCEPT ![d].temps[h] = bytes] = [eventDirs EXCEPT ![d].temps = temps]
    OBVIOUS
  <2>2. eventDirs' = [eventDirs EXCEPT ![d].temps = temps]
    BY <1>3, <2>1
  <2> HIDE DEF d, temps
  <2> QED BY <1>1, <2>2, TempsBecome
<1>7. UNCHANGED <<anchored, eventsPath, consumed>>
  BY DEF WriteSome
<1>8. AllWhole(eventDirs[d].files)
  BY <1>1 DEF RelayInv, FilesAreWhole, AllWhole
<1>9. HookInv(h)'
  <2>1. hookProcess'[h].step = step /\ hookProcess'[h].dir = d
    BY <1>3 DEF HookGoes, RelayShape
  <2>2. \A c \in EventDirs : h \in DOMAIN eventDirs'[c].temps <=> c = d
    BY <1>1, <1>5, <1>6 DEF RelayShape, DirBecomes
  <2>3. step = "publish" => eventDirs'[d].temps[h] = EventSize
    BY <1>1, <1>5, <1>6 DEF RelayShape, DirBecomes
  <2>4. step \in {"publish", "write"}
    OBVIOUS
  <2> HIDE DEF step, d
  <2> QED BY <1>1, <1>7, <2>1, <2>2, <2>3, <2>4 DEF HookInv, HasDir, HasTemp
<1>10. step \in HookSteps /\ d \in {"none", "own", "link"}
  BY <1>1 DEF HookSteps, EventDirs
<1>11. HookGoes(h, step, d)
  BY <1>3
<1> HIDE DEF d, temps, step
<1>12. OthersKeep(h, d, eventDirs[d].files, temps)
  BY <1>5 DEF OthersKeep
<1> QED BY <1>1, <1>2, <1>5, <1>6, <1>7, <1>8, <1>9, <1>10, <1>11, <1>12, DirChanges

LEMMA RecheckInv == ASSUME RelayInv, NEW h \in Hooks, RecheckEventsDir(h) PROVE RelayInv'
<1> RelayShape /\ HookInv(h) /\ HookAt(h, "publish") /\ ~anchored
  BY DEF RelayInv, RecheckEventsDir
<1> DEFINE dir == hookProcess[h].dir
<1>1. dir \in EventDirs
  BY DEF HookInv, HookAt, HasDir
<1>2. CASE IsLinkLike
  <2> DEFINE temps == Lacking(eventDirs["link"].temps, h)
  <2>1. "link" \in EventDirs
    BY DEF EventDirs
  <2>2. eventDirs["link"].files \in FileMaps /\ eventDirs["link"].temps \in FileMaps
    BY <2>1, DirFacts
  <2>3. temps \in FileMaps /\ DOMAIN temps = DOMAIN eventDirs["link"].temps \ {h}
        /\ \A g \in DOMAIN eventDirs["link"].temps : g # h => temps[g] = eventDirs["link"].temps[g]
    BY <2>2, LackingFacts
  <2>4. eventDirs' = [eventDirs EXCEPT !["link"].temps = temps]
        /\ HookGoes(h, "gone", "none") /\ UNCHANGED <<anchored, eventsPath, consumed>>
    BY <1>2 DEF RecheckEventsDir
  <2>5. AllWhole(eventDirs["link"].files)
    BY <2>1 DEF RelayInv, FilesAreWhole, AllWhole
  <2>6. HookInv(h)'
    <3>1. hookProcess'[h].step = "gone"
      BY <2>4 DEF HookGoes, RelayShape
    <3> QED BY <3>1 DEF HookInv, HasDir, HasTemp
  <2> HIDE DEF temps
  <2>7. OthersKeep(h, "link", eventDirs["link"].files, temps)
    BY <2>3 DEF OthersKeep
  <2>8. DirBecomes("link", eventDirs["link"].files, temps)
    BY <2>1, <2>4, TempsBecome
  <2>9. "gone" \in HookSteps /\ "none" \in {"none", "own", "link"}
    BY DEF HookSteps
  <2> QED BY <2>1, <2>2, <2>3, <2>4, <2>5, <2>6, <2>7, <2>8, <2>9, DirChanges
<1>3. CASE ~IsLinkLike
  <2>1. HookGoes(h, "rename", dir) /\ UNCHANGED <<anchored, eventsPath, eventDirs, consumed>>
    BY <1>3 DEF RecheckEventsDir
  <2>2. hookProcess'[h].step = "rename" /\ hookProcess'[h].dir = dir
    BY <2>1 DEF HookGoes, RelayShape
  <2>3. HookInv(h)'
    BY <1>1, <2>1, <2>2 DEF HookInv, HookAt, HasDir, HasTemp
  <2>4. eventsPath' \in Paths /\ dir \in {"none", "own", "link"} /\ "rename" \in HookSteps
    BY <1>1, <2>1 DEF RelayShape, EventDirs, HookSteps
  <2> HIDE DEF dir
  <2> QED BY <2>1, <2>3, <2>4, HookMoves
<1> QED BY <1>2, <1>3

LEMMA PublishInv == ASSUME RelayInv, NEW h \in Hooks, PublishEvent(h) PROVE RelayInv'
<1> RelayShape /\ HookInv(h)
  BY DEF RelayInv, PublishEvent
<1> DEFINE d == Reached(h)
           dir == hookProcess[h].dir
<1>0. hookProcess[h].step \in {"publish", "rename"}
  BY DEF PublishEvent, HookAt
<1>1. dir \in EventDirs /\ (anchored => dir = "own") /\ eventsPath # "none"
      /\ (\A c \in EventDirs : h \in DOMAIN eventDirs[c].temps <=> c = dir) /\ eventDirs[dir].temps[h] = EventSize
  BY <1>0 DEF HookInv, HasDir, HasTemp
<1>2. d \in EventDirs
  BY <1>1 DEF Reached, RelayShape, Paths, EventDirs
<1>3. CASE h \notin DOMAIN eventDirs[d].temps
  <2>1. HookGoes(h, "gone", "none") /\ UNCHANGED <<anchored, eventsPath, eventDirs, consumed>>
    BY <1>3 DEF PublishEvent
  <2>2. hookProcess'[h].step = "gone"
    BY <2>1 DEF HookGoes, RelayShape
  <2>3. HookInv(h)' /\ eventsPath' \in Paths
    BY <2>1, <2>2 DEF HookInv, HasDir, HasTemp, RelayShape
  <2> QED BY <2>1, <2>3, HookMoves DEF HookSteps
<1>4. CASE h \in DOMAIN eventDirs[d].temps
  <2>1. d = dir
    BY <1>1, <1>2, <1>4
  <2>2. eventDirs[d].files \in FileMaps /\ eventDirs[d].temps \in FileMaps /\ eventDirs[d].temps[h] = EventSize
    BY <1>1, <1>2, <2>1, DirFacts
  <2> DEFINE files == Holding(eventDirs[d].files, h, eventDirs[d].temps[h])
             temps == Lacking(eventDirs[d].temps, h)
  <2>3. EventSize \in Nat
    BY HookRelayAssumption
  <2>4. files \in FileMaps /\ DOMAIN files = DOMAIN eventDirs[d].files \cup {h} /\ files[h] = EventSize
        /\ \A g \in DOMAIN eventDirs[d].files : g # h => files[g] = eventDirs[d].files[g]
    <3>1. \A bytes \in Nat :
            LET grown == Holding(eventDirs[d].files, h, bytes)
            IN /\ grown \in FileMaps /\ DOMAIN grown = DOMAIN eventDirs[d].files \cup {h} /\ grown[h] = bytes
               /\ \A g \in DOMAIN eventDirs[d].files : g # h => grown[g] = eventDirs[d].files[g]
      <4> HIDE DEF d
      <4> QED BY <2>2, HoldingFacts
    <3> QED BY <2>2, <2>3, <3>1
  <2>5. temps \in FileMaps /\ DOMAIN temps = DOMAIN eventDirs[d].temps \ {h}
        /\ \A g \in DOMAIN eventDirs[d].temps : g # h => temps[g] = eventDirs[d].temps[g]
    BY <2>2, LackingFacts
  <2>6. DirBecomes(d, files, temps) /\ HookGoes(h, "done", d) /\ UNCHANGED <<anchored, eventsPath, consumed>>
    BY <1>4 DEF PublishEvent, DirBecomes
  <2>7. \A g \in DOMAIN eventDirs[d].files : eventDirs[d].files[g] = EventSize
    BY <1>2 DEF RelayInv, FilesAreWhole
  <2>8. AllWhole(files)
    BY <2>4, <2>7 DEF AllWhole
  <2>9. HookInv(h)'
    <3>1. hookProcess'[h].step = "done" /\ hookProcess'[h].dir = d
      BY <2>6 DEF HookGoes, RelayShape
    <3>2. h \in DOMAIN eventDirs'[d].files
      BY <1>2, <2>4, <2>6 DEF RelayShape, DirBecomes
    <3> HIDE DEF d, dir
    <3> QED BY <1>1, <2>1, <2>6, <3>1, <3>2 DEF HookInv, HasDir, HasTemp
  <2>10. d \in {"none", "own", "link"} /\ "done" \in HookSteps
    BY <1>2 DEF EventDirs, HookSteps
  <2> HIDE DEF d, dir, files, temps
  <2>11. OthersKeep(h, d, files, temps)
    BY <2>4, <2>5 DEF OthersKeep
  <2> QED BY <1>2, <2>4, <2>5, <2>6, <2>8, <2>9, <2>10, <2>11, DirChanges
<1> QED BY <1>3, <1>4

\* The steps of a hook that touch no file.
LEMMA QuietHookInv ==
  ASSUME RelayInv, NEW h \in Hooks,
         HookStarts(h) \/ CheckEventsDir(h) \/ OpenEventsDir(h) \/ WriteFails(h) \/ HookDies(h)
  PROVE  RelayInv'
<1> RelayShape /\ HookInv(h)
  BY DEF RelayInv
<1> USE DEF HookSteps
<1>1. ASSUME NEW step \in {"check", "gone"}, HookGoes(h, step, "none"),
             step = "check" => HookAt(h, "new"),
             UNCHANGED <<anchored, eventsPath, eventDirs, consumed>>
      PROVE  RelayInv'
  <2>1. hookProcess'[h].step = step
    BY <1>1 DEF HookGoes, RelayShape
  <2>2. HookInv(h)' /\ eventsPath' \in Paths
    BY <1>1, <2>1 DEF HookInv, HookAt, HasDir, HasTemp, RelayShape
  <2> QED BY <1>1, <2>2, HookMoves
<1>2. CASE HookStarts(h)
  BY <1>1, <1>2 DEF HookStarts
<1>3. CASE WriteFails(h) \/ HookDies(h)
  BY <1>1, <1>3 DEF WriteFails, HookDies
<1>4. CASE CheckEventsDir(h)
  <2>1. CASE IsLinkLike
    BY <1>1, <1>4, <2>1 DEF CheckEventsDir
  <2>2. CASE ~IsLinkLike
    <3>1. HookGoes(h, "open", "none") /\ eventsPath' = "own" /\ UNCHANGED <<anchored, eventDirs, consumed>>
      BY <1>4, <2>2 DEF CheckEventsDir
    <3>2. hookProcess'[h].step = "open"
      BY <3>1 DEF HookGoes, RelayShape
    <3>3. HookInv(h)'
      BY <1>4, <3>1, <3>2 DEF HookInv, CheckEventsDir, HookAt, HasDir, HasTemp
    <3> QED BY <3>1, <3>3, HookMoves DEF Paths
  <2> QED BY <2>1, <2>2
<1>5. CASE OpenEventsDir(h)
  <2>1. CASE anchored /\ IsLinkLike
    BY <1>1, <1>5, <2>1 DEF OpenEventsDir
  <2>2. CASE ~(anchored /\ IsLinkLike)
    <3>1. HookGoes(h, "create", eventsPath) /\ UNCHANGED <<anchored, eventsPath, eventDirs, consumed>>
      BY <1>5, <2>2 DEF OpenEventsDir
    <3>2. hookProcess'[h].step = "create" /\ hookProcess'[h].dir = eventsPath
      BY <3>1 DEF HookGoes, RelayShape
    <3>3. eventsPath \in EventDirs /\ eventsPath # "none" /\ (anchored => eventsPath = "own")
      BY <1>5, <2>2 DEF HookInv, HookAt, OpenEventsDir, RelayShape, Paths, EventDirs, IsLinkLike
    <3>4. HookInv(h)'
      BY <1>5, <3>1, <3>2, <3>3 DEF HookInv, OpenEventsDir, HookAt, HasDir, HasTemp
    <3>5. eventsPath \in {"none", "own", "link"} /\ eventsPath' \in Paths
      BY <3>1 DEF RelayShape, Paths
    <3> QED BY <3>1, <3>4, <3>5, HookMoves
  <2> QED BY <2>1, <2>2
<1> QED BY <1>2, <1>3, <1>4, <1>5

LEMMA PollEventsInv == ASSUME RelayInv, PollEvents PROVE RelayInv'
<1> RelayShape
  BY DEF RelayInv
<1>1. eventsPath \in EventDirs
  BY DEF PollEvents, RelayShape, Paths, EventDirs
<1>2. PICK h \in DOMAIN eventDirs[eventsPath].files \ DOMAIN consumed :
        consumed' = Holding(consumed, h, eventDirs[eventsPath].files[h])
  BY DEF PollEvents
<1>3. h \in Hooks /\ eventDirs[eventsPath].files[h] = EventSize /\ EventSize \in Nat
  BY <1>1, <1>2, DirFacts, FileMapFacts, HookRelayAssumption DEF RelayInv, FilesAreWhole
<1>4. consumed \in FileMaps
  BY DEF RelayShape
<1>5. consumed' \in FileMaps /\ DOMAIN consumed' = DOMAIN consumed \cup {h} /\ consumed'[h] = EventSize
      /\ \A g \in DOMAIN consumed : g # h => consumed'[g] = consumed[g]
  <2>1. consumed' = Holding(consumed, h, EventSize)
    BY <1>2, <1>3
  <2>2. /\ Holding(consumed, h, EventSize) \in FileMaps
        /\ DOMAIN Holding(consumed, h, EventSize) = DOMAIN consumed \cup {h}
        /\ Holding(consumed, h, EventSize)[h] = EventSize
        /\ \A g \in DOMAIN consumed : g # h => Holding(consumed, h, EventSize)[g] = consumed[g]
    <3>1. h \in Hooks /\ EventSize \in Nat
      BY <1>3
    <3>2. Holding(consumed, h, EventSize) \in FileMaps
      BY <1>4, <3>1, HoldingFacts
    <3>3. DOMAIN Holding(consumed, h, EventSize) = DOMAIN consumed \cup {h}
      BY <1>4, <3>1, HoldingFacts
    <3>4. Holding(consumed, h, EventSize)[h] = EventSize
      BY DEF Holding
    <3>5. \A g \in DOMAIN consumed : g # h => Holding(consumed, h, EventSize)[g] = consumed[g]
      BY DEF Holding
    <3> QED BY <3>2, <3>3, <3>4, <3>5
  <2> QED BY <2>1, <2>2
<1>6. ConsumedIsWhole'
  BY <1>5 DEF RelayInv, ConsumedIsWhole
<1>7. UNCHANGED <<anchored, eventsPath, eventDirs, hookProcess>>
  BY DEF PollEvents
<1> QED BY <1>5, <1>6, <1>7 DEF RelayInv, RelayShape, HookInv, FilesAreWhole

LEMMA PathChangesInv == ASSUME RelayInv, PathChanges PROVE RelayInv'
<1>1. eventsPath' \in {"own", "link"} /\ UNCHANGED <<anchored, eventDirs, hookProcess, consumed>>
  BY DEF PathChanges
<1>2. \A h \in Hooks : HookInv(h)'
  BY <1>1 DEF RelayInv, HookInv
<1> QED BY <1>1, <1>2 DEF RelayInv, RelayShape, FilesAreWhole, ConsumedIsWhole, Paths

LEMMA RelayStepInv == ASSUME RelayInv, [RelayNext]_relayVars PROVE RelayInv'
<1>1. CASE UNCHANGED relayVars
  BY <1>1 DEF relayVars, RelayInv, RelayShape, HookInv, FilesAreWhole, ConsumedIsWhole
<1>2. CASE RelayNext
  BY <1>2, CreateTempInv, WriteSomeInv, RecheckInv, PublishInv, QuietHookInv, PollEventsInv, PathChangesInv
  DEF RelayNext
<1> QED BY <1>1, <1>2

-----------------------------------------------------------------------------
\* The inductive invariant holds throughout.
THEOREM RelayInvariant == RelaySpec => []RelayInv
BY RelayInit_Inv, RelayStepInv, PTL DEF RelaySpec

\* Directories, processes and what was consumed are of their types.
THEOREM RelayTypes == RelaySpec => []RelayTypeOK
<1>1. RelayInv => RelayTypeOK
  <2> SUFFICES ASSUME RelayInv PROVE RelayTypeOK
    OBVIOUS
  <2>1. RelayShape
    BY DEF RelayInv
  <2>2. DOMAIN consumed \subseteq Hooks
    BY <2>1, FileMapFacts DEF RelayShape
  <2>3. \A d \in EventDirs : DOMAIN eventDirs[d].files \subseteq Hooks /\ DOMAIN eventDirs[d].temps \subseteq Hooks
    BY <2>1, DirFacts, FileMapFacts
  <2> QED BY <2>1, <2>2, <2>3 DEF RelayTypeOK, RelayShape, EventDirs
<1> QED BY <1>1, RelayInvariant, PTL

\* A name that the orchestrator consumes stands for a whole event, for every size of
\* an event and however many hooks write, fail and die.
THEOREM ConsumedWhole == RelaySpec => []ConsumedIsWhole
<1>1. RelayInv => ConsumedIsWhole
  BY DEF RelayInv
<1> QED BY <1>1, RelayInvariant, PTL

\* On an anchored platform a published event is in the run's own directory.
THEOREM NotRedirected == RelaySpec => []NoEventIsRedirected
<1>1. RelayInv => NoEventIsRedirected
  BY DEF RelayInv, HookInv, HookAt, HasDir, FilesAreWhole, NoEventIsRedirected, EventDirs
<1> QED BY <1>1, RelayInvariant, PTL

\* A step leaves every published name where it is; its content is whole before and
\* after, and so the same.
NamesStay == \A d \in EventDirs : DOMAIN eventDirs[d].files \subseteq DOMAIN eventDirs'[d].files

LEMMA TempsStep ==
  ASSUME RelayShape, NEW d \in EventDirs, NEW x, eventDirs' = [eventDirs EXCEPT ![d].temps = x]
  PROVE  NamesStay
<1>1. DirBecomes(d, eventDirs[d].files, x)
  BY TempsBecome
<1>2. DOMAIN eventDirs = EventDirs
  BY DEF RelayShape
<1>3. eventDirs'[d].files = eventDirs[d].files /\ \A c \in EventDirs : c # d => eventDirs'[c] = eventDirs[c]
  <2> DEFINE become == [files |-> eventDirs[d].files, temps |-> x]
  <2>1. become.files = eventDirs[d].files
    OBVIOUS
  <2>2. eventDirs' = [eventDirs EXCEPT ![d] = become]
    BY <1>1 DEF DirBecomes
  <2> HIDE DEF become
  <2> QED BY <1>2, <2>1, <2>2
<1> QED BY <1>3 DEF NamesStay

LEMMA NamesStayInStep == ASSUME RelayInv, [RelayNext]_relayVars PROVE NamesStay
<1> RelayShape
  BY DEF RelayInv
<1>1. CASE UNCHANGED eventDirs
  BY <1>1 DEF NamesStay
<1>2. ASSUME NEW h \in Hooks, CreateTemp(h) PROVE NamesStay
  <2> DEFINE d == Reached(h)
             temps == Holding(eventDirs[d].temps, h, 0)
  <2>1. d \in EventDirs
    BY <1>2 DEF CreateTemp, RelayInv, HookInv, HookAt, Reached, HasDir, RelayShape, Paths, EventDirs
  <2>2. eventDirs' = [eventDirs EXCEPT ![d].temps = temps]
    BY <1>2 DEF CreateTemp
  <2> HIDE DEF d, temps
  <2> QED BY <2>1, <2>2, TempsStep
<1>3. ASSUME NEW h \in Hooks, WriteSome(h) PROVE NamesStay
  <2> DEFINE d == hookProcess[h].dir
  <2>1. d \in EventDirs
    BY <1>3 DEF WriteSome, RelayInv, HookInv, HookAt, HasDir
  <2>2. PICK bytes \in 1..EventSize : eventDirs' = [eventDirs EXCEPT ![d].temps[h] = bytes]
    BY <1>3 DEF WriteSome
  <2> DEFINE temps == [eventDirs[d].temps EXCEPT ![h] = bytes]
  <2>3. eventDirs' = [eventDirs EXCEPT ![d].temps = temps]
    BY <2>2
  <2> HIDE DEF d, temps
  <2> QED BY <2>1, <2>3, TempsStep
<1>4. ASSUME NEW h \in Hooks, RecheckEventsDir(h) PROVE NamesStay
  <2>1. CASE IsLinkLike
    <3> DEFINE temps == Lacking(eventDirs["link"].temps, h)
    <3>1. eventDirs' = [eventDirs EXCEPT !["link"].temps = temps] /\ "link" \in EventDirs
      BY <1>4, <2>1 DEF RecheckEventsDir, EventDirs
    <3> HIDE DEF temps
    <3> QED BY <3>1, TempsStep
  <2> QED BY <1>1, <1>4, <2>1 DEF RecheckEventsDir
<1>5. ASSUME NEW h \in Hooks, PublishEvent(h) PROVE NamesStay
  <2> DEFINE d == Reached(h)
             files == Holding(eventDirs[d].files, h, eventDirs[d].temps[h])
             temps == Lacking(eventDirs[d].temps, h)
  <2>1. CASE h \in DOMAIN eventDirs[d].temps
    <3>1. DirBecomes(d, files, temps)
      BY <1>5, <2>1 DEF PublishEvent, DirBecomes
    <3>2. DOMAIN eventDirs[d].files \subseteq DOMAIN files
      BY DEF Holding
    <3> HIDE DEF d, files, temps
    <3> QED BY <3>1, <3>2 DEF DirBecomes, RelayShape, NamesStay
  <2> QED BY <1>1, <1>5, <2>1 DEF PublishEvent
<1> QED
  <2>1. CASE UNCHANGED relayVars
    BY <1>1, <2>1 DEF relayVars
  <2>2. CASE PollEvents \/ PathChanges
    BY <1>1, <2>2 DEF PollEvents, PathChanges
  <2>3. ASSUME NEW h \in Hooks,
               HookStarts(h) \/ CheckEventsDir(h) \/ OpenEventsDir(h) \/ WriteFails(h) \/ HookDies(h)
        PROVE  NamesStay
    BY <1>1, <2>3 DEF HookStarts, CheckEventsDir, OpenEventsDir, WriteFails, HookDies
  <2> QED BY <1>2, <1>3, <1>4, <1>5, <2>1, <2>2, <2>3 DEF RelayNext

\* No step takes a published event back or writes over it.
THEOREM PublishedStays == RelaySpec => PublishedEventStays
<1> DEFINE Stays == \A d \in {"own", "link"} : \A h \in DOMAIN eventDirs[d].files :
                      h \in DOMAIN eventDirs'[d].files /\ eventDirs'[d].files[h] = eventDirs[d].files[h]
<1>1. RelayInv /\ RelayInv' /\ [RelayNext]_relayVars => Stays
  <2> SUFFICES ASSUME RelayInv, RelayInv', [RelayNext]_relayVars PROVE Stays
    OBVIOUS
  <2>1. NamesStay
    BY NamesStayInStep
  <2>2. FilesAreWhole /\ FilesAreWhole'
    BY DEF RelayInv
  <2> QED BY <2>1, <2>2 DEF NamesStay, FilesAreWhole, EventDirs
<1>2. RelayInv /\ RelayInv' /\ [RelayNext]_relayVars => [Stays]_relayVars
  BY <1>1
<1> QED BY <1>2, RelayInvariant, PTL DEF RelaySpec, PublishedEventStays
-----------------------------------------------------------------------------
(***************************************************************************)
(* The loop over one story.                                                *)
(***************************************************************************)

Steps == {"begin", "create", "dev", "review", "commit", "finish", "done", "halt"}
SessionSteps == {"create", "dev", "review"}
Phases == {"ready", "watched", "answered", "over"}
Verdicts == {"", "timeout", "crashed", "completed", "incomplete"}
Attempts == 0..MaxAttempts
Cycles == 1..MaxCycles
Files == 0..MaxStoryFiles
FileCounts == 0..NotCounted
LoopStates ==
  [step : Steps, phase : Phases, gate : CreationGates, verdict : Verdicts, attempts : Attempts, crashes : Nat,
   cycles : Cycles, before : FileCounts, gated : BOOLEAN, resumed : BOOLEAN]
DoneMarks == [sprint : BOOLEAN, file : BOOLEAN]
Changes == [session : BOOLEAN, other : BOOLEAN]

LoopShape ==
  /\ loop \in LoopStates /\ loopSession \in {"none", "running", "ended", "crashed"}
  /\ orphan \in SessionSteps \cup {""} /\ created \in Files /\ storyDone \in DoneMarks /\ uncommitted \in Changes

\* Where sessions are: with a step of the loop that watches one, or left by a crash.
SessionInv ==
  /\ loopSession # "none" <=> loop.phase \in {"watched", "answered"}
  /\ loop.step \notin SessionSteps => loop.phase = "ready"
  /\ ~loop.resumed => orphan = ""
\* A step that is ready has an attempt left.
AttemptInv == loop.step \in {"create", "dev"} /\ loop.phase = "ready" => loop.attempts < MaxAttempts
\* What is true of the story from its commit on.
CommitInv ==
  /\ loop.step \in {"finish", "done"} /\ ~loop.resumed => ~uncommitted.session
  /\ loop.step = "done" => storyDone.sprint \/ storyDone.file

LoopInv == LoopShape /\ SessionInv /\ AttemptInv /\ CommitInv

-----------------------------------------------------------------------------
\* The bounds, as far as the steps of the loop use them.
LEMMA Bounds ==
  /\ 0 \in Attempts /\ 0 < MaxAttempts /\ \A n \in Attempts : n < MaxAttempts => n + 1 \in Attempts
  /\ 1 \in Cycles /\ \A n \in Cycles : n # MaxCycles => n + 1 \in Cycles
  /\ NotCounted \in FileCounts /\ Files \subseteq FileCounts
  /\ 0 \in Files /\ \A n \in Files : n < MaxStoryFiles => n + 1 \in Files
BY StoryLoopAssumption DEF Attempts, Cycles, FileCounts, Files, NotCounted

LEMMA LoopInit_Inv == LoopInit => LoopInv
<1> SUFFICES ASSUME LoopInit PROVE LoopInv
  OBVIOUS
<1>1. PICK gate \in CreationGates :
        loop = [step |-> "begin", phase |-> "ready", gate |-> gate, verdict |-> "", attempts |-> 0, crashes |-> 0,
                cycles |-> 1, before |-> NotCounted, gated |-> FALSE, resumed |-> FALSE]
  BY DEF LoopInit
<1>2. loop \in LoopStates
  BY <1>1, Bounds DEF LoopStates, Steps, Phases, Verdicts
<1>3. LoopShape
  BY <1>2, Bounds DEF LoopInit, LoopShape, DoneMarks, Changes
<1>4. loop.step = "begin" /\ loop.phase = "ready" /\ ~loop.resumed
  BY <1>1
<1> QED BY <1>3, <1>4 DEF LoopInit, LoopInv, SessionInv, AttemptInv, CommitInv

\* What no gate touches; the count taken before a session is kept or forgotten.
Kept(l) ==
  /\ l \in LoopStates /\ l.phase = "ready" /\ l.resumed = loop.resumed
  /\ l.gate = loop.gate /\ l.gated = loop.gated /\ l.before \in {loop.before, NotCounted}

\* To enter another step: ready, without attempts, and with what is remembered of the last.
LEMMA EnterFacts ==
  ASSUME LoopShape, NEW step \in Steps
  PROVE  Kept(Enter(step)) /\ Enter(step).step = step /\ Enter(step).attempts = 0 /\ Enter(step).before = loop.before
<1>1. "ready" \in Phases /\ "" \in Verdicts /\ 0 \in Attempts /\ 0 \in Nat
  BY Bounds DEF Phases, Verdicts
<1> QED BY <1>1 DEF Kept, LoopShape, LoopStates, Enter

LEMMA HaltFacts ==
  ASSUME LoopShape
  PROVE  Kept(Halt) /\ Halt.step = "halt"
<1>1. "ready" \in Phases /\ "halt" \in Steps
  BY DEF Phases, Steps
<1> QED BY <1>1 DEF Kept, LoopShape, LoopStates, Halt

LEMMA ReviewFacts ==
  ASSUME LoopShape
  PROVE  LET next == [Enter("review") EXCEPT !.cycles = 1] IN Kept(next) /\ next.step = "review"
<1>1. Kept(Enter("review")) /\ Enter("review").step = "review"
  BY EnterFacts DEF Steps
<1>2. 1 \in Cycles
  BY Bounds
<1> HIDE DEF Enter
<1> QED BY <1>1, <1>2 DEF Kept, LoopStates

LEMMA RetryFacts ==
  ASSUME LoopShape
  PROVE  /\ Kept(Retry)
         /\ Retry.step = "halt" \/ (Retry.step = loop.step /\ Retry.attempts < MaxAttempts /\ Retry.before = NotCounted)
<1>1. "ready" \in Phases /\ NotCounted \in FileCounts
  BY Bounds DEF Phases
<1>2. CASE loop.attempts < MaxAttempts
  BY <1>1, <1>2 DEF Kept, LoopShape, LoopStates, Retry
<1>3. CASE ~(loop.attempts < MaxAttempts)
  BY <1>3, HaltFacts DEF Retry
<1> QED BY <1>2, <1>3

-----------------------------------------------------------------------------
\* The steps of the orchestrator.
LEMMA BeginStoryInv == ASSUME LoopInv, BeginStory PROVE LoopInv'
<1> DEFINE step == IF created > 0 THEN "dev" ELSE "create"
<1>1. LoopShape /\ step \in {"create", "dev"} /\ step \in Steps
  BY DEF LoopInv, Steps
<1>2. loop' = Enter(step) /\ UNCHANGED <<loopSession, orphan, created, storyDone, uncommitted>>
      /\ loop.phase = "ready"
  BY DEF BeginStory, World, AtStep
<1> HIDE DEF step
<1>3. loop' \in LoopStates /\ loop'.step = step /\ loop'.phase = "ready" /\ loop'.attempts = 0
      /\ loop'.resumed = loop.resumed
  BY <1>1, <1>2, EnterFacts DEF Kept
<1>4. LoopShape'
  BY <1>2, <1>3 DEF LoopInv, LoopShape
<1>5. SessionInv' /\ AttemptInv' /\ CommitInv'
  BY <1>1, <1>2, <1>3, Bounds DEF LoopInv, SessionInv, AttemptInv, CommitInv, SessionSteps
<1> QED BY <1>4, <1>5 DEF LoopInv

LEMMA CountBeforeInv == ASSUME LoopInv, CountBefore PROVE LoopInv'
<1> USE DEF CountBefore, LoopInv, AtStep, World
<1>0. created \in FileCounts
  BY Bounds DEF LoopShape
<1>1. LoopShape'
  BY <1>0 DEF LoopShape, LoopStates
<1>2. loop'.step = loop.step /\ loop'.phase = loop.phase /\ loop'.attempts = loop.attempts /\ loop'.resumed = loop.resumed
  BY DEF LoopShape, LoopStates
<1>3. SessionInv' /\ AttemptInv' /\ CommitInv'
  BY <1>2 DEF SessionInv, AttemptInv, CommitInv
<1> QED BY <1>1, <1>3

LEMMA SpawnStepInv == ASSUME LoopInv, SpawnStep PROVE LoopInv'
<1> USE DEF SpawnStep, LoopInv, World
<1> DEFINE count == IF loop.step = "review" THEN loop.attempts ELSE loop.attempts + 1
<1>1. count \in Attempts
  BY Bounds DEF LoopShape, LoopStates, AttemptInv
<1>2. LoopShape'
  <2>1. loop' = [loop EXCEPT !.phase = "watched", !.attempts = count] /\ "watched" \in Phases
    BY DEF Phases
  <2> HIDE DEF count
  <2> QED BY <1>1, <2>1 DEF LoopShape, LoopStates
<1>3. loop'.step = loop.step /\ loop'.phase = "watched" /\ loop'.resumed = loop.resumed
  BY DEF LoopShape, LoopStates
<1>4. SessionInv' /\ AttemptInv' /\ CommitInv'
  BY <1>3 DEF SessionInv, AttemptInv, CommitInv, SessionSteps
<1> QED BY <1>2, <1>4

\* A step that only changes the phase and the verdict.
LEMMA MonitorAnswersInv == ASSUME LoopInv, MonitorAnswers PROVE LoopInv'
<1> USE DEF LoopInv, World
<1>1. loop.phase = "watched" /\ loopSession # "none" /\ UNCHANGED <<loopSession, World>>
  BY DEF MonitorAnswers, SessionInv
<1>2. PICK verdict \in {"timeout", "crashed", "completed", "incomplete"} :
        loop' = [loop EXCEPT !.phase = "answered", !.verdict = verdict]
  <2>1. CASE loopSession = "running"
    BY <2>1 DEF MonitorAnswers
  <2>2. CASE loopSession = "crashed"
    BY <2>2 DEF MonitorAnswers
  <2>3. CASE loopSession \notin {"running", "crashed"}
    BY <2>3 DEF MonitorAnswers
  <2> QED BY <2>1, <2>2, <2>3
<1>3. LoopShape'
  BY <1>1, <1>2 DEF LoopShape, LoopStates, Phases, Verdicts
<1>4. loop'.step = loop.step /\ loop'.phase = "answered" /\ loop'.resumed = loop.resumed
  BY <1>2 DEF LoopShape, LoopStates
<1>5. SessionInv' /\ AttemptInv' /\ CommitInv'
  BY <1>1, <1>4 DEF SessionInv, AttemptInv, CommitInv
<1> QED BY <1>3, <1>5

LEMMA KillStepInv == ASSUME LoopInv, KillStep PROVE LoopInv'
<1> USE DEF KillStep, LoopInv, World
<1>1. LoopShape'
  BY DEF LoopShape, LoopStates, Phases
<1>2. loop'.step = loop.step /\ loop'.phase = "over" /\ loop'.resumed = loop.resumed /\ loop.phase = "answered"
  BY DEF LoopShape, LoopStates
<1>3. SessionInv' /\ AttemptInv' /\ CommitInv'
  BY <1>2 DEF SessionInv, AttemptInv, CommitInv
<1> QED BY <1>1, <1>3

\* A gate leaves no session behind it, and goes to a step that is ready.
LEMMA GateInv ==
  ASSUME LoopInv, loop.phase \in {"ready", "over"}, UNCHANGED <<loopSession, orphan, created, storyDone>>,
         uncommitted' \in Changes,
         loop' \in LoopStates, loop'.phase = "ready", loop'.resumed = loop.resumed,
         loop'.step \in {"create", "dev"} => loop'.attempts < MaxAttempts, CommitInv'
  PROVE  LoopInv'
<1>1. LoopShape'
  BY DEF LoopInv, LoopShape
<1>2. SessionInv' /\ AttemptInv'
  BY DEF LoopInv, SessionInv, AttemptInv, SessionSteps
<1> QED BY <1>1, <1>2 DEF LoopInv

\* Where each gate goes.
LEMMA CreationGateTo ==
  ASSUME LoopShape, CreationGate
  PROVE  /\ loop' \in LoopStates /\ loop'.phase = "ready" /\ loop'.resumed = loop.resumed /\ loop'.gate = loop.gate
         /\ loop'.step \in {"create", "dev"} => loop'.attempts < MaxAttempts
         /\ \/ loop'.step = "dev" /\ loop'.before = loop.before /\ CheckProceeds(loop.before, created)
            \/ loop'.step \in {"create", "halt"} /\ Kept(loop') /\ ~CheckProceeds(loop.before, created)
               /\ (/\ loop'.step = "create"
                   /\ loop.gate = "counts"
                   => ~Escalate("story-validation", CreatedFiles(loop.before, created)))
<1>0. loop.step = "create"
  BY DEF CreationGate, AtStep
<1>1. Kept(Enter("dev")) /\ Enter("dev").step = "dev" /\ Enter("dev").attempts = 0 /\ Enter("dev").before = loop.before
  BY EnterFacts DEF Steps
<1>2. /\ Passed \in LoopStates /\ Passed.step = "dev" /\ Passed.phase = "ready" /\ Passed.attempts = 0
      /\ Passed.resumed = loop.resumed /\ Passed.gate = loop.gate /\ Passed.before = loop.before
  <2> HIDE DEF Enter
  <2> QED BY <1>1 DEF Passed, Kept, LoopStates
<1>3. Kept(Retry) /\ Retry.step \in {"create", "halt"} /\ (Retry.step = "create" => Retry.attempts < MaxAttempts)
  BY <1>0, RetryFacts
<1>4. Kept(Halt) /\ Halt.step = "halt"
  BY HaltFacts
<1> HIDE DEF Passed, Retry, Halt
<1>5. CASE CheckProceeds(loop.before, created)
  <2>1. loop' = Passed
    BY <1>5 DEF CreationGate
  <2> QED BY <1>2, <1>5, <2>1, Bounds
<1>6. CASE ~CheckProceeds(loop.before, created)
  <2>1. \/ loop' = Retry /\ (loop.gate # "counts" \/ ~Escalate("story-validation", CreatedFiles(loop.before, created)))
        \/ loop' = Halt
    BY <1>6 DEF CreationGate
  <2> QED BY <1>3, <1>4, <1>6, <2>1 DEF Kept
<1> QED BY <1>5, <1>6

LEMMA DevGateTo ==
  ASSUME LoopShape, DevGate
  PROVE  /\ Kept(loop') /\ loop'.step \in {"dev", "review", "halt"} /\ (loop'.step = "dev" => loop'.attempts < MaxAttempts)
         /\ loop'.step = "review" => loopPolicy.readable
<1>0. loop.step = "dev"
  BY DEF DevGate, AtStep
<1> DEFINE next == [Enter("review") EXCEPT !.cycles = 1]
           again == [Retry EXCEPT !.crashes = @ + 1]
<1>1. Kept(next) /\ next.step = "review"
  BY ReviewFacts
<1>2. Kept(Retry) /\ Retry.step \in {"dev", "halt"} /\ (Retry.step = "dev" => Retry.attempts < MaxAttempts)
  BY <1>0, RetryFacts
<1>3. Kept(again) /\ again.step = Retry.step /\ again.attempts = Retry.attempts
  <2> HIDE DEF Retry
  <2> QED BY <1>2 DEF Kept, LoopStates
<1>4. Kept(Halt) /\ Halt.step = "halt"
  BY HaltFacts
<1>5. PICK answer \in ParseAnswers : loop' \in {Halt, again, Retry} \/ (loop' = next /\ answer = "proceed")
  BY DEF DevGate
<1>6. answer = "proceed" => loopPolicy.readable
  BY DEF ParseAnswers
<1> HIDE DEF next, again
<1> QED BY <1>1, <1>2, <1>3, <1>4, <1>5, <1>6

LEMMA ReviewGateTo ==
  ASSUME LoopShape, ReviewGate
  PROVE  Kept(loop') /\ loop'.step \in {"commit", "review", "halt"}
<1>1. loop.step = "review"
  BY DEF ReviewGate, AtStep
<1> DEFINE again == [loop EXCEPT !.phase = "ready", !.cycles = @ + 1]
<1>2. loop.cycles # MaxCycles => Kept(again) /\ again.step = "review"
  <2>1. loop.cycles # MaxCycles => loop.cycles + 1 \in Cycles
    BY Bounds DEF LoopShape, LoopStates
  <2> QED BY <1>1, <2>1 DEF Kept, LoopShape, LoopStates, Phases
<1>3. loop' = Enter("commit") \/ loop' = Halt \/ (loop' = again /\ loop.cycles # MaxCycles)
  BY DEF ReviewGate
<1> HIDE DEF again
<1> QED BY <1>2, <1>3, EnterFacts, HaltFacts DEF Steps

LEMMA CommitGateTo ==
  ASSUME LoopShape, CommitGate
  PROVE  /\ Kept(loop')
         /\ \/ loop'.step = "finish" /\ uncommitted' = [session |-> FALSE, other |-> FALSE]
            \/ loop'.step = "halt" /\ uncommitted' = uncommitted
<1>1. Kept(Enter("finish")) /\ Enter("finish").step = "finish"
  BY EnterFacts DEF Steps
<1>2. Kept(Halt) /\ Halt.step = "halt"
  BY HaltFacts
<1> QED BY <1>1, <1>2 DEF CommitGate

LEMMA FinishGateTo ==
  ASSUME LoopShape, FinishGate
  PROVE  /\ Kept(loop') /\ loop'.step \in {"done", "review"}
         /\ loop'.step = "done" => storyDone.sprint \/ storyDone.file
<1>1. Kept(Enter("done")) /\ Enter("done").step = "done"
  BY EnterFacts DEF Steps
<1> DEFINE next == [Enter("review") EXCEPT !.cycles = 1]
<1>2. Kept(next) /\ next.step = "review"
  BY ReviewFacts
<1>3. (loop' = Enter("done") /\ (storyDone.sprint \/ storyDone.file)) \/ loop' = next
  BY DEF FinishGate
<1> HIDE DEF next
<1> QED BY <1>1, <1>2, <1>3

LEMMA GatesInv ==
  ASSUME LoopInv, CreationGate \/ DevGate \/ ReviewGate \/ CommitGate \/ FinishGate
  PROVE  LoopInv'
<1> LoopShape
  BY DEF LoopInv
<1>1. loop.phase \in {"ready", "over"} /\ UNCHANGED <<loopSession, orphan, created, storyDone>>
  BY DEF CreationGate, DevGate, ReviewGate, CommitGate, FinishGate, AtStep, World
<1>2. CASE CreationGate \/ DevGate \/ ReviewGate
  <2>1. UNCHANGED uncommitted /\ uncommitted \in Changes
    BY <1>2 DEF CreationGate, DevGate, ReviewGate, World, LoopShape
  <2>2. /\ loop' \in LoopStates /\ loop'.phase = "ready" /\ loop'.resumed = loop.resumed
        /\ loop'.step \notin {"finish", "done"}
        /\ loop'.step \in {"create", "dev"} => loop'.attempts < MaxAttempts
    BY <1>2, CreationGateTo, DevGateTo, ReviewGateTo DEF Kept
  <2>3. CommitInv'
    BY <2>2 DEF CommitInv
  <2> QED BY <1>1, <2>1, <2>2, <2>3, GateInv
<1>3. CASE CommitGate
  <2>1. /\ Kept(loop')
        /\ \/ loop'.step = "finish" /\ uncommitted' = [session |-> FALSE, other |-> FALSE]
           \/ loop'.step = "halt" /\ uncommitted' = uncommitted
    BY <1>3, CommitGateTo
  <2>2. uncommitted' \in Changes /\ loop'.step \notin {"create", "dev", "done"}
        /\ (loop'.step = "finish" => ~uncommitted'.session)
    <3>1. uncommitted \in Changes /\ [session |-> FALSE, other |-> FALSE] \in Changes
      BY DEF LoopShape, Changes
    <3>2. CASE loop'.step = "finish" /\ uncommitted' = [session |-> FALSE, other |-> FALSE]
      BY <3>1, <3>2
    <3>3. CASE loop'.step = "halt" /\ uncommitted' = uncommitted
      BY <3>1, <3>3
    <3> QED BY <2>1, <3>2, <3>3
  <2>3. CommitInv'
    BY <2>1, <2>2 DEF CommitInv
  <2> QED BY <1>1, <2>1, <2>2, <2>3, GateInv DEF Kept
<1>4. CASE FinishGate
  <2>1. UNCHANGED uncommitted /\ uncommitted \in Changes /\ loop.step = "finish"
    BY <1>4 DEF FinishGate, World, LoopShape, AtStep
  <2>2. Kept(loop') /\ loop'.step \in {"done", "review"} /\ (loop'.step = "done" => storyDone.sprint \/ storyDone.file)
    BY <1>4, FinishGateTo
  <2>3. CommitInv'
    BY <1>1, <2>1, <2>2 DEF LoopInv, CommitInv, Kept
  <2> QED BY <1>1, <2>1, <2>2, <2>3, GateInv DEF Kept
<1> QED BY <1>2, <1>3, <1>4

LEMMA OrchestratorResumesInv == ASSUME LoopInv, OrchestratorResumes PROVE LoopInv'
<1>1. LoopShape /\ UNCHANGED <<created, storyDone, uncommitted>> /\ loopSession' = "none"
      /\ loop.step \in {"create", "dev", "review", "commit", "finish"}
  BY DEF LoopInv, OrchestratorResumes
<1>2. ResumePoint \in {"begin", "review", "commit"} /\ ResumePoint \in Steps
  BY <1>1 DEF ResumePoint, Steps
<1>3. Enter(ResumePoint) \in LoopStates /\ Enter(ResumePoint).step = ResumePoint /\ Enter(ResumePoint).phase = "ready"
  BY <1>1, <1>2, EnterFacts DEF Kept
<1>4. loop' = [Enter(ResumePoint) EXCEPT !.before = NotCounted, !.cycles = 1, !.resumed = TRUE]
  BY DEF OrchestratorResumes
<1>5. loop' \in LoopStates /\ loop'.step = ResumePoint /\ loop'.phase = "ready" /\ loop'.resumed
  <2>1. NotCounted \in FileCounts /\ 1 \in Cycles
    BY Bounds
  <2> HIDE DEF Enter, ResumePoint
  <2> QED BY <1>3, <1>4, <2>1 DEF LoopStates
<1>6. orphan' \in SessionSteps \cup {""}
  <2>1. orphan' = IF loopSession = "running" THEN loop.step ELSE ""
    BY DEF OrchestratorResumes
  <2>2. loopSession = "running" => loop.step \in SessionSteps
    BY DEF LoopInv, SessionInv
  <2> QED BY <2>1, <2>2
<1>7. LoopShape'
  BY <1>1, <1>5, <1>6 DEF LoopShape
<1>8. SessionInv' /\ AttemptInv' /\ CommitInv'
  BY <1>1, <1>2, <1>5 DEF SessionInv, AttemptInv, CommitInv
<1> QED BY <1>7, <1>8 DEF LoopInv

-----------------------------------------------------------------------------
\* Sessions and others change the story only while a step has a session.
LEMMA RunningFacts ==
  ASSUME LoopInv, Running # {}
  PROVE  loop.step \notin {"finish", "done"} \/ loop.resumed
BY DEF Running, LoopInv, SessionInv, SessionSteps

LEMMA SessionsInv ==
  ASSUME LoopInv, SessionCreatesFile \/ SessionChangesCode \/ SessionMarksDone \/ StorySetBack
  PROVE  LoopInv'
<1>1. UNCHANGED <<loop, loopSession, orphan>>
  BY DEF SessionCreatesFile, SessionChangesCode, SessionMarksDone, StorySetBack
<1>2. uncommitted' = [uncommitted EXCEPT !.session = TRUE] \/ uncommitted' = [uncommitted EXCEPT !.other = TRUE]
  BY DEF SessionCreatesFile, SessionChangesCode, SessionMarksDone, StorySetBack
<1>3. created' \in Files /\ storyDone' \in DoneMarks
  <2>1. CASE SessionCreatesFile
    BY <2>1, Bounds DEF SessionCreatesFile, LoopInv, LoopShape
  <2>2. CASE SessionChangesCode \/ SessionMarksDone \/ StorySetBack
    <3>1. storyDone' \in {storyDone, [storyDone EXCEPT !.sprint = TRUE], [storyDone EXCEPT !.file = TRUE],
                           [sprint |-> FALSE, file |-> FALSE]} /\ created' = created
      BY <2>2 DEF SessionChangesCode, SessionMarksDone, StorySetBack
    <3>2. storyDone \in DoneMarks /\ created \in Files
      BY DEF LoopInv, LoopShape
    <3>3. [storyDone EXCEPT !.sprint = TRUE] \in DoneMarks /\ [storyDone EXCEPT !.file = TRUE] \in DoneMarks
          /\ [sprint |-> FALSE, file |-> FALSE] \in DoneMarks
      BY <3>2 DEF DoneMarks
    <3> QED BY <3>1, <3>2, <3>3
  <2> QED BY <2>1, <2>2
<1>4. LoopShape'
  BY <1>1, <1>2, <1>3 DEF LoopInv, LoopShape, Changes
<1>5. SessionInv' /\ AttemptInv'
  BY <1>1 DEF LoopInv, SessionInv, AttemptInv
<1>6. CommitInv'
  <2>1. CASE StorySetBack
    BY <1>1, <2>1 DEF StorySetBack, LoopInv, LoopShape, CommitInv, Changes
  <2>2. CASE SessionCreatesFile \/ SessionChangesCode \/ SessionMarksDone
    <3>1. Running # {}
      BY <2>2 DEF SessionCreatesFile, SessionChangesCode, SessionMarksDone
    <3>2. storyDone' = storyDone \/ storyDone'.sprint \/ storyDone'.file
      BY <2>2 DEF SessionCreatesFile, SessionChangesCode, SessionMarksDone, LoopInv, LoopShape, DoneMarks
    <3> QED BY <1>1, <3>1, <3>2, RunningFacts DEF LoopInv, CommitInv
  <2> QED BY <2>1, <2>2
<1> QED BY <1>4, <1>5, <1>6 DEF LoopInv

LEMMA LoopSessionEndsInv == ASSUME LoopInv, LoopSessionEnds PROVE LoopInv'
<1> USE DEF LoopSessionEnds, LoopInv
<1>1. LoopShape'
  BY DEF LoopShape
<1>2. SessionInv' /\ AttemptInv' /\ CommitInv'
  BY DEF SessionInv, AttemptInv, CommitInv
<1> QED BY <1>1, <1>2

LEMMA PolicyChangesInv == ASSUME LoopInv, PolicyChanges PROVE LoopInv'
BY DEF PolicyChanges, LoopInv, LoopShape, SessionInv, AttemptInv, CommitInv

LEMMA LoopStepInv == ASSUME LoopInv, [LoopNext]_loopVars PROVE LoopInv'
<1>1. CASE UNCHANGED loopVars
  BY <1>1 DEF loopVars, LoopInv, LoopShape, SessionInv, AttemptInv, CommitInv
<1>2. CASE LoopNext
  BY <1>2, BeginStoryInv, CountBeforeInv, SpawnStepInv, MonitorAnswersInv, KillStepInv, GatesInv, SessionsInv, LoopSessionEndsInv, PolicyChangesInv,
     OrchestratorResumesInv
  DEF LoopNext
<1> QED BY <1>1, <1>2

-----------------------------------------------------------------------------
\* The inductive invariant holds throughout.
THEOREM LoopInvariant == LoopSpec => []LoopInv
BY LoopInit_Inv, LoopStepInv, PTL DEF LoopSpec

\* Attempts, cycles and counted files stay within their bounds, and a session is
\* there exactly while one is watched.
THEOREM LoopTypes == LoopSpec => []LoopTypeOK
<1>1. LoopInv => LoopTypeOK
  BY DEF LoopInv, LoopShape, LoopStates, SessionInv, LoopTypeOK, Attempts, Cycles, Files, FileCounts
<1> QED BY <1>1, LoopInvariant, PTL

\* A story that is finished is in the history with everything its sessions changed.
THEOREM Finished == LoopSpec => []FinishedIsCommitted
<1>1. LoopInv => FinishedIsCommitted
  BY DEF LoopInv, CommitInv, FinishedIsCommitted
<1> QED BY <1>1, LoopInvariant, PTL

-----------------------------------------------------------------------------
\* A step that has no gate and no crash stays at its step, or begins the story.
LEMMA StaysAtStep ==
  ASSUME LoopInv, [LoopNext]_loopVars, ~BeginStory, ~CreationGate, ~DevGate, ~ReviewGate, ~CommitGate, ~FinishGate,
         ~OrchestratorResumes
  PROVE  loop'.step = loop.step /\ loop'.resumed = loop.resumed /\ loop'.gate = loop.gate /\ loop'.gated = loop.gated
<1> LoopShape
  BY DEF LoopInv
<1>1. CASE CountBefore
  BY <1>1 DEF CountBefore, LoopShape, LoopStates
<1>2. CASE SpawnStep
  BY <1>2 DEF SpawnStep, LoopShape, LoopStates
<1>3. CASE MonitorAnswers
  <2>1. PICK verdict : loop' = [loop EXCEPT !.phase = "answered", !.verdict = verdict]
    BY <1>3 DEF MonitorAnswers
  <2> QED BY <2>1 DEF LoopShape, LoopStates
<1>4. CASE KillStep
  BY <1>4 DEF KillStep, LoopShape, LoopStates
<1>5. CASE loop' = loop
  BY <1>5
<1>6. SessionCreatesFile \/ SessionChangesCode \/ SessionMarksDone \/ LoopSessionEnds \/ StorySetBack \/ PolicyChanges
      \/ UNCHANGED loopVars => loop' = loop
  BY DEF SessionCreatesFile, SessionChangesCode, SessionMarksDone, LoopSessionEnds, StorySetBack, PolicyChanges, loopVars
<1> QED BY <1>1, <1>2, <1>3, <1>4, <1>5, <1>6 DEF LoopNext

\* While the policy cannot be read no creation and no development passes.
THEOREM UnreadableStops == LoopSpec => UnreadablePolicyStops
<1> DEFINE Stops == ~loopPolicy.readable => /\ ~(loop.step = "create" /\ loop'.step = "dev")
                                            /\ ~(loop.step = "dev" /\ loop'.step = "review")
<1>1. ASSUME LoopInv, [LoopNext]_loopVars PROVE Stops
  <2> LoopShape
    BY <1>1 DEF LoopInv
  <2>1. CASE CreationGate
    BY <2>1, CreationGateTo DEF CheckProceeds, CreationGate, AtStep
  <2>2. CASE DevGate
    BY <2>2, DevGateTo DEF DevGate, AtStep
  <2>3. CASE BeginStory \/ ReviewGate \/ CommitGate \/ FinishGate
    BY <2>3 DEF BeginStory, ReviewGate, CommitGate, FinishGate, AtStep
  <2>4. CASE OrchestratorResumes
    <3>1. loop'.step = ResumePoint
      <4>1. Enter(ResumePoint).step = ResumePoint /\ Enter(ResumePoint) \in LoopStates
        BY EnterFacts, <2>4 DEF ResumePoint, OrchestratorResumes, Steps, Kept
      <4>2. loop' = [Enter(ResumePoint) EXCEPT !.before = NotCounted, !.cycles = 1, !.resumed = TRUE]
        BY <2>4 DEF OrchestratorResumes
      <4> HIDE DEF Enter, ResumePoint
      <4> QED BY <4>1, <4>2 DEF LoopStates
    <3> QED BY <3>1 DEF ResumePoint
  <2> QED BY <1>1, <2>1, <2>2, <2>3, <2>4, StaysAtStep
<1>2. LoopInv /\ [LoopNext]_loopVars => [Stops]_loopVars
  BY <1>1
<1> QED BY <1>2, LoopInvariant, PTL DEF LoopSpec, UnreadablePolicyStops

-----------------------------------------------------------------------------
\* Why a story has one file.  The gate that counts starts from no file, for a story
\* with one is not created, and it never retries: any count but the expected one halts.
OneFileExpected == CreationGates = {"verify"} \/ \A p \in LoopPolicies : p.expected = 1

CountInv ==
  /\ loop.step = "begin" => created = 0 /\ loop.before = NotCounted
  /\ loop.gate = "counts" /\ loop.step = "create" =>
       /\ loop.before \in {0, NotCounted}
       /\ IF loop.phase = "ready" THEN created = 0 ELSE loop.before = 0
  /\ loop.gated => loop.step \notin {"begin", "create"} /\ created = loopPolicy.expected

CreateInv ==
  /\ loopPolicy \in [readable : BOOLEAN, expected : Nat, cycles : Nat, crashes : Nat]
  /\ loop.gate = "counts" => loopPolicy.expected = 1
  /\ loop.gate = "verify" => loop.before = NotCounted
  /\ ~loop.resumed => CountInv

LEMMA CreateInit == ASSUME OneFileExpected, LoopInit PROVE CreateInv
<1>1. PICK gate \in CreationGates :
        loop = [step |-> "begin", phase |-> "ready", gate |-> gate, verdict |-> "", attempts |-> 0, crashes |-> 0,
                cycles |-> 1, before |-> NotCounted, gated |-> FALSE, resumed |-> FALSE]
  BY DEF LoopInit
<1>2. loop.step = "begin" /\ loop.gate = gate /\ loop.before = NotCounted /\ ~loop.gated
  BY <1>1
<1>3. loopPolicy \in LoopPolicies /\ created = 0
  BY DEF LoopInit
<1> QED BY <1>2, <1>3, StoryLoopAssumption DEF OneFileExpected, CreateInv, CountInv

\* A step of the loop after creation, that keeps the story's files and the policy.
LEMMA LaterStepsCreate ==
  ASSUME LoopInv, CreateInv, Kept(loop'), UNCHANGED <<created, loopPolicy>>, loop'.step \notin {"begin", "create"}
  PROVE  CreateInv'
BY DEF CreateInv, CountInv, Kept

LEMMA CreationGateCreate == ASSUME LoopInv, CreateInv, CreationGate PROVE CreateInv'
<1> LoopShape /\ loop.step = "create" /\ loop.phase = "over" /\ UNCHANGED <<created, loopPolicy>>
  BY DEF LoopInv, CreationGate, AtStep, World
<1>1. created \in Nat /\ loop.gate \in {"verify", "counts"} /\ MaxStoryFiles \in Nat
  <2>1. created \in Files /\ loop.gate \in CreationGates
    BY DEF LoopShape, LoopStates
  <2>2. MaxStoryFiles \in Nat /\ CreationGates \subseteq {"verify", "counts"}
    BY StoryLoopAssumption
  <2>3. created \in Nat
    BY <2>1, <2>2 DEF Files
  <2>4. loop.gate \in {"verify", "counts"}
    BY <2>1, <2>2
  <2> QED BY <2>2, <2>3, <2>4
<1>2. loop'.resumed = loop.resumed /\ loop'.gate = loop.gate
  BY CreationGateTo
<1>3. CASE CheckProceeds(loop.before, created)
  <2>1. loop'.step = "dev" /\ loop'.before = loop.before
    BY <1>3, CreationGateTo
  <2>2. ~loop.resumed => created = loopPolicy.expected
    <3>1. ~loop.resumed /\ loop.gate = "counts" => loop.before = 0
      BY DEF CreateInv, CountInv
    <3>2. 0 # NotCounted
      BY <1>1 DEF NotCounted
    <3> QED BY <1>1, <1>3, <3>1, <3>2 DEF CheckProceeds, CreateInv
  <2> QED BY <1>2, <2>1, <2>2 DEF CreateInv, CountInv
<1>4. CASE ~CheckProceeds(loop.before, created)
  <2>1. Kept(loop') /\ loop'.step \in {"create", "halt"}
    BY <1>4, CreationGateTo
  <2>2. CASE loop'.step = "halt"
    BY <2>1, <2>2, LaterStepsCreate
  <2>3. CASE loop'.step = "create"
    <3>1. CASE loop.gate = "counts" /\ ~loop.resumed
      <4>1. loop.before = 0 /\ loopPolicy.expected = 1
        BY <3>1 DEF CreateInv, CountInv
      <4>2. ~Escalate("story-validation", CreatedFiles(loop.before, created))
        BY <1>4, <2>3, <3>1, CreationGateTo
      <4>3. loopPolicy.readable /\ CreatedFiles(0, created) = 1
        BY <4>1, <4>2 DEF Escalate
      <4>4. created = 1
        BY <1>1, <4>3 DEF CreatedFiles
      <4>5. 0 # NotCounted
        BY <1>1 DEF NotCounted
      <4> QED BY <1>4, <4>1, <4>3, <4>4, <4>5 DEF CheckProceeds
    <3>2. CASE loop.gate = "verify" \/ loop.resumed
      BY <1>1, <2>1, <2>3, <3>2 DEF CreateInv, CountInv, Kept
    <3> QED BY <1>1, <3>1, <3>2
  <2> QED BY <2>1, <2>2, <2>3
<1> QED BY <1>3, <1>4

LEMMA CreateStep == ASSUME LoopInv, CreateInv, [LoopNext]_loopVars PROVE CreateInv'
<1> LoopShape
  BY DEF LoopInv
<1>1. CASE BeginStory
  <2> DEFINE step == IF created > 0 THEN "dev" ELSE "create"
  <2>1. loop' = Enter(step) /\ loop.step = "begin" /\ UNCHANGED <<created, loopPolicy>> /\ step \in Steps
    BY <1>1 DEF BeginStory, AtStep, World, Steps
  <2>2. created = 0 => step = "create"
    OBVIOUS
  <2> HIDE DEF step
  <2>3. Kept(loop') /\ loop'.step = step /\ loop'.before = loop.before
    BY <2>1, EnterFacts
  <2> QED BY <2>1, <2>2, <2>3 DEF CreateInv, CountInv, Kept
<1>2. CASE CountBefore
  <2>1. loop'.step = loop.step /\ loop'.phase = loop.phase /\ loop'.gate = "counts" /\ loop.gate = "counts"
        /\ loop'.before = created /\ loop'.gated = loop.gated /\ loop'.resumed = loop.resumed
        /\ loop.step = "create" /\ loop.phase = "ready" /\ UNCHANGED <<created, loopPolicy>>
    BY <1>2 DEF CountBefore, AtStep, World, LoopShape, LoopStates
  <2> QED BY <2>1 DEF CreateInv, CountInv
<1>3. CASE SpawnStep
  <2>1. loop'.step = loop.step /\ loop'.phase = "watched" /\ loop'.gate = loop.gate /\ loop'.before = loop.before
        /\ loop'.gated = loop.gated /\ loop'.resumed = loop.resumed /\ UNCHANGED <<created, loopPolicy>>
        /\ loop.step # "begin"
    BY <1>3 DEF SpawnStep, World, LoopShape, LoopStates
  <2>2. loop.step = "create" /\ loop.gate = "counts" => loop.before # NotCounted
    BY <1>3 DEF SpawnStep
  <2> QED BY <2>1, <2>2 DEF CreateInv, CountInv
<1>4. CASE MonitorAnswers \/ KillStep
  <2>1. PICK phase \in {"answered", "over"} : \E verdict :
          loop' = [loop EXCEPT !.phase = phase, !.verdict = verdict] \/ loop' = [loop EXCEPT !.phase = phase]
    BY <1>4 DEF MonitorAnswers, KillStep
  <2>2. loop'.step = loop.step /\ loop'.phase = phase /\ loop'.gate = loop.gate /\ loop'.before = loop.before
        /\ loop'.gated = loop.gated /\ loop'.resumed = loop.resumed
    BY <2>1 DEF LoopShape, LoopStates
  <2>3. loop.phase # "ready" /\ UNCHANGED <<created, loopPolicy>>
    BY <1>4 DEF MonitorAnswers, KillStep, World
  <2> QED BY <2>2, <2>3 DEF CreateInv, CountInv
<1>5. CASE CreationGate
  BY <1>5, CreationGateCreate
<1>6. CASE DevGate \/ ReviewGate \/ CommitGate \/ FinishGate
  <2>1. Kept(loop') /\ loop'.step \notin {"begin", "create"}
    BY <1>6, DevGateTo, ReviewGateTo, CommitGateTo, FinishGateTo
  <2>2. UNCHANGED <<created, loopPolicy>>
    BY <1>6 DEF DevGate, ReviewGate, CommitGate, FinishGate, World
  <2> QED BY <2>1, <2>2, LaterStepsCreate
<1>7. CASE SessionCreatesFile
  <2>1. UNCHANGED <<loop, loopPolicy>> /\ "create" \in Running
    BY <1>7 DEF SessionCreatesFile
  <2>2. ~loop.resumed => loop.step = "create" /\ loop.phase # "ready"
    BY <2>1 DEF Running, LoopInv, SessionInv
  <2> QED BY <2>1, <2>2 DEF CreateInv, CountInv
<1>8. CASE SessionChangesCode \/ SessionMarksDone \/ LoopSessionEnds \/ StorySetBack \/ UNCHANGED loopVars
  <2>1. UNCHANGED <<loop, created, loopPolicy>>
    BY <1>8 DEF SessionChangesCode, SessionMarksDone, LoopSessionEnds, StorySetBack, loopVars
  <2> QED BY <2>1 DEF CreateInv, CountInv
<1>9. CASE PolicyChanges
  <2>1. UNCHANGED <<loop, created>> /\ loopPolicy' = [loopPolicy EXCEPT !.readable = FALSE]
    BY <1>9 DEF PolicyChanges
  <2> QED BY <2>1 DEF CreateInv, CountInv
<1>10. CASE OrchestratorResumes
  <2>1. Kept(Enter(ResumePoint))
    BY EnterFacts, <1>10 DEF ResumePoint, OrchestratorResumes, Steps
  <2>2. loop' = [Enter(ResumePoint) EXCEPT !.before = NotCounted, !.cycles = 1, !.resumed = TRUE]
        /\ UNCHANGED <<created, loopPolicy>>
    BY <1>10 DEF OrchestratorResumes
  <2>3. loop'.resumed /\ loop'.gate = loop.gate /\ loop'.before = NotCounted
    <3> HIDE DEF Enter, ResumePoint
    <3> QED BY <2>1, <2>2 DEF Kept, LoopStates
  <2> QED BY <2>2, <2>3 DEF CreateInv
<1> QED BY <1>1, <1>2, <1>3, <1>4, <1>5, <1>6, <1>7, <1>8, <1>9, <1>10 DEF LoopNext

\* A story that has passed the creation gate has the files the gate has seen and no
\* others, if the gate only verifies or every policy expects one.
THEOREM CreatedOnceHolds ==
  ASSUME OneFileExpected
  PROVE  LoopSpec => []CreatedOnce
<1>1. LoopInit => CreateInv
  BY CreateInit
<1>2. LoopInv /\ CreateInv /\ [LoopNext]_loopVars => CreateInv'
  BY CreateStep
<1>3. CreateInv => CreatedOnce
  BY DEF CreateInv, CountInv, CreatedOnce
<1> QED BY <1>1, <1>2, <1>3, LoopInvariant, PTL DEF LoopSpec
-----------------------------------------------------------------------------
(***************************************************************************)
(* Memory logs.                                                            *)
(***************************************************************************)
LogMetas == SUBSET (LogFields \cup {"complete"})
LogFiles == [whole : BOOLEAN, meta : LogMetas, entries : Seq(Nat)]
LogSteps == {"rest", "read", "open", "written", "replaced"}
LogCommands == [at : LogSteps, entry : Nat, fd : Nat, meta : LogMetas, entries : Seq(Nat)]

\* One writer: what it is about to put in the log's place continues the log.
SingleWriter == \A v, w \in LogWriters : v = w
LogShape ==
  /\ disk \in Seq(LogFiles) /\ commands \in Nat
  /\ names \in [{"log", "tmp"} -> Nat] /\ names.log \in 0..Len(disk) /\ names.tmp \in 0..Len(disk)
  /\ writers \in [LogWriters -> LogCommands]
  /\ names.log # 0 => names.log # names.tmp
WriterInv(w) ==
  /\ writers[w].at \in {"read", "open", "written"} /\ LogExists => IsPrefix(LogFile.entries, writers[w].entries)
  /\ writers[w].at \in {"open", "written"} => names.tmp # 0 /\ writers[w].fd = names.tmp
  /\ writers[w].at = "written" => disk[names.tmp].entries = writers[w].entries
LogInv == LogShape /\ \A w \in LogWriters : WriterInv(w)

LEMMA PrefixFacts ==
  ASSUME NEW s \in Seq(Nat), NEW e \in Nat
  PROVE  IsPrefix(s, s) /\ Append(s, e) \in Seq(Nat) /\ IsPrefix(s, Append(s, e))
<1>1. Len(s) \in Nat /\ Append(s, e) \in Seq(Nat) /\ Len(Append(s, e)) = Len(s) + 1
  OBVIOUS
<1>2. SubSeq(s, 1, Len(s)) = s
  BY SubSeqFull
<1>3. SubSeq(Append(s, e), 1, Len(s)) = s
  <2> DEFINE t == SubSeq(Append(s, e), 1, Len(s))
  <2>1. \A i \in 1..Len(s) : Append(s, e)[i] \in Nat /\ Append(s, e)[i] = s[i]
    OBVIOUS
  <2>2. t \in Seq(Nat) /\ Len(t) = Len(s) /\ \A i \in 1..Len(s) : t[i] = Append(s, e)[i]
    <3>1. /\ t \in Seq(Nat) /\ Len(t) = IF 1 <= Len(s) THEN Len(s) - 1 + 1 ELSE 0
          /\ \A i \in 1..(Len(s) - 1 + 1) : t[i] = Append(s, e)[1 + i - 1]
      BY <1>1, <2>1, SubSeqProperties
    <3> HIDE DEF t
    <3> QED BY <1>1, <3>1
  <2> HIDE DEF t
  <2> QED BY <2>1, <2>2, SeqEqual DEF t
<1> QED BY <1>1, <1>2, <1>3 DEF IsPrefix

LEMMA LogInit_Inv == LogInit => LogInv
<1> SUFFICES ASSUME LogInit PROVE LogInv
  OBVIOUS
<1>1. Remaining \in LogCommands /\ Remaining.at = "rest"
  BY EmptySeq DEF Remaining, LogCommands, LogSteps, LogMetas
<1>2. disk \in Seq(LogFiles) /\ Len(disk) = 0
  BY EmptySeq DEF LogInit
<1>3. LogShape
  BY <1>1, <1>2 DEF LogInit, LogShape
<1> QED BY <1>1, <1>3 DEF LogInit, LogInv, WriterInv

\* The log that is there.
LEMMA LogFileFacts ==
  ASSUME LogShape, LogExists
  PROVE  names.log \in 1..Len(disk) /\ LogFile \in LogFiles /\ LogFile.entries \in Seq(Nat) /\ LogFile.meta \in LogMetas
<1>1. names.log \in 1..Len(disk) /\ disk \in Seq(LogFiles)
  BY DEF LogShape, LogExists
<1>2. LogFile \in LogFiles
  BY <1>1, ElementOfSeq DEF LogFile
<1> QED BY <1>1, <1>2 DEF LogFiles

LEMMA CommandStarts ==
  ASSUME LogInv, SingleWriter, NEW w \in LogWriters, NEW entry \in Nat, NEW meta \in LogMetas, NEW entries \in Seq(Nat),
         Command(w, entry, meta, entries), LogExists => IsPrefix(LogFile.entries, entries)
  PROVE  LogInv'
<1> DEFINE started == [at |-> "read", entry |-> entry, fd |-> 0, meta |-> meta, entries |-> entries]
<1>1. /\ writers' = [writers EXCEPT ![w] = started] /\ UNCHANGED <<disk, names>> /\ commands' = commands + 1
  BY DEF Command
<1>2. started \in LogCommands /\ started.at = "read" /\ started.entries = entries
  BY DEF LogCommands, LogSteps
<1> HIDE DEF started
<1>3. LogShape'
  BY <1>1, <1>2 DEF LogInv, LogShape
<1>4. writers'[w] = started
  BY <1>1 DEF LogInv, LogShape
<1>5. WriterInv(w)'
  BY <1>1, <1>2, <1>4 DEF WriterInv, LogExists, LogFile
<1> QED BY <1>3, <1>5 DEF LogInv, SingleWriter

LEMMA NewCommandInv ==
  ASSUME LogInv, SingleWriter, NEW w \in LogWriters,
         \/ CmdInit(w, {}) \/ \E field \in LogFields : CmdInit(w, {field}) \/ CmdSet(w, field)
         \/ CmdAppend(w) \/ CmdSetComplete(w)
  PROVE  LogInv'
<1>1. LogShape /\ commands \in Nat
  BY DEF LogInv, LogShape
<1>2. ASSUME NEW meta \in LogMetas, CmdInit(w, meta) PROVE LogInv'
  BY <1>2, EmptySeq, CommandStarts DEF CmdInit
<1>3. ASSUME NEW field \in LogFields \cup {"complete"}, CmdSet(w, field) PROVE LogInv'
  <2>1. LogFile.entries \in Seq(Nat) /\ LogFile.meta \cup {field} \in LogMetas
    BY <1>1, <1>3, LogFileFacts DEF CmdSet, LogMetas
  <2>2. IsPrefix(LogFile.entries, LogFile.entries)
    BY <2>1, PrefixFacts
  <2> QED BY <1>3, <2>1, <2>2, CommandStarts DEF CmdSet
<1>4. CASE CmdAppend(w)
  <2>1. LogFile.entries \in Seq(Nat) /\ LogFile.meta \in LogMetas
    BY <1>1, <1>4, LogFileFacts DEF CmdAppend
  <2>2. /\ Append(LogFile.entries, commands + 1) \in Seq(Nat)
        /\ IsPrefix(LogFile.entries, Append(LogFile.entries, commands + 1))
    BY <1>1, <2>1, PrefixFacts
  <2> DEFINE entries == Append(LogFile.entries, commands + 1)
  <2>3. commands + 1 \in Nat /\ Command(w, commands + 1, LogFile.meta, entries)
    BY <1>1, <1>4 DEF CmdAppend
  <2> HIDE DEF entries
  <2> QED BY <2>1, <2>2, <2>3, CommandStarts DEF entries
<1> QED BY <1>2, <1>3, <1>4 DEF CmdSetComplete, LogMetas

\* Only the temporary file is touched: the log's own file stays as it is.
LEMMA OpenTempFacts ==
  ASSUME LogInv, SingleWriter, NEW w \in LogWriters, OpenTemp(w)
  PROVE  LogInv' /\ (LogExists => names'.log # 0 /\ disk'[names'.log] = LogFile)
<1> DEFINE inode == IF names.tmp # 0 THEN names.tmp ELSE Len(disk) + 1
<1>1. /\ writers[w].at = "read" /\ UNCHANGED <<acked, commands>>
      /\ disk' = IF names.tmp # 0 THEN [disk EXCEPT ![inode] = Truncated] ELSE Append(disk, Truncated)
      /\ names' = [names EXCEPT !.tmp = inode]
      /\ writers' = [writers EXCEPT ![w].at = "open", ![w].fd = inode]
  BY DEF OpenTemp
<1>2. LogShape /\ WriterInv(w) /\ disk \in Seq(LogFiles) /\ Len(disk) \in Nat
  BY LenProperties DEF LogInv, LogShape
<1>3. Truncated \in LogFiles
  BY EmptySeq DEF Truncated, LogFiles, LogMetas
<1>4. inode \in Nat /\ inode # 0
  BY <1>2 DEF LogShape
<1>5. /\ disk' \in Seq(LogFiles) /\ inode \in 1..Len(disk') /\ Len(disk) <= Len(disk')
      /\ \A i \in 1..Len(disk) : i # inode => disk'[i] = disk[i]
  <2>1. CASE names.tmp # 0
    <3>1. inode \in 1..Len(disk)
      BY <1>2, <2>1 DEF LogShape
    <3> HIDE DEF inode
    <3>2. disk' = [disk EXCEPT ![inode] = Truncated]
      BY <1>1, <2>1
    <3> QED BY <1>2, <1>3, <3>1, <3>2, ExceptSeq
  <2>2. CASE names.tmp = 0
    <3>1. disk' = Append(disk, Truncated) /\ inode = Len(disk) + 1
      BY <1>1, <2>2
    <3> HIDE DEF inode
    <3> QED BY <1>2, <1>3, <3>1
  <2> QED BY <2>1, <2>2
<1>6. names.log # 0 => names.log # inode
  BY <1>2 DEF LogShape
<1> HIDE DEF inode
<1>7. names'.log = names.log /\ names'.tmp = inode /\ names' \in [{"log", "tmp"} -> Nat]
  BY <1>1, <1>2, <1>4 DEF LogShape
<1>8. /\ writers' \in [LogWriters -> LogCommands] /\ writers'[w].at = "open" /\ writers'[w].fd = inode
      /\ writers'[w].entries = writers[w].entries
  <2>1. writers' = [writers EXCEPT ![w] = [writers[w] EXCEPT !.at = "open", !.fd = inode]]
    BY <1>1, Zenon
  <2>2. writers[w] \in LogCommands
    BY <1>2 DEF LogShape
  <2> DEFINE now == [writers[w] EXCEPT !.at = "open", !.fd = inode]
  <2>3. now \in LogCommands /\ now.at = "open" /\ now.fd = inode /\ now.entries = writers[w].entries
    BY <1>4, <2>2 DEF LogCommands, LogSteps
  <2> HIDE DEF now
  <2> QED BY <1>2, <2>1, <2>3 DEF LogShape, now
<1>9. LogShape'
  <2>1. Len(disk') \in Nat /\ names.log \in 0..Len(disk)
    BY <1>2, <1>5, LenProperties DEF LogShape
  <2> QED BY <1>1, <1>2, <1>4, <1>5, <1>6, <1>7, <1>8, <2>1 DEF LogShape
<1>10. LogExists => disk'[names'.log] = LogFile
  BY <1>2, <1>5, <1>6, <1>7 DEF LogExists, LogFile, LogShape
<1>11. WriterInv(w)'
  BY <1>1, <1>2, <1>4, <1>7, <1>8, <1>10 DEF WriterInv, LogExists, LogFile
<1> QED BY <1>7, <1>9, <1>10, <1>11 DEF LogInv, SingleWriter, LogExists

LEMMA WriteTempFacts ==
  ASSUME LogInv, SingleWriter, NEW w \in LogWriters, WriteTemp(w)
  PROVE  LogInv' /\ (LogExists => names'.log # 0 /\ disk'[names'.log] = LogFile)
<1> DEFINE file == [whole |-> TRUE, meta |-> writers[w].meta, entries |-> writers[w].entries]
<1>1. /\ writers[w].at = "open" /\ UNCHANGED <<names, acked, commands>>
      /\ disk' = [disk EXCEPT ![names.tmp] = file] /\ names.tmp # 0
      /\ writers' = [writers EXCEPT ![w].at = "written"]
  BY DEF WriteTemp, Moved, LogInv, WriterInv
<1>2. LogShape /\ WriterInv(w) /\ disk \in Seq(LogFiles) /\ Len(disk) \in Nat /\ writers[w] \in LogCommands
  BY LenProperties DEF LogInv, LogShape
<1>3. file \in LogFiles /\ file.entries = writers[w].entries
  BY <1>2 DEF LogFiles, LogCommands
<1> HIDE DEF file
<1>4. names.tmp \in 1..Len(disk)
  BY <1>1, <1>2 DEF LogShape
<1>5. /\ disk' \in Seq(LogFiles) /\ Len(disk') = Len(disk) /\ disk'[names.tmp] = file
      /\ \A i \in 1..Len(disk) : i # names.tmp => disk'[i] = disk[i]
  BY <1>1, <1>2, <1>3, <1>4, ExceptSeq
<1>6. /\ writers' \in [LogWriters -> LogCommands] /\ writers'[w].at = "written" /\ writers'[w].fd = writers[w].fd
      /\ writers'[w].entries = writers[w].entries
  BY <1>1, <1>2 DEF LogShape, LogCommands, LogSteps
<1>7. LogShape'
  BY <1>1, <1>2, <1>5, <1>6 DEF LogShape
<1>8. LogExists => disk'[names'.log] = LogFile
  BY <1>1, <1>2, <1>5 DEF LogExists, LogFile, LogShape
<1>9. WriterInv(w)'
  BY <1>1, <1>2, <1>3, <1>5, <1>6, <1>8 DEF WriterInv, LogExists, LogFile
<1> QED BY <1>1, <1>7, <1>8, <1>9 DEF LogInv, SingleWriter, LogExists

\* A command that is over has nothing to put anywhere.
LEMMA CommandEndsInv ==
  ASSUME LogInv, SingleWriter, NEW w \in LogWriters, writers' = [writers EXCEPT ![w] = Remaining],
         UNCHANGED <<disk, names, commands>>
  PROVE  LogInv'
<1>1. Remaining \in LogCommands /\ Remaining.at = "rest"
  BY EmptySeq DEF Remaining, LogCommands, LogSteps, LogMetas
<1>2. LogShape' /\ writers'[w] = Remaining
  BY <1>1 DEF LogInv, LogShape
<1>3. WriterInv(w)'
  BY <1>1, <1>2 DEF WriterInv
<1> QED BY <1>2, <1>3 DEF LogInv, SingleWriter

LEMMA ReplaceLogFacts ==
  ASSUME LogInv, SingleWriter, NEW w \in LogWriters, ReplaceLog(w)
  PROVE  LogInv' /\ (LogExists => names'.log # 0 /\ IsPrefix(LogFile.entries, disk'[names'.log].entries))
<1>1. /\ writers[w].at = "written" /\ names.tmp # 0 /\ UNCHANGED <<disk, acked, commands>>
      /\ names' = [log |-> names.tmp, tmp |-> 0] /\ writers' = [writers EXCEPT ![w].at = "replaced"]
  BY DEF ReplaceLog, Moved, LogInv, WriterInv
<1>2. LogShape /\ WriterInv(w) /\ writers[w] \in LogCommands
  BY DEF LogInv, LogShape
<1>3. writers' \in [LogWriters -> LogCommands] /\ writers'[w].at = "replaced"
  BY <1>1, <1>2 DEF LogShape, LogCommands, LogSteps
<1>4. names'.log = names.tmp /\ names'.tmp = 0 /\ names' \in [{"log", "tmp"} -> Nat]
  BY <1>1, <1>2 DEF LogShape
<1>5. LogShape'
  BY <1>1, <1>2, <1>3, <1>4 DEF LogShape
<1>6. WriterInv(w)'
  BY <1>3 DEF WriterInv
<1>7. LogExists => IsPrefix(LogFile.entries, disk'[names'.log].entries)
  BY <1>1, <1>2, <1>4 DEF WriterInv
<1> QED BY <1>1, <1>4, <1>5, <1>6, <1>7 DEF LogInv, SingleWriter

LEMMA LogStepFacts ==
  ASSUME LogInv, SingleWriter, [LogNext]_logVars
  PROVE  LogInv' /\ (LogExists => names'.log # 0 /\ IsPrefix(LogFile.entries, disk'[names'.log].entries))
<1>1. LogExists => IsPrefix(LogFile.entries, LogFile.entries)
  BY LogFileFacts, PrefixFacts DEF LogInv
<1>2. ASSUME UNCHANGED <<disk, names>> PROVE LogExists => names'.log # 0 /\ IsPrefix(LogFile.entries, disk'[names'.log].entries)
  BY <1>1, <1>2 DEF LogExists, LogFile
<1>3. CASE UNCHANGED logVars
  BY <1>2, <1>3 DEF logVars, LogInv, LogShape, WriterInv, LogExists, LogFile
<1>4. ASSUME NEW w \in LogWriters, OpenTemp(w) \/ WriteTemp(w)
      PROVE  LogInv' /\ (LogExists => names'.log # 0 /\ IsPrefix(LogFile.entries, disk'[names'.log].entries))
  BY <1>1, <1>4, OpenTempFacts, WriteTempFacts
<1>5. ASSUME NEW w \in LogWriters, Ack(w) \/ CommandKilled(w)
      PROVE  LogInv' /\ UNCHANGED <<disk, names>>
  BY <1>5, CommandEndsInv DEF Ack, CommandKilled
<1>6. ASSUME NEW w \in LogWriters,
             \/ CmdInit(w, {}) \/ \E field \in LogFields : CmdInit(w, {field}) \/ CmdSet(w, field)
             \/ CmdAppend(w) \/ CmdSetComplete(w)
      PROVE  LogInv' /\ UNCHANGED <<disk, names>>
  BY <1>6, NewCommandInv DEF CmdInit, CmdSet, CmdAppend, CmdSetComplete, Command
<1> QED BY <1>2, <1>3, <1>4, <1>5, <1>6, ReplaceLogFacts DEF LogNext
-----------------------------------------------------------------------------
(***************************************************************************)
(* Rendered snapshots.                                                     *)
(***************************************************************************)
LEMMA SnapshotsStep ==
  ASSUME [RenderNext]_renderVars
  PROVE  \A name \in DOMAIN snapshots : name \in DOMAIN snapshots' /\ (~tampered' => snapshots'[name] = snapshots[name])
<1> SUFFICES ASSUME NEW name \in DOMAIN snapshots
             PROVE  name \in DOMAIN snapshots' /\ (~tampered' => snapshots'[name] = snapshots[name])
  OBVIOUS
<1>1. CASE UNCHANGED snapshots
  BY <1>1
<1>2. ASSUME NEW r \in Renderers, Publish(r) PROVE name \in DOMAIN snapshots' /\ snapshots'[name] = snapshots[name]
  <2> DEFINE new == Identity(renderer[r])
  <2>1. CASE new \in DOMAIN snapshots
    BY <1>2, <2>1 DEF Publish
  <2>2. CASE new \notin DOMAIN snapshots
    <3>1. snapshots' = [n \in DOMAIN snapshots \cup {new} |-> IF n = new THEN Generation(renderer[r]) ELSE snapshots[n]]
      BY <1>2, <2>2 DEF Publish
    <3> HIDE DEF new
    <3> QED BY <2>2, <3>1
  <2> QED BY <2>1, <2>2
<1>3. ASSUME NEW f, NEW n, TamperWith(n, f) PROVE name \in DOMAIN snapshots' /\ tampered'
  BY <1>3 DEF TamperWith
<1>4. ASSUME NEW r \in Renderers,
             LoadSources(r) \/ LoadCentral(r) \/ LoadDefaults(r) \/ LoadCustomization(r) \/ RenderOrHalt(r) \/ RendererDies(r)
      PROVE  UNCHANGED snapshots
  BY <1>4 DEF LoadSources, LoadCentral, LoadDefaults, LoadCustomization, RenderOrHalt, RendererDies
<1>5. ASSUME NEW i, NEW layer, UpgradeSource(i) \/ EditCentral(i, layer) \/ EditCustom(i, layer)
      PROVE  UNCHANGED snapshots
  BY <1>5 DEF UpgradeSource, EditCentral, EditCustom
<1>6. CASE UNCHANGED renderVars
  BY <1>1, <1>6 DEF renderVars
<1>7. CASE RenderNext
  BY <1>1, <1>2, <1>3, <1>4, <1>5, <1>7 DEF RenderNext
<1> QED BY <1>6, <1>7

\* A renderer is at a step and has read what it has read.
RendererFields == {"step", "sources", "central", "defaults", "custom"}
RenderersAre == DOMAIN renderer = Renderers /\ \A r \in Renderers : DOMAIN renderer[r] = RendererFields

LEMMA RenderInit_Are == RenderInit => RenderersAre
BY DEF RenderInit, RenderersAre, RendererFields, Unread

\* A step moves one renderer, and only a resolving or publishing one gets done.
LEMMA RendererMoves ==
  ASSUME RenderersAre, NEW r \in Renderers, NEW state, DOMAIN state = RendererFields, Becomes(r, state)
  PROVE  RenderersAre' /\ renderer'[r] = state /\ \A q \in Renderers : q # r => renderer'[q] = renderer[q]
BY DEF RenderersAre, Becomes

LEMMA RendererGoes ==
  ASSUME RenderersAre, NEW r \in Renderers, NEW to, Goes(r, to)
  PROVE  /\ RenderersAre' /\ renderer'[r].step = to
         /\ \A q \in Renderers : q # r => renderer'[q] = renderer[q]
<1> DEFINE state == [renderer[r] EXCEPT !.step = to]
<1>1. DOMAIN state = RendererFields /\ state.step = to
  BY DEF RenderersAre, RendererFields
<1>2. Becomes(r, state)
  BY DEF Goes
<1> HIDE DEF state
<1> QED BY <1>1, <1>2, RendererMoves

\* What a done renderer names.
NamesWhatItRead(r) ==
  At(r, "done")' /\ ~At(r, "done") =>
    /\ Identity(renderer[r]) \in DOMAIN snapshots'
    /\ snapshots'[Identity(renderer[r])].outputs = Outputs(renderer[r])

LEMMA VerifiedNames ==
  ASSUME NEW r, Verified(r) = "done"
  PROVE  snapshots[Identity(renderer[r])].outputs = Outputs(renderer[r])
BY DEF Verified, VerifyExisting

LEMMA RenderStepNames ==
  ASSUME RenderersAre, [RenderNext]_renderVars
  PROVE  RenderersAre' /\ \A r \in Renderers : NamesWhatItRead(r)
<1>1. CASE UNCHANGED renderer
  BY <1>1 DEF RenderersAre, NamesWhatItRead, At
<1>2. ASSUME NEW r \in Renderers, LoadSources(r) \/ LoadCentral(r) \/ LoadDefaults(r) \/ LoadCustomization(r)
      PROVE  RenderersAre' /\ \A q \in Renderers : NamesWhatItRead(q)
  <2>1. DOMAIN renderer[r] = RendererFields
    BY DEF RenderersAre
  <2>2. ASSUME NEW state, Becomes(r, state), DOMAIN state = RendererFields, state.step # "done"
        PROVE  RenderersAre' /\ \A q \in Renderers : NamesWhatItRead(q)
    BY <2>2, RendererMoves DEF NamesWhatItRead, At
  <2>3. CASE LoadSources(r)
    <3>1. PICK f : Becomes(r, [renderer[r] EXCEPT
              !.sources = [g \in DOMAIN renderer[r].sources \cup {f} |-> IF g = f THEN versions[f] ELSE renderer[r].sources[g]],
              !.step = IF DOMAIN [g \in DOMAIN renderer[r].sources \cup {f} |-> IF g = f THEN versions[f] ELSE renderer[r].sources[g]]
                            = SourceFiles THEN "central" ELSE "idle"])
      BY <2>3 DEF LoadSources
    <3>2. \A sources, to : LET state == [renderer[r] EXCEPT !.sources = sources, !.step = to]
                          IN DOMAIN state = RendererFields /\ state.step = to
      BY <2>1 DEF RendererFields
    <3> QED BY <2>2, <3>1, <3>2
  <2>4. CASE LoadCentral(r)
    <3> DEFINE state == [renderer[r] EXCEPT !.central = central, !.step = "defaults"]
    <3>1. DOMAIN state = RendererFields /\ state.step = "defaults"
      BY <2>1 DEF RendererFields
    <3>2. Becomes(r, state)
      BY <2>4 DEF LoadCentral
    <3> HIDE DEF state
    <3> QED BY <2>2, <3>1, <3>2
  <2>5. CASE LoadDefaults(r)
    <3> DEFINE state == [renderer[r] EXCEPT !.defaults = custom[1], !.step = "custom"]
    <3>1. DOMAIN state = RendererFields /\ state.step = "custom"
      BY <2>1 DEF RendererFields
    <3>2. Becomes(r, state)
      BY <2>5 DEF LoadDefaults
    <3> HIDE DEF state
    <3> QED BY <2>2, <3>1, <3>2
  <2>6. CASE LoadCustomization(r)
    <3> DEFINE state == [renderer[r] EXCEPT !.custom = custom, !.step = "resolve"]
    <3>1. DOMAIN state = RendererFields /\ state.step = "resolve"
      BY <2>1 DEF RendererFields
    <3>2. Becomes(r, state)
      BY <2>6 DEF LoadCustomization
    <3> HIDE DEF state
    <3> QED BY <2>2, <3>1, <3>2
  <2> QED BY <1>2, <2>3, <2>4, <2>5, <2>6
<1>3. ASSUME NEW r \in Renderers, RenderOrHalt(r)
      PROVE  RenderersAre' /\ \A q \in Renderers : NamesWhatItRead(q)
  <2>1. PICK to : /\ Goes(r, to) /\ snapshots' = snapshots
                  /\ to = "done" => Identity(renderer[r]) \in DOMAIN snapshots /\ Verified(r) = "done"
    BY <1>3 DEF RenderOrHalt
  <2>2. /\ RenderersAre' /\ renderer'[r].step = to
        /\ \A q \in Renderers : q # r => renderer'[q] = renderer[q]
    BY <2>1, RendererGoes
  <2>3. to = "done" => snapshots[Identity(renderer[r])].outputs = Outputs(renderer[r])
    BY <2>1, VerifiedNames
  <2>4. NamesWhatItRead(r)
    BY <2>1, <2>2, <2>3 DEF NamesWhatItRead, At
  <2> QED BY <2>2, <2>4 DEF NamesWhatItRead, At
<1>4. ASSUME NEW r \in Renderers, Publish(r)
      PROVE  RenderersAre' /\ \A q \in Renderers : NamesWhatItRead(q)
  <2> DEFINE name == Identity(renderer[r])
  <2>1. CASE name \in DOMAIN snapshots
    <3>1. Goes(r, Verified(r)) /\ snapshots' = snapshots
      BY <1>4, <2>1 DEF Publish
    <3> QED BY <2>1, <3>1, RendererGoes, VerifiedNames DEF NamesWhatItRead, At
  <2>2. CASE name \notin DOMAIN snapshots
    <3>1. /\ Goes(r, "done")
          /\ snapshots' = [n \in DOMAIN snapshots \cup {name} |-> IF n = name THEN Generation(renderer[r]) ELSE snapshots[n]]
      BY <1>4, <2>2 DEF Publish
    <3> HIDE DEF name
    <3>2. name \in DOMAIN snapshots' /\ snapshots'[name] = Generation(renderer[r])
      BY <3>1
    <3>3. Generation(renderer[r]).outputs = Outputs(renderer[r])
      BY DEF Generation
    <3>4. NamesWhatItRead(r)
      BY <3>2, <3>3 DEF NamesWhatItRead, name
    <3> QED BY <3>1, <3>4, RendererGoes DEF NamesWhatItRead, At
  <2> QED BY <2>1, <2>2
<1>5. ASSUME NEW r \in Renderers, RendererDies(r)
      PROVE  RenderersAre' /\ \A q \in Renderers : NamesWhatItRead(q)
  <2>1. Goes(r, "dead")
    BY <1>5 DEF RendererDies
  <2> QED BY <2>1, RendererGoes DEF NamesWhatItRead, At
<1>6. CASE \/ \E f \in SourceFiles : UpgradeSource(f) \/ \E name \in DOMAIN snapshots : TamperWith(name, f)
           \/ \E i \in DOMAIN central, layer \in CentralLayers : EditCentral(i, layer)
           \/ \E i \in DOMAIN custom, layer \in SkillLayers : EditCustom(i, layer)
  <2>1. UNCHANGED renderer
    BY <1>6 DEF UpgradeSource, TamperWith, EditCentral, EditCustom, Editing
  <2> QED BY <1>1, <2>1
<1>7. CASE UNCHANGED renderVars
  BY <1>1, <1>7 DEF renderVars
<1>8. CASE RenderNext
  BY <1>2, <1>3, <1>4, <1>5, <1>6, <1>8 DEF RenderNext
<1> QED BY <1>7, <1>8

-----------------------------------------------------------------------------
(***************************************************************************)
(* Writers of a memory log that take turns: every answered entry is kept.  *)
(***************************************************************************)

\* Entries are numbered as their commands start, and answered in that order.
NumberedTo(s, n) == s \in Seq(Nat) /\ InOrder(s) /\ \A i \in DOMAIN s : s[i] <= n
AckedInv ==
  /\ NumberedTo(acked, commands) /\ (acked # <<>> => LogExists)
  /\ LogExists => LogFile.whole /\ NumberedTo(LogFile.entries, commands) /\ Range(acked) \subseteq Range(LogFile.entries)
AnswerInv(w) ==
  /\ writers[w].at # "rest" =>
       /\ NumberedTo(writers[w].entries, commands)
       /\ writers[w].entry # 0 =>
            writers[w].entry \in Range(writers[w].entries) /\ \A i \in DOMAIN acked : acked[i] < writers[w].entry
  /\ writers[w].at = "written" => disk[names.tmp].whole
  /\ writers[w].at = "replaced" => LogExists /\ writers[w].entries = LogFile.entries
AckInv == AckedInv /\ \A w \in LogWriters : AnswerInv(w)

LEMMA RangeOfPrefix ==
  ASSUME NEW s \in Seq(Nat), NEW t \in Seq(Nat), IsPrefix(s, t)
  PROVE  Range(s) \subseteq Range(t)
<1>1. Len(s) \in Nat /\ Len(t) \in Nat /\ DOMAIN s = 1..Len(s) /\ DOMAIN t = 1..Len(t)
  BY LenProperties
<1>2. Len(s) <= Len(t) /\ SubSeq(s, 1, Len(s)) = SubSeq(t, 1, Len(s))
  BY DEF IsPrefix
<1>3. ASSUME NEW i \in 1..Len(s) PROVE i \in DOMAIN t /\ t[i] = s[i]
  <2>1. SubSeq(s, 1, Len(s))[i] = s[i] /\ SubSeq(t, 1, Len(s))[i] = t[i]
    BY <1>1, <1>2
  <2> QED BY <1>1, <1>2, <2>1
<1> QED BY <1>1, <1>3 DEF Range

LEMMA NumberedFacts ==
  ASSUME NEW s, NEW n \in Nat, NumberedTo(s, n)
  PROVE  /\ NumberedTo(s, n + 1)
         /\ NumberedTo(Append(s, n + 1), n + 1) /\ n + 1 \in Range(Append(s, n + 1))
         /\ \A e \in Nat : (\A i \in DOMAIN s : s[i] < e) /\ e <= n =>
              NumberedTo(Append(s, e), n) /\ Range(Append(s, e)) = Range(s) \cup {e}
<1>1. s \in Seq(Nat) /\ Len(s) \in Nat /\ DOMAIN s = 1..Len(s)
  BY LenProperties DEF NumberedTo
<1>2. ASSUME NEW e \in Nat
      PROVE  LET t == Append(s, e) IN
             /\ t \in Seq(Nat) /\ DOMAIN t = 1..(Len(s) + 1) /\ t[Len(s) + 1] = e /\ \A i \in 1..Len(s) : t[i] = s[i]
             /\ Range(t) = Range(s) \cup {e}
  <2> DEFINE t == Append(s, e)
  <2>1. t \in Seq(Nat) /\ Len(t) = Len(s) + 1 /\ t[Len(s) + 1] = e /\ \A i \in 1..Len(s) : t[i] = s[i]
    BY <1>1, AppendProperties
  <2>2. DOMAIN t = 1..(Len(s) + 1)
    BY <2>1, LenProperties
  <2> HIDE DEF t
  <2>3. Range(t) \subseteq Range(s) \cup {e}
    <3>1. \A i \in DOMAIN t : i = Len(s) + 1 \/ i \in DOMAIN s
      BY <1>1, <2>2
    <3> QED BY <1>1, <2>1, <3>1 DEF Range
  <2>4. Range(s) \cup {e} \subseteq Range(t)
    <3>1. Len(s) + 1 \in DOMAIN t /\ \A i \in DOMAIN s : i \in DOMAIN t
      BY <1>1, <2>2
    <3>2. e = t[Len(s) + 1] /\ \A i \in DOMAIN s : s[i] = t[i]
      BY <1>1, <2>1
    <3>3. e \in Range(t) /\ \A i \in DOMAIN s : s[i] \in Range(t)
      BY <3>1, <3>2, Zenon DEF Range
    <3> QED BY <3>3, Zenon DEF Range
  <2>5. Range(t) = Range(s) \cup {e}
    BY <2>3, <2>4
  <2> QED BY <2>1, <2>2, <2>5 DEF t
<1>3. NumberedTo(s, n + 1)
  BY <1>1 DEF NumberedTo
<1>4. ASSUME NEW e \in Nat, NEW m \in Nat, \A i \in DOMAIN s : s[i] < e, \A i \in DOMAIN s : s[i] <= m, e <= m
      PROVE  NumberedTo(Append(s, e), m)
  <2> DEFINE t == Append(s, e)
  <2>1. /\ t \in Seq(Nat) /\ DOMAIN t = 1..(Len(s) + 1) /\ t[Len(s) + 1] = e /\ \A i \in 1..Len(s) : t[i] = s[i]
    BY <1>2
  <2> HIDE DEF t
  <2>2. \A i \in DOMAIN t : t[i] <= m
    BY <1>1, <1>4, <2>1
  <2>3. ASSUME NEW i \in DOMAIN t, NEW j \in DOMAIN t, i < j PROVE t[i] < t[j]
    <3>1. i \in DOMAIN s /\ t[i] = s[i] /\ (j = Len(s) + 1 \/ j \in DOMAIN s)
      BY <1>1, <2>1, <2>3
    <3>2. CASE j = Len(s) + 1
      BY <1>4, <2>1, <3>1, <3>2
    <3>3. CASE j \in DOMAIN s
      <4>1. t[j] = s[j] /\ s[i] < s[j]
        BY <1>1, <2>1, <2>3, <3>1, <3>3 DEF NumberedTo, InOrder
      <4> QED BY <3>1, <4>1
    <3> QED BY <3>1, <3>2, <3>3
  <2>4. InOrder(t)
    BY <2>3 DEF InOrder
  <2> QED BY <2>1, <2>2, <2>4 DEF NumberedTo, t
<1>5. \A i \in DOMAIN s : s[i] \in Nat /\ s[i] <= n
  BY <1>1 DEF NumberedTo
<1>6. \A i \in DOMAIN s : s[i] < n + 1 /\ s[i] <= n + 1
  BY <1>5
<1>7. NumberedTo(Append(s, n + 1), n + 1) /\ n + 1 \in Range(Append(s, n + 1))
  BY <1>2, <1>4, <1>6
<1>8. ASSUME NEW e \in Nat, \A i \in DOMAIN s : s[i] < e, e <= n
      PROVE  NumberedTo(Append(s, e), n) /\ Range(Append(s, e)) = Range(s) \cup {e}
  BY <1>2, <1>4, <1>5, <1>8
<1> QED BY <1>3, <1>7, <1>8

LEMMA NothingNumbered == \A n : NumberedTo(<<>>, n) /\ DOMAIN <<>> = {}
BY EmptySeq DEF NumberedTo, InOrder

LEMMA AckInit_Inv == LogInit => AckInv
<1> SUFFICES ASSUME LogInit PROVE AckInv
  OBVIOUS
<1>1. AckedInv
  BY NothingNumbered DEF LogInit, AckedInv, LogExists
<1>2. Remaining.at = "rest"
  BY DEF Remaining
<1> QED BY <1>1, <1>2 DEF LogInit, AckInv, AnswerInv

LEMMA CommandAcks ==
  ASSUME LogInv, AckInv, SingleWriter, NEW w \in LogWriters, NEW entry \in Nat, NEW meta, NEW entries,
         Command(w, entry, meta, entries), NumberedTo(entries, commands + 1),
         entry # 0 => entry = commands + 1 /\ entry \in Range(entries)
  PROVE  AckInv'
<1> DEFINE started == [at |-> "read", entry |-> entry, fd |-> 0, meta |-> meta, entries |-> entries]
<1>1. /\ writers' = [writers EXCEPT ![w] = started] /\ UNCHANGED <<disk, names, acked>> /\ commands' = commands + 1
  BY DEF Command
<1>2. started.at = "read" /\ started.entries = entries /\ started.entry = entry
  OBVIOUS
<1> HIDE DEF started
<1>3. writers'[w] = started /\ commands \in Nat /\ acked \in Seq(Nat)
  BY <1>1 DEF LogInv, LogShape, AckInv, AckedInv, NumberedTo
<1>4. LogFile' = LogFile /\ LogExists' = LogExists
  BY <1>1 DEF LogFile, LogExists
<1>5. AckedInv'
  <2>1. NumberedTo(acked, commands + 1)
    BY <1>3, NumberedFacts DEF AckInv, AckedInv
  <2>2. LogExists => NumberedTo(LogFile.entries, commands + 1)
    BY <1>3, NumberedFacts DEF AckInv, AckedInv
  <2> QED BY <1>1, <1>4, <2>1, <2>2 DEF AckInv, AckedInv
<1>6. \A i \in DOMAIN acked : acked[i] < commands + 1
  <2>1. \A i \in DOMAIN acked : acked[i] \in Nat /\ acked[i] <= commands
    BY <1>3 DEF AckInv, AckedInv, NumberedTo
  <2> QED BY <1>3, <2>1
<1>7. AnswerInv(w)'
  BY <1>1, <1>2, <1>3, <1>6 DEF AnswerInv
<1> QED BY <1>5, <1>7 DEF AckInv, SingleWriter

LEMMA NewCommandAcks ==
  ASSUME LogInv, AckInv, SingleWriter, NEW w \in LogWriters,
         \/ CmdInit(w, {}) \/ \E field \in LogFields : CmdInit(w, {field}) \/ CmdSet(w, field)
         \/ CmdAppend(w) \/ CmdSetComplete(w)
  PROVE  AckInv'
<1>1. commands \in Nat
  BY DEF LogInv, LogShape
<1>2. ASSUME NEW meta, CmdInit(w, meta) PROVE AckInv'
  BY <1>2, NothingNumbered, CommandAcks DEF CmdInit
<1>3. LogExists => NumberedTo(LogFile.entries, commands)
  BY DEF AckInv, AckedInv
<1>4. ASSUME NEW field, CmdSet(w, field) PROVE AckInv'
  <2>1. NumberedTo(LogFile.entries, commands + 1)
    BY <1>1, <1>3, <1>4, NumberedFacts DEF CmdSet
  <2> QED BY <1>4, <2>1, CommandAcks DEF CmdSet
<1>5. CASE CmdAppend(w)
  <2> DEFINE entries == Append(LogFile.entries, commands + 1)
  <2>1. NumberedTo(entries, commands + 1) /\ commands + 1 \in Range(entries)
    BY <1>1, <1>3, <1>5, NumberedFacts DEF CmdAppend
  <2>2. Command(w, commands + 1, LogFile.meta, entries) /\ commands + 1 \in Nat
    BY <1>1, <1>5 DEF CmdAppend
  <2> HIDE DEF entries
  <2> QED BY <2>1, <2>2, CommandAcks
<1> QED BY <1>2, <1>4, <1>5 DEF CmdSetComplete

\* A command goes on: what it writes and what the log holds stay.
LEMMA AnswerGoesOn ==
  ASSUME LogInv, LogInv', AckInv, SingleWriter, NEW w \in LogWriters, UNCHANGED <<acked, commands>>, names'.log = names.log,
         LogExists => LogFile' = LogFile, writers[w].at \in {"read", "open"}, writers'[w].at \in {"open", "written"},
         writers'[w].entries = writers[w].entries, writers'[w].entry = writers[w].entry,
         writers'[w].at = "written" => disk'[names'.tmp].whole
  PROVE  AckInv'
<1>1. LogExists' = LogExists
  BY DEF LogExists
<1>2. AckedInv'
  BY <1>1 DEF AckInv, AckedInv
<1>3. AnswerInv(w)'
  BY DEF AckInv, AnswerInv
<1> QED BY <1>2, <1>3 DEF AckInv, SingleWriter

LEMMA AckStepInv ==
  ASSUME LogInv, AckInv, SingleWriter, [LogNext]_logVars
  PROVE  AckInv'
<1>1. LogInv' /\ LogShape
  BY LogStepFacts DEF LogInv
<1>2. CASE UNCHANGED logVars
  BY <1>2 DEF logVars, AckInv, AckedInv, AnswerInv, LogExists, LogFile
<1>3. ASSUME NEW w \in LogWriters, OpenTemp(w) PROVE AckInv'
  <2>1. /\ writers[w].at = "read" /\ UNCHANGED <<acked, commands>> /\ names'.log = names.log
        /\ writers' = [writers EXCEPT ![w] = [writers[w] EXCEPT !.at = "open", !.fd = names'.tmp]]
    <3>1. DOMAIN names = {"log", "tmp"} /\ DOMAIN writers = LogWriters
      BY <1>1 DEF LogShape
    <3> QED BY <1>3, <3>1 DEF OpenTemp
  <2>2. writers[w] \in LogCommands /\ DOMAIN writers = LogWriters
    BY <1>1 DEF LogShape
  <2>3. writers'[w].at = "open" /\ writers'[w].entries = writers[w].entries /\ writers'[w].entry = writers[w].entry
    BY <2>1, <2>2 DEF LogCommands
  <2>4. LogExists => LogFile' = LogFile
    BY <1>3, OpenTempFacts DEF LogFile
  <2> QED BY <1>1, <2>1, <2>3, <2>4, AnswerGoesOn
<1>4. ASSUME NEW w \in LogWriters, WriteTemp(w) PROVE AckInv'
  <2>1. /\ writers[w].at = "open" /\ UNCHANGED <<acked, commands, names>> /\ names.tmp # 0
        /\ writers' = [writers EXCEPT ![w].at = "written"]
        /\ disk' = [disk EXCEPT ![names.tmp] = [whole |-> TRUE, meta |-> writers[w].meta, entries |-> writers[w].entries]]
    BY <1>4 DEF WriteTemp, Moved, LogInv, WriterInv
  <2>2. writers[w] \in LogCommands /\ DOMAIN writers = LogWriters /\ names.tmp \in DOMAIN disk
    <3>1. names.tmp \in 1..Len(disk) /\ disk \in Seq(LogFiles)
      BY <1>1, <2>1 DEF LogShape
    <3> QED BY <1>1, <3>1, LenProperties DEF LogShape
  <2>3. writers'[w].at = "written" /\ writers'[w].entries = writers[w].entries /\ writers'[w].entry = writers[w].entry
    BY <2>1, <2>2 DEF LogCommands
  <2>4. disk'[names'.tmp].whole
    BY <2>1, <2>2
  <2>5. LogExists => LogFile' = LogFile
    BY <1>4, WriteTempFacts DEF LogFile
  <2> QED BY <1>1, <2>1, <2>3, <2>4, <2>5, AnswerGoesOn
<1>5. ASSUME NEW w \in LogWriters, ReplaceLog(w) PROVE AckInv'
  <2>1. /\ writers[w].at = "written" /\ names.tmp # 0 /\ UNCHANGED <<disk, acked, commands>>
        /\ names' = [log |-> names.tmp, tmp |-> 0] /\ writers' = [writers EXCEPT ![w].at = "replaced"]
    BY <1>5 DEF ReplaceLog, Moved, LogInv, WriterInv
  <2>2. writers[w] \in LogCommands /\ DOMAIN writers = LogWriters /\ WriterInv(w) /\ AnswerInv(w) /\ AckedInv
    BY <1>1 DEF LogShape, LogInv, AckInv
  <2>3. writers'[w].at = "replaced" /\ writers'[w].entries = writers[w].entries /\ writers'[w].entry = writers[w].entry
    BY <2>1, <2>2 DEF LogCommands
  <2>4. LogFile' = disk[names.tmp] /\ LogExists'
    BY <2>1 DEF LogFile, LogExists
  <2>5. LogFile'.entries = writers[w].entries /\ LogFile'.whole /\ NumberedTo(writers[w].entries, commands)
    BY <2>1, <2>2, <2>4 DEF WriterInv, AnswerInv
  <2>6. Range(acked) \subseteq Range(writers[w].entries)
    <3>1. CASE LogExists
      <4>1. LogFile.entries \in Seq(Nat) /\ writers[w].entries \in Seq(Nat)
        BY <1>1, <2>2, <3>1, LogFileFacts DEF LogCommands
      <4>2. IsPrefix(LogFile.entries, writers[w].entries)
        BY <2>1, <2>2, <3>1 DEF WriterInv
      <4>3. Range(acked) \subseteq Range(LogFile.entries)
        BY <2>2, <3>1 DEF AckedInv
      <4> QED BY <4>1, <4>2, <4>3, RangeOfPrefix
    <3>2. CASE ~LogExists
      <4>1. acked = <<>>
        BY <2>2, <3>2 DEF AckedInv
      <4> QED BY <4>1, NothingNumbered DEF Range
    <3> QED BY <3>1, <3>2
  <2>7. AckedInv'
    BY <2>1, <2>2, <2>4, <2>5, <2>6 DEF AckedInv
  <2>8. AnswerInv(w)'
    BY <2>1, <2>2, <2>3, <2>4, <2>5 DEF AnswerInv
  <2> QED BY <2>7, <2>8 DEF AckInv, SingleWriter
<1>6. ASSUME NEW w \in LogWriters, Ack(w) PROVE AckInv'
  <2>1. /\ writers[w].at = "replaced" /\ writers' = [writers EXCEPT ![w] = Remaining] /\ UNCHANGED <<disk, names, commands>>
        /\ acked' = IF writers[w].entry = 0 THEN acked ELSE Append(acked, writers[w].entry)
    BY <1>6 DEF Ack
  <2>2. writers[w] \in LogCommands /\ DOMAIN writers = LogWriters /\ AnswerInv(w) /\ AckedInv /\ commands \in Nat
    BY <1>1 DEF LogShape, AckInv
  <2>3. LogFile' = LogFile /\ LogExists' /\ LogExists
    BY <2>1, <2>2 DEF LogFile, LogExists, AnswerInv
  <2>4. AckedInv'
    <3>1. CASE writers[w].entry = 0
      BY <2>1, <2>2, <2>3, <3>1 DEF AckedInv
    <3>2. CASE writers[w].entry # 0
      <4> DEFINE e == writers[w].entry
      <4>1. /\ e \in Nat /\ e \in Range(LogFile.entries) /\ \A i \in DOMAIN acked : acked[i] < e
            /\ NumberedTo(LogFile.entries, commands)
        BY <2>1, <2>2, <3>2 DEF AnswerInv, LogCommands
      <4>2. e <= commands
        BY <4>1 DEF NumberedTo, Range
      <4>3. NumberedTo(acked, commands) /\ acked' = Append(acked, e)
        BY <2>1, <2>2, <3>2 DEF AckedInv
      <4> HIDE DEF e
      <4>4. NumberedTo(acked', commands) /\ Range(acked') = Range(acked) \cup {e}
        BY <2>2, <4>1, <4>2, <4>3, NumberedFacts
      <4> QED BY <2>1, <2>2, <2>3, <4>1, <4>4 DEF AckedInv
    <3> QED BY <3>1, <3>2
  <2>5. AnswerInv(w)'
    BY <2>1, <2>2 DEF AnswerInv, Remaining
  <2> QED BY <2>4, <2>5 DEF AckInv, SingleWriter
<1>7. ASSUME NEW w \in LogWriters, CommandKilled(w) PROVE AckInv'
  <2>1. writers' = [writers EXCEPT ![w] = Remaining] /\ UNCHANGED <<disk, names, acked, commands>> /\ DOMAIN writers = LogWriters
    BY <1>1, <1>7 DEF CommandKilled, LogShape
  <2>2. AckedInv' /\ AnswerInv(w)'
    BY <2>1 DEF AckInv, AckedInv, AnswerInv, Remaining, LogExists, LogFile
  <2> QED BY <2>2 DEF AckInv, SingleWriter
<1> QED BY <1>2, <1>3, <1>4, <1>5, <1>6, <1>7, NewCommandAcks DEF LogNext

LEMMA AckInvImplies == AckInv => AckedEntriesStay
BY DEF AckInv, AckedInv, AckedEntriesStay, NumberedTo

-----------------------------------------------------------------------------
(***************************************************************************)
(* The eval runners.                                                       *)
(***************************************************************************)

CallStatuses == {"ok", "error", "timeout", "adapter-missing"}
CaseStatuses == CallStatuses \cup {"exception", "skipped"}
Used(j) == transcript[j].used \in {"the skill", "its file"}
EvalShape ==
  /\ program \in {"evals", "triggers"} /\ DOMAIN pool = AllJobs /\ DOMAIN transcript = TriggerRuns
  /\ DOMAIN workdir = {JobDir(j) : j \in EvalJobs} /\ IsFiniteSet(results)
  /\ \A j \in AllJobs : DOMAIN pool[j] = {"at", "status"}

\* The directory of a case that is over says what became of a case of that
\* directory that is over, and every case is gathered with its own status.
IsOver(j) == pool[j].at \in {"ended", "gathered"}
Says(j, k) == JobDir(k) = JobDir(j) /\ IsOver(k) /\ workdir[JobDir(j)] = [job |-> k, status |-> pool[k].status]
CaseInv(j) ==
  /\ pool[j].at = "called" => pool[j].status \in CallStatuses
  /\ IsOver(j) =>
       /\ pool[j].status \in CaseStatuses
       /\ pool[j].status # "exception" => \E k \in EvalJobs : Says(j, k)
CasesInv ==
  program = "evals" =>
    /\ results = {[job |-> j, status |-> pool[j].status] : j \in {k \in EvalJobs : pool[k].at = "gathered"}}
    /\ \A j \in EvalJobs : CaseInv(j)
    /\ \A j \in TriggerRuns : pool[j].at = "queued"
\* A query that is said to have triggered has a transcript that shows it.
QueriesInv ==
  program = "triggers" =>
    /\ \A r \in results : r.job \in TriggerRuns /\ pool[r.job].at = "gathered" /\ (r.status = "triggered" => Used(r.job))
    /\ \A j \in TriggerRuns : pool[j].at \in {"ended", "gathered"} /\ pool[j].status = "triggered" => Used(j)
    /\ \A j \in EvalJobs : pool[j].at = "queued"
CountedInv ==
  summary.written /\ program = "evals" =>
    /\ summary.executed + summary.skipped + summary.failures = summary.total
    /\ \A j \in EvalJobs : pool[j].at = "gathered"
FiredInv ==
  summary.written /\ program = "triggers" => \A q \in ShouldTrigger \cap summary.passed :
    \E j \in TriggerRuns : QueryOf(j) = q /\ pool[j].at = "gathered" /\ Used(j)
EvalInv == EvalShape /\ CasesInv /\ QueriesInv /\ CountedInv /\ FiredInv

LEMMA EvalInit_Inv == EvalInit => EvalInv
<1> SUFFICES ASSUME EvalInit PROVE EvalInv
  OBVIOUS
<1>1. \A j \in AllJobs : pool[j] = [at |-> "queued", status |-> ""]
  BY DEF EvalInit
<1>2. EvalShape
  BY <1>1, FS_EmptySet DEF EvalInit, EvalShape
<1>3. EvalJobs \subseteq AllJobs /\ TriggerRuns \subseteq AllJobs
  BY DEF AllJobs
<1>4. \A j \in AllJobs : pool[j].at = "queued"
  <2> TAKE j \in AllJobs
  <2>1. pool[j] = [at |-> "queued", status |-> ""]
    BY <1>1
  <2>2. [at |-> "queued", status |-> ""].at = "queued"
    OBVIOUS
  <2> QED BY <2>1, <2>2, Zenon
<1>5. CasesInv
  <2>1. {k \in EvalJobs : pool[k].at = "gathered"} = {}
    BY <1>3, <1>4
  <2> QED BY <1>3, <1>4, <2>1 DEF EvalInit, CasesInv, CaseInv, IsOver
<1>6. QueriesInv
  BY <1>3, <1>4 DEF EvalInit, QueriesInv
<1> QED BY <1>2, <1>5, <1>6 DEF EvalInit, EvalInv, CountedInv, FiredInv, NoSummary

\* The results of all cases, sorted by their status, add up to the cases.
LEMMA AllCounted ==
  ASSUME EvalInv, program = "evals", \A j \in EvalJobs : pool[j].at = "gathered"
  PROVE  CountOf({"ok"}) + CountOf({"skipped"}) + CountOf({"error", "timeout", "exception", "adapter-missing"})
           = Cardinality(EvalJobs)
<1> DEFINE f == [j \in EvalJobs |-> [job |-> j, status |-> pool[j].status]]
           Of(statuses) == {r \in results : r.status \in statuses}
           ok == Of({"ok"})
           skipped == Of({"skipped"})
           failed == Of({"error", "timeout", "exception", "adapter-missing"})
<1>1. results = {f[j] : j \in EvalJobs} /\ \A j \in EvalJobs : CaseInv(j)
  <2>1. {k \in EvalJobs : pool[k].at = "gathered"} = EvalJobs
    OBVIOUS
  <2> QED BY <2>1 DEF EvalInv, CasesInv
<1>2. f \in Bijection(EvalJobs, results)
  <2>1. f \in [EvalJobs -> results] /\ \A r \in results : \E j \in EvalJobs : f[j] = r
    BY <1>1
  <2>2. \A i, j \in EvalJobs : f[i] = f[j] => i = j
    <3> TAKE i, j \in EvalJobs
    <3>1. f[i].job = i /\ f[j].job = j
      OBVIOUS
    <3> QED BY <3>1
  <2> HIDE DEF f
  <2>3. f \in Injection(EvalJobs, results)
    BY <2>1, <2>2 DEF Injection, IsInjective
  <2>4. f \in Surjection(EvalJobs, results)
    BY <2>1 DEF Surjection
  <2> QED BY <2>3, <2>4 DEF Bijection
<1>3. Cardinality(results) = Cardinality(EvalJobs) /\ IsFiniteSet(results)
  BY <1>2, EvalAssumption, FS_Bijection DEF ExistsBijection
<1>4. \A r \in results : r.status \in CaseStatuses
  <2> TAKE r \in results
  <2>1. PICK j \in EvalJobs : r = f[j]
    BY <1>1
  <2>2. r.status = pool[j].status
    BY <2>1
  <2> QED BY <1>1, <2>2 DEF CaseInv, IsOver
<1> HIDE DEF f
<1>5. IsFiniteSet(ok) /\ IsFiniteSet(skipped) /\ IsFiniteSet(failed) /\ IsFiniteSet(ok \cup skipped)
  BY <1>3, FS_Subset, FS_Union
<1>6. ok \cap skipped = {} /\ (ok \cup skipped) \cap failed = {} /\ (ok \cup skipped) \cup failed = results
  BY <1>4 DEF CaseStatuses, CallStatuses
<1>7. CountOf({"ok"}) = Cardinality(ok) /\ CountOf({"skipped"}) = Cardinality(skipped)
      /\ CountOf({"error", "timeout", "exception", "adapter-missing"}) = Cardinality(failed)
  BY DEF CountOf
<1> HIDE DEF ok, skipped, failed, Of
<1>8. Cardinality(ok) \in Nat /\ Cardinality(skipped) \in Nat /\ Cardinality(failed) \in Nat /\ Cardinality({}) = 0
  BY <1>5, FS_CardinalityType, FS_EmptySet
<1>9. Cardinality(ok \cup skipped) = Cardinality(ok) + Cardinality(skipped)
  <2>1. Cardinality(ok \cup skipped) = Cardinality(ok) + Cardinality(skipped) - Cardinality(ok \cap skipped)
    BY <1>5, FS_Union
  <2>2. Cardinality(ok \cap skipped) = 0
    BY <1>6, <1>8
  <2> QED BY <1>8, <2>1, <2>2
<1>10. Cardinality((ok \cup skipped) \cup failed) = Cardinality(ok \cup skipped) + Cardinality(failed)
  <2>1. Cardinality((ok \cup skipped) \cup failed)
          = Cardinality(ok \cup skipped) + Cardinality(failed) - Cardinality((ok \cup skipped) \cap failed)
    BY <1>5, FS_Union
  <2>2. Cardinality((ok \cup skipped) \cap failed) = 0
    BY <1>6, <1>8
  <2>3. Cardinality(ok \cup skipped) \in Nat
    BY <1>8, <1>9
  <2> QED BY <1>8, <2>1, <2>2, <2>3
<1> QED BY <1>3, <1>6, <1>7, <1>8, <1>9, <1>10

\* A query that fires has a run that triggered.
LEMMA FiringHasARun ==
  ASSUME EvalInv, program = "triggers", NEW q, Fires(q)
  PROVE  \E j \in TriggerRuns : QueryOf(j) = q /\ pool[j].at = "gathered" /\ Used(j)
<1>1. IsFiniteSet(RunsOf(q)) /\ IsFiniteSet(FiredRunsOf(q))
  BY FS_Subset DEF EvalInv, EvalShape, RunsOf, FiredRunsOf
<1>2. RunsOf(q) # {} /\ 2 * Cardinality(FiredRunsOf(q)) >= Cardinality(RunsOf(q))
  BY DEF Fires
<1>3. Cardinality(RunsOf(q)) \in Nat /\ Cardinality(RunsOf(q)) # 0
  BY <1>1, <1>2, FS_CardinalityType, FS_EmptySet
<1>4. FiredRunsOf(q) # {}
  <2>1. Cardinality(FiredRunsOf(q)) # 0
    BY <1>2, <1>3
  <2>2. Cardinality({}) = 0
    BY FS_EmptySet
  <2> QED BY <2>1, <2>2
<1> QED BY <1>4 DEF FiredRunsOf, RunsOf, EvalInv, QueriesInv

\* A step of one job: the others stay where they are.
LEMMA JobMoves ==
  ASSUME EvalShape, NEW j \in AllJobs, NEW at, NEW status, JobAt(j, at, status)
  PROVE  /\ DOMAIN pool' = AllJobs /\ pool'[j].at = at /\ pool'[j].status = status
         /\ \A i \in AllJobs : DOMAIN pool'[i] = {"at", "status"} /\ (i # j => pool'[i] = pool[i])
BY DEF EvalShape, JobAt

\* A step of a case that is not gathered by it.
LEMMA CaseMoves ==
  ASSUME EvalInv, NEW j \in EvalJobs, NEW at, NEW status, JobAt(j, at, status),
         program = "evals", UNCHANGED <<program, transcript, results, summary>>,
         pool[j].at \in {"queued", "staged", "called"}, at \in {"staged", "called", "ended"},
         at = "called" => status \in CallStatuses,
         at = "ended" => status \in CaseStatuses,
         \/ UNCHANGED workdir /\ (at = "ended" => status = "exception")
         \/ at = "ended" /\ workdir' = [workdir EXCEPT ![JobDir(j)] = [job |-> j, status |-> status]]
  PROVE  EvalInv'
<1>1. EvalShape /\ CasesInv /\ j \in AllJobs /\ EvalJobs \subseteq AllJobs /\ TriggerRuns \subseteq AllJobs
  BY DEF EvalInv, AllJobs
<1>2. /\ DOMAIN pool' = AllJobs /\ pool'[j].at = at /\ pool'[j].status = status
      /\ \A i \in AllJobs : DOMAIN pool'[i] = {"at", "status"} /\ (i # j => pool'[i] = pool[i])
  BY <1>1, JobMoves
<1>3. EvalShape'
  BY <1>1, <1>2 DEF EvalShape
<1>4. {k \in EvalJobs : pool'[k].at = "gathered"} = {k \in EvalJobs : pool[k].at = "gathered"}
      /\ \A k \in EvalJobs : pool[k].at = "gathered" => pool'[k] = pool[k]
  BY <1>1, <1>2
<1>5. results' = {[job |-> k, status |-> pool'[k].status] : k \in {i \in EvalJobs : pool'[i].at = "gathered"}}
  <2>1. results = {[job |-> k, status |-> pool[k].status] : k \in {i \in EvalJobs : pool[i].at = "gathered"}}
    BY <1>1 DEF CasesInv
  <2> QED BY <1>4, <2>1
<1>6. \A k \in EvalJobs : k # j => pool'[k] = pool[k] /\ IsOver(k)' = IsOver(k)
  BY <1>1, <1>2 DEF IsOver
<1>7. ~IsOver(j) /\ (IsOver(j)' => at = "ended")
  BY <1>2 DEF IsOver
<1>8. ASSUME NEW i \in EvalJobs, NEW k \in EvalJobs, Says(i, k) PROVE \E q \in EvalJobs : Says(i, q)'
  <2>1. k # j /\ JobDir(k) = JobDir(i) /\ IsOver(k)' /\ workdir[JobDir(i)] = [job |-> k, status |-> pool'[k].status]
    BY <1>6, <1>7, <1>8 DEF Says
  <2>2. CASE workdir'[JobDir(i)] = workdir[JobDir(i)]
    BY <2>1, <2>2 DEF Says
  <2>3. CASE workdir'[JobDir(i)] # workdir[JobDir(i)]
    <3>1. JobDir(i) = JobDir(j) /\ workdir' = [workdir EXCEPT ![JobDir(j)] = [job |-> j, status |-> status]] /\ at = "ended"
      BY <1>1, <2>3 DEF EvalShape
    <3>2. workdir'[JobDir(j)] = [job |-> j, status |-> status] /\ IsOver(j)' /\ pool'[j].status = status
      BY <1>1, <1>2, <3>1 DEF EvalShape, IsOver
    <3>3. Says(i, j)'
      BY <3>1, <3>2 DEF Says
    <3> QED BY <3>3
  <2> QED BY <2>2, <2>3
<1>9. ASSUME NEW i \in EvalJobs PROVE CaseInv(i)'
  <2>1. CASE i = j
    <3>1. ASSUME at = "ended", status # "exception" PROVE Says(j, j)'
      <4>1. workdir'[JobDir(j)] = [job |-> j, status |-> status]
        BY <1>1, <3>1 DEF EvalShape
      <4> QED BY <1>2, <3>1, <4>1 DEF Says, IsOver
    <3>2. pool'[j].at = "called" => pool'[j].status \in CallStatuses
      BY <1>2
    <3>3. IsOver(j)' => pool'[j].status \in CaseStatuses
                        /\ (pool'[j].status # "exception" => \E k \in EvalJobs : Says(j, k)')
      BY <1>2, <1>7, <3>1
    <3> QED BY <2>1, <3>2, <3>3 DEF CaseInv
  <2>2. CASE i # j
    <3>1. CaseInv(i) /\ pool'[i] = pool[i] /\ IsOver(i)' = IsOver(i)
      BY <1>1, <1>6, <2>2 DEF CasesInv
    <3> QED BY <1>8, <3>1 DEF CaseInv
  <2> QED BY <2>1, <2>2
<1>10. \A i \in TriggerRuns : pool'[i].at = "queued"
  BY <1>1, <1>2, EvalAssumption DEF CasesInv
<1>11. CasesInv'
  BY <1>5, <1>9, <1>10 DEF CasesInv
<1>12. CountedInv'
  BY DEF EvalInv, CountedInv
<1> QED BY <1>3, <1>11, <1>12 DEF EvalInv, QueriesInv, FiredInv

LEMMA GatherCaseInv ==
  ASSUME EvalInv, NEW j \in EvalJobs, GatherCase(j)
  PROVE  EvalInv'
<1> DEFINE result == [job |-> j, status |-> pool[j].status]
<1>1. EvalShape /\ j \in AllJobs /\ EvalJobs \subseteq AllJobs /\ TriggerRuns \subseteq AllJobs
  BY DEF EvalInv, AllJobs
<1>2. /\ pool[j].at = "ended" /\ JobAt(j, "gathered", pool[j].status) /\ results' = results \cup {result}
      /\ UNCHANGED <<program, workdir, transcript, summary>>
  BY DEF GatherCase
<1>3. program = "evals" /\ CasesInv
  BY <1>1, <1>2 DEF EvalInv, QueriesInv, EvalShape
<1>4. /\ DOMAIN pool' = AllJobs /\ pool'[j].at = "gathered" /\ pool'[j].status = pool[j].status
      /\ \A i \in AllJobs : DOMAIN pool'[i] = {"at", "status"} /\ (i # j => pool'[i] = pool[i])
  BY <1>1, <1>2, JobMoves
<1>5. IsFiniteSet(results')
  <2>1. IsFiniteSet(results)
    BY <1>1 DEF EvalShape
  <2>2. IsFiniteSet(results \cup {result})
    BY <2>1, FS_AddElement
  <2> QED BY <1>2, <2>1, <2>2
<1>5a. EvalShape'
  BY <1>1, <1>2, <1>4, <1>5 DEF EvalShape
<1>6. {k \in EvalJobs : pool'[k].at = "gathered"} = {k \in EvalJobs : pool[k].at = "gathered"} \cup {j}
      /\ \A k \in EvalJobs : pool'[k].status = pool[k].status
  BY <1>1, <1>4
<1>7. results' = {[job |-> k, status |-> pool'[k].status] : k \in {i \in EvalJobs : pool'[i].at = "gathered"}}
  <2>1. results = {[job |-> k, status |-> pool[k].status] : k \in {i \in EvalJobs : pool[i].at = "gathered"}}
    BY <1>3 DEF CasesInv
  <2> QED BY <1>2, <1>6, <2>1
<1>8. ASSUME NEW i \in EvalJobs PROVE CaseInv(i)'
  <2>1. \A k \in EvalJobs : IsOver(k)' = IsOver(k) /\ pool'[k].status = pool[k].status
    BY <1>1, <1>2, <1>4 DEF IsOver
  <2>2. \A k \in EvalJobs : Says(i, k)' = Says(i, k)
    BY <1>2, <2>1 DEF Says
  <2>3. pool'[i].at = "called" => pool[i].at = "called"
    BY <1>1, <1>4
  <2> QED BY <1>3, <2>1, <2>2, <2>3 DEF CasesInv, CaseInv
<1>9. \A i \in TriggerRuns : pool'[i].at = "queued"
  BY <1>1, <1>3, <1>4, EvalAssumption DEF CasesInv
<1>10. CasesInv'
  BY <1>7, <1>8, <1>9 DEF CasesInv
<1>11. CountedInv'
  BY <1>1, <1>2, <1>3, <1>4 DEF EvalInv, CountedInv
<1> QED BY <1>2, <1>3, <1>5a, <1>10, <1>11 DEF EvalInv, QueriesInv, FiredInv

LEMMA CaseStepInv ==
  ASSUME EvalInv, NEW j \in EvalJobs, StageCase(j) \/ CallRuntime(j) \/ RecordCase(j) \/ CaseRaises(j)
  PROVE  EvalInv'
<1>1. program = "evals"
  <2>1. program \in {"evals", "triggers"} /\ (program = "triggers" => pool[j].at = "queued")
    BY DEF EvalInv, EvalShape, QueriesInv
  <2> QED BY <2>1 DEF StageCase, CallRuntime, RecordCase, CaseRaises, Working
<1>2. CaseInv(j)
  BY <1>1 DEF EvalInv, CasesInv
<1>3. CASE StageCase(j)
  <2>1. CASE HasAdapter
    BY <1>1, <1>3, <2>1, CaseMoves DEF StageCase
  <2>2. CASE ~HasAdapter
    BY <1>1, <1>3, <2>2, CaseMoves DEF StageCase, CaseStatuses
  <2> QED BY <2>1, <2>2
<1>4. CASE CallRuntime(j)
  <2>1. PICK status \in CallStatuses : JobAt(j, "called", status)
    BY <1>4 DEF CallRuntime, CallStatuses
  <2> QED BY <1>1, <1>4, <2>1, CaseMoves DEF CallRuntime
<1>5. CASE RecordCase(j)
  BY <1>1, <1>2, <1>5, CaseMoves DEF RecordCase, CaseInv, CaseStatuses
<1>6. CASE CaseRaises(j)
  BY <1>1, <1>6, CaseMoves DEF CaseRaises, CaseStatuses, Working
<1> QED BY <1>3, <1>4, <1>5, <1>6

\* A step of a run of a query that is not gathered by it.
LEMMA QueryMoves ==
  ASSUME EvalInv, NEW j \in TriggerRuns, NEW at, NEW status, JobAt(j, at, status),
         program = "triggers", UNCHANGED <<program, workdir, results, summary>>,
         pool[j].at \in {"queued", "called"}, at \in {"called", "ended"},
         DOMAIN transcript' = TriggerRuns, \A i \in TriggerRuns : i # j => transcript'[i] = transcript[i],
         at = "ended" /\ status = "triggered" => Used(j)'
  PROVE  EvalInv'
<1>1. EvalShape /\ j \in AllJobs /\ EvalJobs \subseteq AllJobs /\ TriggerRuns \subseteq AllJobs /\ QueriesInv
  BY DEF EvalInv, AllJobs
<1>2. /\ DOMAIN pool' = AllJobs /\ pool'[j].at = at /\ pool'[j].status = status
      /\ \A i \in AllJobs : DOMAIN pool'[i] = {"at", "status"} /\ (i # j => pool'[i] = pool[i])
  BY <1>1, JobMoves
<1>3. EvalShape'
  BY <1>1, <1>2 DEF EvalShape
<1>4. \A i \in TriggerRuns : pool[i].at = "gathered" => pool'[i] = pool[i] /\ Used(i)' = Used(i)
  BY <1>1, <1>2 DEF Used
<1>5. ASSUME NEW i \in TriggerRuns, pool'[i].at \in {"ended", "gathered"}, pool'[i].status = "triggered" PROVE Used(i)'
  BY <1>1, <1>2, <1>5 DEF QueriesInv, Used
<1>6. ASSUME NEW r \in results
      PROVE  r.job \in TriggerRuns /\ pool'[r.job].at = "gathered" /\ (r.status = "triggered" => Used(r.job)')
  BY <1>1, <1>4, <1>6 DEF QueriesInv
<1>7. \A i \in EvalJobs : pool'[i].at = "queued"
  BY <1>1, <1>2, EvalAssumption DEF QueriesInv
<1>8. QueriesInv'
  BY <1>5, <1>6, <1>7 DEF QueriesInv
<1>9. FiredInv'
  BY <1>4 DEF EvalInv, FiredInv
<1> QED BY <1>3, <1>8, <1>9 DEF EvalInv, CasesInv, CountedInv

LEMMA QueryStepInv ==
  ASSUME EvalInv, NEW j \in TriggerRuns, RunQuery(j) \/ QueryFails(j) \/ EndQuery(j)
  PROVE  EvalInv'
<1>1. DOMAIN transcript = TriggerRuns /\ program \in {"evals", "triggers"}
  BY DEF EvalInv, EvalShape
<1>2. CASE RunQuery(j)
  <2>1. PICK shown : transcript' = [transcript EXCEPT ![j] = shown]
    BY <1>2 DEF RunQuery
  <2> QED BY <1>1, <1>2, <2>1, QueryMoves DEF RunQuery, CanRunQueries
<1>3. CASE QueryFails(j)
  <2>1. PICK status \in {"adapter-missing", "exception"} : JobAt(j, "ended", status)
    BY <1>3 DEF QueryFails
  <2> QED BY <1>1, <1>3, <2>1, QueryMoves DEF QueryFails, CanRunQueries
<1>4. CASE EndQuery(j)
  <2>1. program = "triggers"
    BY <1>1, <1>4 DEF EndQuery, EvalInv, CasesInv
  <2>2. JobAt(j, "ended", IF DetectLoad(transcript[j]) THEN "triggered" ELSE "silent") /\ transcript' = transcript
    BY <1>4 DEF EndQuery
  <2>3. DetectLoad(transcript[j]) => Used(j)'
    BY <2>2 DEF DetectLoad, Used
  <2> QED BY <1>1, <1>4, <2>1, <2>2, <2>3, QueryMoves DEF EndQuery
<1> QED BY <1>2, <1>3, <1>4

LEMMA GatherRunInv ==
  ASSUME EvalInv, NEW j \in TriggerRuns, GatherRun(j)
  PROVE  EvalInv'
<1> DEFINE result == [job |-> j, status |-> pool[j].status]
<1>1. EvalShape /\ j \in AllJobs /\ EvalJobs \subseteq AllJobs /\ TriggerRuns \subseteq AllJobs
  BY DEF EvalInv, AllJobs
<1>2. /\ pool[j].at = "ended" /\ JobAt(j, "gathered", pool[j].status) /\ results' \in {results, results \cup {result}}
      /\ UNCHANGED <<program, workdir, transcript, summary>>
  BY DEF GatherRun
<1>3. program = "triggers" /\ QueriesInv
  BY <1>1, <1>2 DEF EvalInv, CasesInv, EvalShape
<1>4. /\ DOMAIN pool' = AllJobs /\ pool'[j].at = "gathered" /\ pool'[j].status = pool[j].status
      /\ \A i \in AllJobs : DOMAIN pool'[i] = {"at", "status"} /\ (i # j => pool'[i] = pool[i])
  BY <1>1, <1>2, JobMoves
<1>5. IsFiniteSet(results')
  <2>1. IsFiniteSet(results)
    BY <1>1 DEF EvalShape
  <2>2. IsFiniteSet(results \cup {result})
    BY <2>1, FS_AddElement
  <2> QED BY <1>2, <2>1, <2>2
<1>5a. EvalShape'
  BY <1>1, <1>2, <1>4, <1>5 DEF EvalShape
<1>6. ASSUME NEW r \in results'
      PROVE  r.job \in TriggerRuns /\ pool'[r.job].at = "gathered" /\ (r.status = "triggered" => Used(r.job)')
  <2>1. CASE r \in results
    BY <1>1, <1>2, <1>3, <1>4, <2>1 DEF QueriesInv, Used
  <2>2. CASE r = result
    <3>1. r.job = j /\ r.status = pool[j].status
      BY <2>2
    <3> QED BY <1>2, <1>3, <1>4, <3>1 DEF QueriesInv, Used
  <2> QED BY <1>2, <1>6, <2>1, <2>2
<1>7. \A i \in TriggerRuns : pool'[i].at \in {"ended", "gathered"} /\ pool'[i].status = "triggered" => Used(i)'
  BY <1>1, <1>2, <1>3, <1>4 DEF QueriesInv, Used
<1>8. \A i \in EvalJobs : pool'[i].at = "queued"
  BY <1>1, <1>3, <1>4, EvalAssumption DEF QueriesInv
<1>9. QueriesInv'
  BY <1>6, <1>7, <1>8 DEF QueriesInv
<1>10. FiredInv'
  BY <1>1, <1>2, <1>4 DEF EvalInv, FiredInv, Used
<1> QED BY <1>2, <1>3, <1>5a, <1>9, <1>10 DEF EvalInv, CasesInv, CountedInv

LEMMA EvalStepInv ==
  ASSUME EvalInv, [EvalNext]_evalVars
  PROVE  EvalInv'
<1>1. ASSUME UNCHANGED <<program, pool, workdir, transcript, results>>, CountedInv', FiredInv' PROVE EvalInv'
  <2>1. EvalShape'
    BY <1>1 DEF EvalInv, EvalShape
  <2>2. CasesInv'
    BY <1>1 DEF EvalInv, CasesInv, CaseInv, Says, IsOver
  <2>3. QueriesInv'
    BY <1>1 DEF EvalInv, QueriesInv, Used
  <2> QED BY <1>1, <2>1, <2>2, <2>3 DEF EvalInv
<1>2. CASE UNCHANGED evalVars
  BY <1>1, <1>2 DEF evalVars, EvalInv, CountedInv, FiredInv, Used
<1>3. CASE SummariseCases
  <2>1. /\ program = "evals" /\ \A j \in EvalJobs : pool[j].at = "gathered"
        /\ UNCHANGED <<program, pool, workdir, transcript, results>>
        /\ summary'.total = Cardinality(EvalJobs) /\ summary'.executed = CountOf({"ok"}) /\ summary'.skipped = CountOf({"skipped"})
        /\ summary'.failures = CountOf({"error", "timeout", "exception", "adapter-missing"})
    BY <1>3 DEF SummariseCases
  <2>2. CountedInv' /\ FiredInv'
    BY <2>1, AllCounted DEF CountedInv, FiredInv
  <2> QED BY <1>1, <2>1, <2>2
<1>4. CASE SummariseTriggers
  <2>1. /\ program = "triggers" /\ UNCHANGED <<program, pool, workdir, transcript, results>>
        /\ \A q \in summary'.passed : q \in Queries /\ QueryPasses(q)
    BY <1>4 DEF SummariseTriggers
  <2>2. \A q \in ShouldTrigger \cap summary'.passed : Fires(q)
    BY <2>1 DEF QueryPasses
  <2>3. \A q \in ShouldTrigger \cap summary'.passed :
          \E j \in TriggerRuns : QueryOf(j) = q /\ pool[j].at = "gathered" /\ Used(j)
    BY <2>1, <2>2, FiringHasARun
  <2>4. CountedInv' /\ FiredInv'
    BY <2>1, <2>3 DEF CountedInv, FiredInv, Used
  <2> QED BY <1>1, <2>1, <2>4
<1> QED BY <1>2, <1>3, <1>4, CaseStepInv, GatherCaseInv, QueryStepInv, GatherRunInv DEF EvalNext

LEMMA EvalInvImplies == EvalInv => SummaryCountsEveryJob /\ FiringIsObserved
<1> SUFFICES ASSUME EvalInv PROVE SummaryCountsEveryJob /\ FiringIsObserved
  OBVIOUS
<1>1. ASSUME program = "evals", summary.written, NEW r \in results, r.status # "exception"
      PROVE  \E q \in results : JobDir(q.job) = JobDir(r.job) /\ workdir[JobDir(r.job)] = q
  <2>1. PICK j \in EvalJobs : pool[j].at = "gathered" /\ r = [job |-> j, status |-> pool[j].status]
    BY <1>1 DEF EvalInv, CasesInv
  <2>2. r.job = j /\ pool[j].status # "exception" /\ CaseInv(j) /\ IsOver(j)
    BY <1>1, <2>1 DEF EvalInv, CasesInv, IsOver
  <2>3. PICK k \in EvalJobs : Says(j, k)
    BY <2>2 DEF CaseInv
  <2>4. pool[k].at = "gathered"
    BY <1>1 DEF EvalInv, CountedInv
  <2>5. [job |-> k, status |-> pool[k].status] \in results
    BY <1>1, <2>4 DEF EvalInv, CasesInv
  <2>6. [job |-> k, status |-> pool[k].status].job = k
    OBVIOUS
  <2> QED BY <2>2, <2>3, <2>5, <2>6 DEF Says
<1>2. SummaryCountsEveryJob
  BY <1>1 DEF EvalInv, CountedInv, SummaryCountsEveryJob
<1>3. FiringIsObserved
  BY DEF EvalInv, FiredInv, FiringIsObserved, Used
<1> QED BY <1>2, <1>3

-----------------------------------------------------------------------------
(***************************************************************************)
(* Draws from a catalog.                                                   *)
(***************************************************************************)

\* In round N every category has given N rows or N + 1; one that still has a row
\* gave N when it is to be asked, and else N + 1.
IsAtRound(c, N) ==
  /\ Drawn(c) \in Nat /\ Drawn(c) <= N + 1 /\ (c \in turn => Drawn(c) <= N)
  /\ buckets[c] # {} => Drawn(c) >= N /\ (c \notin turn => Drawn(c) >= N + 1)
RoundInv == \E N \in Nat : \A c \in DOMAIN buckets : IsAtRound(c, N)
\* The rows left in the buckets are eligible, sorted, and not drawn yet.
RowsInv ==
  /\ draw.rows \in Seq(eligible) /\ IsInjective(draw.rows)
  /\ \A row \in eligible : row.name \notin offered
  /\ \A c \in DOMAIN buckets : \A row \in buckets[c] : row \in eligible /\ row.category = c /\ row \notin Range(draw.rows)
DrawInv ==
  /\ DOMAIN draw = {"on", "wanted", "rows"}
  /\ turn \subseteq DOMAIN buckets
  /\ draw.on => RowsInv /\ RoundInv

LEMMA CatalogInit_Inv == CatalogInit => DrawInv
<1> SUFFICES ASSUME CatalogInit PROVE DrawInv
  OBVIOUS
<1>1. draw = [on |-> FALSE, wanted |-> 0, rows |-> <<>>] /\ turn = {}
  BY DEF CatalogInit, NoDraw
<1>2. ~draw.on /\ DOMAIN draw = {"on", "wanted", "rows"}
  BY <1>1
<1> QED BY <1>1, <1>2 DEF DrawInv

\* A draw starts with nothing drawn and every category to be asked.
LEMMA ReshuffleInv ==
  ASSUME NEW n, Reshuffle(n)
  PROVE  DrawInv'
<1> DEFINE remaining == Excluded(Methods, offered)
           categories == {row.category : row \in remaining}
<1>1. /\ eligible' = remaining /\ buckets' = [c \in categories |-> Bucket(remaining, c)] /\ turn' = categories
      /\ draw' = [on |-> TRUE, wanted |-> Smaller(n, Cardinality(remaining)), rows |-> <<>>] /\ offered' = offered
  BY DEF Reshuffle
<1>2. \A row \in remaining : row.name \notin offered
  BY DEF Excluded
<1> HIDE DEF remaining
<1>3. DOMAIN draw' = {"on", "wanted", "rows"} /\ draw'.rows = <<>>
  BY <1>1
<1>4. <<>> \in Seq(remaining) /\ DOMAIN <<>> = {} /\ Range(<<>>) = {}
  BY DEF Range
<1>5. RowsInv'
  BY <1>1, <1>2, <1>3, <1>4 DEF RowsInv, IsInjective, Bucket
<1>6. ASSUME NEW c PROVE Drawn(c)' = 0
  <2>1. {i \in DOMAIN draw'.rows : draw'.rows[i].category = c} = {}
    BY <1>3, <1>4
  <2> QED BY <2>1, FS_EmptySet DEF Drawn
<1>7. RoundInv'
  <2>1. ASSUME NEW c \in DOMAIN buckets' PROVE IsAtRound(c, 0)'
    BY <1>1, <1>6 DEF IsAtRound
  <2> QED BY <2>1 DEF RoundInv
<1> QED BY <1>1, <1>3, <1>5, <1>7 DEF DrawInv

\* A row more is one more of its category and none of another.
LEMMA DrawnMore ==
  ASSUME NEW S, draw.rows \in Seq(S), NEW row, draw'.rows = Append(draw.rows, row), NEW c, Drawn(c) \in Nat
  PROVE  Drawn(c)' = IF row.category = c THEN Drawn(c) + 1 ELSE Drawn(c)
<1> DEFINE last == Len(draw.rows) + 1
           before == {i \in DOMAIN draw.rows : draw.rows[i].category = c}
           after == {i \in DOMAIN draw'.rows : draw'.rows[i].category = c}
<1>1. /\ Len(draw.rows) \in Nat /\ DOMAIN draw.rows = 1..Len(draw.rows) /\ DOMAIN draw'.rows = 1..last
      /\ \A i \in DOMAIN draw.rows : draw'.rows[i] = draw.rows[i]
  BY AppendProperties
<1>2. draw'.rows[last] = row
  BY AppendProperties
<1>3. IsFiniteSet(before) /\ last \notin before
  <2>1. IsFiniteSet(1..Len(draw.rows))
    BY <1>1, FS_Interval, 1 \in Int, Len(draw.rows) \in Int
  <2>2. before \subseteq 1..Len(draw.rows)
    BY <1>1
  <2> QED BY <1>1, <2>1, <2>2, FS_Subset
<1>4. after = IF row.category = c THEN before \cup {last} ELSE before
  BY <1>1, <1>2
<1>5. Drawn(c) = Cardinality(before) /\ Drawn(c)' = Cardinality(after)
  BY DEF Drawn
<1> HIDE DEF before, after
<1>6. Cardinality(before \cup {last}) = Cardinality(before) + 1
  BY <1>3, FS_AddElement
<1> QED BY <1>4, <1>5, <1>6

LEMMA TakeInv ==
  ASSUME DrawInv, NEW c \in turn, TakeFromBucket(c)
  PROVE  DrawInv'
<1>1. PICK row \in buckets[c] : /\ draw' = [draw EXCEPT !.rows = Append(@, row)]
                                /\ LET left == [buckets EXCEPT ![c] = @ \ {row}] open == {k \in DOMAIN left : left[k] # {}}
                                   IN buckets' = left /\ turn' = IF turn = {c} THEN open ELSE turn \ {c}
  BY DEF TakeFromBucket
<1>2. draw.on /\ offered' = offered /\ eligible' = eligible /\ c \in DOMAIN buckets /\ RowsInv /\ RoundInv
      /\ DOMAIN draw = {"on", "wanted", "rows"} /\ turn \subseteq DOMAIN buckets
  BY DEF TakeFromBucket, DrawInv
<1>3. DOMAIN draw' = {"on", "wanted", "rows"} /\ draw'.rows = Append(draw.rows, row)
  BY <1>1, <1>2
<1>4. /\ DOMAIN buckets' = DOMAIN buckets /\ buckets'[c] = buckets[c] \ {row}
      /\ \A d \in DOMAIN buckets : d # c => buckets'[d] = buckets[d]
  BY <1>1, <1>2
<1>5. turn' = IF turn = {c} THEN {d \in DOMAIN buckets : buckets'[d] # {}} ELSE turn \ {c}
  BY <1>1, <1>4
<1>6. row \in eligible /\ row.category = c /\ row \notin Range(draw.rows) /\ draw.rows \in Seq(eligible)
  BY <1>1, <1>2 DEF RowsInv
<1>7. RowsInv'
  <2>1. /\ draw'.rows \in Seq(eligible)
        /\ DOMAIN draw.rows = 1..Len(draw.rows) /\ DOMAIN draw'.rows = 1..(Len(draw.rows) + 1) /\ Len(draw.rows) \in Nat
        /\ \A i \in DOMAIN draw.rows : draw'.rows[i] = draw.rows[i]
    BY <1>3, <1>6, AppendProperties
  <2>2. draw'.rows[Len(draw.rows) + 1] = row
    BY <1>3, <1>6, AppendProperties
  <2>3. \A i \in DOMAIN draw.rows : draw.rows[i] # row
    BY <1>6 DEF Range
  <2>4. IsInjective(draw'.rows)
    <3> SUFFICES ASSUME NEW i \in DOMAIN draw'.rows, NEW j \in DOMAIN draw'.rows, draw'.rows[i] = draw'.rows[j] PROVE i = j
      BY DEF IsInjective
    <3>1. i \in DOMAIN draw.rows \/ i = Len(draw.rows) + 1
      BY <2>1
    <3>2. j \in DOMAIN draw.rows \/ j = Len(draw.rows) + 1
      BY <2>1
    <3>3. CASE i \in DOMAIN draw.rows /\ j \in DOMAIN draw.rows
      <4>1. draw.rows[i] = draw.rows[j]
        BY <2>1, <3>3
      <4> QED BY <1>2, <3>3, <4>1 DEF RowsInv, IsInjective
    <3> QED BY <2>1, <2>2, <2>3, <3>1, <3>2, <3>3
  <2>5. Range(draw'.rows) = Range(draw.rows) \cup {row}
    BY <2>1, <2>2 DEF Range
  <2>6. ASSUME NEW d \in DOMAIN buckets, NEW other \in buckets'[d]
        PROVE  other \in eligible /\ other.category = d /\ other \notin Range(draw'.rows)
    <3>1. other \in buckets[d] /\ other # row
      BY <1>2, <1>4, <1>6, <2>6 DEF RowsInv
    <3> QED BY <1>2, <2>5, <3>1 DEF RowsInv
  <2> QED BY <1>2, <1>4, <2>1, <2>4, <2>6 DEF RowsInv
<1>8. RoundInv'
  <2>1. PICK N \in Nat : \A d \in DOMAIN buckets : IsAtRound(d, N)
    BY <1>2 DEF RoundInv
  <2>2. Drawn(c) = N /\ Drawn(c)' = N + 1
    <3>1. Drawn(c) \in Nat /\ Drawn(c) <= N /\ Drawn(c) >= N
      BY <1>1, <1>2, <2>1 DEF IsAtRound
    <3>2. Drawn(c) = N
      BY <3>1
    <3> QED BY <1>3, <1>6, <3>2, DrawnMore
  <2>3. \A d \in DOMAIN buckets : d # c => Drawn(d)' = Drawn(d) /\ Drawn(d) \in Nat
    BY <1>3, <1>6, <2>1, DrawnMore DEF IsAtRound
  <2>4. CASE turn # {c}
    <3>1. ASSUME NEW d \in DOMAIN buckets PROVE IsAtRound(d, N)'
      <4>1. IsAtRound(d, N)
        BY <2>1
      <4>2. CASE d = c
        BY <1>5, <2>2, <2>4, <4>2 DEF IsAtRound
      <4>3. CASE d # c
        BY <1>4, <1>5, <2>3, <2>4, <4>1, <4>3 DEF IsAtRound
      <4> QED BY <4>2, <4>3
    <3> QED BY <1>4, <3>1 DEF RoundInv
  <2>5. CASE turn = {c}
    <3>1. ASSUME NEW d \in DOMAIN buckets PROVE IsAtRound(d, N + 1)'
      <4>1. IsAtRound(d, N) /\ (buckets'[d] # {} => d \in turn')
        BY <1>5, <2>1, <2>5
      <4>2. CASE d = c
        BY <2>2, <4>1, <4>2 DEF IsAtRound
      <4>3. CASE d # c
        <5>1. Drawn(d)' = Drawn(d) /\ buckets'[d] = buckets[d] /\ d \notin turn
          BY <1>4, <2>3, <2>5, <4>3
        <5> QED BY <4>1, <5>1 DEF IsAtRound
      <4> QED BY <4>2, <4>3
    <3>2. N + 1 \in Nat
      OBVIOUS
    <3> QED BY <1>4, <3>1, <3>2 DEF RoundInv
  <2> QED BY <2>4, <2>5
<1>9. turn' \subseteq DOMAIN buckets'
  BY <1>2, <1>4, <1>5
<1> QED BY <1>3, <1>7, <1>8, <1>9 DEF DrawInv

LEMMA CatalogStepInv == DrawInv /\ [CatalogNext]_catalogVars => DrawInv'
<1> SUFFICES ASSUME DrawInv, [CatalogNext]_catalogVars PROVE DrawInv'
  OBVIOUS
<1>1. CASE OfferDraw
  <2>1. draw' = [on |-> FALSE, wanted |-> 0, rows |-> <<>>] /\ turn' = {}
    BY <1>1 DEF OfferDraw, NoDraw
  <2>2. ~draw'.on /\ DOMAIN draw' = {"on", "wanted", "rows"}
    BY <2>1
  <2> QED BY <2>1, <2>2 DEF DrawInv
<1>2. CASE UNCHANGED catalogVars
  <2>1. UNCHANGED <<offered, buckets, turn, draw, eligible>>
    BY <1>2 DEF catalogVars
  <2>2. \A c, N : IsAtRound(c, N)' <=> IsAtRound(c, N)
    BY <2>1 DEF IsAtRound, Drawn
  <2>3. RoundInv => RoundInv'
    BY <2>1, <2>2 DEF RoundInv
  <2>4. RowsInv => RowsInv'
    BY <2>1 DEF RowsInv
  <2> QED BY <2>1, <2>3, <2>4 DEF DrawInv
<1> QED BY <1>1, <1>2, ReshuffleInv, TakeInv DEF CatalogNext

LEMMA DrawInvImplies == DrawInv => DrawIsDiverse /\ NothingIsOfferedTwice
<1> SUFFICES ASSUME DrawInv, draw.on PROVE DrawIsDiverse /\ NothingIsOfferedTwice
  BY DEF DrawIsDiverse, NothingIsOfferedTwice
<1>1. RowsInv /\ RoundInv
  BY DEF DrawInv
<1>2. DrawIsDiverse
  <2>1. PICK N \in Nat : \A c \in DOMAIN buckets : IsAtRound(c, N)
    BY <1>1 DEF RoundInv
  <2>2. ASSUME NEW c \in DOMAIN buckets, NEW d \in DOMAIN buckets, buckets[d] # {} PROVE ~(Drawn(c) > Drawn(d) + 1)
    BY <2>1, <2>2 DEF IsAtRound
  <2> QED BY <2>2 DEF DrawIsDiverse
<1>3. NothingIsOfferedTwice
  <2>1. Range(draw.rows) \subseteq eligible
    BY <1>1 DEF RowsInv, Range
  <2> QED BY <1>1, <2>1 DEF RowsInv, NothingIsOfferedTwice
<1> QED BY <1>2, <1>3

-----------------------------------------------------------------------------
(***************************************************************************)
(* Merged layers, and what a renderer halts for.                           *)
(***************************************************************************)

LayerIds(items) == {items[i].id : i \in DOMAIN items}
PutKeeps(base, items, n) == items \in Seq(LayerItems) /\ LayerIds(base) \subseteq LayerIds(items)
Put == INSTANCE SequenceFolds WITH Op <- PutItem

\* A set of indices has a largest one.
LEMMA LargestIndexed ==
  ASSUME NEW n \in Nat, NEW S \in SUBSET (1..n), S # {}
  PROVE  \E i \in S : \A j \in S : j <= i
<1> DEFINE below == {n - i : i \in S}
<1>1. below \in SUBSET Nat /\ below # {}
  <2>1. \A i \in S : i \in 1..n /\ n - i \in Nat
    OBVIOUS
  <2>2. \E i \in S : n - i \in below
    OBVIOUS
  <2> QED BY <2>1, <2>2
<1>2. PICK m \in below : \A k \in below : m <= k
  BY <1>1, Put!LeastNumber
<1>3. PICK i \in S : m = n - i
  BY <1>2
<1>4. ASSUME NEW j \in S PROVE j <= i
  <2>1. n - j \in below /\ i \in 1..n /\ j \in 1..n
    OBVIOUS
  <2> QED BY <1>2, <1>3, <2>1
<1> QED BY <1>4

LEMMA PutItemFacts ==
  ASSUME NEW items \in Seq(LayerItems), NEW item \in LayerItems
  PROVE  PutItem(items, item) \in Seq(LayerItems) /\ LayerIds(items) \subseteq LayerIds(PutItem(items, item))
<1> DEFINE same == {i \in DOMAIN items : items[i].id = item.id}
           at == CHOOSE i \in same : \A j \in same : j <= i
<1>1. Len(items) \in Nat /\ DOMAIN items = 1..Len(items) /\ \A i \in DOMAIN items : items[i] \in LayerItems
  OBVIOUS
<1>2. PutItem(items, item) = IF same = {} THEN Append(items, item) ELSE [items EXCEPT ![at] = item]
  BY DEF PutItem
<1>3. CASE same = {}
  <2>1. PutItem(items, item) = Append(items, item)
    BY <1>2, <1>3
  <2>2. /\ Append(items, item) \in Seq(LayerItems) /\ DOMAIN Append(items, item) = 1..(Len(items) + 1)
        /\ \A i \in DOMAIN items : Append(items, item)[i] = items[i]
    BY <1>1, AppendProperties
  <2> QED BY <1>1, <2>1, <2>2 DEF LayerIds
<1>4. CASE same # {}
  <2>1. same \in SUBSET (1..Len(items))
    BY <1>1
  <2>2. \E i \in same : \A j \in same : j <= i
    BY <1>1, <1>4, <2>1, LargestIndexed
  <2>3. at \in same
    BY <2>2
  <2>4. at \in DOMAIN items /\ items[at].id = item.id
    BY <2>3
  <2> HIDE DEF at, same
  <2>5. PutItem(items, item) = [items EXCEPT ![at] = item]
    BY <1>2, <1>4
  <2>6. /\ PutItem(items, item) \in Seq(LayerItems) /\ DOMAIN PutItem(items, item) = DOMAIN items
        /\ PutItem(items, item)[at] = item /\ \A i \in DOMAIN items : i # at => PutItem(items, item)[i] = items[i]
    BY <1>1, <2>4, <2>5
  <2>7. \A i \in DOMAIN items : PutItem(items, item)[i].id = items[i].id
    BY <2>4, <2>6
  <2> QED BY <2>6, <2>7 DEF LayerIds
<1> QED BY <1>3, <1>4

\* Merging an array into another keeps the items of the base by their ids.
LEMMA MergeArraysFacts ==
  ASSUME NEW base \in Seq(LayerItems), NEW over \in Seq(LayerItems)
  PROVE  MergeArrays(base, over) \in Seq(LayerItems) /\ LayerIds(base) \subseteq LayerIds(MergeArrays(base, over))
<1>1. CASE IsKeyed(base \o over)
  <2>1. Len(over) \in Nat /\ DOMAIN over = 1..Len(over)
    OBVIOUS
  <2>2. PutKeeps(base, base, 0)
    BY DEF PutKeeps
  <2>3. \A acc : \A k \in 0..(Len(over) - 1) : PutKeeps(base, acc, k) => PutKeeps(base, PutItem(acc, over[k + 1]), k + 1)
    <3> SUFFICES ASSUME NEW acc, NEW k \in 0..(Len(over) - 1), PutKeeps(base, acc, k)
                 PROVE  PutKeeps(base, PutItem(acc, over[k + 1]), k + 1)
      OBVIOUS
    <3>1. over[k + 1] \in LayerItems
      OBVIOUS
    <3> QED BY <3>1, PutItemFacts DEF PutKeeps
  <2>4. PutKeeps(base, Put!FoldOf(base, over), Len(over))
    <3>0. PICK f : Put!Iterates(f, base, over, Len(over))
      BY <2>1, Put!FoldLeftIterates, Zenon
    <3>1. /\ DOMAIN f = 0..Len(over) /\ f[0] = base /\ f[Len(over)] = Put!FoldOf(base, over)
          /\ \A k \in 0..(Len(over) - 1) : f[k + 1] = PutItem(f[k], over[k + 1])
      BY <3>0, Zenon DEF Put!Iterates
    <3> DEFINE Good == {k \in 0..Len(over) : PutKeeps(base, f[k], k)}
    <3>2. 0 \in Good
      BY <2>1, <2>2, <3>1
    <3>3. \A k \in 0..(Len(over) - 1) : k \in Good => k + 1 \in Good
      BY <2>1, <2>3, <3>1
    <3> HIDE DEF Good
    <3>4. Len(over) \in Good
      BY <2>1, <3>2, <3>3, Put!UpTo
    <3> QED BY <3>1, <3>4 DEF Good
  <2>5. MergeArrays(base, over) = FoldLeft(PutItem, base, over)
    BY <1>1, Zenon DEF MergeArrays
  <2>6. FoldLeft(PutItem, base, over) = Put!FoldOf(base, over)
    BY DEF FoldLeft, Put!FoldOf, MapThenFoldSet, Put!MapThenFoldSet, Max, Put!Largest
  <2> QED BY <2>4, <2>5, <2>6 DEF PutKeeps
<1>2. CASE ~IsKeyed(base \o over)
  <2>1. MergeArrays(base, over) = base \o over
    BY <1>2, Zenon DEF MergeArrays
  <2>2. base \o over \in Seq(LayerItems) /\ \A i \in DOMAIN base : i \in DOMAIN (base \o over) /\ (base \o over)[i] = base[i]
    OBVIOUS
  <2> QED BY <2>1, <2>2 DEF LayerIds
<1> QED BY <1>1, <1>2

\* What merging layers makes of the first k: a layer that has, of each list of the first one
\* that no layer flattens, all the items.
Survives(layers, merged, path) ==
  path \in DOMAIN merged /\ merged[path].list /\ LayerIds(layers[1][path].items) \subseteq LayerIds(merged[path].items)
MergeKeeps(layers, merged, k) ==
  IF k = 0 THEN merged = <<>>
  ELSE /\ IsLayer(merged)
       /\ \A path \in DOMAIN layers[1] : layers[1][path].list /\ ~Flattened(layers, path) => Survives(layers, merged, path)
Merge == INSTANCE SequenceFolds WITH Op <- MergeLayer

LEMMA StructuralMergeFacts ==
  ASSUME NEW base, NEW over, base.items \in Seq(LayerItems), over.items \in Seq(LayerItems)
  PROVE  /\ StructuralMerge(base, over).items \in Seq(LayerItems) /\ (StructuralMerge(base, over).list <=> over.list)
         /\ base.list /\ over.list => LayerIds(base.items) \subseteq LayerIds(StructuralMerge(base, over).items)
<1>1. CASE base.list /\ over.list
  <2> DEFINE items == MergeArrays(base.items, over.items)
  <2>1. items \in Seq(LayerItems) /\ LayerIds(base.items) \subseteq LayerIds(items)
    BY MergeArraysFacts
  <2>2. StructuralMerge(base, over) = [list |-> TRUE, text |-> "", items |-> items]
    BY <1>1 DEF StructuralMerge, List
  <2> HIDE DEF items
  <2>3. [list |-> TRUE, text |-> "", items |-> items].items = items
    BY Zenon
  <2>4. [list |-> TRUE, text |-> "", items |-> items].list
    BY Zenon
  <2>5. StructuralMerge(base, over).list /\ StructuralMerge(base, over).items = items
    BY <2>2, <2>3, <2>4, Zenon
  <2> QED BY <1>1, <2>1, <2>5
<1>2. CASE ~(base.list /\ over.list)
  BY <1>2 DEF StructuralMerge
<1> QED BY <1>1, <1>2

LEMMA MergeLayerStep ==
  ASSUME NEW layers, NEW k \in Nat, k + 1 \in DOMAIN layers, 1 \in DOMAIN layers, \A i \in DOMAIN layers : IsLayer(layers[i]),
         NEW merged, MergeKeeps(layers, merged, k)
  PROVE  MergeKeeps(layers, MergeLayer(merged, layers[k + 1]), k + 1)
<1> DEFINE layer == layers[k + 1]
           next == MergeLayer(merged, layer)
           stays == {p \in DOMAIN merged : \A over \in DOMAIN layer : ~Crosses(p, over)}
<1>1. /\ DOMAIN next = stays \cup DOMAIN layer
      /\ \A path \in DOMAIN next : next[path] = IF path \notin DOMAIN layer THEN merged[path]
            ELSE IF path \notin DOMAIN merged THEN layer[path] ELSE StructuralMerge(merged[path], layer[path])
  BY Zenon DEF MergeLayer
<1>2. IsLayer(layer) /\ IsLayer(layers[1]) /\ k + 1 # 0
  OBVIOUS
<1>3. \A path \in DOMAIN merged : path \in stays \/ \E over \in DOMAIN layer : Crosses(path, over)
  OBVIOUS
<1>4. stays \subseteq DOMAIN merged
  OBVIOUS
<1> HIDE DEF layer, next, stays
<1>5. ASSUME NEW path \in DOMAIN layers[1], layers[1][path].list, ~Flattened(layers, path)
      PROVE  (path \in DOMAIN layer => layer[path].list) /\ \A over \in DOMAIN layer : ~Crosses(path, over)
  BY <1>5 DEF Flattened, layer
<1>6. CASE k = 0
  <2>1. DOMAIN merged = {} /\ layer = layers[1]
    BY <1>6 DEF MergeKeeps, layer
  <2>2. DOMAIN next = DOMAIN layer /\ \A path \in DOMAIN layer : next[path] = layer[path]
    BY <1>1, <1>4, <2>1
  <2>3. IsLayer(next)
    BY <1>2, <2>2 DEF IsLayer
  <2>4. MergeKeeps(layers, next, k + 1)
    BY <1>2, <2>1, <2>2, <2>3 DEF MergeKeeps, Survives
  <2> QED BY <2>4 DEF next, layer
<1>7. CASE k # 0
  <2>1. IsLayer(merged)
    BY <1>7 DEF MergeKeeps
  <2>2. ASSUME NEW path \in DOMAIN next PROVE path \in Seq(STRING) /\ next[path].items \in Seq(LayerItems)
    <3>1. CASE path \notin DOMAIN layer
      BY <1>1, <1>4, <2>1, <2>2, <3>1 DEF IsLayer
    <3>2. CASE path \in DOMAIN layer /\ path \notin DOMAIN merged
      BY <1>1, <1>2, <2>2, <3>2 DEF IsLayer
    <3>3. CASE path \in DOMAIN layer /\ path \in DOMAIN merged
      <4>1. /\ merged[path].items \in Seq(LayerItems) /\ layer[path].items \in Seq(LayerItems)
            /\ path \in Seq(STRING)
        BY <1>2, <2>1, <3>3 DEF IsLayer
      <4> QED BY <1>1, <2>2, <3>3, <4>1, StructuralMergeFacts
    <3> QED BY <3>1, <3>2, <3>3
  <2>3. IsLayer(next)
    BY <2>2 DEF IsLayer
  <2>4. ASSUME NEW path \in DOMAIN layers[1], layers[1][path].list, ~Flattened(layers, path)
        PROVE  Survives(layers, next, path)
    <3>1. /\ path \in DOMAIN merged /\ merged[path].list /\ merged[path].items \in Seq(LayerItems)
          /\ LayerIds(layers[1][path].items) \subseteq LayerIds(merged[path].items)
      BY <1>7, <2>1, <2>4 DEF MergeKeeps, Survives, IsLayer
    <3>2. path \in DOMAIN next
      BY <1>1, <1>3, <1>5, <2>4, <3>1
    <3>3. CASE path \notin DOMAIN layer
      BY <1>1, <3>1, <3>2, <3>3 DEF Survives
    <3>4. CASE path \in DOMAIN layer
      <4>1. layer[path].items \in Seq(LayerItems) /\ layer[path].list
        BY <1>2, <1>5, <2>4, <3>4 DEF IsLayer
      <4>2. next[path] = StructuralMerge(merged[path], layer[path])
        BY <1>1, <3>1, <3>2, <3>4
      <4> QED BY <3>1, <3>2, <4>1, <4>2, StructuralMergeFacts DEF Survives
    <3> QED BY <3>3, <3>4
  <2>5. MergeKeeps(layers, next, k + 1)
    BY <1>2, <2>3, <2>4 DEF MergeKeeps
  <2> QED BY <2>5 DEF next, layer
<1> QED BY <1>6, <1>7

LEMMA MergeLayersFacts ==
  ASSUME NEW layers, NEW n \in Nat, DOMAIN layers = 1..n, \A i \in DOMAIN layers : IsLayer(layers[i])
  PROVE  MergeKeeps(layers, MergeLayers(layers), n)
<1>1. MergeKeeps(layers, <<>>, 0)
  BY DEF MergeKeeps
<1>2. \A merged : \A k \in 0..(n - 1) :
        MergeKeeps(layers, merged, k) => MergeKeeps(layers, MergeLayer(merged, layers[k + 1]), k + 1)
  <2> SUFFICES ASSUME NEW merged, NEW k \in 0..(n - 1), MergeKeeps(layers, merged, k)
               PROVE  MergeKeeps(layers, MergeLayer(merged, layers[k + 1]), k + 1)
    OBVIOUS
  <2>1. k \in Nat /\ k + 1 \in 1..n /\ 1 \in 1..n
    OBVIOUS
  <2> QED BY <2>1, MergeLayerStep
<1>3. MergeKeeps(layers, Merge!FoldOf(<<>>, layers), n)
  <2>0. PICK f : Merge!Iterates(f, <<>>, layers, n)
    BY Merge!FoldLeftIterates, Zenon
  <2>1. /\ DOMAIN f = 0..n /\ f[0] = <<>> /\ f[n] = Merge!FoldOf(<<>>, layers)
        /\ \A k \in 0..(n - 1) : f[k + 1] = MergeLayer(f[k], layers[k + 1])
    BY <2>0, Zenon DEF Merge!Iterates
  <2> DEFINE Good == {k \in 0..n : MergeKeeps(layers, f[k], k)}
  <2>2. 0 \in Good
    BY <1>1, <2>1
  <2>3. \A k \in 0..(n - 1) : k \in Good => k + 1 \in Good
    BY <1>2, <2>1
  <2> HIDE DEF Good
  <2>4. n \in Good
    BY <2>2, <2>3, Merge!UpTo
  <2> QED BY <2>1, <2>4 DEF Good
<1>4. FoldLeft(MergeLayer, <<>>, layers) = Merge!FoldOf(<<>>, layers)
  BY DEF FoldLeft, Merge!FoldOf, MapThenFoldSet, Merge!MapThenFoldSet, Max, Merge!Largest
<1>5. MergeLayers(layers) = FoldLeft(MergeLayer, <<>>, layers)
  BY Zenon DEF MergeLayers
<1> QED BY <1>3, <1>4, <1>5

-----------------------------------------------------------------------------
LEMMA ResolvedFields ==
  /\ ~Unresolved.ok
  /\ \A from, value, layers :
       /\ Resolved(from, value, layers).ok /\ Resolved(from, value, layers).source = from
       /\ Resolved(from, value, layers).value = value /\ Resolved(from, value, layers).layers = layers
<1>1. ~Unresolved.ok
  BY Zenon DEF Unresolved
<1>2. ASSUME NEW from, NEW value, NEW layers
      PROVE  /\ Resolved(from, value, layers).ok /\ Resolved(from, value, layers).source = from
             /\ Resolved(from, value, layers).value = value /\ Resolved(from, value, layers).layers = layers
  BY Zenon DEF Resolved
<1> QED BY <1>1, <1>2, Zenon

\* What tells the source of a value apart from another.
LEMMA SourceFacts ==
  ASSUME NEW p \in Seq(STRING), NEW q \in Seq(STRING)
  PROVE  /\ <<"config">> \o p = <<"config">> \o q => p = q
         /\ <<"custom">> \o p = <<"custom">> \o q => p = q
         /\ <<"config">> \o p # <<"custom">> \o q
         /\ <<"config">> \o p # <<"snapshot">> /\ <<"custom">> \o p # <<"snapshot">>
<1>1. ASSUME NEW a, <<a>> \o p = <<a>> \o q PROVE p = q
  <2>1. Len(<<a>> \o p) = Len(p) + 1 /\ Len(<<a>> \o q) = Len(q) + 1 /\ Len(p) \in Nat /\ Len(q) \in Nat
    OBVIOUS
  <2>2. Len(p) = Len(q)
    BY <1>1, <2>1
  <2>3. ASSUME NEW i \in 1..Len(p) PROVE p[i] = q[i]
    <3>1. (<<a>> \o p)[i + 1] = p[i] /\ (<<a>> \o q)[i + 1] = q[i]
      BY <2>2
    <3> QED BY <1>1, <3>1
  <2> QED BY <2>2, <2>3
<1>2. \A a : (<<a>> \o p)[1] = a /\ (<<a>> \o q)[1] = a
  OBVIOUS
<1>3. "config" # "custom" /\ "config" # "snapshot" /\ "custom" # "snapshot" /\ <<"snapshot">>[1] = "snapshot"
  OBVIOUS
<1> QED BY <1>1, <1>2, <1>3

\* A short key stands for this path, or for others of the same value.
ShortFor(config, key, path) ==
  /\ Last(path) = key /\ ~config[path].list
  /\ \A p \in DOMAIN config : Last(p) = key /\ ~config[p].list => config[p] = config[path]

LEMMA ShortFacts ==
  ASSUME NEW config, NEW key, ResolveShortConfig(config, key) # Unresolved
  PROVE  \E path \in DOMAIN config :
           /\ ShortFor(config, key, path)
           /\ ResolveShortConfig(config, key) = Resolved(<<"config">> \o path, config[path], FALSE)
<1> DEFINE found == {path \in DOMAIN config : Last(path) = key /\ ~config[path].list}
           path == CHOOSE p \in found : TRUE
<1>1. ResolveShortConfig(config, key) =
        IF found # {} /\ \A p \in found : IsFilled(config[p]) /\ config[p] = config[path]
        THEN Resolved(<<"config">> \o path, config[path], FALSE) ELSE Unresolved
  BY DEF ResolveShortConfig
<1>2. found # {} => path \in found
  OBVIOUS
<1>3. \A p \in found : p \in DOMAIN config /\ Last(p) = key /\ ~config[p].list
  OBVIOUS
<1>4. \A p \in DOMAIN config : Last(p) = key /\ ~config[p].list => p \in found
  OBVIOUS
<1> HIDE DEF found, path
<1>5. found # {} /\ \A p \in found : config[p] = config[path]
  BY <1>1, Zenon
<1>6. ResolveShortConfig(config, key) = Resolved(<<"config">> \o path, config[path], FALSE)
  BY <1>1, Zenon
<1>7. ShortFor(config, key, path)
  BY <1>2, <1>3, <1>4, <1>5 DEF ShortFor
<1> QED BY <1>2, <1>3, <1>5, <1>6, <1>7

LEMMA PathFacts ==
  ASSUME NEW config, NEW path, ResolveConfig(config, path) # Unresolved
  PROVE  path \in DOMAIN config /\ ~config[path].list
         /\ ResolveConfig(config, path) = Resolved(<<"config">> \o path, config[path], FALSE)
BY DEF ResolveConfig, IsFilled

\* A list of layers was asked for when the default has layers, and what is not is plain.
LayersFor(value, default, layers) ==
  /\ layers => /\ default.list /\ IsKeyed(default.items) /\ value.list
               /\ \A i \in DOMAIN value.items : value.items[i].id # ""
  /\ ~layers /\ value.list => \A i \in DOMAIN value.items : value.items[i].id = ""

LEMMA CustomFacts ==
  ASSUME NEW merged, NEW defaults, NEW path, ResolveCustomization(merged, defaults, path) # Unresolved
  PROVE  /\ path \in DOMAIN merged /\ path \in DOMAIN defaults
         /\ \E layers \in BOOLEAN :
              /\ ResolveCustomization(merged, defaults, path) = Resolved(<<"custom">> \o path, merged[path], layers)
              /\ LayersFor(merged[path], defaults[path], layers)
<1>1. path \in DOMAIN merged /\ path \in DOMAIN defaults
  BY Zenon DEF ResolveCustomization
<1> DEFINE value == merged[path]
           default == defaults[path]
           plain == ~default.list /\ ~value.list
           keyed == default.list /\ value.list /\ IsKeyed(default.items) /\ ReviewLayersAreValid(value.items)
           free == default.list /\ value.list /\ ~IsKeyed(default.items) /\ \A i \in DOMAIN value.items : value.items[i].id = ""
<1>2. \/ plain /\ ResolveCustomization(merged, defaults, path) = Resolved(<<"custom">> \o path, value, FALSE)
      \/ keyed /\ ResolveCustomization(merged, defaults, path) = Resolved(<<"custom">> \o path, value, TRUE)
      \/ free /\ ResolveCustomization(merged, defaults, path) = Resolved(<<"custom">> \o path, value, FALSE)
      \/ ResolveCustomization(merged, defaults, path) = Unresolved
  BY <1>1, Zenon DEF ResolveCustomization
<1>3. keyed => \A i \in DOMAIN value.items : value.items[i].id # ""
  BY DEF ReviewLayersAreValid
<1>5. plain \/ free => LayersFor(value, default, FALSE)
  BY DEF LayersFor
<1>6. keyed => LayersFor(value, default, TRUE)
  BY <1>3 DEF LayersFor
<1> HIDE DEF plain, keyed, free
<1> QED BY <1>1, <1>2, <1>5, <1>6

AreCentralLayers(layers) == DOMAIN layers = DOMAIN FirstCentral /\ \A i \in DOMAIN layers : layers[i] \in CentralLayers \cup Range(FirstCentral)
AreSkillLayers(layers) == DOMAIN layers = DOMAIN FirstSkill /\ \A i \in DOMAIN layers : layers[i] \in SkillLayers \cup Range(FirstSkill)

LEMMA CentralFacts ==
  ASSUME NEW layers, AreCentralLayers(layers)
  PROVE  \A path \in DOMAIN MergeLayers(layers) : path \in Seq(STRING)
<1>1. Len(FirstCentral) \in Nat /\ DOMAIN layers = 1..Len(FirstCentral)
  BY RenderAssumption DEF AreCentralLayers
<1>2. \A i \in DOMAIN layers : IsLayer(layers[i])
  BY RenderAssumption DEF AreCentralLayers
<1>3. MergeKeeps(layers, MergeLayers(layers), Len(FirstCentral))
  BY <1>1, <1>2, MergeLayersFacts
<1>4. CASE Len(FirstCentral) = 0
  <2>1. MergeLayers(layers) = <<>>
    BY <1>3, <1>4 DEF MergeKeeps
  <2> QED BY <2>1
<1>5. CASE Len(FirstCentral) # 0
  BY <1>3, <1>5 DEF MergeKeeps, IsLayer
<1> QED BY <1>4, <1>5

LEMMA SkillFacts ==
  ASSUME NEW layers, AreSkillLayers(layers)
  PROVE  /\ layers # <<>> /\ IsLayer(layers[1]) /\ IsLayer(MergeLayers(layers))
         /\ \A path \in DOMAIN layers[1] :
              layers[1][path].list /\ ~Flattened(layers, path) => Survives(layers, MergeLayers(layers), path)
<1>1. Len(FirstSkill) \in Nat /\ Len(FirstSkill) # 0 /\ DOMAIN layers = 1..Len(FirstSkill)
  BY RenderAssumption DEF AreSkillLayers
<1>2. \A i \in DOMAIN layers : IsLayer(layers[i])
  BY RenderAssumption DEF AreSkillLayers
<1>3. MergeKeeps(layers, MergeLayers(layers), Len(FirstSkill))
  BY <1>1, <1>2, MergeLayersFacts
<1>4. 1 \in DOMAIN layers /\ layers # <<>>
  BY <1>1
<1> QED BY <1>1, <1>2, <1>3, <1>4 DEF MergeKeeps

-----------------------------------------------------------------------------
LEMMA KindFacts ==
  ASSUME NEW token \in AllTokens
  PROVE  /\ token.kind \in {"short", "config", "custom", "snapshot"}
         /\ token.kind \in {"config", "custom"} => token.at \in Seq(STRING)
BY RenderAssumption DEF AllTokens

LEMMA TokenResolves ==
  ASSUME NEW read, CanRender(read), NEW token \in AllTokens
  PROVE  Resolve(read, token) # Unresolved
BY ResolvedFields, Zenon DEF CanRender

LEMMA ResolveFacts ==
  ASSUME NEW read, NEW token
  PROVE  /\ token.kind = "short" => Resolve(read, token) = ResolveShortConfig(MergeLayers(read.central), token.at)
         /\ token.kind = "config" => Resolve(read, token) = ResolveConfig(MergeLayers(read.central), token.at)
         /\ token.kind = "custom" => Resolve(read, token) = ResolveCustomization(MergeLayers(read.custom), read.defaults, token.at)
BY DEF Resolve

\* What the three kinds of token with a value resolve to.
LEMMA ShortToken ==
  ASSUME NEW read, NEW token, token.kind = "short", Resolve(read, token) # Unresolved
  PROVE  \E path \in DOMAIN MergeLayers(read.central) :
           /\ ShortFor(MergeLayers(read.central), token.at, path)
           /\ Resolve(read, token) = Resolved(<<"config">> \o path, MergeLayers(read.central)[path], FALSE)
<1>1. Resolve(read, token) = ResolveShortConfig(MergeLayers(read.central), token.at)
  BY ResolveFacts
<1> QED BY <1>1, ShortFacts

LEMMA ConfigToken ==
  ASSUME NEW read, NEW token, token.kind = "config", Resolve(read, token) # Unresolved
  PROVE  /\ token.at \in DOMAIN MergeLayers(read.central)
         /\ Resolve(read, token) = Resolved(<<"config">> \o token.at, MergeLayers(read.central)[token.at], FALSE)
<1>1. Resolve(read, token) = ResolveConfig(MergeLayers(read.central), token.at)
  BY ResolveFacts
<1> QED BY <1>1, PathFacts

LEMMA CustomToken ==
  ASSUME NEW read, NEW token, token.kind = "custom", Resolve(read, token) # Unresolved
  PROVE  /\ token.at \in DOMAIN MergeLayers(read.custom) /\ token.at \in DOMAIN read.defaults
         /\ \E layers \in BOOLEAN :
              /\ Resolve(read, token) = Resolved(<<"custom">> \o token.at, MergeLayers(read.custom)[token.at], layers)
              /\ LayersFor(MergeLayers(read.custom)[token.at], read.defaults[token.at], layers)
<1>1. Resolve(read, token) = ResolveCustomization(MergeLayers(read.custom), read.defaults, token.at)
  BY ResolveFacts
<1> QED BY <1>1, CustomFacts

\* What a name has, read back.
LEMMA IdentityFacts ==
  ASSUME NEW read
  PROVE  /\ Identity(read).sources = read.sources
         /\ Identity(read).values = {<<input.source, input.value>> :
                input \in {Resolve(read, token) : token \in {t \in AllTokens : t.kind # "snapshot"}}}
BY DEF Identity

LEMMA ValueFacts ==
  ASSUME NEW read, CanRender(read), AreCentralLayers(read.central), NEW pair \in Identity(read).values, NEW path \in Seq(STRING)
  PROVE  /\ pair[1] = <<"config">> \o path =>
              path \in DOMAIN MergeLayers(read.central) /\ pair[2] = MergeLayers(read.central)[path]
         /\ pair[1] = <<"custom">> \o path =>
              path \in DOMAIN MergeLayers(read.custom) /\ pair[2] = MergeLayers(read.custom)[path]
<1>1. PICK token \in AllTokens : token.kind # "snapshot" /\ pair = <<Resolve(read, token).source, Resolve(read, token).value>>
  BY IdentityFacts
<1>2. Resolve(read, token) # Unresolved
  BY TokenResolves
<1>3. pair[1] = Resolve(read, token).source /\ pair[2] = Resolve(read, token).value
  BY <1>1
<1>4. CASE token.kind = "short"
  <2>1. PICK p \in DOMAIN MergeLayers(read.central) :
          Resolve(read, token) = Resolved(<<"config">> \o p, MergeLayers(read.central)[p], FALSE)
    BY <1>2, <1>4, ShortToken
  <2>2. pair[1] = <<"config">> \o p /\ pair[2] = MergeLayers(read.central)[p]
    BY <1>3, <2>1 DEF Resolved
  <2>3. p \in Seq(STRING)
    BY CentralFacts
  <2> QED BY <2>2, <2>3, SourceFacts
<1>5. CASE token.kind = "config"
  <2>1. /\ token.at \in DOMAIN MergeLayers(read.central)
        /\ Resolve(read, token) = Resolved(<<"config">> \o token.at, MergeLayers(read.central)[token.at], FALSE)
    BY <1>2, <1>5, ConfigToken
  <2>2. pair[1] = <<"config">> \o token.at /\ pair[2] = MergeLayers(read.central)[token.at]
    BY <1>3, <2>1 DEF Resolved
  <2>3. token.at \in Seq(STRING)
    BY <1>5, KindFacts
  <2> QED BY <2>1, <2>2, <2>3, SourceFacts
<1>6. CASE token.kind = "custom"
  <2>1. token.at \in DOMAIN MergeLayers(read.custom)
    BY <1>2, <1>6, CustomToken
  <2>2. PICK layers \in BOOLEAN : Resolve(read, token) = Resolved(<<"custom">> \o token.at, MergeLayers(read.custom)[token.at], layers)
    BY <1>2, <1>6, CustomToken
  <2>3. pair[1] = <<"custom">> \o token.at /\ pair[2] = MergeLayers(read.custom)[token.at]
    BY <1>3, <2>2 DEF Resolved
  <2>4. token.at \in Seq(STRING)
    BY <1>6, KindFacts
  <2> QED BY <2>1, <2>3, <2>4, SourceFacts
<1> QED BY <1>1, <1>4, <1>5, <1>6, KindFacts

\* Every token but a link is in the name.
LEMMA TokenIsNamed ==
  ASSUME NEW read, NEW token \in AllTokens, token.kind # "snapshot"
  PROVE  <<Resolve(read, token).source, Resolve(read, token).value>> \in Identity(read).values
BY IdentityFacts

\* Whether layers were asked for shows in the value, when the default is the first layer.
HasLayers(value) == value.list /\ value.items # <<>> /\ value.items[1].id # ""
Readable(read) ==
  /\ AreCentralLayers(read.central) /\ AreSkillLayers(read.custom) /\ read.defaults = read.custom[1]
  /\ \A path \in DOMAIN read.custom[1] : read.custom[1][path].list => ~Flattened(read.custom, path)

LEMMA LayersShow ==
  ASSUME NEW read, Readable(read), NEW token, token.kind = "custom", Resolve(read, token) # Unresolved
  PROVE  \E layers \in BOOLEAN :
           /\ Resolve(read, token) = Resolved(<<"custom">> \o token.at, MergeLayers(read.custom)[token.at], layers)
           /\ layers <=> HasLayers(MergeLayers(read.custom)[token.at])
<1> DEFINE path == token.at
           value == MergeLayers(read.custom)[path]
           default == read.defaults[path]
<1>1. path \in DOMAIN MergeLayers(read.custom) /\ path \in DOMAIN read.defaults
  BY CustomToken
<1>2. PICK layers \in BOOLEAN : Resolve(read, token) = Resolved(<<"custom">> \o path, value, layers) /\ LayersFor(value, default, layers)
  BY CustomToken
<1>3. /\ IsLayer(MergeLayers(read.custom)) /\ IsLayer(read.defaults)
      /\ default.list => LayerIds(default.items) \subseteq LayerIds(value.items)
  BY <1>1, SkillFacts DEF Readable, Survives
<1>4. value.items \in Seq(LayerItems) /\ default.items \in Seq(LayerItems)
  BY <1>1, <1>3 DEF IsLayer
<1> HIDE DEF value, default, path
<1>5. value.items # <<>> => 1 \in DOMAIN value.items
  BY <1>4
<1>6. layers => value.items # <<>>
  <2> SUFFICES ASSUME layers, value.items = <<>> PROVE FALSE
    OBVIOUS
  <2>1. default.items # <<>> /\ LayerIds(default.items) \subseteq LayerIds(value.items)
    BY <1>2, <1>3 DEF LayersFor, IsKeyed
  <2>2. 1 \in DOMAIN default.items /\ DOMAIN value.items = {}
    BY <1>4, <2>1
  <2> QED BY <2>1, <2>2 DEF LayerIds
<1>7. layers <=> HasLayers(value)
  BY <1>2, <1>5, <1>6 DEF LayersFor, HasLayers
<1> QED BY <1>2, <1>7 DEF value, path

LEMMA RenderedPlain == ASSUME NEW from, NEW value PROVE Rendered(Resolved(from, value, FALSE)) = value
<1>1. ~Resolved(from, value, FALSE).layers /\ Resolved(from, value, FALSE).value = value
  BY Zenon DEF Resolved
<1> QED BY <1>1, Zenon DEF Rendered

\* Two renderers that read all of a skill at once, flatten none of its lists and name the same snapshot write the same.
LEMMA RenderedAgree ==
  ASSUME NEW one, NEW other, Readable(one), Readable(other), CanRender(one), CanRender(other),
         Identity(one).values = Identity(other).values, NEW token \in AllTokens
  PROVE  Rendered(Resolve(one, token)) = Rendered(Resolve(other, token))
<1>1. Resolve(one, token) # Unresolved /\ Resolve(other, token) # Unresolved
  BY TokenResolves
<1>2. AreCentralLayers(one.central) /\ AreCentralLayers(other.central)
  BY DEF Readable
<1>3. CASE token.kind = "short"
  <2>1. PICK p \in DOMAIN MergeLayers(one.central) :
          /\ ShortFor(MergeLayers(one.central), token.at, p)
          /\ Resolve(one, token) = Resolved(<<"config">> \o p, MergeLayers(one.central)[p], FALSE)
    BY <1>1, <1>3, ShortToken
  <2>2. PICK q \in DOMAIN MergeLayers(other.central) :
          /\ ShortFor(MergeLayers(other.central), token.at, q)
          /\ Resolve(other, token) = Resolved(<<"config">> \o q, MergeLayers(other.central)[q], FALSE)
    BY <1>1, <1>3, ShortToken
  <2>3. <<<<"config">> \o p, MergeLayers(one.central)[p]>> \in Identity(other).values
    <3>1. Resolve(one, token).source = <<"config">> \o p /\ Resolve(one, token).value = MergeLayers(one.central)[p]
      BY <2>1 DEF Resolved
    <3> QED BY <1>3, <3>1, TokenIsNamed
  <2>4. p \in DOMAIN MergeLayers(other.central) /\ MergeLayers(one.central)[p] = MergeLayers(other.central)[p]
    <3>1. p \in Seq(STRING)
      BY <1>2, CentralFacts
    <3> QED BY <1>2, <2>3, <3>1, ValueFacts
  <2>5. MergeLayers(one.central)[p] = MergeLayers(other.central)[q]
    BY <2>1, <2>2, <2>4, Zenon DEF ShortFor
  <2>6. Rendered(Resolve(one, token)) = MergeLayers(one.central)[p] /\ Rendered(Resolve(other, token)) = MergeLayers(other.central)[q]
    BY <2>1, <2>2, RenderedPlain
  <2> QED BY <2>5, <2>6, Zenon
<1>4. CASE token.kind = "config"
  <2>1. /\ Resolve(one, token) = Resolved(<<"config">> \o token.at, MergeLayers(one.central)[token.at], FALSE)
        /\ Resolve(other, token) = Resolved(<<"config">> \o token.at, MergeLayers(other.central)[token.at], FALSE)
    BY <1>1, <1>4, ConfigToken
  <2>2. <<<<"config">> \o token.at, MergeLayers(one.central)[token.at]>> \in Identity(other).values
    <3>1. /\ Resolve(one, token).source = <<"config">> \o token.at
          /\ Resolve(one, token).value = MergeLayers(one.central)[token.at]
      BY <2>1 DEF Resolved
    <3> QED BY <1>4, <3>1, TokenIsNamed
  <2>3. MergeLayers(one.central)[token.at] = MergeLayers(other.central)[token.at]
    BY <1>2, <1>4, <2>2, ValueFacts, KindFacts
  <2> QED BY <2>1, <2>3, Zenon
<1>5. CASE token.kind = "custom"
  <2>1. PICK inOne \in BOOLEAN :
          /\ Resolve(one, token) = Resolved(<<"custom">> \o token.at, MergeLayers(one.custom)[token.at], inOne)
          /\ inOne <=> HasLayers(MergeLayers(one.custom)[token.at])
    BY <1>1, <1>5, LayersShow
  <2>2. PICK inOther \in BOOLEAN :
          /\ Resolve(other, token) = Resolved(<<"custom">> \o token.at, MergeLayers(other.custom)[token.at], inOther)
          /\ inOther <=> HasLayers(MergeLayers(other.custom)[token.at])
    BY <1>1, <1>5, LayersShow
  <2>3. <<<<"custom">> \o token.at, MergeLayers(one.custom)[token.at]>> \in Identity(other).values
    <3>1. /\ Resolve(one, token).source = <<"custom">> \o token.at
          /\ Resolve(one, token).value = MergeLayers(one.custom)[token.at]
      BY <2>1 DEF Resolved
    <3> QED BY <1>5, <3>1, TokenIsNamed
  <2>4. MergeLayers(one.custom)[token.at] = MergeLayers(other.custom)[token.at]
    BY <1>2, <1>5, <2>3, ValueFacts, KindFacts
  <2>5. inOne = inOther
    BY <2>1, <2>2, <2>4
  <2> QED BY <2>1, <2>2, <2>4, <2>5, Zenon
<1>6. CASE token.kind = "snapshot"
  <2>1. Resolve(one, token) = Resolve(other, token)
    BY <1>6 DEF Resolve
  <2> QED BY <2>1
<1> QED BY <1>3, <1>4, <1>5, <1>6, KindFacts

LEMMA OutputsAgree ==
  ASSUME NEW one, NEW other, Readable(one), Readable(other), CanRender(one), CanRender(other),
         Identity(one) = Identity(other)
  PROVE  Outputs(one) = Outputs(other)
<1>1. one.sources = other.sources /\ Identity(one).values = Identity(other).values
  BY IdentityFacts
<1>2. ASSUME NEW f \in SourceFiles, NEW i \in DOMAIN TokensOf(f)
      PROVE  Rendered(Resolve(one, TokensOf(f)[i])) = Rendered(Resolve(other, TokensOf(f)[i]))
  <2>1. TokensOf(f)[i] \in AllTokens
    BY DEF AllTokens, Range
  <2> QED BY <1>1, <2>1, RenderedAgree
<1>3. \A f \in SourceFiles : [i \in DOMAIN TokensOf(f) |-> Rendered(Resolve(one, TokensOf(f)[i]))]
                             = [i \in DOMAIN TokensOf(f) |-> Rendered(Resolve(other, TokensOf(f)[i]))]
  BY <1>2
<1> QED BY <1>1, <1>3 DEF Outputs

-----------------------------------------------------------------------------
\* What a renderer has read by its step.  A snapshot nobody tampered with was published by
\* a renderer that is done, and holds what that renderer read.
Loading == {"idle", "central", "defaults", "custom"}
ReaderInv(read) ==
  /\ read.step \in Loading => read.custom = <<>>
  /\ read.step \in {"defaults", "custom", "resolve", "staged", "done", "halt"} => AreCentralLayers(read.central)
  /\ read.step \in {"resolve", "staged", "done", "halt"} => AreSkillLayers(read.custom)
  /\ read.step \in {"staged", "done"} => CanRender(read)
PublishedBy(name, q) ==
  At(q, "done") /\ name = Identity(renderer[q]) /\ snapshots[name] = Generation(renderer[q])
PublishedInv == ~tampered => \A name \in DOMAIN snapshots : \E q \in Renderers : PublishedBy(name, q)
RenderInv ==
  /\ RenderersAre /\ AreCentralLayers(central) /\ AreSkillLayers(custom)
  /\ \A r \in Renderers : ReaderInv(renderer[r])
  /\ PublishedInv /\ HaltHasACause

LEMMA RenderInit_Inv == RenderInit => RenderInv
<1> SUFFICES ASSUME RenderInit PROVE RenderInv
  OBVIOUS
<1>1. RenderersAre
  BY RenderInit_Are
<1>2. \A r \in Renderers : renderer[r].step = "idle" /\ renderer[r].custom = <<>>
  BY DEF RenderInit, Unread
<1>3. AreCentralLayers(central) /\ AreSkillLayers(custom)
  BY RenderAssumption DEF RenderInit, AreCentralLayers, AreSkillLayers, Range
<1>4. \A r \in Renderers : ReaderInv(renderer[r]) /\ ~At(r, "halt")
  BY <1>2 DEF ReaderInv, At
<1>5. PublishedInv
  BY DEF RenderInit, PublishedInv
<1> QED BY <1>1, <1>3, <1>4, <1>5 DEF RenderInv, HaltHasACause

\* What a renderer would write depends on what it read, not on its step.
SameReading(one, other) ==
  one.sources = other.sources /\ one.central = other.central /\ one.defaults = other.defaults /\ one.custom = other.custom

LEMMA SameReadingFacts ==
  ASSUME NEW one, NEW other, SameReading(one, other)
  PROVE  /\ CanRender(one) <=> CanRender(other)
         /\ Identity(one) = Identity(other) /\ Outputs(one) = Outputs(other) /\ Generation(one) = Generation(other)
<1>1. \A token : Resolve(one, token) = Resolve(other, token)
  BY DEF Resolve, SameReading
<1>2. CanRender(one) <=> CanRender(other)
  BY <1>1, Zenon DEF CanRender
<1>3. Identity(one) = Identity(other)
  BY <1>1 DEF Identity, SameReading
<1>4. Outputs(one) = Outputs(other)
  BY <1>1 DEF Outputs, SameReading
<1> QED BY <1>2, <1>3, <1>4 DEF Generation

\* A renderer reads on.
LEMMA ReadingInv ==
  ASSUME RenderInv, NEW r \in Renderers, renderer[r].step \in Loading, NEW read, Becomes(r, read), DOMAIN read = RendererFields,
         read.step \in Loading \cup {"resolve"}, ReaderInv(read), UNCHANGED <<snapshots, central, custom, tampered>>
  PROVE  RenderInv'
<1>1. RenderersAre' /\ renderer'[r] = read /\ \A q \in Renderers : q # r => renderer'[q] = renderer[q]
  BY RendererMoves DEF RenderInv
<1>2. AreCentralLayers(central)' /\ AreSkillLayers(custom)'
  BY DEF RenderInv, AreCentralLayers, AreSkillLayers
<1>3. \A q \in Renderers : ReaderInv(renderer[q])'
  BY <1>1 DEF RenderInv, ReaderInv
<1>4. PublishedInv'
  <2> SUFFICES ASSUME ~tampered, NEW name \in DOMAIN snapshots PROVE \E q \in Renderers : PublishedBy(name, q)'
    BY DEF PublishedInv
  <2>1. PICK q \in Renderers : PublishedBy(name, q)
    BY DEF RenderInv, PublishedInv
  <2>2. q # r
    BY <2>1 DEF PublishedBy, At, Loading
  <2>3. PublishedBy(name, q)'
    BY <1>1, <2>1, <2>2 DEF PublishedBy, At
  <2> QED BY <2>3
<1>5. HaltHasACause'
  <2> SUFFICES ASSUME NEW q \in Renderers, At(q, "halt")', ~tampered, CanRender(renderer'[q])
               PROVE  \E p \in Renderers : (ReadInBetween(p) \/ FlattensAList(p))'
    BY DEF HaltHasACause
  <2>1. q # r /\ At(q, "halt")
    BY <1>1 DEF At, Loading
  <2>2. PICK p \in Renderers : ReadInBetween(p) \/ FlattensAList(p)
    BY <1>1, <2>1 DEF RenderInv, HaltHasACause
  <2>3. p # r
    BY <2>2 DEF ReadInBetween, FlattensAList, RenderInv, ReaderInv
  <2> QED BY <1>1, <2>2, <2>3 DEF ReadInBetween, FlattensAList
<1> QED BY <1>1, <1>2, <1>3, <1>4, <1>5 DEF RenderInv

LEMMA LoadingInv ==
  ASSUME RenderInv, NEW r \in Renderers, LoadSources(r) \/ LoadCentral(r) \/ LoadDefaults(r) \/ LoadCustomization(r)
  PROVE  RenderInv'
<1>1. DOMAIN renderer[r] = RendererFields /\ ReaderInv(renderer[r]) /\ AreCentralLayers(central) /\ AreSkillLayers(custom)
  BY DEF RenderInv, RenderersAre
<1>2. CASE LoadSources(r)
  <2>1. /\ renderer[r].step = "idle" /\ UNCHANGED <<snapshots, central, custom, tampered>>
        /\ \E sources, to : Becomes(r, [renderer[r] EXCEPT !.sources = sources, !.step = to]) /\ to \in {"central", "idle"}
    BY <1>2 DEF LoadSources, At, SameProject
  <2>2. PICK sources, to : Becomes(r, [renderer[r] EXCEPT !.sources = sources, !.step = to]) /\ to \in {"central", "idle"}
    BY <2>1
  <2> DEFINE read == [renderer[r] EXCEPT !.sources = sources, !.step = to]
  <2>3. DOMAIN read = RendererFields /\ read.step = to /\ read.custom = renderer[r].custom
    BY <1>1 DEF RendererFields
  <2>4. Becomes(r, read)
    BY <2>2
  <2> HIDE DEF read
  <2>5. ReaderInv(read)
    BY <1>1, <2>1, <2>2, <2>3 DEF ReaderInv, Loading
  <2> QED BY <2>1, <2>2, <2>3, <2>4, <2>5, ReadingInv DEF Loading
<1>3. CASE LoadCentral(r)
  <2> DEFINE read == [renderer[r] EXCEPT !.central = central, !.step = "defaults"]
  <2>1. renderer[r].step = "central" /\ UNCHANGED <<snapshots, central, custom, tampered>> /\ Becomes(r, read)
    BY <1>3 DEF LoadCentral, At, SameProject
  <2>2. DOMAIN read = RendererFields /\ read.step = "defaults" /\ read.custom = renderer[r].custom /\ read.central = central
    BY <1>1 DEF RendererFields
  <2> HIDE DEF read
  <2>3. ReaderInv(read)
    BY <1>1, <2>1, <2>2 DEF ReaderInv, Loading
  <2> QED BY <2>1, <2>2, <2>3, ReadingInv DEF Loading
<1>4. CASE LoadDefaults(r)
  <2> DEFINE read == [renderer[r] EXCEPT !.defaults = custom[1], !.step = "custom"]
  <2>1. renderer[r].step = "defaults" /\ UNCHANGED <<snapshots, central, custom, tampered>> /\ Becomes(r, read)
    BY <1>4 DEF LoadDefaults, At, SameProject
  <2>2. DOMAIN read = RendererFields /\ read.step = "custom" /\ read.custom = renderer[r].custom /\ read.central = renderer[r].central
    BY <1>1 DEF RendererFields
  <2> HIDE DEF read
  <2>3. ReaderInv(read)
    BY <1>1, <2>1, <2>2 DEF ReaderInv, Loading
  <2> QED BY <2>1, <2>2, <2>3, ReadingInv DEF Loading
<1>5. CASE LoadCustomization(r)
  <2> DEFINE read == [renderer[r] EXCEPT !.custom = custom, !.step = "resolve"]
  <2>1. renderer[r].step = "custom" /\ UNCHANGED <<snapshots, central, custom, tampered>> /\ Becomes(r, read)
    BY <1>5 DEF LoadCustomization, At, SameProject
  <2>2. DOMAIN read = RendererFields /\ read.step = "resolve" /\ read.custom = custom /\ read.central = renderer[r].central
    BY <1>1 DEF RendererFields
  <2> HIDE DEF read
  <2>3. ReaderInv(read)
    BY <1>1, <2>1, <2>2 DEF ReaderInv, Loading
  <2> QED BY <2>1, <2>2, <2>3, ReadingInv DEF Loading
<1> QED BY <1>2, <1>3, <1>4, <1>5

\* A renderer that has read everything goes to a step for which it may go.
LEMMA GoesInv ==
  ASSUME RenderInv, NEW r \in Renderers, renderer[r].step \notin {"idle", "done", "halt"}, NEW to, Goes(r, to),
         to \in {"staged", "done", "halt", "dead"}, to # "dead" => renderer[r].step \in {"resolve", "staged"},
         to \in {"staged", "done"} => CanRender(renderer[r]),
         to = "halt" => tampered \/ ~CanRender(renderer[r]) \/ \E q \in Renderers : ReadInBetween(q) \/ FlattensAList(q),
         UNCHANGED <<central, custom, tampered>>,
         ~tampered => \A name \in DOMAIN snapshots' :
            \/ name \in DOMAIN snapshots /\ snapshots'[name] = snapshots[name]
            \/ to = "done" /\ name = Identity(renderer[r]) /\ snapshots'[name] = Generation(renderer[r])
  PROVE  RenderInv'
<1>1. RenderersAre' /\ renderer'[r].step = to /\ \A q \in Renderers : q # r => renderer'[q] = renderer[q]
  BY RendererGoes DEF RenderInv
<1>2. SameReading(renderer'[r], renderer[r])
  <2>1. renderer'[r] = [renderer[r] EXCEPT !.step = to] /\ DOMAIN renderer[r] = RendererFields
    BY DEF RenderInv, RenderersAre, Goes, Becomes
  <2> QED BY <2>1 DEF SameReading, RendererFields
<1>3. /\ CanRender(renderer'[r]) <=> CanRender(renderer[r])
      /\ Identity(renderer'[r]) = Identity(renderer[r]) /\ Generation(renderer'[r]) = Generation(renderer[r])
  BY <1>2, SameReadingFacts
<1>4. AreCentralLayers(central)' /\ AreSkillLayers(custom)'
  BY DEF RenderInv, AreCentralLayers, AreSkillLayers
<1>5. ASSUME NEW q \in Renderers PROVE ReaderInv(renderer'[q])
  <2>1. ReaderInv(renderer[q]) /\ ReaderInv(renderer[r])
    BY DEF RenderInv
  <2>2. CASE q = r
    BY <1>1, <1>2, <1>3, <2>1, <2>2 DEF ReaderInv, SameReading, Loading
  <2> QED BY <1>1, <2>1, <2>2
<1>6. PublishedInv'
  <2> SUFFICES ASSUME ~tampered, NEW name \in DOMAIN snapshots' PROVE \E q \in Renderers : PublishedBy(name, q)'
    BY DEF PublishedInv
  <2>1. CASE name \in DOMAIN snapshots /\ snapshots'[name] = snapshots[name]
    <3>1. PICK q \in Renderers : PublishedBy(name, q)
      BY <2>1 DEF RenderInv, PublishedInv
    <3>2. q # r
      BY <3>1 DEF PublishedBy, At
    <3> QED BY <1>1, <2>1, <3>1, <3>2 DEF PublishedBy, At
  <2>2. CASE to = "done" /\ name = Identity(renderer[r]) /\ snapshots'[name] = Generation(renderer[r])
    BY <1>1, <1>3, <2>2 DEF PublishedBy, At
  <2> QED BY <2>1, <2>2
<1>7. \A q \in Renderers : ReadInBetween(q) \/ FlattensAList(q) => (ReadInBetween(q) \/ FlattensAList(q))'
  BY <1>1, <1>2 DEF ReadInBetween, FlattensAList, SameReading
<1>8. HaltHasACause'
  <2> SUFFICES ASSUME NEW q \in Renderers, At(q, "halt")', ~tampered, CanRender(renderer'[q])
               PROVE  \E p \in Renderers : ReadInBetween(p) \/ FlattensAList(p)
    BY <1>7 DEF HaltHasACause
  <2>1. CASE q = r
    BY <1>1, <1>3, <2>1 DEF At
  <2>2. CASE q # r
    BY <1>1, <2>2 DEF At, RenderInv, HaltHasACause
  <2> QED BY <2>1, <2>2
<1> QED BY <1>1, <1>4, <1>5, <1>6, <1>8 DEF RenderInv

\* A snapshot of the same name is what the renderer would write, or somebody read in between
\* or flattens a list.
LEMMA VerifiedOrCaused ==
  ASSUME RenderInv, NEW r \in Renderers, renderer[r].step \in {"resolve", "staged"}, CanRender(renderer[r]),
         Identity(renderer[r]) \in DOMAIN snapshots, ~tampered,
         \A q \in Renderers : ~ReadInBetween(q) /\ ~FlattensAList(q)
  PROVE  Verified(r) = "done"
<1> DEFINE name == Identity(renderer[r])
<1>1. PICK q \in Renderers : PublishedBy(name, q)
  BY DEF RenderInv, PublishedInv
<1>2. renderer[q].step = "done" /\ name = Identity(renderer[q]) /\ snapshots[name] = Generation(renderer[q])
  BY <1>1 DEF PublishedBy, At
<1>3. ASSUME NEW p \in Renderers, renderer[p].step \in {"resolve", "staged", "done"} PROVE Readable(renderer[p])
  <2>1. AreCentralLayers(renderer[p].central) /\ AreSkillLayers(renderer[p].custom)
    BY <1>3 DEF RenderInv, ReaderInv
  <2>2. renderer[p].custom # <<>>
    BY <2>1, SkillFacts
  <2> QED BY <2>1, <2>2 DEF Readable, ReadInBetween, FlattensAList
<1>4. CanRender(renderer[q])
  BY <1>2 DEF RenderInv, ReaderInv
<1>5. Outputs(renderer[q]) = Outputs(renderer[r])
  BY <1>2, <1>3, <1>4, OutputsAgree
<1> QED BY <1>2, <1>5 DEF Verified, VerifyExisting, Generation

LEMMA RenderStepInv ==
  ASSUME RenderInv, [RenderNext]_renderVars
  PROVE  RenderInv'
<1>1. CASE UNCHANGED <<central, custom, snapshots, renderer, tampered>>
  BY <1>1 DEF RenderInv, RenderersAre, AreCentralLayers, AreSkillLayers, ReaderInv, PublishedInv, PublishedBy, HaltHasACause, ReadInBetween, FlattensAList, At
<1>2. ASSUME NEW r \in Renderers, RenderOrHalt(r) PROVE RenderInv'
  <2>1. renderer[r].step = "resolve" /\ snapshots' = snapshots /\ UNCHANGED <<central, custom, tampered>>
    BY <1>2 DEF RenderOrHalt, At, SameProject
  <2>2. CASE ~CanRender(renderer[r]) /\ Goes(r, "halt")
    BY <2>1, <2>2, GoesInv
  <2>3. CASE CanRender(renderer[r]) /\ Identity(renderer[r]) \in DOMAIN snapshots /\ Goes(r, Verified(r))
    <3>1. Verified(r) \in {"done", "halt"}
      BY DEF Verified
    <3>2. Verified(r) = "halt" => tampered \/ \E q \in Renderers : ReadInBetween(q) \/ FlattensAList(q)
      BY <2>1, <2>3, VerifiedOrCaused
    <3> QED BY <2>1, <2>3, <3>1, <3>2, GoesInv
  <2>4. CASE CanRender(renderer[r]) /\ Goes(r, "staged")
    BY <2>1, <2>4, GoesInv
  <2> QED BY <1>2, <2>2, <2>3, <2>4 DEF RenderOrHalt
<1>3. ASSUME NEW r \in Renderers, Publish(r) PROVE RenderInv'
  <2> DEFINE name == Identity(renderer[r])
  <2>1. renderer[r].step = "staged" /\ UNCHANGED <<central, custom, tampered>>
    BY <1>3 DEF Publish, At, SameProject
  <2>2. CanRender(renderer[r])
    BY <2>1 DEF RenderInv, ReaderInv
  <2>3. CASE name \in DOMAIN snapshots
    <3>1. Goes(r, Verified(r)) /\ snapshots' = snapshots
      BY <1>3, <2>3 DEF Publish
    <3>2. Verified(r) \in {"done", "halt"}
      BY DEF Verified
    <3>3. Verified(r) = "halt" => tampered \/ \E q \in Renderers : ReadInBetween(q) \/ FlattensAList(q)
      BY <2>1, <2>2, <2>3, VerifiedOrCaused
    <3> QED BY <2>1, <2>2, <3>1, <3>2, <3>3, GoesInv
  <2>4. CASE name \notin DOMAIN snapshots
    <3>1. /\ Goes(r, "done")
          /\ snapshots' = [n \in DOMAIN snapshots \cup {name} |-> IF n = name THEN Generation(renderer[r]) ELSE snapshots[n]]
      BY <1>3, <2>4 DEF Publish
    <3> HIDE DEF name
    <3>2. \A n \in DOMAIN snapshots' : \/ n \in DOMAIN snapshots /\ snapshots'[n] = snapshots[n]
                                       \/ n = name /\ snapshots'[n] = Generation(renderer[r])
      BY <2>4, <3>1
    <3> QED BY <2>1, <2>2, <3>1, <3>2, GoesInv DEF name
  <2> QED BY <2>3, <2>4
<1>4. ASSUME NEW r \in Renderers, RendererDies(r) PROVE RenderInv'
  <2>1. /\ renderer[r].step \notin {"idle", "done", "halt"} /\ Goes(r, "dead")
        /\ snapshots' = snapshots /\ UNCHANGED <<central, custom, tampered>>
    BY <1>4 DEF RendererDies, At, SameProject
  <2> QED BY <2>1, GoesInv
<1>5. ASSUME NEW i \in DOMAIN central, NEW layer \in CentralLayers, EditCentral(i, layer) PROVE RenderInv'
  <2>1. central' = [central EXCEPT ![i] = layer] /\ UNCHANGED <<custom, snapshots, renderer, tampered>>
    BY <1>5 DEF EditCentral, Editing
  <2>2. AreCentralLayers(central)'
    BY <2>1 DEF RenderInv, AreCentralLayers
  <2> QED BY <2>1, <2>2 DEF RenderInv, RenderersAre, AreSkillLayers, ReaderInv, PublishedInv, PublishedBy, HaltHasACause, ReadInBetween, FlattensAList, At
<1>6. ASSUME NEW i \in DOMAIN custom, NEW layer \in SkillLayers, EditCustom(i, layer) PROVE RenderInv'
  <2>1. custom' = [custom EXCEPT ![i] = layer] /\ UNCHANGED <<central, snapshots, renderer, tampered>>
    BY <1>6 DEF EditCustom, Editing
  <2>2. AreSkillLayers(custom)'
    BY <2>1 DEF RenderInv, AreSkillLayers
  <2> QED BY <2>1, <2>2 DEF RenderInv, RenderersAre, AreCentralLayers, ReaderInv, PublishedInv, PublishedBy, HaltHasACause, ReadInBetween, FlattensAList, At
<1>7. ASSUME NEW f \in SourceFiles, UpgradeSource(f) \/ \E name \in DOMAIN snapshots : TamperWith(name, f) PROVE RenderInv'
  <2>1. CASE UpgradeSource(f)
    BY <1>1, <2>1 DEF UpgradeSource, Editing
  <2>2. CASE \E name \in DOMAIN snapshots : TamperWith(name, f)
    <3>1. tampered' /\ UNCHANGED <<central, custom, renderer>>
      BY <2>2 DEF TamperWith, Editing
    <3> QED BY <3>1 DEF RenderInv, RenderersAre, AreCentralLayers, AreSkillLayers, ReaderInv, PublishedInv, HaltHasACause
  <2> QED BY <1>7, <2>1, <2>2
<1>8. CASE UNCHANGED renderVars
  BY <1>1, <1>8 DEF renderVars
<1> QED BY <1>2, <1>3, <1>4, <1>5, <1>6, <1>7, <1>8, LoadingInv DEF RenderNext

\* Nobody loses a review layer of the skill.
LEMMA RenderInvImplies == RenderInv => HaltHasACause /\ ReviewLayersAreKept
<1> SUFFICES ASSUME RenderInv PROVE HaltHasACause /\ ReviewLayersAreKept
  OBVIOUS
<1>1. ASSUME NEW r \in Renderers, At(r, "done") PROVE AreSkillLayers(renderer[r].custom)
  BY <1>1 DEF RenderInv, ReaderInv, At
<1>2. ReviewLayersAreKept
  <2> SUFFICES ASSUME NEW r \in Renderers, At(r, "done"), NEW path \in DOMAIN renderer[r].custom[1],
                      renderer[r].custom[1][path].list, ~Flattened(renderer[r].custom, path)
               PROVE  Survives(renderer[r].custom, MergeLayers(renderer[r].custom), path)
    BY DEF ReviewLayersAreKept, LayerIds, Survives
  <2> QED BY <1>1, SkillFacts
<1> QED BY <1>2 DEF RenderInv

-----------------------------------------------------------------------------
(***************************************************************************)
(* The story ids of preflight, and what they find in the sprint status:    *)
(* core/story_keys.py, core/epic_parser.py,                                *)
(* commands/orchestrator_epic_agents.py.                                   *)
(***************************************************************************)
\* A set of naturals that is not empty has a least element.
LEMMA LeastFacts ==
  ASSUME NEW S \in SUBSET Nat, S # {}
  PROVE  Min(S) \in S /\ \A j \in S : Min(S) <= j
<1>1. \E i \in S : \A j \in S : i <= j
  <2> DEFINE R == OpToRel(<, Nat)
  <2>1. IsWellFoundedOn(R, Nat)
    BY NatLessThanWellFounded
  <2>2. \A i \in Nat, j \in Nat : i < j => <<i, j>> \in R
    BY DEF OpToRel
  <2> HIDE DEF R
  <2>3. PICK i \in S : \A j \in S : ~(<<j, i>> \in R)
    BY <2>1, WFMin
  <2>4. \A j \in S : i \in Nat /\ j \in Nat /\ ~(j < i)
    BY <2>2, <2>3
  <2>5. \A j \in S : i <= j
    BY <2>4
  <2> QED BY <2>5
<1> QED BY <1>1 DEF Min

StoryFields == {"ok", "epic", "num", "key"}
\* A story has a numbered place in an epic.
IsStory(story) == DOMAIN story = StoryFields /\ (story.ok => story.epic \in Seq(Int) /\ story.num \in Nat)

LEMMA EndsOf ==
  ASSUME NEW n \in Nat, NEW S \in SUBSET (1..n), S # {}
  PROVE  /\ LargestOf(S) \in S /\ \A j \in S : j <= LargestOf(S)
         /\ SmallestOf(S) \in S /\ \A j \in S : SmallestOf(S) <= j
<1>1. \E i \in S : \A j \in S : j <= i
  BY LargestIndexed
<1>2. S \in SUBSET Nat
  OBVIOUS
<1>3. \E i \in S : \A j \in S : i <= j
  BY <1>2, LeastFacts
<1> QED BY <1>1, <1>3 DEF LargestOf, SmallestOf

LEMMA StoryOfIs ==
  ASSUME NEW epic \in Seq(Int), NEW num \in Nat, NEW key
  PROVE  IsStory(StoryOf(epic, num, key)) /\ StoryOf(epic, num, key).ok
         /\ StoryOf(epic, num, key).epic = epic /\ StoryOf(epic, num, key).num = num
BY DEF IsStory, StoryOf, StoryFields

LEMMA NotAKeyIs == IsStory(NotAKey) /\ ~NotAKey.ok
BY DEF IsStory, NotAKey, StoryFields

LEMMA KeyEnds ==
  ASSUME NEW key \in Seq(Int), key # <<>>
  PROVE  /\ Len(key) \in Nat /\ Len(key) >= 1 /\ DOMAIN key = 1..Len(key) /\ \A i \in 1..Len(key) : key[i] \in Int
         /\ Last(key) = key[Len(key)] /\ Front(key) \in Seq(Int)
         /\ \A i \in 1..Len(key) : Before(key, i) \in Seq(Int)
<1>1. Len(key) \in Nat /\ Len(key) >= 1 /\ DOMAIN key = 1..Len(key) /\ \A i \in 1..Len(key) : key[i] \in Int
  OBVIOUS
<1>2. Front(key) \in Seq(Int)
  BY <1>1 DEF Front
<1>3. ASSUME NEW i \in 1..Len(key) PROVE Before(key, i) \in Seq(Int)
  BY <1>1 DEF Before
<1> QED BY <1>1, <1>2, <1>3 DEF Last

LEMMA CutPlace ==
  ASSUME NEW key \in Seq(Int), Cuts(key) # {}
  PROVE  SplitNonNumericFullKey(key, Cuts(key)) \in Cuts(key)
<1> DEFINE cuts == Cuts(key)
           at == SplitNonNumericFullKey(key, cuts)
           later == cuts \ {SmallestOf(cuts)}
           single == {i \in later : IsSingleStoryKey(key, i)}
           known == {i \in cuts : EpicExists(Before(key, i))}
           yearly == {i \in later : key[i] \in 10..99 /\ YearLikeNumericSuffixEpic(Before(key, i))}
<1>1. key # <<>> /\ Len(key) \in Nat /\ cuts \in SUBSET (1..Len(key))
  BY DEF Cuts
<1>2. /\ later \in SUBSET (1..Len(key)) /\ single \in SUBSET (1..Len(key))
      /\ known \in SUBSET (1..Len(key)) /\ yearly \in SUBSET (1..Len(key)) /\ SmallestOf(cuts) \in cuts
  BY <1>1, EndsOf
<1>3. /\ single # {} => LargestOf(single) \in cuts
      /\ known # {} => LargestOf(known) \in cuts
      /\ later # {} => SmallestOf(later) \in cuts
      /\ yearly # {} => LargestOf(yearly) \in cuts
  <2>1. single # {} => LargestOf(single) \in single
    BY <1>1, <1>2, EndsOf
  <2>2. known # {} => LargestOf(known) \in known
    BY <1>1, <1>2, EndsOf
  <2>3. later # {} => SmallestOf(later) \in later
    BY <1>1, <1>2, EndsOf
  <2>4. yearly # {} => LargestOf(yearly) \in yearly
    BY <1>1, <1>2, EndsOf
  <2> QED BY <2>1, <2>2, <2>3, <2>4
<1>4. at = IF single # {} THEN LargestOf(single)
           ELSE IF known # {} THEN LargestOf(known)
           ELSE IF later # {} /\ key[SmallestOf(cuts)] >= 1000 /\ key[SmallestOf(later)] >= 100 THEN SmallestOf(later)
           ELSE IF yearly # {} THEN LargestOf(yearly) ELSE SmallestOf(cuts)
  BY DEF SplitNonNumericFullKey
<1> HIDE DEF single, known, later, yearly, at, cuts
<1>5. at \in cuts
  BY <1>2, <1>3, <1>4
<1> QED BY <1>5 DEF at, cuts

LEMMA CutIs ==
  ASSUME NEW key \in Seq(Int), Cuts(key) # {}
  PROVE  IsStory(CutAt(key, SplitNonNumericFullKey(key, Cuts(key))))
<1> DEFINE at == SplitNonNumericFullKey(key, Cuts(key))
<1>1. at \in Cuts(key)
  BY CutPlace
<1> HIDE DEF at
<1>2. key # <<>> /\ at \in 1..Len(key) /\ key[at] >= 0
  BY <1>1 DEF Cuts, IsNumber
<1>3. key[at] \in Nat /\ Before(key, at) \in Seq(Int)
  BY <1>2, KeyEnds
<1> QED BY <1>3, StoryOfIs DEF CutAt, at

LEMMA SplitRefIs ==
  ASSUME NEW ref, ref.segments \in Seq(Int), ref.segments # <<>>
  PROVE  IsStory(SplitRef(ref))
<1> DEFINE key == ref.segments
           numeric == IsNumber(key[1])
           whole == IsNumber(Last(key)) /\ Len(key) >= 2 /\ (numeric => Len(key) = 2)
<1>1. SplitRef(ref) = IF whole THEN StoryOf(Front(key), Last(key), <<>>)
     ELSE IF ref.dot THEN NotAKey
     ELSE IF numeric
     THEN IF Len(key) >= 3 /\ IsNumber(key[2]) THEN StoryOf(<<key[1]>>, key[2], key) ELSE NotAKey
     ELSE IF Cuts(key) # {}
     THEN CutAt(key, SplitNonNumericFullKey(key, Cuts(key)))
     ELSE NotAKey
  BY DEF SplitRef
<1>2. whole => IsStory(StoryOf(Front(key), Last(key), <<>>))
  <2>1. whole => Front(key) \in Seq(Int) /\ Last(key) \in Nat
    BY KeyEnds DEF IsNumber
  <2> HIDE DEF whole, key
  <2> QED BY <2>1, StoryOfIs
<1>3. Len(key) >= 3 /\ IsNumber(key[2]) => IsStory(StoryOf(<<key[1]>>, key[2], key))
  <2>1. Len(key) >= 3 /\ IsNumber(key[2]) => <<key[1]>> \in Seq(Int) /\ key[2] \in Nat
    BY KeyEnds DEF IsNumber
  <2> HIDE DEF key
  <2> QED BY <2>1, StoryOfIs
<1>4. Cuts(key) # {} => IsStory(CutAt(key, SplitNonNumericFullKey(key, Cuts(key))))
  BY CutIs
<1> HIDE DEF key, numeric, whole
<1> QED BY <1>1, <1>2, <1>3, <1>4, NotAKeyIs

\* Completing the key leaves the story.
LEMMA CompletedIs ==
  ASSUME NEW story, IsStory(story)
  PROVE  /\ IsStory(CompleteStoryKey(story)) /\ (CompleteStoryKey(story).ok <=> story.ok)
         /\ CompleteStoryKey(story).epic = story.epic /\ CompleteStoryKey(story).num = story.num
<1>1. PICK key : CompleteStoryKey(story) = IF ~story.ok \/ story.key # <<>> THEN story ELSE [story EXCEPT !.key = key]
  BY DEF CompleteStoryKey
<1> DEFINE changed == [story EXCEPT !.key = key]
<1>2. /\ DOMAIN changed = DOMAIN story /\ (changed.ok <=> story.ok)
      /\ changed.epic = story.epic /\ changed.num = story.num
  BY DEF IsStory, StoryFields
<1> HIDE DEF changed
<1>3. CompleteStoryKey(story) = story \/ CompleteStoryKey(story) = changed
  BY <1>1 DEF changed
<1> QED BY <1>2, <1>3 DEF IsStory

LEMMA NormalizedIs ==
  ASSUME NEW ref, ref.segments \in Seq(Int), ref.segments # <<>>
  PROVE  /\ IsStory(NormalizeStoryKey(ref)) /\ (NormalizeStoryKey(ref).ok <=> SplitRef(ref).ok)
         /\ NormalizeStoryKey(ref).epic = SplitRef(ref).epic /\ NormalizeStoryKey(ref).num = SplitRef(ref).num
BY SplitRefIs, CompletedIs DEF NormalizeStoryKey

LEMMA ReadAsIs ==
  ASSUME NEW epic \in Seq(Int), NEW key \in Seq(Int), key # <<>>, NEW ofParent
  PROVE  IsStory(ReadAs(epic, key, ofParent))
<1> DEFINE next == Len(epic) + 1
           rest == IF Len(key) > next THEN key ELSE <<>>
           read == ReadAs(epic, key, ofParent)
<1>1. IsStory(NormalizeStoryKey(Ref(key)))
  BY NormalizedIs DEF Ref
<1>2. ASSUME Under(epic, key), IsNumber(key[next]) PROVE IsStory(CompleteStoryKey(StoryOf(epic, key[next], rest)))
  <2>1. next \in 1..Len(key)
    BY <1>2 DEF Under
  <2>2. key[next] \in Nat
    BY <1>2, <2>1, KeyEnds DEF IsNumber
  <2> HIDE DEF next, rest
  <2> QED BY <2>2, StoryOfIs, CompletedIs
<1>3. \/ read = NormalizeStoryKey(Ref(key)) \/ read = NotAKey
      \/ Under(epic, key) /\ IsNumber(key[next]) /\ read = CompleteStoryKey(StoryOf(epic, key[next], rest))
  BY DEF ReadAs
<1> HIDE DEF next, rest, read
<1>4. IsStory(read)
  BY <1>1, <1>2, <1>3, NotAKeyIs
<1> QED BY <1>4 DEF read

\* The first segment of an epic has no parent to ask.
LEMMA ReadsAlone ==
  ASSUME NEW epic, ~(Len(epic) > 1), NEW key, NEW one, NEW other
  PROVE  ReadAs(epic, key, one) = ReadAs(epic, key, other)
BY Zenon DEF ReadAs

ReadsTo(read, epic, key, n) == read = [k \in 0..n |-> ReadAs(SubSeq(epic, 1, k), key, read[k - 1])]

LEMMA ReadsToExists ==
  ASSUME NEW epic \in Seq(Int), NEW key, NEW n \in 0..Len(epic)
  PROVE  \E read : ReadsTo(read, epic, key, n)
<1> DEFINE Bad == {k \in 0..Len(epic) : ~\E read : ReadsTo(read, epic, key, k)}
<1>1. \A k \in 0..Len(epic) : Len(SubSeq(epic, 1, k)) = k
  OBVIOUS
<1>2. \E read : ReadsTo(read, epic, key, 0)
  <2> DEFINE read == [k \in 0..0 |-> ReadAs(SubSeq(epic, 1, 0), key, NotAKey)]
  <2>1. ReadAs(SubSeq(epic, 1, 0), key, NotAKey) = ReadAs(SubSeq(epic, 1, 0), key, read[0 - 1])
    <3>1. ~(Len(SubSeq(epic, 1, 0)) > 1)
      BY <1>1
    <3> HIDE DEF read
    <3> QED BY <3>1, ReadsAlone
  <2>2. \A k \in 0..0 : k = 0
    OBVIOUS
  <2>3. read = [k \in 0..0 |-> ReadAs(SubSeq(epic, 1, k), key, read[k - 1])]
    BY <2>1, <2>2
  <2> QED BY <2>3 DEF ReadsTo
<1>3. ASSUME NEW m \in 0..(Len(epic) - 1), NEW read, ReadsTo(read, epic, key, m) PROVE \E longer : ReadsTo(longer, epic, key, m + 1)
  <2> DEFINE longer == [k \in 0..(m + 1) |-> IF k = m + 1 THEN ReadAs(SubSeq(epic, 1, m + 1), key, read[m]) ELSE read[k]]
             Next_(k) == ReadAs(SubSeq(epic, 1, k), key, longer[k - 1])
  <2>1. \A k \in 0..m : read[k] = ReadAs(SubSeq(epic, 1, k), key, read[k - 1])
    BY <1>3 DEF ReadsTo
  <2>2. ASSUME NEW k \in 0..(m + 1) PROVE longer[k] = Next_(k)
    <3>1. CASE k = m + 1
      <4>1. longer[k] = ReadAs(SubSeq(epic, 1, m + 1), key, read[m]) /\ longer[m] = read[m] /\ k - 1 = m
        BY <3>1
      <4> HIDE DEF longer
      <4> QED BY <3>1, <4>1
    <3>2. CASE k = 0
      <4>1. longer[k] = read[0] /\ read[0] = ReadAs(SubSeq(epic, 1, 0), key, read[0 - 1])
        BY <2>1, <3>2
      <4>2. ~(Len(SubSeq(epic, 1, 0)) > 1)
        BY <1>1
      <4> HIDE DEF longer
      <4>3. ReadAs(SubSeq(epic, 1, 0), key, read[0 - 1]) = ReadAs(SubSeq(epic, 1, 0), key, longer[0 - 1])
        BY <4>2, ReadsAlone
      <4> QED BY <3>2, <4>1, <4>3
    <3>3. CASE k \in 1..m
      <4>1. longer[k] = read[k] /\ longer[k - 1] = read[k - 1] /\ k \in 0..m
        BY <3>3
      <4> HIDE DEF longer
      <4> QED BY <2>1, <4>1
    <3> QED BY <3>1, <3>2, <3>3
  <2>3. longer = [k \in 0..(m + 1) |-> longer[k]]
    OBVIOUS
  <2> HIDE DEF longer
  <2>4. longer = [k \in 0..(m + 1) |-> Next_(k)]
    BY <2>2, <2>3
  <2> QED BY <2>4 DEF ReadsTo
<1>4. ASSUME NEW m \in Bad, \A k \in Bad : m <= k PROVE FALSE
  <2>1. m \in 0..Len(epic) /\ m # 0
    BY <1>2
  <2>2. m - 1 \in 0..(Len(epic) - 1) /\ m - 1 \in 0..Len(epic) /\ (m - 1) + 1 = m /\ ~(m <= m - 1)
    BY <2>1
  <2>3. \E read : ReadsTo(read, epic, key, m - 1)
    BY <1>4, <2>2
  <2> QED BY <1>3, <2>2, <2>3
<1>5. Bad \in SUBSET Nat
  OBVIOUS
<1>6. Bad = {}
  BY <1>4, <1>5, Put!LeastNumber
<1> QED BY <1>6

LEMMA NormalizedForEpicIs ==
  ASSUME NEW epic \in Seq(Int), NEW key \in Seq(Int), key # <<>>
  PROVE  IsStory(NormalizeStoryKeyForEpic(epic, key))
<1> DEFINE read == CHOOSE f : f = [n \in 0..Len(epic) |-> ReadAs(SubSeq(epic, 1, n), key, f[n - 1])]
<1>1. NormalizeStoryKeyForEpic(epic, key) = read[Len(epic)]
  BY DEF NormalizeStoryKeyForEpic
<1>2. \E f : f = [n \in 0..Len(epic) |-> ReadAs(SubSeq(epic, 1, n), key, f[n - 1])]
  <2>1. Len(epic) \in 0..Len(epic)
    OBVIOUS
  <2>2. PICK f : ReadsTo(f, epic, key, Len(epic))
    BY <2>1, ReadsToExists
  <2> QED BY <2>2, Zenon DEF ReadsTo
<1>3. read = [n \in 0..Len(epic) |-> ReadAs(SubSeq(epic, 1, n), key, read[n - 1])]
  BY <1>2, Zenon
<1> HIDE DEF read
<1>4. read[Len(epic)] = ReadAs(SubSeq(epic, 1, Len(epic)), key, read[Len(epic) - 1])
  <2>1. Len(epic) \in 0..Len(epic)
    OBVIOUS
  <2> QED BY <1>3, <2>1
<1>5. SubSeq(epic, 1, Len(epic)) \in Seq(Int)
  OBVIOUS
<1> QED BY <1>1, <1>4, <1>5, ReadAsIs

IsRef(ref) == ref.segments \in Seq(Int) /\ ref.segments # <<>>

LEMMA NormalizeForEpicIs ==
  ASSUME NEW epic \in Seq(Int), NEW ref, IsRef(ref)
  PROVE  IsStory(NormalizeForEpic(epic, ref))
<1>1. IsStory(NormalizeStoryKey(ref)) /\ IsStory(NormalizeStoryKeyForEpic(epic, ref.segments))
  BY NormalizedIs, NormalizedForEpicIs DEF IsRef
<1>2. NormalizeForEpic(epic, ref) \in {NormalizeStoryKey(ref), NotAKey, NormalizeStoryKeyForEpic(epic, ref.segments)}
  BY DEF NormalizeForEpic
<1> QED BY <1>1, <1>2, NotAKeyIs

LEMMA HeadingIs ==
  ASSUME NEW heading, heading.epic \in Seq(Int), IsRef(heading.ref)
  PROVE  IsStory(NormalizeHeaderStory(heading))
<1>1. NormalizeHeaderStory(heading) \in {NormalizeForEpic(heading.epic, heading.ref), NormalizeStoryKey(heading.ref)}
  BY DEF NormalizeHeaderStory
<1> QED BY <1>1, NormalizeForEpicIs, NormalizedIs DEF IsRef

\* An id as preflight writes it: the dotted reference to a numbered place in an epic.
IsId(ref) == \E epic \in Seq(Int), num \in Nat : ref = DotRef(epic, num)

\* What an id says, whatever rows and files there are.
LEMMA IdIs ==
  ASSUME NEW epic \in Seq(Int), NEW num \in Nat, NEW ref, ref = DotRef(epic, num)
  PROVE  /\ ref.dot /\ ref.segments = Append(epic, num) /\ IsRef(ref) /\ Front(ref.segments) = epic
         /\ SplitRef(ref).ok => SplitRef(ref) = StoryOf(epic, num, <<>>) /\ Len(epic) >= 1
         /\ SplitRef(ref).ok <=> (Len(epic) >= 1 /\ (IsNumber(epic[1]) => Len(epic) = 1))
<1> DEFINE key == Append(epic, num)
           whole == IsNumber(Last(key)) /\ Len(key) >= 2 /\ (IsNumber(key[1]) => Len(key) = 2)
<1>1. ref.dot /\ ref.segments = key
  BY DEF DotRef
<1>2. /\ key \in Seq(Int) /\ key # <<>> /\ Len(key) = Len(epic) + 1 /\ Last(key) = num
      /\ Len(epic) \in Nat /\ (Len(epic) >= 1 => key[1] = epic[1])
  BY DEF Last
<1>3. Front(key) = epic
  BY <1>2 DEF Front
<1>4. IsNumber(Last(key))
  BY <1>2 DEF IsNumber
<1>5. whole <=> (Len(epic) >= 1 /\ (IsNumber(epic[1]) => Len(epic) = 1))
  <2> DEFINE long == Len(key) short == Len(epic)
  <2>0. long = short + 1 /\ short \in Nat
    BY <1>2
  <2> HIDE DEF long, short
  <2>1. long >= 2 <=> short >= 1
    BY <2>0
  <2>2. long = 2 <=> short = 1
    BY <2>0
  <2> USE DEF long, short
  <2>3. CASE Len(epic) >= 1
    <3>1. key[1] = epic[1]
      BY <1>2, <2>3
    <3> HIDE DEF key
    <3> QED BY <1>4, <2>1, <2>2, <2>3, <3>1
  <2>4. CASE ~(Len(epic) >= 1)
    BY <2>1, <2>4
  <2> QED BY <2>3, <2>4
<1>6. SplitRef(ref) = IF whole THEN StoryOf(Front(key), Last(key), <<>>) ELSE NotAKey
  BY <1>1 DEF SplitRef
<1> HIDE DEF key, whole
<1>7. SplitRef(ref) = IF whole THEN StoryOf(epic, num, <<>>) ELSE NotAKey
  BY <1>2, <1>3, <1>6
<1>8. whole => SplitRef(ref) = StoryOf(epic, num, <<>>) /\ SplitRef(ref).ok
  BY <1>7, StoryOfIs
<1>9. ~whole => ~SplitRef(ref).ok
  BY <1>7, NotAKeyIs
<1>10. IsRef(ref) /\ Front(ref.segments) = epic
  BY <1>1, <1>2, <1>3 DEF IsRef
<1> QED BY <1>1, <1>5, <1>8, <1>9, <1>10, Zenon DEF key

\* The elements at the places of a set: as many as the set has, and no others.
LEMMA PlaceOf ==
  ASSUME NEW n \in Nat
  PROVE  \A S \in SUBSET (1..n) : \A k \in 1..Cardinality(S) : \E i \in S : Cardinality({j \in S : j <= i}) = k
<1> DEFINE Placed(S) == \A k \in 1..Cardinality(S) : \E i \in S : Cardinality({j \in S : j <= i}) = k
           Bad == {m \in 0..n : ~\A S \in SUBSET (1..m) : Placed(S)}
<1>1. \A S \in SUBSET (1..0) : Placed(S)
  <2>1. \A S \in SUBSET (1..0) : S = {}
    OBVIOUS
  <2>2. Cardinality({}) = 0
    BY FS_EmptySet
  <2> QED BY <2>1, <2>2
<1>2. ASSUME NEW m \in Nat, \A S \in SUBSET (1..m) : Placed(S), NEW S \in SUBSET (1..(m + 1)) PROVE Placed(S)
  <2>1. CASE m + 1 \notin S
    <3>1. S \in SUBSET (1..m)
      BY <2>1
    <3> HIDE DEF Placed
    <3> QED BY <1>2, <3>1
  <2>2. CASE m + 1 \in S
    <3> DEFINE T == S \ {m + 1}
    <3>1. T \in SUBSET (1..m) /\ IsFiniteSet(S) /\ IsFiniteSet(T) /\ S = T \cup {m + 1} /\ m + 1 \notin T
      <4>1. T \in SUBSET (1..m) /\ S = T \cup {m + 1} /\ m + 1 \notin T
        BY <2>2
      <4>2. IsFiniteSet(1..(m + 1))
        BY FS_Interval
      <4> QED BY <4>1, <4>2, FS_Subset
    <3>2. Cardinality(S) = Cardinality(T) + 1 /\ Cardinality(T) \in Nat
      BY <3>1, FS_AddElement, FS_CardinalityType
    <3>3. ASSUME NEW k \in 1..Cardinality(S) PROVE \E i \in S : Cardinality({j \in S : j <= i}) = k
      <4>1. CASE k = Cardinality(S)
        <5>1. \A j \in S : j <= m + 1
          OBVIOUS
        <5>2. {j \in S : j <= m + 1} = S
          BY <5>1
        <5> QED BY <2>2, <4>1, <5>2
      <4>2. CASE k # Cardinality(S)
        <5>1. k \in 1..Cardinality(T)
          BY <3>2, <4>2
        <5>2. PICK i \in T : Cardinality({j \in T : j <= i}) = k
          BY <1>2, <3>1, <5>1
        <5>3. {j \in T : j <= i} = {j \in S : j <= i} /\ i \in S
          BY <3>1
        <5> QED BY <5>2, <5>3
      <4> QED BY <4>1, <4>2
    <3> QED BY <3>3
  <2> QED BY <2>1, <2>2
<1> HIDE DEF Placed
<1>3. ASSUME NEW m \in Bad, \A k \in Bad : m <= k PROVE FALSE
  <2>1. m \in 0..n /\ m # 0
    BY <1>1
  <2>2. m - 1 \in Nat /\ m - 1 \in 0..n /\ (m - 1) + 1 = m /\ ~(m <= m - 1)
    BY <2>1
  <2>3. \A S \in SUBSET (1..(m - 1)) : Placed(S)
    BY <1>3, <2>2
  <2>4. \A S \in SUBSET (1..((m - 1) + 1)) : Placed(S)
    BY <1>2, <2>2, <2>3
  <2> QED BY <2>2, <2>4
<1>4. Bad \in SUBSET Nat
  OBVIOUS
<1>5. Bad = {}
  BY <1>3, <1>4, Put!LeastNumber
<1>6. \A S \in SUBSET (1..n) : Placed(S)
  BY <1>5
<1> QED BY <1>6 DEF Placed

PicksFrom(places, from, element) == \E i \in places : from[i] = element

LEMMA PickedIs ==
  ASSUME NEW n \in Nat, NEW seq, NEW S \in SUBSET (1..n)
  PROVE  /\ Cardinality(S) \in Nat /\ DOMAIN Picked(seq, S) = 1..Cardinality(S)
         /\ \A k \in 1..Cardinality(S) : PicksFrom(S, seq, Picked(seq, S)[k])
         /\ \A i \in S : PicksFrom(1..Cardinality(S), Picked(seq, S), seq[i])
<1> DEFINE UpTo(i) == {j \in S : j <= i}
           picked == Picked(seq, S)
<1>1. IsFiniteSet(S) /\ Cardinality(S) \in Nat
  <2>1. IsFiniteSet(1..n)
    BY FS_Interval
  <2> QED BY <2>1, FS_Subset, FS_CardinalityType
<1>2. picked = [k \in 1..Cardinality(S) |-> seq[CHOOSE i \in S : Cardinality(UpTo(i)) = k]]
  BY DEF Picked
<1>3. ASSUME NEW k \in 1..Cardinality(S) PROVE \E i \in S : Cardinality(UpTo(i)) = k /\ picked[k] = seq[i]
  <2>1. \E i \in S : Cardinality(UpTo(i)) = k
    BY PlaceOf
  <2> HIDE DEF UpTo, picked
  <2> QED BY <1>2, <2>1
<1>4. ASSUME NEW i \in S, NEW j \in S, i < j PROVE Cardinality(UpTo(i)) # Cardinality(UpTo(j))
  <2>1. UpTo(i) \subseteq UpTo(j) /\ UpTo(j) \subseteq S /\ j \in UpTo(j) /\ j \notin UpTo(i)
    <3>1. i \in Nat /\ j \in Nat /\ \A k \in S : k \in Nat
      OBVIOUS
    <3>2. \A k \in S : k <= i => k <= j
      BY <1>4, <3>1
    <3>3. j <= j /\ ~(j <= i)
      BY <1>4, <3>1
    <3> QED BY <3>2, <3>3
  <2>2. IsFiniteSet(UpTo(j))
    BY <1>1, <2>1, FS_Subset
  <2>3. Cardinality(UpTo(i)) = Cardinality(UpTo(j)) => UpTo(i) = UpTo(j)
    <3> HIDE DEF UpTo
    <3> QED BY <2>1, <2>2, FS_Subset
  <2> HIDE DEF UpTo
  <2> QED BY <2>1, <2>3
<1>5. ASSUME NEW i \in S PROVE \E k \in 1..Cardinality(S) : picked[k] = seq[i]
  <2>1. UpTo(i) \subseteq S /\ i \in UpTo(i)
    OBVIOUS
  <2>2. IsFiniteSet(UpTo(i)) /\ Cardinality(UpTo(i)) \in Nat /\ Cardinality(UpTo(i)) <= Cardinality(S) /\ Cardinality(UpTo(i)) # 0
    <3> HIDE DEF UpTo
    <3>1. IsFiniteSet(UpTo(i)) /\ Cardinality(UpTo(i)) <= Cardinality(S)
      BY <1>1, <2>1, FS_Subset
    <3> QED BY <2>1, <3>1, FS_CardinalityType, FS_EmptySet
  <2>3. Cardinality(UpTo(i)) \in 1..Cardinality(S)
    BY <1>1, <2>2
  <2>4. PICK at \in S : Cardinality(UpTo(at)) = Cardinality(UpTo(i)) /\ picked[Cardinality(UpTo(i))] = seq[at]
    BY <1>3, <2>3
  <2>5. at = i
    <3>1. at \in Nat /\ i \in Nat
      OBVIOUS
    <3> HIDE DEF UpTo
    <3> QED BY <1>4, <2>4, <3>1
  <2> QED BY <2>3, <2>4, <2>5
<1>6. DOMAIN picked = 1..Cardinality(S)
  BY <1>2
<1> HIDE DEF UpTo
<1> QED BY <1>1, <1>3, <1>5, <1>6 DEF PicksFrom

LEMMA PrefixIs ==
  ASSUME NEW epic \in Seq(Int), NEW num \in Nat, Len(epic) >= 1, IsNumber(epic[1]) => Len(epic) = 1
  PROVE  SplitRef(Ref(Append(epic, num))) = StoryOf(epic, num, <<>>)
<1> DEFINE key == Append(epic, num)
<1>1. key[1] = epic[1] /\ Len(key) = Len(epic) + 1 /\ Last(key) = num /\ Len(epic) \in Nat
  BY DEF Last
<1>2. Front(key) = epic
  BY <1>1 DEF Front
<1>3. IsNumber(Last(key))
  BY <1>1 DEF IsNumber
<1> DEFINE long == Len(key) short == Len(epic)
<1>4. long >= 2 /\ (short = 1 => long = 2)
  <2>1. long = short + 1 /\ short \in Nat /\ short >= 1
    BY <1>1
  <2> HIDE DEF long, short
  <2> QED BY <2>1
<1>5. IsNumber(key[1]) => short = 1
  <2> HIDE DEF key
  <2> QED BY <1>1
<1>6. Ref(key).segments = key
  BY DEF Ref
<1> DEFINE whole == IsNumber(Last(key)) /\ Len(key) >= 2 /\ (IsNumber(key[1]) => Len(key) = 2)
<1>7. whole
  BY <1>3, <1>4, <1>5
<1>8. SplitRef(Ref(key)) = StoryOf(Front(key), Last(key), <<>>)
  <2> HIDE DEF key
  <2> QED BY <1>6, <1>7 DEF SplitRef
<1> HIDE DEF key
<1>9. SplitRef(Ref(key)) = StoryOf(epic, num, <<>>)
  BY <1>1, <1>2, <1>8
<1> QED BY <1>9 DEF key

\* An epic is one number, or its name starts with a word.
Legible(epic) == Len(epic) >= 1 /\ (IsNumber(epic[1]) => Len(epic) = 1)

\* A story that a reference names is in an epic that is one number or starts with a word;
\* a full key is its own key.
LEMMA SplitIsLegible ==
  ASSUME NEW ref, IsRef(ref), SplitRef(ref).ok
  PROVE  /\ Legible(SplitRef(ref).epic)
         /\ SplitRef(ref).key # <<>> => ~ref.dot /\ SplitRef(ref).key = ref.segments
<1> DEFINE key == ref.segments
           numeric == IsNumber(key[1])
           whole == IsNumber(Last(key)) /\ Len(key) >= 2 /\ (numeric => Len(key) = 2)
           at == SplitNonNumericFullKey(key, Cuts(key))
<1>1. SplitRef(ref) = IF whole THEN StoryOf(Front(key), Last(key), <<>>)
     ELSE IF ref.dot THEN NotAKey
     ELSE IF numeric
     THEN IF Len(key) >= 3 /\ IsNumber(key[2]) THEN StoryOf(<<key[1]>>, key[2], key) ELSE NotAKey
     ELSE IF Cuts(key) # {}
     THEN CutAt(key, SplitNonNumericFullKey(key, Cuts(key)))
     ELSE NotAKey
  BY DEF SplitRef
<1>2. key \in Seq(Int) /\ key # <<>> /\ Len(key) \in Nat /\ Len(key) >= 1
  BY KeyEnds DEF IsRef
<1>3. CASE whole
  <2>1. Len(Front(key)) = Len(key) - 1 /\ Front(key)[1] = key[1]
    BY <1>2, <1>3 DEF Front
  <2>2. SplitRef(ref) = StoryOf(Front(key), Last(key), <<>>)
    BY <1>1, <1>3
  <2>3. SplitRef(ref).epic = Front(key) /\ SplitRef(ref).key = <<>>
    BY <2>2 DEF StoryOf
  <2>4. Len(key) >= 2 /\ (IsNumber(key[1]) => Len(key) = 2)
    BY <1>3
  <2> HIDE DEF key
  <2>5. Len(Front(key)) >= 1 /\ (Len(key) = 2 => Len(Front(key)) = 1)
    BY <1>2, <2>1, <2>4
  <2>6. IsNumber(Front(key)[1]) => Len(key) = 2
    BY <2>1, <2>4
  <2>7. Legible(Front(key))
    BY <2>5, <2>6, Zenon DEF Legible
  <2> QED BY <2>3, <2>7
<1>4. CASE ~whole /\ ~ref.dot /\ numeric /\ Len(key) >= 3 /\ IsNumber(key[2])
  <2>1. SplitRef(ref) = StoryOf(<<key[1]>>, key[2], key)
    <3> HIDE DEF whole, key, numeric
    <3> QED BY <1>1, <1>4
  <2>2. SplitRef(ref).epic = <<key[1]>> /\ SplitRef(ref).key = key
    BY <2>1 DEF StoryOf
  <2> QED BY <1>4, <2>2 DEF Legible
<1>5. CASE ~whole /\ ~ref.dot /\ ~numeric /\ Cuts(key) # {}
  <2>1. at \in Cuts(key)
    BY <1>2, <1>5, CutPlace
  <2>2. SplitRef(ref) = CutAt(key, at)
    <3> HIDE DEF whole, key, numeric, at
    <3> QED BY <1>1, <1>5 DEF at
  <2> HIDE DEF at
  <2>3. SplitRef(ref).epic = Before(key, at) /\ SplitRef(ref).key = key
    BY <2>2 DEF StoryOf, CutAt
  <2>4. at \in 2..(Len(key) - 1)
    BY <2>1 DEF Cuts
  <2>5. Len(Before(key, at)) = at - 1 /\ Before(key, at)[1] = key[1]
    BY <1>2, <2>4 DEF Before
  <2>6. at - 1 >= 1
    BY <1>2, <2>4
  <2>7. ~IsNumber(key[1])
    BY <1>5
  <2> HIDE DEF key
  <2>8. Legible(SplitRef(ref).epic)
    BY <2>3, <2>5, <2>6, <2>7 DEF Legible
  <2> QED BY <1>5, <2>3, <2>8 DEF key
<1> HIDE DEF whole, key, numeric
<1> QED BY <1>1, <1>3, <1>4, <1>5, NotAKeyIs

(***************************************************************************)
(* Of finitely many names one comes first.                                 *)
(***************************************************************************)
SegmentBefore(x, y) == IF IsNumber(x) = IsNumber(y) THEN x < y ELSE IsNumber(x)
\* a comes before b, and not with it: up to place i - 1 they are the same.
FirstDifferent(a, b, i) ==
  /\ i \in 1..Len(b) /\ i <= Len(a) + 1
  /\ \A j \in 1..(i - 1) : a[j] = b[j]
  /\ i <= Len(a) => SegmentBefore(a[i], b[i])
Precedes(a, b) == \E i \in 1..Len(b) : FirstDifferent(a, b, i)

LEMMA NotBeforePrecedes ==
  ASSUME NEW a \in Seq(Int), NEW b \in Seq(Int), ~NameBefore(a, b)
  PROVE  Precedes(b, a)
<1> DEFINE differ == {i \in DOMAIN a \cap DOMAIN b : a[i] # b[i]}
           at == SmallestOf(differ)
<1>1. /\ Len(a) \in Nat /\ Len(b) \in Nat /\ DOMAIN a = 1..Len(a) /\ DOMAIN b = 1..Len(b)
      /\ (\A i \in 1..Len(a) : a[i] \in Int) /\ \A i \in 1..Len(b) : b[i] \in Int
  OBVIOUS
<1>2. CASE differ = {}
  <2>1. Len(b) < Len(a)
    BY <1>1, <1>2 DEF NameBefore
  <2>2. \A j \in 1..Len(b) : b[j] = a[j]
    <3>1. \A j \in 1..Len(b) : j \in DOMAIN a \cap DOMAIN b
      BY <1>1, <2>1
    <3> QED BY <1>2, <3>1
  <2>3. FirstDifferent(b, a, Len(b) + 1)
    BY <1>1, <2>1, <2>2 DEF FirstDifferent
  <2> QED BY <1>1, <2>1, <2>3 DEF Precedes
<1>3. CASE differ # {}
  <2>1. differ \in SUBSET (1..Len(a))
    BY <1>1
  <2>2. at \in differ /\ \A j \in differ : at <= j
    BY <1>1, <1>3, <2>1, EndsOf
  <2>3. at \in 1..Len(a) /\ at \in 1..Len(b) /\ a[at] # b[at]
    BY <1>1, <2>2
  <2>4. ~IF IsNumber(a[at]) = IsNumber(b[at]) THEN a[at] < b[at] ELSE IsNumber(a[at])
    <3> HIDE DEF at
    <3> QED BY <1>3 DEF NameBefore, at
  <2> HIDE DEF at
  <2>5. a[at] \in Int /\ b[at] \in Int
    BY <1>1, <2>3
  <2>6. SegmentBefore(b[at], a[at])
    BY <2>3, <2>4, <2>5, SMT DEF SegmentBefore, IsNumber
  <2>7. ASSUME NEW j \in 1..(at - 1) PROVE b[j] = a[j]
    <3>1. j \in DOMAIN a \cap DOMAIN b /\ ~(at <= j)
      BY <1>1, <2>3
    <3> QED BY <2>2, <3>1
  <2>8. FirstDifferent(b, a, at)
    BY <1>1, <2>3, <2>6, <2>7 DEF FirstDifferent
  <2> QED BY <2>3, <2>8 DEF Precedes
<1> QED BY <1>2, <1>3

LEMMA PrecedesOnce ==
  ASSUME NEW a \in Seq(Int)
  PROVE  ~Precedes(a, a)
<1> SUFFICES ASSUME NEW i \in 1..Len(a), FirstDifferent(a, a, i) PROVE FALSE
  BY DEF Precedes
<1>1. i <= Len(a) /\ a[i] \in Int
  OBVIOUS
<1>2. SegmentBefore(a[i], a[i])
  BY <1>1 DEF FirstDifferent
<1> QED BY <1>1, <1>2 DEF SegmentBefore

LEMMA SegmentsInOrder ==
  ASSUME NEW x \in Int, NEW y \in Int, NEW z \in Int, SegmentBefore(x, y), SegmentBefore(y, z)
  PROVE  SegmentBefore(x, z)
<1>1. CASE IsNumber(x)
  BY <1>1 DEF SegmentBefore, IsNumber
<1>2. CASE ~IsNumber(x)
  BY <1>2 DEF SegmentBefore, IsNumber
<1> QED BY <1>1, <1>2

LEMMA PrecedesOn ==
  ASSUME NEW a \in Seq(Int), NEW b \in Seq(Int), NEW c \in Seq(Int), Precedes(a, b), Precedes(b, c)
  PROVE  Precedes(a, c)
<1>1. /\ Len(a) \in Nat /\ Len(b) \in Nat /\ Len(c) \in Nat
      /\ \A k \in 1..Len(a) : a[k] \in Int
      /\ (\A k \in 1..Len(b) : b[k] \in Int) /\ \A k \in 1..Len(c) : c[k] \in Int
  OBVIOUS
<1>2. PICK i \in 1..Len(b) : FirstDifferent(a, b, i)
  BY DEF Precedes
<1>3. PICK j \in 1..Len(c) : FirstDifferent(b, c, j)
  BY DEF Precedes
<1>4. /\ i <= Len(a) + 1 /\ (\A k \in 1..(i - 1) : a[k] = b[k]) /\ (i <= Len(a) => SegmentBefore(a[i], b[i]))
      /\ j <= Len(b) + 1 /\ (\A k \in 1..(j - 1) : b[k] = c[k]) /\ (j <= Len(b) => SegmentBefore(b[j], c[j]))
  BY <1>2, <1>3 DEF FirstDifferent
<1>5. CASE i < j
  <2>1. i \in 1..Len(c) /\ b[i] = c[i]
    BY <1>1, <1>4, <1>5
  <2>2. \A k \in 1..(i - 1) : a[k] = c[k]
    BY <1>1, <1>4, <1>5
  <2>3. FirstDifferent(a, c, i)
    BY <1>4, <2>1, <2>2 DEF FirstDifferent
  <2> QED BY <2>1, <2>3 DEF Precedes
<1>6. CASE i = j
  <2>1. \A k \in 1..(i - 1) : a[k] = c[k]
    BY <1>4, <1>6
  <2>2. i <= Len(a) => SegmentBefore(a[i], c[i])
    <3>1. SegmentBefore(b[i], c[i]) /\ b[i] \in Int /\ c[i] \in Int
      BY <1>1, <1>4, <1>6
    <3>2. i <= Len(a) => SegmentBefore(a[i], b[i]) /\ a[i] \in Int
      BY <1>1, <1>4
    <3> QED BY <3>1, <3>2, SegmentsInOrder
  <2>3. FirstDifferent(a, c, i)
    BY <1>4, <1>6, <2>1, <2>2 DEF FirstDifferent
  <2> QED BY <1>6, <2>3 DEF Precedes
<1>7. CASE j < i
  <2>1. a[j] = b[j] /\ j <= Len(a) /\ j <= Len(b) /\ j <= Len(a) + 1
    <3>1. i \in Int /\ j \in Int /\ 1 <= j /\ i <= Len(b)
      BY <1>1
    <3>2. j \in 1..(i - 1)
      BY <1>7, <3>1
    <3>3. a[j] = b[j]
      BY <1>4, <3>2
    <3>4. i <= Len(a) + 1 /\ Len(a) \in Nat /\ Len(b) \in Nat
      BY <1>1, <1>4
    <3>5. j <= Len(a) /\ j <= Len(b) /\ j <= Len(a) + 1
      BY <1>7, <3>1, <3>4
    <3> QED BY <3>3, <3>5
  <2>2. \A k \in 1..(j - 1) : a[k] = c[k]
    BY <1>1, <1>4, <1>7
  <2>3. SegmentBefore(a[j], c[j])
    BY <1>4, <2>1
  <2>4. FirstDifferent(a, c, j)
    BY <2>1, <2>2, <2>3 DEF FirstDifferent
  <2> QED BY <2>4 DEF Precedes
<1> QED BY <1>5, <1>6, <1>7

LEMMA FirstNameIs ==
  ASSUME NEW files \in SUBSET Seq(Int), IsFiniteSet(files), files # {}
  PROVE  FirstName(files) \in files
<1> DEFINE below(k) == {m \in files : Precedes(m, k)}
           sizes == {Cardinality(below(k)) : k \in files}
<1>1. ASSUME NEW k \in files PROVE IsFiniteSet(below(k)) /\ Cardinality(below(k)) \in Nat
  <2>1. below(k) \subseteq files
    OBVIOUS
  <2> HIDE DEF below
  <2> QED BY <2>1, FS_Subset, FS_CardinalityType
<1>2. sizes \in SUBSET Nat /\ sizes # {}
  <2> HIDE DEF below
  <2> QED BY <1>1
<1>3. PICK k \in files : \A m \in files : Cardinality(below(k)) <= Cardinality(below(m))
  <2> HIDE DEF below
  <2>1. Min(sizes) \in sizes /\ \A s \in sizes : Min(sizes) <= s
    BY <1>2, LeastFacts
  <2> QED BY <2>1
<1>4. ASSUME NEW m \in files, Precedes(m, k) PROVE FALSE
  <2>1. below(m) \subseteq below(k)
    BY <1>4, PrecedesOn
  <2>2. m \in below(k) /\ m \notin below(m)
    BY <1>4, PrecedesOnce
  <2> HIDE DEF below
  <2>3. Cardinality(below(m)) <= Cardinality(below(k)) /\ (Cardinality(below(m)) = Cardinality(below(k)) => below(m) = below(k))
    BY <1>1, <2>1, FS_Subset
  <2>4. Cardinality(below(k)) <= Cardinality(below(m)) /\ Cardinality(below(k)) \in Nat /\ Cardinality(below(m)) \in Nat
    BY <1>1, <1>3
  <2> QED BY <2>2, <2>3, <2>4
<1>5. \A m \in files : NameBefore(k, m)
  BY <1>4, NotBeforePrecedes
<1> QED BY <1>5 DEF FirstName

\* A row of sprint-status.yaml is that of a story.
IsRowOf(r, story) == r \in DOMAIN rows /\ SameStory(SplitRef(Ref(rows[r].key)), story)
RowsAre == rows \in Seq([key : StoryKeys, status : Statuses])

(***************************************************************************)
(* What a reference is completed to, and whose the row is that is taken    *)
(* for its story.                                                          *)
(***************************************************************************)
FilesAre == IsFiniteSet(DOMAIN stories) /\ DOMAIN stories \subseteq StoryKeys
NamesStory(key, story) == SameStory(SplitRef(Ref(key)), story)

LEMMA RowIs ==
  ASSUME RowsAre, NEW i \in DOMAIN rows
  PROVE  rows[i].key \in Seq(Int) \ {<<>>} /\ i \in 1..Len(rows) /\ Len(rows) \in Nat
<1> DEFINE Rows == [key : StoryKeys, status : Statuses]
<1>1. rows \in Seq(Rows)
  BY DEF RowsAre
<1> HIDE DEF Rows
<1>2. i \in 1..Len(rows) /\ Len(rows) \in Nat /\ rows[i] \in Rows
  BY <1>1, LenProperties, ElementOfSeq
<1>3. rows[i].key \in StoryKeys
  BY <1>2 DEF Rows
<1> QED BY <1>2, <1>3, StatusAssumption

LEMMA PrefixNames ==
  ASSUME NEW story, IsStory(story), story.ok, Legible(story.epic)
  PROVE  NamesStory(Prefix(story), story)
<1>1. story.epic \in Seq(Int) /\ story.num \in Nat
  BY DEF IsStory
<1>2. SplitRef(Ref(Append(story.epic, story.num))) = StoryOf(story.epic, story.num, <<>>)
  BY <1>1, PrefixIs DEF Legible
<1> QED BY <1>1, <1>2, StoryOfIs DEF NamesStory, SameStory, Prefix

LEMMA CompletedKeyNames ==
  ASSUME RowsAre, FilesAre, NEW story, IsStory(story), story.ok, Legible(story.epic), story.key = <<>>
  PROVE  NamesStory(CompleteStoryKey(story).key, story)
<1> DEFINE files == {k \in DOMAIN stories : Under(Prefix(story), k) /\ FullKeyMatchesStory(k, story, FALSE)}
           keyed == {i \in DOMAIN rows : Under(Prefix(story), rows[i].key) /\ FullKeyMatchesStory(rows[i].key, story, TRUE)}
           key == IF files # {} THEN FirstName(files)
                  ELSE IF keyed # {} THEN rows[SmallestOf(keyed)].key ELSE Prefix(story)
<1>1. CompleteStoryKey(story) = [story EXCEPT !.key = key]
  BY DEF CompleteStoryKey
<1>2. ASSUME files # {} PROVE NamesStory(key, story)
  <2>1. files \subseteq DOMAIN stories
    OBVIOUS
  <2>2. files \subseteq Seq(Int) /\ IsFiniteSet(files)
    BY <2>1, FS_Subset, StatusAssumption DEF FilesAre
  <2>3. FirstName(files) \in files
    <3> HIDE DEF files
    <3> QED BY <1>2, <2>2, FirstNameIs
  <2>4. NamesStory(FirstName(files), story)
    <3> DEFINE first == FirstName(files)
    <3>1. FullKeyMatchesStory(first, story, FALSE)
      <4> HIDE DEF first
      <4>1. first \in files
        BY <2>3 DEF first
      <4> QED BY <4>1
    <3> HIDE DEF first
    <3>2. NamesStory(first, story)
      BY <3>1, Zenon DEF FullKeyMatchesStory, NamesStory
    <3> QED BY <3>2 DEF first
  <2> HIDE DEF files, keyed
  <2>5. key = FirstName(files)
    BY <1>2
  <2> HIDE DEF key
  <2> QED BY <2>4, <2>5
<1>3. ASSUME files = {}, keyed # {} PROVE NamesStory(key, story)
  <2>1. Len(rows) \in Nat /\ keyed \in SUBSET (1..Len(rows))
    <3>1. \A i \in keyed : i \in DOMAIN rows
      OBVIOUS
    <3> HIDE DEF keyed
    <3>2. keyed # {} => Len(rows) \in Nat
      BY <3>1, RowIs
    <3> QED BY <1>3, <3>1, <3>2, RowIs
  <2>2. SmallestOf(keyed) \in keyed
    BY <1>3, <2>1, EndsOf
  <2>3. FullKeyMatchesStory(rows[SmallestOf(keyed)].key, story, TRUE)
    <3> DEFINE at == SmallestOf(keyed)
    <3> HIDE DEF at
    <3>1. at \in keyed
      BY <2>2 DEF at
    <3>2. FullKeyMatchesStory(rows[at].key, story, TRUE)
      BY <3>1
    <3> QED BY <3>2 DEF at
  <2>4. NamesStory(rows[SmallestOf(keyed)].key, story)
    BY <2>3, Zenon DEF FullKeyMatchesStory, NamesStory
  <2> HIDE DEF files, keyed
  <2>5. key = rows[SmallestOf(keyed)].key
    BY <1>3
  <2> HIDE DEF key
  <2> QED BY <2>4, <2>5
<1>4. ASSUME files = {}, keyed = {} PROVE NamesStory(key, story)
  <2> HIDE DEF files, keyed
  <2>1. key = Prefix(story)
    BY <1>4
  <2> HIDE DEF key
  <2> QED BY <2>1, PrefixNames
<1> HIDE DEF files, keyed
<1>5. NamesStory(key, story)
  <2> HIDE DEF key
  <2> QED BY <1>2, <1>3, <1>4
<1> HIDE DEF key
<1>6. CompleteStoryKey(story).key = key
  BY <1>1 DEF IsStory, StoryFields
<1> QED BY <1>5, <1>6

LEMMA NormalizedNames ==
  ASSUME RowsAre, FilesAre, NEW ref, IsRef(ref), NormalizeStoryKey(ref).ok
  PROVE  NamesStory(NormalizeStoryKey(ref).key, NormalizeStoryKey(ref))
<1> DEFINE split == SplitRef(ref)
           story == NormalizeStoryKey(ref)
<1>1. /\ IsStory(split) /\ split.ok /\ Legible(split.epic) /\ story.epic = split.epic /\ story.num = split.num
      /\ story = CompleteStoryKey(split)
      /\ split.key # <<>> => ~ref.dot /\ split.key = ref.segments
  BY SplitRefIs, NormalizedIs, SplitIsLegible DEF IsRef, NormalizeStoryKey
<1>2. CASE split.key = <<>>
  <2> HIDE DEF split, story
  <2>1. NamesStory(story.key, split)
    BY <1>1, <1>2, CompletedKeyNames
  <2> QED BY <1>1, <2>1 DEF NamesStory, SameStory, story
<1>3. CASE split.key # <<>>
  <2>1. story = split
    BY <1>1, <1>3 DEF CompleteStoryKey
  <2>2. SplitRef(Ref(ref.segments)) = split
    <3>1. Ref(ref.segments).segments = ref.segments /\ ~Ref(ref.segments).dot /\ ~ref.dot
      BY <1>1, <1>3 DEF Ref
    <3> QED BY <3>1, Zenon DEF SplitRef
  <2> HIDE DEF split
  <2>3. NamesStory(split.key, split)
    BY <1>1, <1>3, <2>2 DEF NamesStory, SameStory
  <2> QED BY <2>1, <2>3
<1> QED BY <1>2, <1>3

ExactRowsOf(key) == {Candidate(2, 1, SmallestOf(ExactRows(k))) : k \in {k \in {key} : ExactRows(k) # {}}}
AskedRowsOf(ref, explicit) ==
  {Candidate(IF explicit THEN 5 ELSE 3, 0, SmallestOf(ExactRows(k))) : k \in {k \in {ref.segments} : ~ref.dot /\ ExactRows(k) # {}}}
NamedRows(ref, story, explicit) ==
  {i \in DOMAIN rows : /\ explicit => rows[i].key = ref.segments
                       /\ Under(Prefix(story), rows[i].key) /\ SameStory(SplitRef(Ref(rows[i].key)), story)}
AllRowsFor(ref, story) ==
  LET explicit == IsExplicitFullKey(ref, story)
  IN (AskedRowsOf(ref, explicit) \cup ExactRowsOf(Prefix(story))) \cup {Candidate(4, 1 + i, i) : i \in NamedRows(ref, story, explicit)}
IsBest(c, all) == c \in all /\ \A d \in all : d.rank < c.rank \/ (d.rank = c.rank /\ d.order <= c.order)

LEMMA BestMatchOf ==
  ASSUME NEW ref, NEW story
  PROVE  /\ AllRowsFor(ref, story) = {} => BestStatusMatch(ref, story) = NoStatus
         /\ AllRowsFor(ref, story) # {} => BestStatusMatch(ref, story).found
         /\ \A c : IsBest(c, AllRowsFor(ref, story)) =>
              \E best : IsBest(best, AllRowsFor(ref, story)) /\ BestStatusMatch(ref, story) = StatusOfRow(best.row)
<1> DEFINE all == AllRowsFor(ref, story)
           best == CHOOSE c \in all : \A d \in all : d.rank < c.rank \/ (d.rank = c.rank /\ d.order <= c.order)
<1>1. BestStatusMatch(ref, story) = IF all = {} THEN NoStatus ELSE StatusOfRow(best.row)
  BY Zenon DEF BestStatusMatch, AllRowsFor, AskedRowsOf, ExactRowsOf, NamedRows
<1> HIDE DEF all
<1>2. all # {} => BestStatusMatch(ref, story).found
  BY <1>1 DEF StatusOfRow
<1>3. ASSUME NEW c, IsBest(c, all) PROVE IsBest(best, all) /\ BestStatusMatch(ref, story) = StatusOfRow(best.row)
  <2>1. \E d \in all : \A e \in all : e.rank < d.rank \/ (e.rank = d.rank /\ e.order <= d.order)
    BY <1>3, Zenon DEF IsBest
  <2>2. IsBest(best, all)
    BY <2>1, Zenon DEF IsBest
  <2>3. all # {}
    BY <2>1
  <2> HIDE DEF best
  <2> QED BY <1>1, <2>2, <2>3
<1> HIDE DEF best
<1> QED BY <1>1, <1>2, <1>3 DEF all

LEMMA CandidateIs ==
  ASSUME NEW rank, NEW order, NEW row
  PROVE  Candidate(rank, order, row).rank = rank /\ Candidate(rank, order, row).order = order /\ Candidate(rank, order, row).row = row
BY DEF Candidate

\* A row that is taken for a story is a row of it.
LEMMA CandidatesAreOfTheStory ==
  ASSUME RowsAre, NEW ref, NEW story, IsStory(story), story.ok, Legible(story.epic), ~ref.dot => NamesStory(ref.segments, story),
         NEW c \in AllRowsFor(ref, story)
  PROVE  IsRowOf(c.row, story)
<1> DEFINE explicit == IsExplicitFullKey(ref, story)
<1>1. ASSUME NEW key, NamesStory(key, story), ExactRows(key) # {} PROVE IsRowOf(SmallestOf(ExactRows(key)), story)
  <2>1. \A i \in ExactRows(key) : i \in DOMAIN rows /\ rows[i].key = key
    BY DEF ExactRows
  <2>2. Len(rows) \in Nat /\ ExactRows(key) \in SUBSET (1..Len(rows))
    BY <1>1, <2>1, RowIs
  <2>3. SmallestOf(ExactRows(key)) \in ExactRows(key)
    BY <1>1, <2>2, EndsOf
  <2> QED BY <1>1, <2>1, <2>3 DEF IsRowOf, NamesStory
<1>2. CASE c \in AskedRowsOf(ref, explicit)
  <2>1. ~ref.dot /\ ExactRows(ref.segments) # {} /\ c = Candidate(IF explicit THEN 5 ELSE 3, 0, SmallestOf(ExactRows(ref.segments)))
    BY <1>2 DEF AskedRowsOf
  <2> QED BY <1>1, <2>1, CandidateIs
<1>3. CASE c \in ExactRowsOf(Prefix(story))
  <2>1. ExactRows(Prefix(story)) # {} /\ c = Candidate(2, 1, SmallestOf(ExactRows(Prefix(story))))
    BY <1>3 DEF ExactRowsOf
  <2> QED BY <1>1, <2>1, CandidateIs, PrefixNames
<1>4. CASE c \in {Candidate(4, 1 + i, i) : i \in NamedRows(ref, story, explicit)}
  <2>1. PICK i \in NamedRows(ref, story, explicit) : c = Candidate(4, 1 + i, i)
    BY <1>4
  <2>2. IsRowOf(i, story)
    BY DEF NamedRows, IsRowOf
  <2> QED BY <2>1, <2>2, CandidateIs
<1> QED BY <1>2, <1>3, <1>4 DEF AllRowsFor

LEMMA OneIsBest ==
  ASSUME RowsAre, NEW ref, NEW story, AllRowsFor(ref, story) # {}
  PROVE  \E c : IsBest(c, AllRowsFor(ref, story))
<1> DEFINE explicit == IsExplicitFullKey(ref, story)
           asked == AskedRowsOf(ref, explicit)
           exact == ExactRowsOf(Prefix(story))
           named == NamedRows(ref, story, explicit)
           full == {Candidate(4, 1 + i, i) : i \in named}
           all == AllRowsFor(ref, story)
           askedRank == IF explicit THEN 5 ELSE 3
<1>1. all = (asked \cup exact) \cup full
  BY DEF AllRowsFor
<1>2. \A d \in asked : d.rank = askedRank /\ d.order = 0
  BY DEF AskedRowsOf, Candidate
<1>3. \A d \in exact : d.rank = 2 /\ d.order = 1
  BY DEF ExactRowsOf, Candidate
<1>4. named # {} => \E c \in full : \A d \in full : c.rank = 4 /\ d.rank = 4 /\ d.order <= c.order
  <2> SUFFICES ASSUME named # {} PROVE \E c \in full : \A d \in full : c.rank = 4 /\ d.rank = 4 /\ d.order <= c.order
    OBVIOUS
  <2> DEFINE last == LargestOf(named)
  <2>1. \A i \in named : i \in DOMAIN rows
    BY DEF NamedRows
  <2> HIDE DEF named
  <2>2. Len(rows) \in Nat /\ named \in SUBSET (1..Len(rows))
    BY <2>1, RowIs
  <2>3. last \in named /\ \A j \in named : j <= last
    BY <2>2, EndsOf
  <2> HIDE DEF last
  <2>4. ASSUME NEW j \in named PROVE 1 + j <= 1 + last
    BY <2>2, <2>3
  <2>5. Candidate(4, 1 + last, last) \in full
    BY <2>3
  <2>6. ASSUME NEW d \in full PROVE Candidate(4, 1 + last, last).rank = 4 /\ d.rank = 4 /\ d.order <= Candidate(4, 1 + last, last).order
    <3>1. PICK j \in named : d = Candidate(4, 1 + j, j)
      OBVIOUS
    <3> QED BY <2>4, <3>1, CandidateIs
  <2> QED BY <2>5, <2>6
<1>5. named = {} <=> full = {}
  <2> HIDE DEF named
  <2> QED OBVIOUS
<1>6. askedRank \in {3, 5}
  OBVIOUS
<1> HIDE DEF asked, exact, named, full, askedRank, all
<1>7. CASE asked # {} /\ (askedRank = 5 \/ named = {})
  <2>1. PICK c \in asked : TRUE
    BY <1>7
  <2>2. ASSUME NEW d \in full PROVE d.rank < c.rank
    <3>1. named # {} /\ askedRank = 5 /\ c.rank = 5
      BY <1>2, <1>5, <1>7
    <3>2. d.rank = 4
      BY <1>4, <3>1
    <3> QED BY <3>1, <3>2
  <2>3. \A d \in all : d.rank < c.rank \/ (d.rank = c.rank /\ d.order <= c.order)
    BY <1>1, <1>2, <1>3, <1>6, <2>2
  <2>4. IsBest(c, all)
    BY <1>1, <2>3 DEF IsBest
  <2> QED BY <2>4 DEF all
<1>8. CASE named # {} /\ (asked = {} \/ askedRank = 3)
  <2>1. PICK c \in full : \A d \in full : c.rank = 4 /\ d.rank = 4 /\ d.order <= c.order
    BY <1>4, <1>8
  <2>2. \A d \in asked : d.rank = 3
    BY <1>2, <1>8
  <2>3. \A d \in all : d.rank < c.rank \/ (d.rank = c.rank /\ d.order <= c.order)
    BY <1>1, <1>3, <2>1, <2>2
  <2>4. IsBest(c, all)
    BY <1>1, <2>3 DEF IsBest
  <2> QED BY <2>4 DEF all
<1>9. CASE asked = {} /\ named = {}
  <2>1. all = exact
    BY <1>1, <1>5, <1>9
  <2>2. PICK c \in exact : TRUE
    BY <2>1 DEF all
  <2>3. IsBest(c, all)
    BY <1>3, <2>1, <2>2 DEF IsBest
  <2> QED BY <2>3 DEF all
<1> QED BY <1>6, <1>7, <1>8, <1>9

LEMMA BestMatchIs ==
  ASSUME RowsAre, NEW ref, NEW story, IsStory(story), story.ok, Legible(story.epic), ~ref.dot => NamesStory(ref.segments, story),
         BestStatusMatch(ref, story).found
  PROVE  \E r \in DOMAIN rows : IsRowOf(r, story) /\ BestStatusMatch(ref, story) = StatusOfRow(r)
<1>1. ~NoStatus.found
  BY DEF NoStatus
<1>2. AllRowsFor(ref, story) # {}
  BY <1>1, BestMatchOf
<1>3. PICK best : IsBest(best, AllRowsFor(ref, story)) /\ BestStatusMatch(ref, story) = StatusOfRow(best.row)
  BY <1>2, OneIsBest, BestMatchOf
<1>4. IsRowOf(best.row, story)
  BY <1>3, CandidatesAreOfTheStory DEF IsBest
<1> QED BY <1>3, <1>4 DEF IsRowOf

\* The row whose status is reported for a story.
LEMMA StatusGetIs ==
  ASSUME RowsAre, NEW ref, IsRef(ref), NormalizeStoryKey(ref).ok, SprintStatusGet(ref).found
  PROVE  \E r \in DOMAIN rows : IsRowOf(r, NormalizeStoryKey(ref)) /\ SprintStatusGet(ref) = StatusOfRow(r)
<1> DEFINE story == NormalizeStoryKey(ref)
           best == BestStatusMatch(ref, story)
           got == SprintStatusGet(ref)
<1>1. /\ IsStory(story) /\ Legible(story.epic)
      /\ ~ref.dot => NamesStory(ref.segments, story)
  <2>1. /\ IsStory(story) /\ SplitRef(ref).ok /\ story.epic = SplitRef(ref).epic /\ story.num = SplitRef(ref).num
        /\ Legible(SplitRef(ref).epic)
    BY NormalizedIs, SplitIsLegible DEF IsRef
  <2>2. ~ref.dot => SplitRef(Ref(ref.segments)) = SplitRef(ref)
    <3>1. ~ref.dot => Ref(ref.segments).segments = ref.segments /\ ~Ref(ref.segments).dot
      BY DEF Ref
    <3> QED BY <3>1, Zenon DEF SplitRef
  <2> HIDE DEF story
  <2>3. ~ref.dot => NamesStory(ref.segments, story)
    BY <2>1, <2>2 DEF NamesStory, SameStory, story
  <2> QED BY <2>1, <2>3
<1>2. got = IF best.found \/ ref.dot \/ ExactRows(ref.segments) = {} THEN best ELSE StatusOfRow(SmallestOf(ExactRows(ref.segments)))
  BY Zenon DEF SprintStatusGet
<1>3. ~ref.dot /\ ExactRows(ref.segments) # {} => best.found
  <2> SUFFICES ASSUME ~ref.dot, ExactRows(ref.segments) # {} PROVE AllRowsFor(ref, story) # {}
    BY BestMatchOf
  <2>1. AskedRowsOf(ref, IsExplicitFullKey(ref, story)) # {}
    BY DEF AskedRowsOf
  <2> QED BY <2>1 DEF AllRowsFor
<1> HIDE DEF story, best, got
<1>4. got = best
  BY <1>2, <1>3
<1>5. best.found /\ story.ok
  BY <1>4 DEF got, story
<1>6. \E r \in DOMAIN rows : IsRowOf(r, story) /\ best = StatusOfRow(r)
  BY <1>1, <1>5, BestMatchIs DEF best
<1> QED BY <1>4, <1>6 DEF got, story

LEMMA StatusNames ==
  ASSUME RowsAre, NEW ref, IsRef(ref), NormalizeStoryKey(ref).ok, SprintStatusGet(ref).found
  PROVE  NamesStory(SprintStatusGet(ref).key, NormalizeStoryKey(ref))
<1>1. PICK r \in DOMAIN rows : IsRowOf(r, NormalizeStoryKey(ref)) /\ SprintStatusGet(ref) = StatusOfRow(r)
  BY StatusGetIs
<1>2. SprintStatusGet(ref).key = rows[r].key
  BY <1>1 DEF StatusOfRow
<1> QED BY <1>1, <1>2 DEF IsRowOf, NamesStory

LEMMA ReviewFields ==
  ASSUME NEW verified, NEW key, NEW origin, NEW review, review = [verified |-> verified, story |-> key, source |-> origin]
  PROVE  review.story = key /\ review.source = origin
OBVIOUS

LEMMA ReviewNames ==
  ASSUME RowsAre, FilesAre, NEW ref, IsRef(ref), ReviewCompletion(ref).source = "story-file"
  PROVE  NamesStory(ReviewCompletion(ref).story, NormalizeStoryKey(ref))
<1> DEFINE story == NormalizeStoryKey(ref)
           sprint == SprintStatusGet(ref)
           reviewed == IF sprint.found /\ sprint.key # Prefix(story) THEN sprint.key ELSE story.key
           origin == IF sprint.status = "done" THEN "sprint-status.yaml"
                     ELSE IF reviewed \in DOMAIN stories /\ stories[reviewed] = "done" THEN "story-file" ELSE ""
           review == ReviewCompletion(ref)
<1>1. review = IF story.ok THEN [verified |-> origin # "", story |-> reviewed, source |-> origin]
               ELSE [verified |-> "" # "", story |-> <<>>, source |-> ""]
  BY Zenon DEF ReviewCompletion
<1> HIDE DEF story, sprint, reviewed, origin
<1>2. story.ok /\ review.story = reviewed
  <2>1. CASE story.ok
    BY <1>1, <2>1
  <2>2. CASE ~story.ok
    <3> DEFINE none == "" # ""
    <3>1. review = [verified |-> none, story |-> <<>>, source |-> ""]
      BY <1>1, <2>2, Zenon
    <3> HIDE DEF none
    <3> HIDE DEF review
    <3>2. review.source = ""
      BY <3>1, ReviewFields, Zenon
    <3> QED BY <3>2 DEF review
  <2> QED BY <2>1, <2>2
<1>3. sprint.found => NamesStory(sprint.key, story)
  BY <1>2, StatusNames DEF sprint, story
<1>4. NamesStory(story.key, story)
  BY <1>2, NormalizedNames DEF story
<1>5. NamesStory(reviewed, story)
  BY <1>3, <1>4 DEF reviewed
<1> QED BY <1>2, <1>5 DEF story

LEMMA DoneRow ==
  ASSUME RowsAre, NEW epic \in Seq(Int), NEW num \in Nat, NEW ref, ref = DotRef(epic, num), SplitRef(ref).ok, IsDone(ref)
  PROVE  \E r \in DOMAIN rows : rows[r].status = "done" /\ SameStory(SplitRef(Ref(rows[r].key)), SplitRef(ref))
<1> DEFINE story == NormalizeStoryKey(ref)
           best == BestStatusMatch(ref, story)
<1>1. /\ ref.dot /\ SplitRef(ref) = StoryOf(epic, num, <<>>) /\ Len(epic) >= 1 /\ (IsNumber(epic[1]) => Len(epic) = 1)
      /\ IsRef(ref)
  BY IdIs
<1>2. IsStory(story) /\ story.ok /\ story.epic = epic /\ story.num = num
  BY <1>1, NormalizedIs, StoryOfIs DEF IsRef
<1>3. SprintStatusGet(ref).found /\ SprintStatusGet(ref).status = "done"
  BY DEF IsDone
<1>4. SprintStatusGet(ref) = best
  BY <1>1, <1>2 DEF SprintStatusGet
<1> HIDE DEF story, best
<1>5. best.found /\ best.status = "done"
  BY <1>3, <1>4
<1>6. PICK r \in DOMAIN rows : IsRowOf(r, story) /\ best = StatusOfRow(r)
  BY <1>1, <1>2, <1>5, BestMatchIs DEF best, Legible
<1>7. best.status = rows[r].status
  BY <1>6 DEF StatusOfRow
<1>8. SameStory(SplitRef(Ref(rows[r].key)), SplitRef(ref))
  BY <1>1, <1>2, <1>6, StoryOfIs DEF IsRowOf, SameStory
<1> QED BY <1>5, <1>7, <1>8

LEMMA IdOfEpic ==
  ASSUME NEW epic \in Seq(Int), NEW num \in Nat, NEW ref, ref = DotRef(epic, num), SplitRef(ref).ok
  PROVE  /\ NormalizeForEpic(epic, ref).ok /\ NormalizeForEpic(epic, ref).epic = epic /\ NormalizeForEpic(epic, ref).num = num
         /\ InEpic(epic, ref)
<1> DEFINE story == NormalizeStoryKey(ref)
<1>1. ref.dot /\ IsRef(ref) /\ SplitRef(ref) = StoryOf(epic, num, <<>>)
  BY IdIs
<1>2. story.ok /\ story.epic = epic /\ story.num = num
  BY <1>1, NormalizedIs, StoryOfIs DEF IsRef
<1>3. NormalizeForEpic(epic, ref) = IF IsOfEpic(story, epic) THEN story ELSE NotAKey
  BY <1>1 DEF NormalizeForEpic
<1> HIDE DEF story
<1>4. NormalizeForEpic(epic, ref) = story
  BY <1>2, <1>3 DEF IsOfEpic
<1> QED BY <1>2, <1>4 DEF InEpic, IsOfEpic

\* Of ids of one epic, Dedupe keeps every one: two of one story are the same id.
LEMMA DedupeKeeps ==
  ASSUME NEW epic \in Seq(Int), NEW refs, NEW n \in Nat, DOMAIN refs = 1..n,
         \A i \in 1..n : SplitRef(refs[i]).ok /\ \E num \in Nat : refs[i] = DotRef(epic, num),
         NEW i \in 1..n
  PROVE  refs[i] \in Dedupe(epic, refs)
<1> DEFINE of == [k \in DOMAIN refs |-> NormalizeForEpic(epic, refs[k])]
           Same(j, k) == IF of[j].ok /\ of[k].ok THEN SameStory(of[j], of[k]) ELSE refs[j] = refs[k]
           Better(j, k) == \/ StoryKeyRank(refs[j], of[j]) > StoryKeyRank(refs[k], of[k])
                           \/ StoryKeyRank(refs[j], of[j]) = StoryKeyRank(refs[k], of[k]) /\ j >= k
           same == {j \in 1..n : Same(i, j)}
           last == LargestOf(same)
<1>1. ASSUME NEW j \in 1..n
      PROVE  of[j].ok /\ of[j].epic = epic /\ of[j].num \in Nat /\ refs[j] = DotRef(epic, of[j].num) /\ StoryKeyRank(refs[j], of[j]) = 1
  <2>1. PICK num \in Nat : refs[j] = DotRef(epic, num)
    OBVIOUS
  <2>2. of[j] = NormalizeForEpic(epic, refs[j]) /\ SplitRef(refs[j]).ok
    OBVIOUS
  <2> HIDE DEF of
  <2>3. of[j].ok /\ of[j].epic = epic /\ of[j].num = num
    BY <2>1, <2>2, IdOfEpic
  <2>4. refs[j].dot
    BY <2>1 DEF DotRef
  <2>5. StoryKeyRank(refs[j], of[j]) = 1
    BY <2>4 DEF StoryKeyRank, IsExplicit
  <2> QED BY <2>1, <2>3, <2>5
<1>2. Dedupe(epic, refs) = {refs[j] : j \in {j \in DOMAIN of : \A k \in DOMAIN of : Same(j, k) => Better(j, k)}}
  BY Zenon DEF Dedupe
<1>3. DOMAIN of = 1..n
  OBVIOUS
<1> HIDE DEF of
<1>4. \A j, k \in 1..n : Same(j, k) <=> of[j].num = of[k].num
  BY <1>1 DEF SameStory
<1> HIDE DEF Same
<1>5. i \in same /\ same \in SUBSET (1..n)
  BY <1>4
<1>6. last \in same /\ \A j \in same : j <= last
  <2>1. same # {}
    BY <1>5
  <2> HIDE DEF same
  <2> QED BY <1>5, <2>1, EndsOf
<1>7. last \in 1..n /\ refs[last] = refs[i] /\ of[last].num = of[i].num
  BY <1>1, <1>4, <1>6
<1> HIDE DEF last
<1>8. ASSUME NEW k \in 1..n, Same(last, k) PROVE Better(last, k)
  <2>1. k \in same
    BY <1>4, <1>7, <1>8
  <2> HIDE DEF same
  <2>2. last >= k
    BY <1>6, <1>7, <2>1
  <2> QED BY <1>1, <1>7, <2>2
<1> HIDE DEF Better, same
<1>9. refs[last] \in Dedupe(epic, refs)
  BY <1>2, <1>3, <1>7, <1>8
<1> QED BY <1>7, <1>9

Ids == {ref \in [segments : Seq(Int), dot : {TRUE}] : IsId(ref)}
LEMMA IsAnId ==
  ASSUME NEW story, IsStory(story), story.ok
  PROVE  IdOf(story) \in Ids
<1>1. story.epic \in Seq(Int) /\ story.num \in Nat
  BY DEF IsStory
<1>2. Append(story.epic, story.num) \in Seq(Int)
  BY <1>1
<1>3. IdOf(story) = DotRef(story.epic, story.num)
  BY DEF IdOf
<1>4. IdOf(story) \in [segments : Seq(Int), dot : {TRUE}]
  BY <1>2, <1>3 DEF DotRef
<1> QED BY <1>1, <1>3, <1>4 DEF Ids, IsId

LEMMA PickedInSeq ==
  ASSUME NEW n \in Nat, NEW seq, NEW at \in SUBSET (1..n)
  PROVE  \A S : (\A i \in at : seq[i] \in S) => Picked(seq, at) \in Seq(S)
<1> DEFINE picked == Picked(seq, at) m == Cardinality(at)
<1>1. m \in Nat /\ DOMAIN picked = 1..m /\ \A k \in 1..m : PicksFrom(at, seq, picked[k])
  BY PickedIs
<1>2. picked = [k \in 1..m |-> picked[k]]
  <2>1. picked = [k \in 1..m |-> seq[CHOOSE i \in at : Cardinality({j \in at : j <= i}) = k]]
    BY Zenon DEF Picked
  <2> HIDE DEF picked, m
  <2> QED BY <2>1
<1> HIDE DEF picked, m
<1>3. ASSUME NEW S, \A i \in at : seq[i] \in S PROVE picked \in Seq(S)
  <2>1. picked \in [1..m -> S]
    BY <1>1, <1>2, <1>3 DEF PicksFrom
  <2> QED BY <1>1, <2>1
<1> QED BY <1>3 DEF picked

LEMMA ChosenRange ==
  ASSUME NEW doc \in EpicDocs, NEW picks
  PROVE  LET Ids_(entries) == [i \in DOMAIN entries |-> IdOf(entries[i].story)]
         IN ParseStoryRange(picks, Ids_(ParseEpicFile(doc))) \in Seq(Ids)
<1> DEFINE headings == HeadingsOf(doc)
           n == Len(headings)
           raw == [i \in DOMAIN headings |-> [story |-> NormalizeHeaderStory(headings[i]), heading |-> headings[i]]]
           readable == {i \in DOMAIN raw : raw[i].story.ok}
           entries == ParseEpicFile(doc)
           named == [i \in DOMAIN entries |-> IdOf(entries[i].story)]
<1>1. /\ n \in Nat /\ DOMAIN headings = 1..n
      /\ \A i \in 1..n : headings[i].epic \in Seq(Int) /\ IsRef(headings[i].ref)
  <2>1. headings \in Seq(Range(headings))
    BY EpicRunAssumption
  <2>2. n \in Nat /\ DOMAIN headings = 1..n
    BY <2>1
  <2>3. \A i \in 1..n : headings[i] \in Range(headings)
    BY <2>2 DEF Range
  <2> QED BY <2>2, <2>3, EpicRunAssumption DEF IsRef
<1>2. entries = Picked(raw, readable)
  BY DEF ParseEpicFile
<1>3. ASSUME NEW i \in readable PROVE IdOf(raw[i].story) \in Ids
  <2>1. i \in 1..n /\ raw[i].story = NormalizeHeaderStory(headings[i]) /\ raw[i].story.ok
    BY <1>1
  <2> HIDE DEF raw, headings, n
  <2>2. IsStory(raw[i].story)
    BY <1>1, <2>1, HeadingIs
  <2> QED BY <2>1, <2>2, IsAnId
<1>4. readable \in SUBSET (1..n)
  BY <1>1
<1> HIDE DEF readable, raw, headings, n, entries
<1>5. PICK m \in Nat : DOMAIN entries = 1..m /\ \A k \in 1..m : \E i \in readable : entries[k] = raw[i]
  <2>1. /\ Cardinality(readable) \in Nat /\ DOMAIN Picked(raw, readable) = 1..Cardinality(readable)
        /\ \A k \in 1..Cardinality(readable) : PicksFrom(readable, raw, Picked(raw, readable)[k])
    BY <1>1, <1>4, PickedIs
  <2> QED BY <1>2, <2>1 DEF PicksFrom
<1>6. \A k \in 1..m : named[k] \in Ids
  BY <1>3, <1>5
<1>7. DOMAIN named = 1..m
  BY <1>5
<1> HIDE DEF named
<1>8. PICK at \in SUBSET (DOMAIN named) : ParseStoryRange(picks, named) = Picked(named, at)
  BY DEF ParseStoryRange
<1>9. Picked(named, at) \in Seq(Ids)
  BY <1>6, <1>7, <1>8, PickedInSeq
<1> QED BY <1>8, <1>9 DEF named, entries

\* The number of an epic is one segment, and its name is not empty.
NamesLegibleStory(ref) == \E epic \in Seq(Int), num \in Nat : ref = DotRef(epic, num) /\ Legible(epic)

\* The range consists of ids, and a story that is finished has one that can be read.
RangeInv ==
  /\ RowsAre /\ storyRange \in Seq(Ids) /\ current \in 0..Len(storyRange)
  /\ \A i \in 1..current : NamesLegibleStory(storyRange[i])

LEMMA RangeIds ==
  ASSUME NEW ids \in Seq(Ids), NEW i \in 1..Len(ids)
  PROVE  \E epic \in Seq(Int), num \in Nat : ids[i] = DotRef(epic, num)
<1>1. ids[i] \in Ids
  BY ElementOfSeq
<1>2. IsId(ids[i])
  BY <1>1 DEF Ids
<1> QED BY <1>2 DEF IsId

LEMMA LegibleRef ==
  ASSUME NEW epic \in Seq(Int), NEW num \in Nat
  PROVE  SplitRef(DotRef(epic, num)).ok <=> Legible(epic)
BY IdIs, Zenon DEF Legible

LEMMA RangeInit_Inv == EpicRunInit => RangeInv
<1> SUFFICES ASSUME EpicRunInit PROVE RangeInv
  OBVIOUS
<1>1. rows = <<>> /\ storyRange = <<>> /\ current = 0
  BY DEF EpicRunInit, StatusInit
<1>2. rows \in Seq([key : StoryKeys, status : Statuses]) /\ storyRange \in Seq(Ids) /\ Len(storyRange) = 0
  BY <1>1, EmptySeq
<1> QED BY <1>1, <1>2 DEF RangeInv, RowsAre

LEMMA RangeStepInv == RangeInv /\ [EpicRunNext]_epicRunVars => RangeInv'
<1> SUFFICES ASSUME RangeInv, [EpicRunNext]_epicRunVars PROVE RangeInv'
  OBVIOUS
<1>1. ASSUME UNCHANGED <<storyRange, current>>, RowsAre' PROVE RangeInv'
  BY <1>1 DEF RangeInv
<1>2. CASE StatusNext /\ UNCHANGED <<storyRange, source, current, retros>>
  <2>1. ASSUME NEW key \in StoryKeys, AddRow(key) PROVE RowsAre'
    <3>1. rows' = Append(rows, [key |-> key, status |-> "open"])
      BY <2>1 DEF AddRow
    <3>2. [key |-> key, status |-> "open"] \in [key : StoryKeys, status : Statuses]
      BY DEF Statuses
    <3> QED BY <3>1, <3>2 DEF RangeInv, RowsAre
  <2>2. ASSUME NEW i \in DOMAIN rows, SetRow(i) PROVE RowsAre'
    <3> DEFINE Rows == [key : StoryKeys, status : Statuses]
               done == [rows[i] EXCEPT !.status = "done"]
    <3>1. rows' = [rows EXCEPT ![i] = done]
      BY <2>2 DEF SetRow
    <3>2. rows \in Seq(Rows)
      BY DEF RangeInv, RowsAre
    <3>3. i \in 1..Len(rows) /\ rows[i] \in Rows
      BY <3>2, LenProperties, ElementOfSeq
    <3>4. "done" \in Statuses
      BY DEF Statuses
    <3>5. done \in Rows
      BY <3>3, <3>4
    <3> HIDE DEF Rows, done
    <3>6. rows' \in Seq(Rows)
      BY <3>1, <3>2, <3>3, <3>5, ExceptSeq
    <3> QED BY <3>6 DEF Rows, RowsAre
  <2>3. ASSUME NEW key, WriteStory(key) \/ WriteEpicFile(key) PROVE RowsAre'
    BY <2>3 DEF WriteStory, WriteEpicFile, RangeInv, RowsAre
  <2>4. RowsAre'
    BY <1>2, <2>1, <2>2, <2>3 DEF StatusNext
  <2> QED BY <1>1, <1>2, <2>4
<1>3. ASSUME NEW doc \in EpicDocs, NEW picks \in Selections, ChooseRange(doc, picks) PROVE RangeInv'
  <2>1. storyRange' \in Seq(Ids)
    BY <1>3, ChosenRange DEF ChooseRange
  <2>2. current = 0 /\ current' = current /\ rows' = rows
    BY <1>3 DEF ChooseRange, RangeInv
  <2>3. Len(storyRange)' \in Nat
    BY <2>1
  <2> QED BY <2>1, <2>2, <2>3 DEF RangeInv, RowsAre
<1>4. CASE FinishStory
  <2> DEFINE ref == storyRange[current + 1]
  <2>1. /\ current < Len(storyRange) /\ current' = current + 1 /\ UNCHANGED <<rows, stories, epics, storyRange>>
        /\ NormalizeStoryKey(ref).ok
    BY <1>4 DEF FinishStory
  <2>2. Len(storyRange) \in Nat /\ current \in Nat /\ current + 1 \in 1..Len(storyRange) /\ storyRange \in Seq(Ids)
    BY <2>1 DEF RangeInv
  <2>3. PICK epic \in Seq(Int), num \in Nat : ref = DotRef(epic, num)
    BY <2>2, RangeIds
  <2>4. SplitRef(ref).ok
    BY <2>1, <2>3, IdIs, NormalizedIs DEF IsRef
  <2>5. NamesLegibleStory(ref)
    BY <2>3, <2>4, LegibleRef DEF NamesLegibleStory
  <2>6. \A i \in 1..(current + 1) : NamesLegibleStory(storyRange[i])
    BY <2>2, <2>5 DEF RangeInv
  <2>7. current' \in (0..Len(storyRange))'
    BY <2>1, <2>2
  <2> QED BY <2>1, <2>6, <2>7 DEF RangeInv, RowsAre
<1>5. CASE TriggerRetro
  BY <1>1, <1>5 DEF TriggerRetro, RangeInv, RowsAre
<1>6. CASE UNCHANGED epicRunVars
  BY <1>1, <1>6 DEF epicRunVars, RangeInv, RowsAre
<1> QED BY <1>2, <1>3, <1>4, <1>5, <1>6 DEF EpicRunNext

LEMMA FilesInit == EpicRunInit => FilesAre
<1> SUFFICES ASSUME EpicRunInit PROVE FilesAre
  OBVIOUS
<1>1. DOMAIN stories = {}
  BY DEF EpicRunInit, StatusInit
<1> QED BY <1>1, FS_EmptySet DEF FilesAre

LEMMA FilesStep == FilesAre /\ [EpicRunNext]_epicRunVars => FilesAre'
<1> SUFFICES ASSUME FilesAre, [EpicRunNext]_epicRunVars PROVE FilesAre'
  OBVIOUS
<1>1. CASE UNCHANGED stories
  BY <1>1 DEF FilesAre
<1>2. ASSUME NEW key \in StoryKeys, WriteStory(key) PROVE FilesAre'
  <2>1. DOMAIN stories' = DOMAIN stories \cup {key}
    BY <1>2 DEF WriteStory
  <2> QED BY <2>1, FS_AddElement DEF FilesAre
<1>3. UNCHANGED stories \/ \E key \in StoryKeys : WriteStory(key)
  BY Zenon DEF EpicRunNext, epicRunVars, StatusNext, AddRow, SetRow, WriteEpicFile, ChooseRange, FinishStory, TriggerRetro
<1> QED BY <1>1, <1>2, <1>3

\* Whatever rows, files and epics there are, and whatever segments keys have: the key a
\* reference is completed to, the status that is reported for it and the file a review
\* reads are of the story it names.  (normalize_story_key, sprint_status_get, _verify_code_review)
THEOREM StoriesAreNamed ==
  EpicRunSpec => [](CompletedKeyIsOfTheStory /\ StatusIsOfTheStory /\ ReviewReadsTheStory)
<1>1. RowsAre /\ FilesAre => CompletedKeyIsOfTheStory /\ StatusIsOfTheStory /\ ReviewReadsTheStory
  <2> SUFFICES ASSUME RowsAre, FilesAre PROVE CompletedKeyIsOfTheStory /\ StatusIsOfTheStory /\ ReviewReadsTheStory
    OBVIOUS
  <2>1. \A ref \in StoryRefs : IsRef(ref)
    BY StatusAssumption DEF IsRef
  <2>2. CompletedKeyIsOfTheStory
    BY <2>1, NormalizedNames DEF CompletedKeyIsOfTheStory, NamesStory
  <2>3. StatusIsOfTheStory
    BY <2>1, StatusNames DEF StatusIsOfTheStory, NamesStory
  <2>4. ReviewReadsTheStory
    BY <2>1, ReviewNames DEF ReviewReadsTheStory, NamesStory
  <2> QED BY <2>2, <2>3, <2>4
<1>2. RangeInv => RowsAre
  BY DEF RangeInv
<1> QED BY <1>1, <1>2, RangeInit_Inv, RangeStepInv, FilesInit, FilesStep, PTL DEF EpicRunSpec

Retrospected ==
  \A epic \in retros' \ retros : \A i \in DOMAIN storyRange :
    Front(storyRange[i].segments) = epic =>
      \E r \in DOMAIN rows : rows[r].status = "done" /\ SameStory(SplitRef(Ref(rows[r].key)), SplitRef(storyRange[i]))

LEMMA RetroStep == RangeInv /\ [EpicRunNext]_epicRunVars => [Retrospected]_epicRunVars
<1> SUFFICES ASSUME RangeInv, EpicRunNext PROVE Retrospected
  OBVIOUS
<1>1. CASE TriggerRetro
  <2> DEFINE epic == Front(storyRange[current].segments)
             places == {i \in DOMAIN storyRange : InEpic(epic, storyRange[i])}
             listed == StateStories(epic)
             n == Len(storyRange)
  <2>1. /\ current > 0 /\ retros' = retros \cup {epic}
        /\ GetEpicStories(epic) # {} /\ \A ref \in GetEpicStories(epic) : IsDone(ref)
    BY <1>1 DEF TriggerRetro
  <2>2. n \in Nat /\ DOMAIN storyRange = 1..n /\ current \in 1..n
    BY <2>1 DEF RangeInv
  <2>3. \A i \in 1..n : \E e \in Seq(Int), num \in Nat : storyRange[i] = DotRef(e, num)
    BY <2>2, RangeIds DEF RangeInv
  <2>4. PICK e \in Seq(Int), first \in Nat : storyRange[current] = DotRef(e, first)
    BY <2>2, <2>3
  <2>5. epic = e /\ SplitRef(storyRange[current]).ok
    <3>1. PICK f \in Seq(Int), num \in Nat : storyRange[current] = DotRef(f, num) /\ Legible(f)
      BY <2>2 DEF RangeInv, NamesLegibleStory
    <3> QED BY <2>4, <3>1, IdIs, LegibleRef
  <2> HIDE DEF epic
  <2>6. Len(e) >= 1 /\ (IsNumber(e[1]) => Len(e) = 1)
    BY <2>4, <2>5, IdIs
  <2>7. ASSUME NEW i \in 1..n, NEW num \in Nat, storyRange[i] = DotRef(e, num) PROVE SplitRef(storyRange[i]).ok /\ i \in places
    <3>1. SplitRef(storyRange[i]).ok
      BY <2>6, <2>7, IdIs
    <3>2. InEpic(e, storyRange[i])
      BY <2>7, <3>1, IdOfEpic
    <3> QED BY <2>2, <2>5, <3>1, <3>2
  <2>8. ASSUME NEW i \in places PROVE SplitRef(storyRange[i]).ok /\ \E num \in Nat : storyRange[i] = DotRef(e, num)
    <3>1. PICK f \in Seq(Int), num \in Nat : storyRange[i] = DotRef(f, num)
      BY <2>2, <2>3
    <3>2. storyRange[i].dot /\ IsRef(storyRange[i])
      BY <3>1, IdIs
    <3>3. NormalizeForEpic(e, storyRange[i]).ok /\ NormalizeForEpic(e, storyRange[i]).epic = e
      BY <2>5 DEF InEpic, IsOfEpic
    <3>4. NormalizeForEpic(e, storyRange[i]) \in {NormalizeStoryKey(storyRange[i]), NotAKey}
      BY <3>2 DEF NormalizeForEpic
    <3>5. NormalizeStoryKey(storyRange[i]).ok /\ NormalizeStoryKey(storyRange[i]).epic = e
      BY <3>3, <3>4, NotAKeyIs
    <3>6. SplitRef(storyRange[i]).ok /\ SplitRef(storyRange[i]).epic = e
      BY <3>2, <3>5, NormalizedIs DEF IsRef
    <3>7. f = e
      BY <3>1, <3>6, IdIs, StoryOfIs
    <3> QED BY <3>1, <3>6, <3>7
  <2>9. listed = Picked(storyRange, places)
    BY DEF StateStories
  <2>10. places \in SUBSET (1..n)
    BY <2>2
  <2> HIDE DEF places, listed
  <2>11. PICK m \in Nat : /\ DOMAIN listed = 1..m
                          /\ \A k \in 1..m : PicksFrom(places, storyRange, listed[k])
                          /\ \A i \in places : PicksFrom(1..m, listed, storyRange[i])
    BY <2>2, <2>9, <2>10, PickedIs
  <2>12. \A k \in 1..m : SplitRef(listed[k]).ok /\ \E num \in Nat : listed[k] = DotRef(e, num)
    BY <2>8, <2>11 DEF PicksFrom
  <2>13. \A k \in 1..m : listed[k] \in Dedupe(e, listed)
    BY <2>11, <2>12, DedupeKeeps
  <2>14. ASSUME NEW i \in 1..n, Front(storyRange[i].segments) = epic
         PROVE  \E r \in DOMAIN rows : rows[r].status = "done" /\ SameStory(SplitRef(Ref(rows[r].key)), SplitRef(storyRange[i]))
    <3>1. PICK f \in Seq(Int), num \in Nat : storyRange[i] = DotRef(f, num)
      BY <2>3
    <3>2. f = e
      BY <2>5, <2>14, <3>1, IdIs
    <3>3. SplitRef(storyRange[i]).ok /\ i \in places
      BY <2>7, <3>1, <3>2
    <3>4. PICK k \in 1..m : listed[k] = storyRange[i]
      BY <2>11, <3>3 DEF PicksFrom
    <3>5. listed # <<>>
      BY <2>11, <3>4
    <3>6. GetEpicStories(e) = Dedupe(e, listed)
      BY <2>5, <3>5 DEF GetEpicStories, listed
    <3>7. IsDone(storyRange[i])
      BY <2>1, <2>5, <2>13, <3>4, <3>6
    <3> QED BY <3>1, <3>3, <3>7, DoneRow DEF RangeInv
  <2> QED BY <2>1, <2>2, <2>14 DEF Retrospected
<1>2. CASE StatusNext /\ UNCHANGED <<storyRange, source, current, retros>>
  BY <1>2 DEF Retrospected
<1>3. ASSUME NEW doc \in EpicDocs, NEW picks \in Selections, ChooseRange(doc, picks) PROVE Retrospected
  BY <1>3 DEF ChooseRange, Retrospected
<1>4. CASE FinishStory
  BY <1>4 DEF FinishStory, Retrospected
<1> QED BY <1>1, <1>2, <1>3, <1>4 DEF EpicRunNext

LEMMA RetroIsLast == EpicRunSpec => RetroMeansDone
<1>1. EpicRunSpec => [][Retrospected]_epicRunVars
  BY RangeInit_Inv, RangeStepInv, RetroStep, PTL DEF EpicRunSpec
<1> QED BY <1>1 DEF RetroMeansDone, Retrospected

-----------------------------------------------------------------------------
(***************************************************************************)
(* AgentConfig: the state document's copy of a configuration and the plan  *)
(* made of it answer what the package's other resolver makes of it.        *)
(***************************************************************************)
\* Two entries that state the same agent, and a model that is the same once it is normalized.
SameEntry(e, f) ==
  /\ DOMAIN e = DOMAIN f
  /\ "primary" \in DOMAIN e => e.primary = f.primary
  /\ "fallback" \in DOMAIN e => e.fallback = f.fallback
  /\ "model" \in DOMAIN e => NormalizeModel(e.model) = NormalizeModel(f.model)

LEMMA AppliedSame ==
  ASSUME NEW e, NEW f, SameEntry(e, f), NEW selection
  PROVE  Applied(selection, e) = Applied(selection, f)
BY DEF SameEntry, Applied, Get

LEMMA WrittenReadEntry ==
  ASSUME NEW e, IsStated(e)
  PROVE  SameEntry(ReadEntry(WrittenEntry(e)), e)
<1> DEFINE written == WrittenEntry(e) read == ReadEntry(written)
<1>1. DOMAIN written = DOMAIN e /\ DOMAIN read = DOMAIN e
  BY DEF WrittenEntry, ReadEntry
<1>2. ASSUME NEW k \in DOMAIN e PROVE read[k] = ParseScalar(IF k = "model" THEN NormalizeModel(e[k]) ELSE e[k])
  BY <1>1 DEF ReadEntry, WrittenEntry
<1> HIDE DEF read
<1>3. "primary" \in DOMAIN e => read.primary = e.primary
  BY <1>2 DEF IsStated, Get, Truthy, ParseScalar
<1>4. "fallback" \in DOMAIN e => read.fallback = e.fallback
  BY <1>2 DEF IsStated, Get, ParseScalar
<1>5. "model" \in DOMAIN e => NormalizeModel(read.model) = NormalizeModel(e.model)
  BY <1>2 DEF ParseScalar, NormalizeModel
<1> QED BY <1>1, <1>3, <1>4, <1>5 DEF SameEntry, read

LEMMA WithKeyIs ==
  ASSUME NEW object, NEW key, NEW value
  PROVE  /\ DOMAIN WithKey(object, key, value) = DOMAIN object \cup {key}
         /\ WithKey(object, key, value)[key] = value
         /\ \A k \in DOMAIN object \ {key} : WithKey(object, key, value)[k] = object[k]
BY DEF WithKey

LEMMA EmptyIs == DOMAIN Empty = {}
BY DEF Empty

\* A map read back has the tasks of the written one, and entries that state the same.
LEMMA WrittenReadMap ==
  ASSUME NEW map, NEW task, IsStated(Get(map, task, Empty))
  PROVE  SameEntry(Get(ReadMap(WrittenMap(map)), task, Empty), Get(map, task, Empty))
<1>1. DOMAIN ReadMap(WrittenMap(map)) = DOMAIN map
  BY DEF ReadMap, WrittenMap
<1>2. CASE task \in DOMAIN map
  <2>1. ReadMap(WrittenMap(map))[task] = ReadEntry(WrittenEntry(map[task]))
    BY <1>2 DEF ReadMap, WrittenMap
  <2> QED BY <1>1, <1>2, <2>1, WrittenReadEntry DEF Get
<1>3. CASE task \notin DOMAIN map
  BY <1>1, <1>3, EmptyIs DEF Get, SameEntry
<1> QED BY <1>2, <1>3

LEMMA RereadIs ==
  ASSUME NEW block, {"perTask", "complexityOverrides"} \subseteq DOMAIN block
  PROVE  /\ DOMAIN Reread(block) = DOMAIN block
         /\ Reread(block).perTask = ReadMap(block.perTask)
         /\ Reread(block).complexityOverrides = [l \in DOMAIN block.complexityOverrides |-> ReadMap(block.complexityOverrides[l])]
         /\ \A k \in DOMAIN block \ {"perTask", "complexityOverrides"} : Reread(block)[k] = block[k]
BY DEF Reread

BlockKeys == {"defaultPrimary", "defaultFallback", "perTask", "complexityOverrides"}

\* The three fields that have a default or another name.
OverridesOf(data) == Get(data, "complexityOverrides", Empty)
FallbackOf(data) == Get(data, "defaultFallback", Get(data, "fallback", "FALSE"))
PrimaryOf(data) == Get(data, "defaultPrimary", "NULL")
Overriding(data) == {l \in DOMAIN OverridesOf(data) : OverridesOf(data)[l] # Empty}
BlockKeysOf(data) == BlockKeys \cup (IF "defaultModel" \in DOMAIN data THEN {"defaultModel"} ELSE {})

LEMMA WrittenIs ==
  ASSUME NEW data, NEW written, written = WrittenConfig(data)
  PROVE  /\ DOMAIN written = BlockKeysOf(data)
         /\ written.defaultPrimary = IF PrimaryOf(data) = "NULL" THEN Or(Get(data, "primary", ""), "auto") ELSE PrimaryOf(data)
         /\ written.defaultFallback = IF FallbackOf(data) = "NULL" THEN "FALSE" ELSE FallbackOf(data)
         /\ written.perTask = WrittenMap(WithRetro(data))
         /\ written.complexityOverrides = [level \in Overriding(data) |-> WrittenMap(OverridesOf(data)[level])]
         /\ "defaultModel" \in DOMAIN data => written.defaultModel = NormalizeModel(data.defaultModel)
<1> DEFINE overrides == OverridesOf(data)
           fallback == FallbackOf(data)
           primary == PrimaryOf(data)
<1> DEFINE block == [defaultPrimary |-> IF primary = "NULL" THEN Or(Get(data, "primary", ""), "auto") ELSE primary,
                     defaultFallback |-> IF fallback = "NULL" THEN "FALSE" ELSE fallback,
                     perTask |-> WrittenMap(WithRetro(data)),
                     complexityOverrides |-> [level \in Overriding(data) |-> WrittenMap(overrides[level])]]
<1>1. written = IF "defaultModel" \in DOMAIN data THEN WithKey(block, "defaultModel", NormalizeModel(data.defaultModel)) ELSE block
  BY DEF WrittenConfig, OverridesOf, FallbackOf, PrimaryOf, Overriding
<1>2. /\ DOMAIN block = BlockKeys
      /\ block.defaultPrimary = IF primary = "NULL" THEN Or(Get(data, "primary", ""), "auto") ELSE primary
      /\ block.defaultFallback = IF fallback = "NULL" THEN "FALSE" ELSE fallback
      /\ block.perTask = WrittenMap(WithRetro(data))
      /\ block.complexityOverrides = [level \in Overriding(data) |-> WrittenMap(overrides[level])]
  BY DEF BlockKeys
<1> HIDE DEF block, overrides, fallback, primary
<1>3. /\ DOMAIN written = BlockKeys \cup (IF "defaultModel" \in DOMAIN data THEN {"defaultModel"} ELSE {})
      /\ \A k \in BlockKeys : written[k] = block[k]
      /\ "defaultModel" \in DOMAIN data => written.defaultModel = NormalizeModel(data.defaultModel)
  <2>1. CASE "defaultModel" \in DOMAIN data
    <3> DEFINE model == NormalizeModel(data.defaultModel)
    <3> HIDE DEF model
    <3>1. written = WithKey(block, "defaultModel", model)
      BY <1>1, <2>1 DEF model
    <3>2. /\ DOMAIN written = DOMAIN block \cup {"defaultModel"} /\ written["defaultModel"] = model
          /\ \A k \in DOMAIN block \ {"defaultModel"} : written[k] = block[k]
      BY <3>1, Zenon DEF WithKey
    <3>3. BlockKeys \ {"defaultModel"} = BlockKeys
      BY DEF BlockKeys
    <3> QED BY <1>2, <2>1, <3>2, <3>3 DEF model
  <2>2. CASE "defaultModel" \notin DOMAIN data
    BY <1>1, <1>2, <2>2
  <2> QED BY <2>1, <2>2
<1>4. /\ written.defaultPrimary = block.defaultPrimary /\ written.defaultFallback = block.defaultFallback
      /\ written.perTask = block.perTask /\ written.complexityOverrides = block.complexityOverrides
  BY <1>3 DEF BlockKeys
<1> QED BY <1>2, <1>3, <1>4 DEF BlockKeysOf, overrides, fallback, primary

\* The levels of the copy: those that override something, each with the same entries.
LEMMA RereadLevels ==
  ASSUME NEW overrides, NEW level, NEW task, NEW block,
         IsStated(Get(Get(overrides, level, Empty), task, Empty)),
         block = [l \in {l \in DOMAIN overrides : overrides[l] # Empty} |-> WrittenMap(overrides[l])]
  PROVE  SameEntry(Get(Get([l \in DOMAIN block |-> ReadMap(block[l])], level, Empty), task, Empty),
                   Get(Get(overrides, level, Empty), task, Empty))
<1> DEFINE read == [l \in DOMAIN block |-> ReadMap(block[l])]
<1>1. DOMAIN read = {l \in DOMAIN overrides : overrides[l] # Empty}
      /\ \A l \in DOMAIN read : read[l] = ReadMap(WrittenMap(overrides[l]))
  OBVIOUS
<1> HIDE DEF read
<1>2. SameEntry(Empty, Empty)
  BY EmptyIs DEF SameEntry
<1>3. CASE level \in DOMAIN read
  <2>1. Get(read, level, Empty) = ReadMap(WrittenMap(overrides[level])) /\ Get(overrides, level, Empty) = overrides[level]
        /\ level \in DOMAIN overrides
    BY <1>1, <1>3 DEF Get
  <2>2. SameEntry(Get(ReadMap(WrittenMap(overrides[level])), task, Empty), Get(overrides[level], task, Empty))
    BY <2>1, WrittenReadMap
  <2> QED BY <2>1, <2>2 DEF read
<1>4. CASE level \notin DOMAIN read
  <2>1. Get(read, level, Empty) = Empty /\ Get(overrides, level, Empty) = Empty
    BY <1>1, <1>4 DEF Get
  <2>2. Get(Empty, task, Empty) = Empty
    BY EmptyIs DEF Get
  <2> QED BY <1>2, <2>1, <2>2 DEF read
<1> QED BY <1>3, <1>4

LEMMA NormalizeTwice == ASSUME NEW raw PROVE NormalizeModel(NormalizeModel(raw)) = NormalizeModel(raw) /\ NormalizeModel(raw) # "NULL"
BY DEF NormalizeModel

LEMMA EntriesAreStated ==
  ASSUME NEW data, NEW level, NEW task, StatesAgents(data, level, task)
  PROVE  /\ IsStated(Get(WithRetro(data), task, Empty))
         /\ IsStated(Get(Get(OverridesOf(data), level, Empty), task, Empty))
BY DEF StatesAgents, EntriesOf, OverridesOf

\* The copy is parsed to the same defaults, and to entries that state the same.
LEMMA ParsedAgain ==
  ASSUME NEW data, NEW level, NEW task, StatesAgents(data, level, task),
         NEW copy, copy = ParseAgentConfig(Reread(WrittenConfig(data))),
         NEW config, config = ParseAgentConfig(data)
  PROVE  /\ copy.primary = config.primary /\ copy.fallback = config.fallback /\ copy.model = config.model
         /\ SameEntry(Get(copy.perTask, task, Empty), Get(config.perTask, task, Empty))
         /\ SameEntry(Get(Get(copy.overrides, level, Empty), task, Empty), Get(Get(config.overrides, level, Empty), task, Empty))
<1> DEFINE overrides == OverridesOf(data)
           fallback == FallbackOf(data)
           primary == PrimaryOf(data)
           written == WrittenConfig(data)
           block == Reread(written)
<1>1. /\ DOMAIN written = BlockKeysOf(data)
      /\ written.defaultPrimary = IF primary = "NULL" THEN Or(Get(data, "primary", ""), "auto") ELSE primary
      /\ written.defaultFallback = IF fallback = "NULL" THEN "FALSE" ELSE fallback
      /\ written.perTask = WrittenMap(WithRetro(data))
      /\ written.complexityOverrides = [l \in Overriding(data) |-> WrittenMap(overrides[l])]
      /\ "defaultModel" \in DOMAIN data => written.defaultModel = NormalizeModel(data.defaultModel)
  <2> HIDE DEF written
  <2>1. written = WrittenConfig(data)
    BY DEF written
  <2> QED BY <2>1, WrittenIs
<1> HIDE DEF written, overrides, fallback, primary
<1>11. /\ BlockKeys \subseteq DOMAIN written /\ "primary" \notin DOMAIN written /\ "retro" \notin DOMAIN written
       /\ "defaultModel" \in DOMAIN written <=> "defaultModel" \in DOMAIN data
  <2>1. DOMAIN written = BlockKeysOf(data)
    BY <1>1
  <2> QED BY <2>1 DEF BlockKeysOf, BlockKeys
<1>2. /\ DOMAIN block = DOMAIN written
      /\ block.perTask = ReadMap(written.perTask)
      /\ block.complexityOverrides = [l \in DOMAIN written.complexityOverrides |-> ReadMap(written.complexityOverrides[l])]
      /\ \A k \in DOMAIN written \ {"perTask", "complexityOverrides"} : block[k] = written[k]
  <2>1. {"perTask", "complexityOverrides"} \subseteq DOMAIN written
    BY <1>11 DEF BlockKeys
  <2> QED BY <2>1, RereadIs
<1> HIDE DEF block
<1>3. /\ "primary" \notin DOMAIN block /\ "retro" \notin DOMAIN block
      /\ BlockKeys \subseteq DOMAIN block /\ ("defaultModel" \in DOMAIN block <=> "defaultModel" \in DOMAIN data)
      /\ block.defaultPrimary = written.defaultPrimary /\ block.defaultFallback = written.defaultFallback
      /\ "defaultModel" \in DOMAIN data => block.defaultModel = NormalizeModel(data.defaultModel)
  <2>1. /\ "primary" \notin DOMAIN block /\ "retro" \notin DOMAIN block
        /\ BlockKeys \subseteq DOMAIN block /\ ("defaultModel" \in DOMAIN block <=> "defaultModel" \in DOMAIN data)
    BY <1>2, <1>11
  <2>2. {"defaultPrimary", "defaultFallback"} \subseteq DOMAIN written \ {"perTask", "complexityOverrides"}
    BY <1>11 DEF BlockKeys
  <2>3. block.defaultPrimary = written.defaultPrimary /\ block.defaultFallback = written.defaultFallback
    BY <1>2, <2>2
  <2>4. ASSUME "defaultModel" \in DOMAIN data PROVE block.defaultModel = NormalizeModel(data.defaultModel)
    <3>1. "defaultModel" \in DOMAIN written \ {"perTask", "complexityOverrides"}
      BY <1>11, <2>4
    <3> QED BY <1>1, <1>2, <2>4, <3>1
  <2> QED BY <2>1, <2>3, <2>4
<1>4. /\ copy.primary = Or(block.defaultPrimary, "auto")
      /\ copy.fallback = IF block.defaultFallback \in {"FALSE", "none"} THEN "false" ELSE Or(block.defaultFallback, "false")
      /\ copy.model = NormalizeModel(Get(block, "defaultModel", "NULL"))
      /\ copy.perTask = block.perTask /\ copy.overrides = block.complexityOverrides
  <2>1. copy = ParseAgentConfig(block)
    BY DEF block, written
  <2>2. Get(block, "defaultPrimary", "") = block.defaultPrimary /\ Get(block, "primary", "") = ""
        /\ Get(block, "defaultFallback", Get(block, "fallback", "FALSE")) = block.defaultFallback
        /\ WithRetro(block) = block.perTask /\ Get(block, "complexityOverrides", Empty) = block.complexityOverrides
    BY <1>3 DEF BlockKeys, Get, WithRetro
  <2>3. Or("", "auto") = "auto"
    BY DEF Or, Truthy
  <2>4. ParseAgentConfig(block) =
          [primary |-> Or(block.defaultPrimary, "auto"),
           fallback |-> IF block.defaultFallback \in {"FALSE", "none"} THEN "false" ELSE Or(block.defaultFallback, "false"),
           model |-> NormalizeModel(Get(block, "defaultModel", "NULL")),
           perTask |-> block.perTask, overrides |-> block.complexityOverrides]
    BY <2>2, <2>3, Zenon DEF ParseAgentConfig
  <2> QED BY <2>1, <2>4
<1>5. /\ config.primary = Or(Get(data, "defaultPrimary", ""), Or(Get(data, "primary", ""), "auto"))
      /\ config.fallback = IF fallback \in {"FALSE", "none"} THEN "false" ELSE Or(fallback, "false")
      /\ config.model = NormalizeModel(Get(data, "defaultModel", "NULL"))
      /\ config.perTask = WithRetro(data) /\ config.overrides = overrides
  BY DEF ParseAgentConfig, fallback, overrides, FallbackOf, OverridesOf
<1>6. copy.primary = config.primary
  <2> DEFINE rest == Or(Get(data, "primary", ""), "auto")
  <2>1. Truthy(rest)
    BY DEF Or, Truthy
  <2> HIDE DEF rest
  <2>3. CASE "defaultPrimary" \in DOMAIN data
    <3>1. Truthy(data.defaultPrimary) /\ primary = data.defaultPrimary /\ Get(data, "defaultPrimary", "") = data.defaultPrimary
      BY <2>3 DEF StatesAgents, primary, PrimaryOf, Get
    <3> QED BY <1>1, <1>3, <1>4, <1>5, <3>1 DEF Or, Truthy
  <2>4. CASE "defaultPrimary" \notin DOMAIN data
    <3>1. primary = "NULL" /\ Get(data, "defaultPrimary", "") = ""
      BY <2>4 DEF primary, PrimaryOf, Get
    <3>2. written.defaultPrimary = rest /\ config.primary = rest
      BY <1>1, <1>5, <3>1 DEF Or, Truthy, rest
    <3> QED BY <1>3, <1>4, <2>1, <3>2 DEF Or
  <2> QED BY <2>3, <2>4
<1>7. copy.fallback = config.fallback
  BY <1>1, <1>3, <1>4, <1>5 DEF Or, Truthy
<1>8. copy.model = config.model
  BY <1>3, <1>4, <1>5, NormalizeTwice DEF Get
<1>9. SameEntry(Get(copy.perTask, task, Empty), Get(config.perTask, task, Empty))
  <2>1. IsStated(Get(WithRetro(data), task, Empty))
    BY EntriesAreStated
  <2> QED BY <1>1, <1>2, <1>4, <1>5, <2>1, WrittenReadMap
<1>10. SameEntry(Get(Get(copy.overrides, level, Empty), task, Empty), Get(Get(config.overrides, level, Empty), task, Empty))
  <2>1. IsStated(Get(Get(overrides, level, Empty), task, Empty))
    BY EntriesAreStated DEF overrides
  <2> DEFINE stored == written.complexityOverrides
  <2>2. stored = [l \in Overriding(data) |-> WrittenMap(overrides[l])]
        /\ copy.overrides = [l \in DOMAIN stored |-> ReadMap(stored[l])] /\ config.overrides = overrides
    BY <1>1, <1>2, <1>4, <1>5
  <2> HIDE DEF stored
  <2>3. Overriding(data) = {l \in DOMAIN overrides : overrides[l] # Empty}
    BY DEF Overriding, overrides
  <2> QED BY <2>1, <2>2, <2>3, RereadLevels
<1> QED BY <1>6, <1>7, <1>8, <1>9, <1>10

\* So it resolves to the same agents.
LEMMA CopyResolves ==
  ASSUME NEW data, NEW level, NEW task, StatesAgents(data, level, task)
  PROVE  ResolveAgent(ParseAgentConfig(Reread(WrittenConfig(data))), level, task) = ResolveAgent(ParseAgentConfig(data), level, task)
<1> DEFINE copy == ParseAgentConfig(Reread(WrittenConfig(data)))
           config == ParseAgentConfig(data)
           default(c) == [primary |-> c.primary, fallback |-> c.fallback, model |-> c.model]
           forTask(c) == Applied(default(c), Get(c.perTask, task, Empty))
           forLevel(c) == Applied(forTask(c), Get(Get(c.overrides, level, Empty), task, Empty))
<1>1. /\ copy.primary = config.primary /\ copy.fallback = config.fallback /\ copy.model = config.model
      /\ SameEntry(Get(copy.perTask, task, Empty), Get(config.perTask, task, Empty))
      /\ SameEntry(Get(Get(copy.overrides, level, Empty), task, Empty), Get(Get(config.overrides, level, Empty), task, Empty))
  BY ParsedAgain
<1>2. ASSUME NEW c PROVE ResolveAgent(c, level, task) = [primary |-> ResolvePrimaryAgent(forLevel(c).primary),
         fallback |-> ResolveFallbackAgent(forLevel(c).fallback), model |-> forLevel(c).model]
  BY DEF ResolveAgent
<1> HIDE DEF copy, config
<1>3. default(copy) = default(config)
  BY <1>1
<1> HIDE DEF default
<1>4. forTask(copy) = forTask(config)
  BY <1>1, <1>3, AppliedSame
<1> HIDE DEF forTask
<1>5. forLevel(copy) = forLevel(config)
  BY <1>1, <1>4, AppliedSame
<1> HIDE DEF forLevel
<1>6. ResolveAgent(copy, level, task) = ResolveAgent(config, level, task)
  BY <1>2, <1>5
<1> QED BY <1>6 DEF copy, config

-----------------------------------------------------------------------------
(***************************************************************************)
(* The other resolver of the package makes the same of a configuration.    *)
(***************************************************************************)
SameChoice(s, t) == s.primary = t.primary /\ s.model = t.model /\ ResolveFallbackAgent(s.fallback) = ResolveFallbackAgent(t.fallback)

LEMMA EmptyReading == ParseTaskEntry(Empty) = NoEntry
BY EmptyIs DEF ParseTaskEntry, NoEntry, Get, AsWord

LEMMA FallbackTwice ==
  ASSUME NEW raw
  PROVE  /\ ResolveFallbackAgent(NormalizeFallbackValue(raw)) = ResolveFallbackAgent(raw)
<1>0. /\ NormalizeFallbackValue("false") = "false" /\ NormalizeFallbackValue("") = ""
      /\ ResolveFallbackAgent("false") = "false" /\ ResolveFallbackAgent("") = "false"
  BY DEF ResolveFallbackAgent, NormalizeFallbackValue
<1>1. CASE raw \in {"FALSE", "none"}
  <2>1. NormalizeFallbackValue(raw) = "false"
    BY <1>1 DEF NormalizeFallbackValue
  <2>2. ResolveFallbackAgent(raw) = "false"
    BY <2>1 DEF ResolveFallbackAgent
  <2> QED BY <1>0, <2>1, <2>2
<1>2. CASE raw = "NULL"
  <2>1. NormalizeFallbackValue(raw) = ""
    BY <1>2 DEF NormalizeFallbackValue
  <2>2. ResolveFallbackAgent(raw) = "false"
    BY <2>1 DEF ResolveFallbackAgent
  <2> QED BY <1>0, <2>1, <2>2
<1>3. CASE raw \notin {"FALSE", "none", "NULL"}
  <2>1. NormalizeFallbackValue(raw) = raw
    BY <1>3 DEF NormalizeFallbackValue
  <2>2. ResolveFallbackAgent(raw) = IF raw \in {"", "auto", "false"} THEN "false" ELSE raw
    BY <2>1 DEF ResolveFallbackAgent
  <2> QED BY <1>3, <2>1, <2>2
<1> QED BY <1>1, <1>2, <1>3

LEMMA EntryChoice ==
  ASSUME NEW entry, IsStated(entry), NEW s, NEW t, SameChoice(s, t)
  PROVE  SameChoice(Applied(s, entry), Overridden(t, ParseTaskEntry(entry)))
<1> DEFINE parsed == ParseTaskEntry(entry) one == Applied(s, entry) other == Overridden(t, parsed)
<1>1. /\ parsed.primary = AsWord(Get(entry, "primary", "")) /\ parsed.fallback = Get(entry, "fallback", "NULL")
      /\ parsed.model = IF "model" \in DOMAIN entry THEN NormalizeModel(entry.model) ELSE "NULL"
  BY DEF ParseTaskEntry
<1>2. /\ one.primary = Get(entry, "primary", s.primary) /\ one.fallback = Get(entry, "fallback", s.fallback)
      /\ one.model = IF "model" \in DOMAIN entry THEN NormalizeModel(entry.model) ELSE s.model
  BY DEF Applied
<1>3. /\ other.primary = Or(parsed.primary, t.primary)
      /\ other.fallback = IF parsed.fallback = "NULL" THEN t.fallback ELSE NormalizeFallbackValue(parsed.fallback)
      /\ other.model = IF parsed.model = "NULL" THEN t.model ELSE parsed.model
  BY DEF Overridden
<1> HIDE DEF parsed, one, other
<1>4. one.primary = other.primary
  <2>1. CASE "primary" \in DOMAIN entry
    BY <1>1, <1>2, <1>3, <2>1 DEF Get, IsStated, AsWord, Or, Truthy
  <2>2. CASE "primary" \notin DOMAIN entry
    BY <1>1, <1>2, <1>3, <2>2 DEF Get, AsWord, Or, Truthy, SameChoice
  <2> QED BY <2>1, <2>2
<1>5. one.model = other.model
  BY <1>1, <1>2, <1>3, NormalizeTwice DEF SameChoice
<1>6. ResolveFallbackAgent(one.fallback) = ResolveFallbackAgent(other.fallback)
  <2>1. CASE "fallback" \in DOMAIN entry
    <3>1. entry.fallback # "NULL" /\ one.fallback = entry.fallback /\ other.fallback = NormalizeFallbackValue(entry.fallback)
      BY <1>1, <1>2, <1>3, <2>1 DEF Get, IsStated
    <3> QED BY <3>1, FallbackTwice
  <2>2. CASE "fallback" \notin DOMAIN entry
    BY <1>1, <1>2, <1>3, <2>2 DEF Get, SameChoice
  <2> QED BY <2>1, <2>2
<1> QED BY <1>4, <1>5, <1>6 DEF SameChoice, parsed, one, other

LEMMA ParsedTask ==
  ASSUME NEW map, NEW task
  PROVE  Get(ParseTaskMap(map), task, NoEntry) = ParseTaskEntry(Get(map, task, Empty))
<1>1. DOMAIN ParseTaskMap(map) = DOMAIN map
  BY DEF ParseTaskMap
<1>2. CASE task \in DOMAIN map
  <2>1. ParseTaskMap(map)[task] = ParseTaskEntry(map[task])
    BY <1>2 DEF ParseTaskMap
  <2> QED BY <1>1, <1>2, <2>1 DEF Get
<1>3. CASE task \notin DOMAIN map
  BY <1>1, <1>3, EmptyReading DEF Get
<1> QED BY <1>2, <1>3

LEMMA ParsedLevel ==
  ASSUME NEW overrides, NEW level, NEW task
  PROVE  Get(Get([l \in DOMAIN overrides |-> ParseTaskMap(overrides[l])], level, Empty), task, NoEntry)
           = ParseTaskEntry(Get(Get(overrides, level, Empty), task, Empty))
<1> DEFINE parsed == [l \in DOMAIN overrides |-> ParseTaskMap(overrides[l])]
<1>1. DOMAIN parsed = DOMAIN overrides /\ \A l \in DOMAIN overrides : parsed[l] = ParseTaskMap(overrides[l])
  OBVIOUS
<1> HIDE DEF parsed
<1>2. CASE level \in DOMAIN overrides
  <2>1. Get(parsed, level, Empty) = ParseTaskMap(overrides[level]) /\ Get(overrides, level, Empty) = overrides[level]
    BY <1>1, <1>2 DEF Get
  <2> QED BY <2>1, ParsedTask DEF parsed
<1>3. CASE level \notin DOMAIN overrides
  <2>1. Get(parsed, level, Empty) = Empty /\ Get(overrides, level, Empty) = Empty
    BY <1>1, <1>3 DEF Get
  <2>2. Get(Empty, task, NoEntry) = NoEntry /\ Get(Empty, task, Empty) = Empty
    BY EmptyIs DEF Get
  <2> QED BY <2>1, <2>2, EmptyReading DEF parsed
<1> QED BY <1>2, <1>3

LEMMA ResolversAgree ==
  ASSUME NEW data, NEW level, NEW task, StatesAgents(data, level, task)
  PROVE  ResolveAgent(ParseAgentConfig(data), level, task) = ResolveAgentForTask(ParseAgentConfigJson(data), level, task)
<1> DEFINE config == ParseAgentConfig(data)
           parsed == ParseAgentConfigJson(data)
           default(c) == [primary |-> c.primary, fallback |-> c.fallback, model |-> c.model]
           taskEntry == Get(WithRetro(data), task, Empty)
           levelEntry == Get(Get(OverridesOf(data), level, Empty), task, Empty)
           one == Applied(Applied(default(config), taskEntry), levelEntry)
           other == Overridden(Overridden(default(parsed), ParseTaskEntry(taskEntry)), ParseTaskEntry(levelEntry))
<1>1. SameChoice(default(config), default(parsed))
  <2>1. /\ config.primary = parsed.primary /\ config.model = parsed.model
        /\ config.fallback = IF FallbackOf(data) \in {"FALSE", "none"} THEN "false" ELSE Or(FallbackOf(data), "false")
        /\ parsed.fallback = Or(NormalizeFallbackValue(FallbackOf(data)), "false")
    BY DEF ParseAgentConfig, ParseAgentConfigJson, FallbackOf
  <2> HIDE DEF config, parsed
  <2>2. config.fallback = parsed.fallback
    BY <2>1 DEF NormalizeFallbackValue, Or, Truthy
  <2> QED BY <2>1, <2>2 DEF SameChoice
<1>2. ResolveAgent(config, level, task) = [primary |-> ResolvePrimaryAgent(one.primary),
        fallback |-> ResolveFallbackAgent(one.fallback), model |-> one.model]
  <2>1. config.perTask = WithRetro(data) /\ config.overrides = OverridesOf(data)
    BY DEF ParseAgentConfig, OverridesOf
  <2> HIDE DEF config
  <2> QED BY <2>1 DEF ResolveAgent
<1>3. ResolveAgentForTask(parsed, level, task) = [primary |-> ResolvePrimaryAgent(other.primary),
        fallback |-> ResolveFallbackAgent(other.fallback), model |-> other.model]
  <2>1. /\ parsed.perTask = ParseTaskMap(WithRetro(data))
        /\ parsed.overrides = [l \in DOMAIN OverridesOf(data) |-> ParseTaskMap(OverridesOf(data)[l])]
    BY DEF ParseAgentConfigJson, OverridesOf
  <2>2. /\ Get(parsed.perTask, task, NoEntry) = ParseTaskEntry(taskEntry)
        /\ Get(Get(parsed.overrides, level, Empty), task, NoEntry) = ParseTaskEntry(levelEntry)
    BY <2>1, ParsedTask, ParsedLevel
  <2> HIDE DEF parsed, taskEntry, levelEntry
  <2> QED BY <2>2 DEF ResolveAgentForTask
<1>4. IsStated(taskEntry) /\ IsStated(levelEntry)
  BY EntriesAreStated
<1> HIDE DEF config, parsed, default, taskEntry, levelEntry
<1>5. SameChoice(one, other)
  BY <1>1, <1>4, EntryChoice
<1> HIDE DEF one, other
<1>6. ResolveAgent(config, level, task) = ResolveAgentForTask(parsed, level, task)
  BY <1>2, <1>3, <1>5 DEF SameChoice
<1> QED BY <1>6 DEF config, parsed

\* A configuration that states runtimes states its agents.
LEMMA RuntimesAreStated ==
  ASSUME NEW data, NEW level, NEW task, StatesRuntimes(data, level, task)
  PROVE  StatesAgents(data, level, task)
<1>1. Get(data, "defaultPrimary", "auto") \in Runtimes \cup {"auto"}
  BY DEF StatesRuntimes
<1>2. ASSUME NEW entry \in EntriesOf(data, level, task) PROVE IsStated(entry)
  BY <1>2 DEF StatesRuntimes, NamesAgents, IsStated, Truthy, Runtimes, Fallbacks
<1> QED BY <1>1, <1>2 DEF StatesAgents, Truthy, Runtimes

\* What is resolved has a fallback and a model that are normalized already.
Settled(c) == NormalizeFallbackValue(c.fallback) = c.fallback /\ NormalizeModel(c.model) = c.model
Chosen(c) == c.primary \in Runtimes /\ c.fallback \in Runtimes \cup {"false"}

LEMMA AppliedIs ==
  ASSUME NEW s, NEW entry, NamesAgents(entry), s.primary \in Runtimes \cup {"auto"}, s.fallback \in Fallbacks \cup {"NULL"}
  PROVE  /\ Applied(s, entry).primary \in Runtimes \cup {"auto"}
         /\ Applied(s, entry).fallback \in Fallbacks \cup {"NULL"}
BY DEF Applied, Get, NamesAgents

LEMMA AppliedModel ==
  ASSUME NEW s, NEW entry, NormalizeModel(s.model) = s.model
  PROVE  NormalizeModel(Applied(s, entry).model) = Applied(s, entry).model
BY NormalizeTwice DEF Applied

LEMMA ResolvedFallback ==
  ASSUME NEW raw
  PROVE  NormalizeFallbackValue(ResolveFallbackAgent(raw)) = ResolveFallbackAgent(raw)
<1> DEFINE normal == NormalizeFallbackValue(raw)
<1>1. ResolveFallbackAgent(raw) = IF normal \in {"", "auto", "false"} THEN "false" ELSE normal
  BY DEF ResolveFallbackAgent
<1>2. NormalizeFallbackValue("false") = "false"
  BY DEF NormalizeFallbackValue
<1>3. normal \in {"", "auto", "false"} \/ (normal = raw /\ raw \notin {"FALSE", "none", "NULL"})
  <2>1. normal = IF raw \in {"FALSE", "none"} THEN "false" ELSE IF raw = "NULL" THEN "" ELSE raw
    BY DEF NormalizeFallbackValue
  <2> HIDE DEF normal
  <2> QED BY <2>1
<1>4. CASE normal \in {"", "auto", "false"}
  BY <1>1, <1>2, <1>4
<1>5. CASE normal \notin {"", "auto", "false"}
  BY <1>1, <1>3, <1>5 DEF NormalizeFallbackValue
<1> QED BY <1>4, <1>5

LEMMA ResolvedIs ==
  ASSUME NEW data, NEW level, NEW task
  PROVE  LET c == ResolveAgent(ParseAgentConfig(data), level, task) IN
         /\ Settled(c)
         /\ StatesRuntimes(data, level, task) /\ runtimeProvider \in Runtimes => Chosen(c)
<1> DEFINE config == ParseAgentConfig(data)
           default == [primary |-> config.primary, fallback |-> config.fallback, model |-> config.model]
           taskEntry == Get(WithRetro(data), task, Empty)
           levelEntry == Get(Get(OverridesOf(data), level, Empty), task, Empty)
           one == Applied(Applied(default, taskEntry), levelEntry)
<1>1. /\ config.primary = Or(Get(data, "defaultPrimary", ""), Or(Get(data, "primary", ""), "auto"))
      /\ config.fallback = IF FallbackOf(data) \in {"FALSE", "none"} THEN "false" ELSE Or(FallbackOf(data), "false")
      /\ config.model = NormalizeModel(Get(data, "defaultModel", "NULL"))
      /\ config.perTask = WithRetro(data) /\ config.overrides = OverridesOf(data)
  BY DEF ParseAgentConfig, FallbackOf, OverridesOf
<1> HIDE DEF config
<1>2. ResolveAgent(config, level, task) = [primary |-> ResolvePrimaryAgent(one.primary),
        fallback |-> ResolveFallbackAgent(one.fallback), model |-> one.model]
  <2> HIDE DEF taskEntry, levelEntry
  <2> QED BY <1>1 DEF ResolveAgent, taskEntry, levelEntry
<1>3. NormalizeModel(default.model) = default.model
  BY <1>1, NormalizeTwice
<1>4. NormalizeModel(one.model) = one.model
  <2> HIDE DEF default, taskEntry, levelEntry
  <2> QED BY <1>3, AppliedModel
<1>5. ASSUME StatesRuntimes(data, level, task), runtimeProvider \in Runtimes
      PROVE  ResolvePrimaryAgent(one.primary) \in Runtimes /\ ResolveFallbackAgent(one.fallback) \in Runtimes \cup {"false"}
  <2>1. config.primary \in Runtimes \cup {"auto"}
    <3>1. /\ Get(data, "primary", "auto") \in Runtimes \cup {"auto"}
          /\ Get(data, "defaultPrimary", "auto") \in Runtimes \cup {"auto"}
      BY <1>5 DEF StatesRuntimes
    <3> QED BY <1>1, <3>1 DEF Get, Or, Truthy, Runtimes
  <2>2. config.fallback \in Fallbacks \cup {"NULL"}
    <3>1. /\ Get(data, "fallback", "") \in Fallbacks \cup {"NULL"}
          /\ Get(data, "defaultFallback", "") \in Fallbacks \cup {"NULL"}
      BY <1>5 DEF StatesRuntimes
    <3>2. FallbackOf(data) \in Fallbacks \cup {"NULL"}
      BY <3>1 DEF FallbackOf, Get, Fallbacks
    <3> QED BY <1>1, <3>2 DEF Or, Truthy, Fallbacks, Runtimes
  <2>3. NamesAgents(taskEntry) /\ NamesAgents(levelEntry)
    BY <1>5 DEF StatesRuntimes, EntriesOf, OverridesOf
  <2>4. default.primary = config.primary /\ default.fallback = config.fallback
    OBVIOUS
  <2> HIDE DEF default, taskEntry, levelEntry
  <2>5. one.primary \in Runtimes \cup {"auto"} /\ one.fallback \in Fallbacks \cup {"NULL"}
    BY <2>1, <2>2, <2>3, <2>4, AppliedIs
  <2> HIDE DEF one
  <2>6. ResolvePrimaryAgent(one.primary) \in Runtimes
    BY <1>5, <2>5 DEF ResolvePrimaryAgent, Runtimes
  <2> QED BY <2>5, <2>6 DEF ResolveFallbackAgent, NormalizeFallbackValue, Fallbacks, Runtimes
<1> HIDE DEF one
<1> QED BY <1>2, <1>4, <1>5, ResolvedFallback DEF Settled, Chosen, config

-----------------------------------------------------------------------------
(***************************************************************************)
(* The invariant: a copy is of the configuration of the run, a plan is     *)
(* made of it, and an answer is what the configuration resolves to.        *)
(***************************************************************************)
ChosenFor(level, task) == ResolveAgent(ParseAgentConfig(given), level, task)
Plan == [level \in Levels |-> [task \in Tasks \ {"retro"} |-> Selection(ChosenFor(level, task))]]
Answer(level, task) ==
  [level |-> level, task |-> task, primary |-> ChosenFor(level, task).primary,
   fallback |-> ChosenFor(level, task).fallback, model |-> ChosenFor(level, task).model]

IsAnswered(level, task) == selected.level = level /\ selected.task = task
CopyIs == stated = NoStateDoc \/ stated = WrittenConfig(given)
PlanIs == agents = NoStateDoc \/ agents = Plan
AnswerIs ==
  \/ selected = NoStateDoc
  \/ /\ stated # NoStateDoc \/ agents # NoStateDoc
     /\ \A level, task : IsAnswered(level, task) /\ StatesAgents(given, level, task) => selected = Answer(level, task)
AgentInv == AgentTypeOK /\ CopyIs /\ PlanIs /\ AnswerIs

\* Both depend on the configuration and on the runtime only.
LEMMA AnswersStay ==
  ASSUME given' = given, runtimeProvider' = runtimeProvider
  PROVE  /\ Plan' = Plan
         /\ \A l, t : Answer(l, t)' = Answer(l, t) /\ StatesAgents(given, l, t)' = StatesAgents(given, l, t)
<1>1. \A raw : ResolvePrimaryAgent(raw)' = ResolvePrimaryAgent(raw)
  BY DEF ResolvePrimaryAgent
<1>2. \A l, t : ChosenFor(l, t)' = ChosenFor(l, t)
  BY <1>1 DEF ChosenFor, ResolveAgent
<1>3. \A l, t : StatesAgents(given, l, t)' = StatesAgents(given, l, t)
  OBVIOUS
<1> QED BY <1>2, <1>3 DEF Plan, Answer

\* A step that answers nothing new.
LEMMA AnswerStays ==
  ASSUME AnswerIs, selected' = selected, given' = given, runtimeProvider' = runtimeProvider,
         stated # NoStateDoc \/ agents # NoStateDoc => stated' # NoStateDoc \/ agents' # NoStateDoc
  PROVE  AnswerIs'
<1>1. \A l, t : /\ Answer(l, t)' = Answer(l, t) /\ StatesAgents(given, l, t)' = StatesAgents(given, l, t)
                /\ IsAnswered(l, t)' = IsAnswered(l, t)
  BY AnswersStay DEF IsAnswered
<1> QED BY <1>1 DEF AnswerIs

\* A step that answers for a task.
LEMMA AnswerGiven ==
  ASSUME NEW level, NEW task, given' = given, runtimeProvider' = runtimeProvider, stated' # NoStateDoc \/ agents' # NoStateDoc,
         selected'.level = level, selected'.task = task, StatesAgents(given, level, task) => selected' = Answer(level, task)
  PROVE  AnswerIs'
<1>1. \A l, t : /\ Answer(l, t)' = Answer(l, t) /\ StatesAgents(given, l, t)' = StatesAgents(given, l, t)
                /\ IsAnswered(l, t)' => l = level /\ t = task
  BY AnswersStay DEF IsAnswered
<1> QED BY <1>1 DEF AnswerIs

LEMMA AgentInit_Inv == AgentInit => AgentInv
<1> SUFFICES ASSUME AgentInit PROVE AgentInv
  OBVIOUS
<1>1. AgentTypeOK
  BY EmptyIs DEF AgentInit, AgentTypeOK
<1>2. CopyIs /\ PlanIs /\ AnswerIs
  BY Zenon DEF AgentInit, CopyIs, PlanIs, AnswerIs
<1> QED BY <1>1, <1>2 DEF AgentInv

\* A selection of the plan says what was chosen.
LEMMA SelectionSays ==
  ASSUME NEW c, Settled(c)
  PROVE  /\ Selection(c).primary = c.primary
         /\ NormalizeFallbackValue(Selection(c).fallback) = c.fallback
         /\ NormalizeModel(Get(Selection(c), "model", "NULL")) = c.model
<1> DEFINE pair == [primary |-> c.primary, fallback |-> IF c.fallback = "false" THEN "FALSE" ELSE c.fallback]
<1>1. Selection(c) = IF c.model # "" THEN WithKey(pair, "model", c.model) ELSE pair
  BY DEF Selection
<1>2. DOMAIN pair = {"primary", "fallback"} /\ pair.primary = c.primary
      /\ pair.fallback = IF c.fallback = "false" THEN "FALSE" ELSE c.fallback
  OBVIOUS
<1> HIDE DEF pair
<1>3. NormalizeFallbackValue(pair.fallback) = c.fallback
  BY <1>2 DEF NormalizeFallbackValue, Settled
<1>4. CASE c.model # ""
  <2>1. Selection(c) = WithKey(pair, "model", c.model)
    BY <1>1, <1>4
  <2>2. "model" \in DOMAIN Selection(c) /\ Selection(c)["model"] = c.model
        /\ \A k \in DOMAIN pair \ {"model"} : Selection(c)[k] = pair[k]
    BY <2>1, Zenon DEF WithKey
  <2>3. Selection(c).primary = pair.primary /\ Selection(c).fallback = pair.fallback
    BY <1>2, <2>2
  <2> QED BY <1>2, <1>3, <2>2, <2>3 DEF Get, Settled
<1>5. CASE c.model = ""
  BY <1>1, <1>2, <1>3, <1>5 DEF Get, NormalizeModel
<1> QED BY <1>4, <1>5

LEMMA AgentStepInv == ASSUME AgentInv, [AgentNext]_agentVars PROVE AgentInv'
<1> USE DEF AgentInv, CopyIs, PlanIs
<1>1. ASSUME NEW name \in PresetNames, PresetSave(name) PROVE AgentInv'
  <2>1. UNCHANGED <<given, stated, agents, runtimeProvider, selected>>
    BY <1>1 DEF PresetSave
  <2>2. AgentTypeOK'
    <3>1. presets' = [n \in DOMAIN presets \cup {name} |-> IF n = name THEN given ELSE presets[n]]
      BY <1>1 DEF PresetSave
    <3> QED BY <2>1, <3>1 DEF AgentTypeOK
  <2> QED BY <2>1, <2>2, AnswersStay, AnswerStays
<1>2. ASSUME NEW name \in PresetNames, PresetLoad(name) PROVE AgentInv'
  <2>1. /\ name \in DOMAIN presets /\ given' = presets[name] /\ stated = NoStateDoc /\ agents = NoStateDoc
        /\ UNCHANGED <<presets, stated, agents, runtimeProvider, selected>>
    BY <1>2 DEF PresetLoad
  <2>2. AgentTypeOK'
    BY <2>1 DEF AgentTypeOK
  <2>3. CopyIs' /\ PlanIs'
    BY <2>1
  <2>4. selected' = NoStateDoc
    BY <2>1 DEF AnswerIs
  <2> QED BY <2>2, <2>3, <2>4 DEF AnswerIs
<1>3. ASSUME NEW name \in PresetNames, PresetDelete(name) PROVE AgentInv'
  <2>1. UNCHANGED <<given, stated, agents, runtimeProvider, selected>>
    BY <1>3 DEF PresetDelete
  <2>2. AgentTypeOK'
    <3>1. DOMAIN presets' = DOMAIN presets \ {name} /\ \A n \in DOMAIN presets' : presets'[n] = presets[n]
      BY <1>3 DEF PresetDelete, Without
    <3> QED BY <2>1, <3>1 DEF AgentTypeOK
  <2> QED BY <2>1, <2>2, AnswersStay, AnswerStays
<1>4. CASE BuildStateDoc
  <2>1. UNCHANGED <<given, presets, agents, runtimeProvider, selected>> /\ stated = NoStateDoc /\ stated' = WrittenConfig(given)
    BY <1>4 DEF BuildStateDoc
  <2>2. WrittenConfig(given) # NoStateDoc
    <3>1. DOMAIN WrittenConfig(given) = BlockKeysOf(given)
      BY WrittenIs
    <3>2. "perTask" \in DOMAIN WrittenConfig(given)
      BY <3>1 DEF BlockKeysOf, BlockKeys
    <3>3. "perTask" \notin DOMAIN NoStateDoc
      BY DEF NoStateDoc
    <3> QED BY <3>2, <3>3
  <2>3. AgentTypeOK' /\ Plan' = Plan /\ AnswerIs'
    BY <2>1, <2>2, AnswersStay, AnswerStays DEF AgentTypeOK
  <2> QED BY <2>1, <2>2, <2>3
<1>5. CASE AgentsBuild
  <2>1. UNCHANGED <<given, presets, stated, runtimeProvider, selected>> /\ agents = NoStateDoc /\ agents' = Plan
    BY <1>5 DEF AgentsBuild, Plan, ChosenFor
  <2>2. AgentTypeOK' /\ Plan' = Plan /\ AnswerIs'
    BY <2>1, AnswersStay, AnswerStays DEF AgentTypeOK
  <2> QED BY <2>1, <2>2
<1>6. CASE RetroAgent
  <2>1. UNCHANGED <<given, presets, stated, agents, runtimeProvider>> /\ stated # NoStateDoc
    BY <1>6 DEF RetroAgent
  <2> DEFINE chosen == ResolveAgent(LoadAgentConfigFromState, "medium", "retro")
  <2>2. selected' = [level |-> "medium", task |-> "retro", primary |-> chosen.primary,
                     fallback |-> chosen.fallback, model |-> chosen.model]
    BY <1>6 DEF RetroAgent
  <2>3. LoadAgentConfigFromState = ParseAgentConfig(Reread(WrittenConfig(given)))
    BY <2>1 DEF LoadAgentConfigFromState
  <2>4. StatesAgents(given, "medium", "retro") => chosen = ChosenFor("medium", "retro")
    BY <2>3, CopyResolves DEF ChosenFor
  <2> HIDE DEF chosen
  <2>5. selected'.level = "medium" /\ selected'.task = "retro"
        /\ (StatesAgents(given, "medium", "retro") => selected' = Answer("medium", "retro"))
    BY <2>2, <2>4 DEF Answer
  <2>6. AnswerIs'
    BY <2>1, <2>5, AnswerGiven
  <2>7. AgentTypeOK' /\ Plan' = Plan
    BY <2>1, AnswersStay DEF AgentTypeOK
  <2> QED BY <2>1, <2>6, <2>7
<1>7. ASSUME NEW level \in Levels, NEW task \in Tasks, AgentsResolve(level, task) PROVE AgentInv'
  <2>1. UNCHANGED <<given, presets, stated, agents, runtimeProvider>> /\ agents # NoStateDoc /\ task # "retro"
    BY <1>7 DEF AgentsResolve
  <2>3. agents[level][task] = Selection(ChosenFor(level, task))
    BY <2>1 DEF Plan
  <2>4. Settled(ChosenFor(level, task))
    BY ResolvedIs DEF ChosenFor
  <2>5. selected' = Answer(level, task)
    BY <1>7, <2>3, <2>4, SelectionSays DEF AgentsResolve, Answer
  <2>6. selected'.level = level /\ selected'.task = task
    BY <2>5 DEF Answer
  <2>7. AnswerIs'
    BY <2>1, <2>5, <2>6, AnswerGiven
  <2>8. AgentTypeOK' /\ Plan' = Plan
    BY <2>1, AnswersStay DEF AgentTypeOK
  <2> QED BY <2>1, <2>7, <2>8
<1>8. CASE UNCHANGED agentVars
  <2>1. UNCHANGED <<given, presets, stated, agents, runtimeProvider, selected>>
    BY <1>8 DEF agentVars
  <2>2. AgentTypeOK' /\ Plan' = Plan /\ AnswerIs'
    BY <2>1, AnswersStay, AnswerStays DEF AgentTypeOK
  <2> QED BY <2>1, <2>2
<1> QED BY <1>1, <1>2, <1>3, <1>4, <1>5, <1>6, <1>7, <1>8 DEF AgentNext

LEMMA AgentInvImplies ==
  ASSUME AgentInv
  PROVE  StatedAgentsAreGiven /\ AnswerIsTheOtherResolvers /\ AnsweredAgentRuns /\ StatedConfigIsValid
<1>1. runtimeProvider \in Runtimes
  BY AgentAssumption DEF AgentInv, AgentTypeOK
<1>2. StatedAgentsAreGiven
  <2> SUFFICES ASSUME stated # NoStateDoc, NEW level \in Levels, NEW task \in Tasks, StatesAgents(given, level, task)
               PROVE  ResolveAgent(LoadAgentConfigFromState, level, task) = ResolveAgent(ParseAgentConfig(given), level, task)
    BY DEF StatedAgentsAreGiven
  <2>1. LoadAgentConfigFromState = ParseAgentConfig(Reread(WrittenConfig(given)))
    BY DEF LoadAgentConfigFromState, AgentInv, CopyIs
  <2> QED BY <2>1, CopyResolves
<1>3. StatedConfigIsValid
  <2> SUFFICES ASSUME stated # NoStateDoc PROVE HasRuntimeCommandConfig(stated)
    BY DEF StatedConfigIsValid
  <2>1. DOMAIN stated = BlockKeysOf(given)
    BY WrittenIs DEF AgentInv, CopyIs
  <2>2. "perTask" \in DOMAIN stated
    BY <2>1 DEF BlockKeysOf, BlockKeys
  <2> QED BY <2>2 DEF HasRuntimeCommandConfig
<1> DEFINE level == selected.level
           task == selected.task
           chosen == ChosenFor(level, task)
<1>4. ASSUME selected # NoStateDoc, StatesAgents(given, level, task)
      PROVE  /\ Without(selected, {"level", "task"}) = ResolveAgentForTask(ParseAgentConfigJson(given), level, task)
             /\ selected.primary = chosen.primary /\ selected.fallback = chosen.fallback
  <2>1. selected = Answer(level, task)
    BY <1>4 DEF AgentInv, AnswerIs, IsAnswered
  <2>2. chosen = ResolveAgentForTask(ParseAgentConfigJson(given), level, task)
    BY <1>4, ResolversAgree DEF ChosenFor
  <2>3. chosen = [primary |-> chosen.primary, fallback |-> chosen.fallback, model |-> chosen.model]
    BY DEF ChosenFor, ResolveAgent
  <2>6. Answer(level, task) = [level |-> level, task |-> task, primary |-> chosen.primary, fallback |-> chosen.fallback,
                               model |-> chosen.model]
    BY DEF Answer
  <2> HIDE DEF chosen, level, task
  <2>4. selected = [level |-> level, task |-> task, primary |-> chosen.primary, fallback |-> chosen.fallback, model |-> chosen.model]
    BY <2>1, <2>6
  <2>5. Without(selected, {"level", "task"}) = [primary |-> chosen.primary, fallback |-> chosen.fallback, model |-> chosen.model]
    BY <2>4 DEF Without
  <2> QED BY <2>2, <2>3, <2>4, <2>5
<1>5. AnswerIsTheOtherResolvers
  BY <1>4 DEF AnswerIsTheOtherResolvers
<1>7. ASSUME selected # NoStateDoc, StatesRuntimes(given, level, task)
      PROVE  selected.primary \in Runtimes /\ selected.fallback \in Runtimes \cup {"false"}
  <2>1. StatesAgents(given, level, task)
    BY <1>7, RuntimesAreStated
  <2>2. Chosen(chosen)
    BY <1>1, <1>7, ResolvedIs DEF ChosenFor
  <2> QED BY <1>4, <1>7, <2>1, <2>2 DEF Chosen
<1> HIDE DEF level, task, chosen
<1>6. AnsweredAgentRuns
  <2> SUFFICES ASSUME selected # NoStateDoc, NEW env \in [agent : {"", "auto", "claude"}, command : {"", "claude", "my-agent"}]
               PROVE  LET built == BuildCmd(selected.primary, selected.model, env)
                          retried == BuildCmd(selected.fallback, "", env)
                      IN /\ env.command = "" => built.model = selected.model
                         /\ (env.command = "" \/ env.agent # "") /\ StatesRuntimes(given, level, task) =>
                              /\ built.cli = selected.primary /\ SpawnAgent(selected.primary, env) = built.cli
                              /\ selected.fallback # "false" => retried.cli = selected.fallback
    BY DEF AnsweredAgentRuns, level, task
  <2>1. ASSUME NEW asked \in Runtimes, NEW model
        PROVE  /\ SpawnAgent(asked, env) = asked
               /\ env.command = "" \/ env.agent # "" => BuildCmd(asked, model, env).cli = asked
    <3>1. SpawnAgent(asked, env) = asked
      BY DEF SpawnAgent, ResolveAgentSelection, Or, Truthy, Runtimes
    <3> QED BY <3>1 DEF BuildCmd, AgentCli, Runtimes
  <2>2. ASSUME NEW asked, NEW model, env.command = "" PROVE BuildCmd(asked, model, env).model = model
    BY <2>2 DEF BuildCmd
  <2>3. env.command = "" => BuildCmd(selected.primary, selected.model, env).model = selected.model
    BY <2>2
  <2>4. ASSUME env.command = "" \/ env.agent # "", StatesRuntimes(given, level, task)
        PROVE  /\ BuildCmd(selected.primary, selected.model, env).cli = selected.primary
               /\ SpawnAgent(selected.primary, env) = selected.primary
               /\ selected.fallback # "false" => BuildCmd(selected.fallback, "", env).cli = selected.fallback
    BY <1>7, <2>1, <2>4
  <2> QED BY <2>3, <2>4
<1> QED BY <1>2, <1>3, <1>5, <1>6

-----------------------------------------------------------------------------
(***************************************************************************)
(* Type correctness of the log, whoever writes it.                         *)
(***************************************************************************)
NumberedFiles == [whole : BOOLEAN, meta : LogMetas, entries : Seq(1..MaxCommands)]
NumberedCommands == [at : LogSteps, entry : Nat, fd : Nat, meta : LogMetas, entries : Seq(1..MaxCommands)]
LogTypeInv ==
  /\ disk \in Seq(NumberedFiles) /\ commands \in 0..MaxCommands
  /\ names \in [{"log", "tmp"} -> Nat] /\ names.log \in 0..Len(disk) /\ names.tmp \in 0..Len(disk)
  /\ writers \in [LogWriters -> NumberedCommands]
  /\ \A w \in LogWriters : writers[w].fd \in 0..Len(disk) /\ (writers[w].at = "open" => writers[w].fd # 0)

LEMMA RemainingIs == Remaining \in NumberedCommands /\ Remaining.fd = 0 /\ Remaining.at = "rest"
BY EmptySeq DEF Remaining, NumberedCommands, LogSteps, LogMetas

LEMMA LogInit_Types == LogInit => LogTypeInv
<1> SUFFICES ASSUME LogInit PROVE LogTypeInv
  OBVIOUS
<1>1. disk \in Seq(NumberedFiles) /\ Len(disk) = 0 /\ commands \in 0..MaxCommands
  BY LogAssumption, EmptySeq DEF LogInit
<1>2. names \in [{"log", "tmp"} -> Nat] /\ names.log \in 0..Len(disk) /\ names.tmp \in 0..Len(disk)
  BY <1>1 DEF LogInit
<1> QED BY <1>1, <1>2, RemainingIs DEF LogInit, LogTypeInv

\* A writer that moves on keeps the types when its new state has them.
LEMMA WriterMoves ==
  ASSUME LogTypeInv, NEW w \in LogWriters, NEW state \in NumberedCommands, writers' = [writers EXCEPT ![w] = state],
         state.fd \in 0..Len(disk'), state.at = "open" => state.fd # 0,
         disk' \in Seq(NumberedFiles), Len(disk) <= Len(disk'), commands' \in 0..MaxCommands,
         names' \in [{"log", "tmp"} -> Nat], names'.log \in 0..Len(disk'), names'.tmp \in 0..Len(disk')
  PROVE  LogTypeInv'
<1>1. writers' \in [LogWriters -> NumberedCommands] /\ writers'[w] = state /\ \A v \in LogWriters \ {w} : writers'[v] = writers[v]
  BY DEF LogTypeInv
<1>2. Len(disk) \in Nat /\ Len(disk') \in Nat
  BY LenProperties DEF LogTypeInv
<1>3. \A v \in LogWriters : writers'[v].fd \in 0..Len(disk') /\ (writers'[v].at = "open" => writers'[v].fd # 0)
  <2> TAKE v \in LogWriters
  <2>1. CASE v = w
    BY <1>1, <2>1
  <2>2. CASE v # w
    <3>1. writers'[v] = writers[v] /\ writers[v].fd \in 0..Len(disk) /\ (writers[v].at = "open" => writers[v].fd # 0)
      BY <1>1, <2>2 DEF LogTypeInv
    <3> QED BY <1>2, <3>1
  <2> QED BY <2>1, <2>2
<1> QED BY <1>1, <1>3 DEF LogTypeInv

LEMMA CommandTypes ==
  ASSUME LogTypeInv, NEW w \in LogWriters, NEW entry \in Nat, NEW meta \in LogMetas, NEW entries \in Seq(1..MaxCommands),
         Command(w, entry, meta, entries)
  PROVE  LogTypeInv'
<1> DEFINE started == [at |-> "read", entry |-> entry, fd |-> 0, meta |-> meta, entries |-> entries]
<1>1. writers' = [writers EXCEPT ![w] = started] /\ UNCHANGED <<disk, names>> /\ commands < MaxCommands /\ commands' = commands + 1
  BY DEF Command
<1>2. started \in NumberedCommands /\ started.at = "read" /\ started.fd = 0
  BY DEF NumberedCommands, LogSteps
<1> HIDE DEF started
<1>3. Len(disk) \in Nat /\ commands' \in 0..MaxCommands
  BY <1>1, LenProperties, LogAssumption DEF LogTypeInv
<1>4. /\ disk' \in Seq(NumberedFiles) /\ Len(disk) <= Len(disk') /\ 0 \in 0..Len(disk')
      /\ names' \in [{"log", "tmp"} -> Nat] /\ names'.log \in 0..Len(disk') /\ names'.tmp \in 0..Len(disk')
  BY <1>1, <1>3 DEF LogTypeInv
<1> QED BY <1>1, <1>2, <1>3, <1>4, WriterMoves

LEMMA NewCommandTypes ==
  ASSUME LogTypeInv, NEW w \in LogWriters,
         \/ CmdInit(w, {}) \/ \E field \in LogFields : CmdInit(w, {field}) \/ CmdSet(w, field)
         \/ CmdAppend(w) \/ CmdSetComplete(w)
  PROVE  LogTypeInv'
<1>1. ASSUME LogExists PROVE LogFile.entries \in Seq(1..MaxCommands) /\ LogFile.meta \in LogMetas
  <2>1. disk \in Seq(NumberedFiles) /\ names.log \in 1..Len(disk)
    BY <1>1 DEF LogTypeInv, LogExists
  <2>2. LogFile \in NumberedFiles
    BY <2>1, ElementOfSeq DEF LogFile
  <2> QED BY <2>2 DEF NumberedFiles
<1>2. ASSUME NEW meta \in LogMetas, CmdInit(w, meta) PROVE LogTypeInv'
  BY <1>2, EmptySeq, CommandTypes DEF CmdInit
<1>3. ASSUME NEW field \in LogFields \cup {"complete"}, CmdSet(w, field) PROVE LogTypeInv'
  <2>1. LogFile.entries \in Seq(1..MaxCommands) /\ LogFile.meta \cup {field} \in LogMetas
    BY <1>1, <1>3 DEF CmdSet, LogMetas
  <2> QED BY <1>3, <2>1, CommandTypes DEF CmdSet
<1>4. CASE CmdAppend(w)
  <2>1. LogFile.entries \in Seq(1..MaxCommands) /\ LogFile.meta \in LogMetas
    BY <1>1, <1>4 DEF CmdAppend
  <2>2. commands + 1 \in 1..MaxCommands
    BY <1>4, LogAssumption DEF LogTypeInv, CmdAppend, Command
  <2> DEFINE entries == Append(LogFile.entries, commands + 1)
  <2>3. entries \in Seq(1..MaxCommands)
    BY <2>1, <2>2, AppendProperties
  <2>4. commands + 1 \in Nat /\ Command(w, commands + 1, LogFile.meta, entries)
    BY <1>4, <2>2 DEF CmdAppend
  <2> HIDE DEF entries
  <2> QED BY <2>1, <2>3, <2>4, CommandTypes
<1> QED BY <1>2, <1>3, <1>4 DEF CmdSetComplete, LogMetas

LEMMA OpenTempTypes == ASSUME LogTypeInv, NEW w \in LogWriters, OpenTemp(w) PROVE LogTypeInv'
<1> DEFINE inode == IF names.tmp # 0 THEN names.tmp ELSE Len(disk) + 1
           state == [writers[w] EXCEPT !.at = "open", !.fd = inode]
<1>1. /\ disk' = IF names.tmp # 0 THEN [disk EXCEPT ![inode] = Truncated] ELSE Append(disk, Truncated)
      /\ names' = [names EXCEPT !.tmp = inode] /\ commands' = commands
      /\ writers' = [writers EXCEPT ![w] = state]
  <2>1. writers' = [writers EXCEPT ![w].at = "open", ![w].fd = inode]
    BY DEF OpenTemp
  <2> QED BY <2>1, Zenon DEF OpenTemp
<1>2. disk \in Seq(NumberedFiles) /\ Len(disk) \in Nat /\ Truncated \in NumberedFiles
  BY LenProperties, EmptySeq DEF LogTypeInv, Truncated, NumberedFiles, LogMetas
<1>3. disk' \in Seq(NumberedFiles) /\ inode \in 1..Len(disk') /\ Len(disk) <= Len(disk') /\ Len(disk') \in Nat
  <2>1. CASE names.tmp # 0
    <3>1. inode \in 1..Len(disk) /\ disk' = [disk EXCEPT ![inode] = Truncated]
      BY <1>1, <2>1 DEF LogTypeInv
    <3> HIDE DEF inode
    <3> QED BY <1>2, <3>1, ExceptSeq
  <2>2. CASE names.tmp = 0
    <3>1. disk' = Append(disk, Truncated) /\ inode = Len(disk) + 1
      BY <1>1, <2>2
    <3> HIDE DEF inode
    <3> QED BY <1>2, <3>1
  <2> QED BY <2>1, <2>2
<1> HIDE DEF inode
<1>4. writers[w] \in NumberedCommands
  BY DEF LogTypeInv
<1>5. state \in NumberedCommands /\ state.at = "open" /\ state.fd = inode
  <2>1. inode \in Nat
    BY <1>3
  <2> QED BY <1>4, <2>1 DEF NumberedCommands, LogSteps
<1> HIDE DEF state
<1>6. names' \in [{"log", "tmp"} -> Nat] /\ names'.log \in 0..Len(disk') /\ names'.tmp \in 0..Len(disk')
  <2>1. names'.log = names.log /\ names'.tmp = inode /\ names' \in [{"log", "tmp"} -> Nat]
    BY <1>1, <1>3 DEF LogTypeInv
  <2>2. names.log \in 0..Len(disk)
    BY DEF LogTypeInv
  <2> QED BY <1>2, <1>3, <2>1, <2>2
<1>7. commands' \in 0..MaxCommands /\ inode \in 0..Len(disk') /\ inode # 0
  BY <1>1, <1>3 DEF LogTypeInv
<1> QED BY <1>1, <1>3, <1>5, <1>6, <1>7, WriterMoves

LEMMA WriteTempTypes == ASSUME LogTypeInv, NEW w \in LogWriters, WriteTemp(w) PROVE LogTypeInv'
<1> DEFINE file == [whole |-> TRUE, meta |-> writers[w].meta, entries |-> writers[w].entries]
           state == [writers[w] EXCEPT !.at = "written"]
<1>1. /\ writers[w].at = "open" /\ disk' = [disk EXCEPT ![writers[w].fd] = file] /\ UNCHANGED <<names, commands>>
      /\ writers' = [writers EXCEPT ![w] = state]
  BY Zenon DEF WriteTemp, Moved
<1>2. writers[w] \in NumberedCommands /\ writers[w].fd \in 1..Len(disk)
  BY <1>1 DEF LogTypeInv
<1>3. file \in NumberedFiles
  BY <1>2 DEF NumberedFiles, NumberedCommands
<1> HIDE DEF file
<1>4. disk' \in Seq(NumberedFiles) /\ Len(disk') = Len(disk) /\ Len(disk) \in Nat
  BY <1>1, <1>2, <1>3, ExceptSeq, LenProperties DEF LogTypeInv
<1>5. state \in NumberedCommands /\ state.at = "written" /\ state.fd = writers[w].fd
  BY <1>2 DEF NumberedCommands, LogSteps
<1> HIDE DEF state
<1>6. /\ names' \in [{"log", "tmp"} -> Nat] /\ names'.log \in 0..Len(disk') /\ names'.tmp \in 0..Len(disk')
      /\ commands' \in 0..MaxCommands /\ writers[w].fd \in 0..Len(disk')
  BY <1>1, <1>4 DEF LogTypeInv
<1>7. state.fd \in 0..Len(disk') /\ (state.at = "open" => state.fd # 0) /\ Len(disk) <= Len(disk')
  BY <1>4, <1>5, <1>6
<1> QED BY <1>1, <1>4, <1>5, <1>6, <1>7, WriterMoves

LEMMA ReplaceLogTypes == ASSUME LogTypeInv, NEW w \in LogWriters, ReplaceLog(w) PROVE LogTypeInv'
<1>1. Len(disk) \in Nat /\ UNCHANGED <<disk, commands>> /\ writers[w] \in NumberedCommands
  BY LenProperties DEF LogTypeInv, ReplaceLog
<1>2. CASE names.tmp = 0
  <2>1. writers' = [writers EXCEPT ![w] = Remaining] /\ UNCHANGED names
    BY <1>2 DEF ReplaceLog
  <2> QED BY <1>1, <2>1, RemainingIs, WriterMoves DEF LogTypeInv
<1>3. CASE names.tmp # 0
  <2> DEFINE state == [writers[w] EXCEPT !.at = "replaced"]
  <2>1. writers' = [writers EXCEPT ![w] = state] /\ names' = [log |-> names.tmp, tmp |-> 0]
    BY <1>3, Zenon DEF ReplaceLog, Moved
  <2>2. state \in NumberedCommands /\ state.at = "replaced" /\ state.fd = writers[w].fd
    BY <1>1 DEF NumberedCommands, LogSteps
  <2> HIDE DEF state
  <2>3. names' \in [{"log", "tmp"} -> Nat] /\ names'.log = names.tmp /\ names'.tmp = 0
    BY <2>1 DEF LogTypeInv
  <2> QED BY <1>1, <2>1, <2>2, <2>3, WriterMoves DEF LogTypeInv
<1> QED BY <1>2, <1>3

LEMMA LogStepTypes == ASSUME LogTypeInv, [LogNext]_logVars PROVE LogTypeInv'
<1>1. CASE UNCHANGED logVars
  BY <1>1 DEF logVars, LogTypeInv
<1>2. ASSUME NEW w \in LogWriters, Ack(w) \/ CommandKilled(w) PROVE LogTypeInv'
  <2>1. writers' = [writers EXCEPT ![w] = Remaining] /\ UNCHANGED <<disk, names, commands>>
    BY <1>2 DEF Ack, CommandKilled
  <2>2. Len(disk) \in Nat
    BY LenProperties DEF LogTypeInv
  <2> QED BY <2>1, <2>2, RemainingIs, WriterMoves DEF LogTypeInv
<1> QED BY <1>1, <1>2, NewCommandTypes, OpenTempTypes, WriteTempTypes, ReplaceLogTypes DEF LogNext

LEMMA LogTypesImply == LogTypeInv => LogTypeOK
<1> SUFFICES ASSUME LogTypeInv PROVE LogTypeOK
  OBVIOUS
<1>1. names \in [{"log", "tmp"} -> 0..Len(disk)] /\ commands \in 0..MaxCommands
  BY DEF LogTypeInv
<1>2. \A i \in DOMAIN disk : disk[i].entries \in Seq(1..MaxCommands) /\ disk[i].whole \in BOOLEAN
  <2> TAKE i \in DOMAIN disk
  <2>1. disk[i] \in NumberedFiles
    BY ElementOfSeq, LenProperties DEF LogTypeInv
  <2> QED BY <2>1 DEF NumberedFiles
<1>3. \A w \in LogWriters : writers[w].at \in {"rest", "read", "open", "written", "replaced"} /\ writers[w].fd \in 0..Len(disk)
  BY DEF LogTypeInv, NumberedCommands, LogSteps
<1> QED BY <1>1, <1>2, <1>3 DEF LogTypeOK
-----------------------------------------------------------------------------
\* The pool: no more jobs run than there are workers.
JobSteps == Working \cup {"queued", "ended", "gathered"}
EvalTypeInv == DOMAIN pool = AllJobs /\ EvalTypeOK

LEMMA BusyIsFinite == IsFiniteSet(Busy)
<1>1. IsFiniteSet(AllJobs)
  BY EvalAssumption, FS_Union DEF AllJobs
<1>2. Busy \subseteq AllJobs
  BY DEF Busy
<1> QED BY <1>1, <1>2, FS_Subset

LEMMA EvalInit_Types == EvalInit => EvalTypeInv
<1> SUFFICES ASSUME EvalInit PROVE EvalTypeInv
  OBVIOUS
<1>1. DOMAIN pool = AllJobs /\ \A j \in AllJobs : pool[j].at = "queued"
  BY DEF EvalInit
<1>2. Busy = {}
  BY <1>1 DEF Busy, Working
<1>3. Cardinality(Busy) <= PoolSize
  BY <1>2, FS_EmptySet, EvalAssumption
<1> QED BY <1>1, <1>3 DEF EvalInit, EvalTypeInv, EvalTypeOK

LEMMA JobTypes ==
  ASSUME EvalTypeInv, NEW j \in AllJobs, NEW at \in JobSteps, NEW status, JobAt(j, at, status), adapter' = adapter,
         at \in Working => pool[j].at \in Working \/ Cardinality(Busy) < PoolSize
  PROVE  EvalTypeInv'
<1>1. /\ DOMAIN pool' = AllJobs /\ pool'[j].at = at /\ \A k \in AllJobs \ {j} : pool'[k] = pool[k]
  BY DEF JobAt, EvalTypeInv
<1>2. \A k \in AllJobs : pool'[k].at \in Working \cup {"queued", "ended", "gathered"}
  BY <1>1 DEF EvalTypeInv, EvalTypeOK, JobSteps
<1>3. Cardinality(Busy) \in Nat /\ Cardinality(Busy) <= PoolSize /\ PoolSize \in Nat
  BY BusyIsFinite, FS_CardinalityType, EvalAssumption DEF EvalTypeInv, EvalTypeOK
<1>4. Cardinality(Busy') <= PoolSize
  <2>1. CASE at \in Working /\ pool[j].at \notin Working
    <3>1. Busy' = Busy \cup {j} /\ j \notin Busy
      BY <1>1, <2>1 DEF Busy
    <3>2. Cardinality(Busy \cup {j}) = Cardinality(Busy) + 1
      BY <3>1, BusyIsFinite, FS_AddElement
    <3> QED BY <1>3, <2>1, <3>1, <3>2
  <2>2. CASE ~(at \in Working /\ pool[j].at \notin Working)
    <3>1. Busy' \subseteq Busy
      BY <1>1, <2>2 DEF Busy
    <3>2. Cardinality(Busy') <= Cardinality(Busy)
      BY <3>1, BusyIsFinite, FS_Subset
    <3>3. Cardinality(Busy') \in Nat
      BY <3>1, BusyIsFinite, FS_Subset, FS_CardinalityType
    <3> QED BY <1>3, <3>2, <3>3
  <2> QED BY <2>1, <2>2
<1> QED BY <1>1, <1>2, <1>4 DEF EvalTypeInv, EvalTypeOK

LEMMA EvalStepTypes == EvalTypeInv /\ [EvalNext]_evalVars => EvalTypeInv'
<1> SUFFICES ASSUME EvalTypeInv, [EvalNext]_evalVars PROVE EvalTypeInv'
  OBVIOUS
<1>1. CASE UNCHANGED <<pool, adapter>>
  BY <1>1 DEF EvalTypeInv, EvalTypeOK, Busy
<1>2. ASSUME NEW j \in AllJobs, NEW at \in JobSteps, NEW status, JobAt(j, at, status), adapter' = adapter,
             at \in Working => pool[j].at \in Working \/ Cardinality(Busy) < PoolSize
      PROVE  EvalTypeInv'
  BY <1>2, JobTypes
<1> USE DEF JobSteps, Working, AllJobs
<1>3. ASSUME NEW j \in EvalJobs, StageCase(j) \/ CallRuntime(j) \/ RecordCase(j) \/ CaseRaises(j) \/ GatherCase(j) PROVE EvalTypeInv'
  <2>1. CASE StageCase(j)
    BY <1>2, <2>1 DEF StageCase
  <2>2. CASE CallRuntime(j)
    BY <1>2, <2>2 DEF CallRuntime
  <2>3. CASE RecordCase(j)
    BY <1>2, <2>3 DEF RecordCase
  <2>4. CASE CaseRaises(j)
    BY <1>2, <2>4 DEF CaseRaises
  <2>5. CASE GatherCase(j)
    BY <1>2, <2>5 DEF GatherCase
  <2> QED BY <1>3, <2>1, <2>2, <2>3, <2>4, <2>5
<1>4. ASSUME NEW j \in TriggerRuns, RunQuery(j) \/ QueryFails(j) \/ EndQuery(j) \/ GatherRun(j) PROVE EvalTypeInv'
  <2>1. CASE RunQuery(j)
    BY <1>2, <2>1 DEF RunQuery
  <2>2. CASE QueryFails(j)
    BY <1>2, <2>2 DEF QueryFails
  <2>3. CASE EndQuery(j)
    BY <1>2, <2>3 DEF EndQuery
  <2>4. CASE GatherRun(j)
    BY <1>2, <2>4 DEF GatherRun
  <2> QED BY <1>4, <2>1, <2>2, <2>3, <2>4
<1>5. CASE SummariseCases \/ SummariseTriggers
  BY <1>1, <1>5 DEF SummariseCases, SummariseTriggers
<1>6. CASE UNCHANGED evalVars
  BY <1>1, <1>6 DEF evalVars
<1> QED BY <1>3, <1>4, <1>5, <1>6 DEF EvalNext
-----------------------------------------------------------------------------
\* The stories: rows and files are about keys there are, the range is chosen
\* from a file that is there, and a retrospective is of an epic in the range.
EpicRunTypeInv == RangeInv /\ EpicRunTypeOK

LEMMA EpicRunInit_Types == EpicRunInit => EpicRunTypeInv
<1> SUFFICES ASSUME EpicRunInit PROVE EpicRunTypeInv
  OBVIOUS
<1>1. RangeInv
  BY RangeInit_Inv
<1>2. rows = <<>> /\ stories = <<>> /\ storyRange = <<>> /\ retros = {}
  BY DEF EpicRunInit, StatusInit
<1>3. current \in 0..Len(storyRange)
  BY <1>1 DEF RangeInv
<1> QED BY <1>1, <1>2, <1>3 DEF EpicRunTypeInv, EpicRunTypeOK, StatusTypeOK

LEMMA EpicRunStepTypes == ASSUME EpicRunTypeInv, [EpicRunNext]_epicRunVars PROVE EpicRunTypeInv'
<1>1. RangeInv /\ RangeInv'
  BY RangeStepInv DEF EpicRunTypeInv
<1>2. \A i \in DOMAIN rows' : rows'[i].key \in StoryKeys /\ rows'[i].status \in Statuses
  <2> DEFINE R == [key : StoryKeys, status : Statuses]
  <2>1. rows' \in Seq(R)
    BY <1>1 DEF RangeInv, RowsAre
  <2> HIDE DEF R
  <2>2. \A i \in DOMAIN rows' : rows'[i] \in R
    BY <2>1, ElementOfSeq, LenProperties
  <2>3. ASSUME NEW r \in R PROVE r.key \in StoryKeys /\ r.status \in Statuses
    BY DEF R
  <2> QED BY <2>2, <2>3
<1>3. current' \in 0..Len(storyRange') /\ Len(storyRange) \in Nat /\ DOMAIN storyRange = 1..Len(storyRange) /\ current \in 0..Len(storyRange)
  BY <1>1, LenProperties DEF RangeInv
<1> DEFINE Stories == DOMAIN stories \subseteq StoryKeys /\ \A k \in DOMAIN stories : stories[k] \in Statuses
<1>4. Stories'
  <2>1. Stories
    BY DEF EpicRunTypeInv, EpicRunTypeOK, StatusTypeOK
  <2>2. ASSUME NEW key \in StoryKeys, WriteStory(key) PROVE Stories'
    <3>1. PICK status \in Statuses : stories' = [k \in DOMAIN stories \cup {key} |-> IF k = key THEN status ELSE stories[k]]
      BY <2>2 DEF WriteStory
    <3> QED BY <2>1, <3>1
  <2>3. CASE \E key \in StoryKeys : WriteStory(key)
    BY <2>2, <2>3
  <2>4. CASE stories' = stories
    BY <2>1, <2>4
  <2>5. stories' = stories \/ \E key \in StoryKeys : WriteStory(key)
    BY DEF EpicRunNext, StatusNext, epicRunVars, AddRow, SetRow, WriteEpicFile, ChooseRange, FinishStory, TriggerRetro
  <2> QED BY <2>3, <2>4, <2>5
<1> DEFINE Epic(i) == Front(storyRange[i].segments)
<1>5. retros' \subseteq {Front(storyRange'[i].segments) : i \in DOMAIN storyRange'}
  <2>1. retros \subseteq {Epic(i) : i \in DOMAIN storyRange}
    BY DEF EpicRunTypeInv, EpicRunTypeOK
  <2>2. CASE UNCHANGED <<retros, storyRange>>
    BY <2>1, <2>2
  <2>3. CASE TriggerRetro
    <3>1. storyRange' = storyRange /\ retros' = retros \cup {Epic(current)} /\ current > 0
      BY <2>3 DEF TriggerRetro
    <3>2. current \in DOMAIN storyRange
      BY <1>3, <3>1
    <3> QED BY <2>1, <3>1, <3>2
  <2>4. ASSUME NEW doc, NEW picks, ChooseRange(doc, picks) PROVE retros' = {}
    <3>1. storyRange = <<>> /\ retros' = retros
      BY <2>4 DEF ChooseRange
    <3>2. DOMAIN storyRange = {}
      BY <3>1
    <3> QED BY <2>1, <3>1, <3>2
  <2>5. \/ UNCHANGED <<retros, storyRange>> \/ TriggerRetro
        \/ \E doc, picks : ChooseRange(doc, picks)
    BY DEF EpicRunNext, epicRunVars, FinishStory
  <2> QED BY <2>2, <2>3, <2>4, <2>5
<1>6. storyRange' # <<>> => source' \in epics'
  <2>1. storyRange # <<>> => source \in epics
    BY DEF EpicRunTypeInv, EpicRunTypeOK
  <2>2. ASSUME NEW doc, NEW picks, ChooseRange(doc, picks) PROVE source' \in epics'
    BY <2>2 DEF ChooseRange
  <2>3. CASE UNCHANGED <<storyRange, source, epics>>
    BY <2>1, <2>3
  <2>4. ASSUME NEW epic, WriteEpicFile(epic), UNCHANGED <<storyRange, source>>
        PROVE storyRange' # <<>> => source' \in epics'
    BY <2>1, <2>4 DEF WriteEpicFile
  <2>5. ASSUME NEW key \in StoryKeys, AddRow(key) \/ WriteStory(key), UNCHANGED <<storyRange, source>>
        PROVE UNCHANGED <<storyRange, source, epics>>
    BY <2>5 DEF AddRow, WriteStory
  <2>6. ASSUME NEW i \in DOMAIN rows, SetRow(i), UNCHANGED <<storyRange, source>>
        PROVE UNCHANGED <<storyRange, source, epics>>
    BY <2>6 DEF SetRow
  <2>7. CASE StatusNext /\ UNCHANGED <<storyRange, source, current, retros>>
    BY <2>2, <2>3, <2>4, <2>5, <2>6, <2>7 DEF StatusNext
  <2>8. CASE FinishStory \/ TriggerRetro \/ UNCHANGED epicRunVars
    BY <2>3, <2>8 DEF FinishStory, TriggerRetro, epicRunVars
  <2> QED BY <2>2, <2>7, <2>8 DEF EpicRunNext
<1> QED BY <1>1, <1>2, <1>3, <1>4, <1>5, <1>6 DEF EpicRunTypeInv, EpicRunTypeOK, StatusTypeOK
-----------------------------------------------------------------------------
\* The types of agent selection do not depend on what the configuration names.
LEMMA AgentInit_Types == AgentInit => AgentTypeOK
BY EmptyIs DEF AgentInit, AgentTypeOK

LEMMA AgentStepTypes == ASSUME AgentTypeOK, [AgentNext]_agentVars PROVE AgentTypeOK'
<1>1. ASSUME NEW name \in PresetNames, PresetSave(name) PROVE AgentTypeOK'
  <2>1. presets' = [n \in DOMAIN presets \cup {name} |-> IF n = name THEN given ELSE presets[n]]
        /\ UNCHANGED <<given, runtimeProvider>>
    BY <1>1 DEF PresetSave
  <2> QED BY <2>1 DEF AgentTypeOK
<1>2. ASSUME NEW name \in PresetNames, PresetLoad(name) PROVE AgentTypeOK'
  BY <1>2 DEF PresetLoad, AgentTypeOK
<1>3. ASSUME NEW name \in PresetNames, PresetDelete(name) PROVE AgentTypeOK'
  <2>1. DOMAIN presets' = DOMAIN presets \ {name} /\ \A n \in DOMAIN presets' : presets'[n] = presets[n]
    BY <1>3 DEF PresetDelete, Without
  <2>2. UNCHANGED <<given, runtimeProvider>>
    BY <1>3 DEF PresetDelete
  <2> QED BY <2>1, <2>2 DEF AgentTypeOK
<1>4. CASE UNCHANGED <<given, presets, runtimeProvider>>
  BY <1>4 DEF AgentTypeOK
<1>5. BuildStateDoc \/ AgentsBuild \/ RetroAgent \/ (\E level \in Levels, task \in Tasks : AgentsResolve(level, task))
      => UNCHANGED <<given, presets, runtimeProvider>>
  BY DEF BuildStateDoc, AgentsBuild, RetroAgent, AgentsResolve
<1> QED BY <1>1, <1>2, <1>3, <1>4, <1>5 DEF AgentNext, agentVars

\* Renderers: only a staged one has a staging directory to publish.
RenderTypeInv == RenderersAre /\ RenderTypeOK

LEMMA RenderInit_Types == RenderInit => RenderTypeInv
<1> SUFFICES ASSUME RenderInit PROVE RenderTypeInv
  OBVIOUS
<1>1. RenderersAre
  BY RenderInit_Are
<1>2. staging = {} /\ edits = 0 /\ MaxEdits \in Nat
  BY RenderAssumption DEF RenderInit
<1>3. \A r \in Renderers : DOMAIN renderer[r].sources = {} /\ ~At(r, "staged")
  BY DEF RenderInit, Unread, At
<1> QED BY <1>1, <1>2, <1>3 DEF RenderTypeInv, RenderTypeOK

\* What the types say of one renderer.
RendererTyped(state, r, dirs) == DOMAIN state.sources \subseteq SourceFiles /\ (state.step = "staged" => r \in dirs)

LEMMA RenderStepTypes == ASSUME RenderTypeInv, [RenderNext]_renderVars PROVE RenderTypeInv'
<1>1. RenderersAre'
  BY RenderStepNames DEF RenderTypeInv
<1>2. edits' \in 0..MaxEdits
  <2>1. MaxEdits \in Nat /\ edits \in 0..MaxEdits
    BY RenderAssumption DEF RenderTypeInv, RenderTypeOK
  <2>2. edits' = edits \/ Editing
    BY DEF RenderNext, renderVars, LoadSources, LoadCentral, LoadDefaults, LoadCustomization, RenderOrHalt, Publish,
           RendererDies, SameProject, UpgradeSource, TamperWith, EditCentral, EditCustom
  <2>3. CASE Editing
    BY <2>1, <2>3 DEF Editing
  <2> QED BY <2>1, <2>2, <2>3
<1>3. \A r \in Renderers : RendererTyped(renderer[r], r, staging)
  BY DEF RenderTypeInv, RenderTypeOK, RendererTyped, At
<1>4. staging \subseteq Renderers /\ RenderersAre
  BY DEF RenderTypeInv, RenderTypeOK
<1> DEFINE Typed == staging' \subseteq Renderers /\ \A r \in Renderers : RendererTyped(renderer'[r], r, staging')
<1>5. ASSUME NEW r \in Renderers, NEW state, Becomes(r, state), DOMAIN state = RendererFields,
             RendererTyped(state, r, staging'), staging' \subseteq Renderers, staging \ {r} \subseteq staging'
      PROVE  Typed
  <2>1. renderer'[r] = state /\ \A q \in Renderers : q # r => renderer'[q] = renderer[q]
    BY <1>4, <1>5, RendererMoves
  <2>2. ASSUME NEW q \in Renderers, q # r PROVE RendererTyped(renderer'[q], q, staging')
    BY <1>3, <1>5, <2>1, <2>2 DEF RendererTyped
  <2> QED BY <1>5, <2>1, <2>2
<1> HIDE DEF Typed
<1>6. ASSUME NEW r \in Renderers, NEW to, Goes(r, to), to = "staged" => r \in staging',
             staging' \subseteq Renderers, staging \ {r} \subseteq staging'
      PROVE  Typed
  <2> DEFINE state == [renderer[r] EXCEPT !.step = to]
  <2>1. DOMAIN state = RendererFields /\ state.step = to /\ state.sources = renderer[r].sources
    BY <1>4 DEF RenderersAre, RendererFields
  <2>2. Becomes(r, state)
    BY <1>6 DEF Goes
  <2> HIDE DEF state
  <2>3. RendererTyped(state, r, staging')
    BY <1>3, <1>6, <2>1 DEF RendererTyped
  <2> QED BY <1>5, <1>6, <2>1, <2>2, <2>3
<1>7. ASSUME NEW r \in Renderers, LoadSources(r) PROVE Typed
  <2>1. PICK f \in SourceFiles :
          Becomes(r, [renderer[r] EXCEPT
              !.sources = [g \in DOMAIN renderer[r].sources \cup {f} |-> IF g = f THEN versions[f] ELSE renderer[r].sources[g]],
              !.step = IF DOMAIN [g \in DOMAIN renderer[r].sources \cup {f} |-> IF g = f THEN versions[f] ELSE renderer[r].sources[g]]
                            = SourceFiles THEN "central" ELSE "idle"])
    BY <1>7 DEF LoadSources
  <2> DEFINE read == [g \in DOMAIN renderer[r].sources \cup {f} |-> IF g = f THEN versions[f] ELSE renderer[r].sources[g]]
             to == IF DOMAIN read = SourceFiles THEN "central" ELSE "idle"
             state == [renderer[r] EXCEPT !.sources = read, !.step = to]
  <2>2. Becomes(r, state)
    BY <2>1
  <2>3. DOMAIN read \subseteq SourceFiles /\ to # "staged"
    BY <1>3 DEF RendererTyped
  <2> HIDE DEF read, to
  <2>4. DOMAIN state = RendererFields /\ state.sources = read /\ state.step = to
    BY <1>4 DEF RenderersAre, RendererFields
  <2> HIDE DEF state
  <2>5. staging' = staging
    BY <1>7 DEF LoadSources
  <2>6. RendererTyped(state, r, staging')
    BY <2>3, <2>4 DEF RendererTyped
  <2> QED BY <1>4, <1>5, <2>2, <2>4, <2>5, <2>6
<1>8. ASSUME NEW r \in Renderers, LoadCentral(r) PROVE Typed
  <2> DEFINE state == [renderer[r] EXCEPT !.central = central, !.step = "defaults"]
  <2>1. DOMAIN state = RendererFields /\ state.sources = renderer[r].sources /\ state.step = "defaults"
    BY <1>4 DEF RenderersAre, RendererFields
  <2>2. Becomes(r, state) /\ staging' = staging
    BY <1>8 DEF LoadCentral
  <2> HIDE DEF state
  <2> QED BY <1>3, <1>4, <1>5, <2>1, <2>2 DEF RendererTyped
<1>9. ASSUME NEW r \in Renderers, LoadDefaults(r) PROVE Typed
  <2> DEFINE state == [renderer[r] EXCEPT !.defaults = custom[1], !.step = "custom"]
  <2>1. DOMAIN state = RendererFields /\ state.sources = renderer[r].sources /\ state.step = "custom"
    BY <1>4 DEF RenderersAre, RendererFields
  <2>2. Becomes(r, state) /\ staging' = staging
    BY <1>9 DEF LoadDefaults
  <2> HIDE DEF state
  <2> QED BY <1>3, <1>4, <1>5, <2>1, <2>2 DEF RendererTyped
<1>10. ASSUME NEW r \in Renderers, LoadCustomization(r) PROVE Typed
  <2> DEFINE state == [renderer[r] EXCEPT !.custom = custom, !.step = "resolve"]
  <2>1. DOMAIN state = RendererFields /\ state.sources = renderer[r].sources /\ state.step = "resolve"
    BY <1>4 DEF RenderersAre, RendererFields
  <2>2. Becomes(r, state) /\ staging' = staging
    BY <1>10 DEF LoadCustomization
  <2> HIDE DEF state
  <2> QED BY <1>3, <1>4, <1>5, <2>1, <2>2 DEF RendererTyped
<1>11. ASSUME NEW r \in Renderers, RenderOrHalt(r) PROVE Typed
  <2>1. \/ Goes(r, "halt") /\ staging' = staging
        \/ Goes(r, Verified(r)) /\ staging' = staging
        \/ Goes(r, "staged") /\ staging' = staging \cup {r}
    BY <1>11 DEF RenderOrHalt
  <2>2. Verified(r) # "staged"
    BY DEF Verified
  <2> QED BY <1>4, <1>6, <2>1, <2>2
<1>12. ASSUME NEW r \in Renderers, Publish(r) PROVE Typed
  <2>1. (Goes(r, Verified(r)) \/ Goes(r, "done")) /\ staging' = staging \ {r}
    BY <1>12 DEF Publish
  <2>2. Verified(r) # "staged"
    BY DEF Verified
  <2> QED BY <1>4, <1>6, <2>1, <2>2
<1>13. ASSUME NEW r \in Renderers, RendererDies(r) PROVE Typed
  <2>1. Goes(r, "dead") /\ staging' = staging
    BY <1>13 DEF RendererDies
  <2> QED BY <1>4, <1>6, <2>1
<1>14. ASSUME UNCHANGED <<staging, renderer>> PROVE Typed
  BY <1>3, <1>4, <1>14 DEF Typed, RendererTyped
<1>15. \/ UNCHANGED <<staging, renderer>>
       \/ \E r \in Renderers : \/ LoadSources(r) \/ LoadCentral(r) \/ LoadDefaults(r) \/ LoadCustomization(r)
                               \/ RenderOrHalt(r) \/ Publish(r) \/ RendererDies(r)
  BY DEF RenderNext, renderVars, Editing, UpgradeSource, TamperWith, EditCentral, EditCustom
<1>16. Typed
  <2>1. ASSUME NEW r \in Renderers, LoadSources(r) \/ LoadCentral(r) \/ LoadDefaults(r) \/ LoadCustomization(r)
                                     \/ RenderOrHalt(r) \/ Publish(r) \/ RendererDies(r)
        PROVE  Typed
    BY <1>7, <1>8, <1>9, <1>10, <1>11, <1>12, <1>13, <2>1
  <2> QED BY <1>14, <1>15, <2>1
<1> QED BY <1>1, <1>2, <1>16 DEF RenderTypeInv, RenderTypeOK, Typed, RendererTyped, At
-----------------------------------------------------------------------------
\* A draw takes every eligible row before it ends: what it has not drawn is in a bucket,
\* a bucket whose turn it is has a row, and a round ends only when none has.
CoverInv ==
  /\ eligible \subseteq Range(Methods)
  /\ \A row \in eligible : row \in Range(draw.rows) \/ \E c \in DOMAIN buckets : row \in buckets[c]
  /\ \A c \in turn : buckets[c] # {}
  /\ turn = {} => \A c \in DOMAIN buckets : buckets[c] = {}
  /\ (draw.wanted \in Nat /\ draw.wanted < Cardinality(eligible)) \/ draw.wanted = Cardinality(eligible)
NamesOf(table) == {row.name : row \in table}
CatalogTypeInv == DrawInv /\ offered \subseteq NamesOf(Range(Methods)) /\ (draw.on => CoverInv)

LEMMA CatalogTypesImply == ASSUME CatalogTypeInv PROVE CatalogTypeOK
<1>1. offered \subseteq {row.name : row \in Range(Methods)}
  BY DEF CatalogTypeInv, NamesOf
<1>2. ASSUME draw.on, Len(draw.rows) < draw.wanted PROVE turn # {} /\ \A c \in turn : buckets[c] # {}
  <2>1. RowsInv /\ CoverInv
    BY <1>2 DEF CatalogTypeInv, DrawInv
  <2>2. ASSUME turn = {} PROVE FALSE
    <3> DEFINE n == Len(draw.rows)
    <3>1. draw.rows \in Seq(eligible)
      BY <2>1 DEF RowsInv
    <3>2. n \in Nat /\ DOMAIN draw.rows = 1..n /\ draw.rows \in [1..n -> eligible]
      BY <3>1, LenProperties
    <3>3. \A row \in eligible : \E i \in 1..n : draw.rows[i] = row
      BY <2>1, <2>2, <3>2 DEF CoverInv, Range
    <3>4. draw.rows \in Surjection(1..n, eligible)
      BY <3>2, <3>3 DEF Surjection
    <3>5. IsFiniteSet(1..n) /\ Cardinality(1..n) <= n
      <4>1. n \in Int /\ 1 \in Int
        BY <3>2
      <4>2. IsFiniteSet(1..n) /\ Cardinality(1..n) = IF 1 > n THEN 0 ELSE n - 1 + 1
        BY <4>1, FS_Interval
      <4> QED BY <3>2, <4>2
    <3>6. IsFiniteSet(eligible) /\ Cardinality(eligible) <= Cardinality(1..n)
      BY <3>4, <3>5, FS_Surjection
    <3>7. Cardinality(eligible) \in Nat /\ Cardinality(1..n) \in Nat
      BY <3>5, <3>6, FS_CardinalityType
    <3>8. Cardinality(eligible) <= n
      BY <3>2, <3>5, <3>6, <3>7
    <3>9. draw.wanted <= Cardinality(eligible) /\ draw.wanted \in Nat
      BY <2>1, <3>7 DEF CoverInv
    <3>10. n < draw.wanted
      BY <1>2
    <3> HIDE DEF n
    <3> QED BY <3>2, <3>7, <3>8, <3>9, <3>10
  <2> QED BY <2>1, <2>2 DEF CoverInv
<1> QED BY <1>1, <1>2 DEF CatalogTypeOK

LEMMA CatalogInit_Types == CatalogInit => CatalogTypeInv
<1> SUFFICES ASSUME CatalogInit PROVE CatalogTypeInv
  OBVIOUS
<1>1. ~draw.on /\ offered = {}
  BY DEF CatalogInit, NoDraw
<1> QED BY <1>1, CatalogInit_Inv DEF CatalogTypeInv

LEMMA CatalogStepTypes == ASSUME CatalogTypeInv, [CatalogNext]_catalogVars PROVE CatalogTypeInv'
<1>1. DrawInv' /\ DrawInv
  BY CatalogStepInv DEF CatalogTypeInv
<1>2. overlay' = overlay
  BY DEF CatalogNext, catalogVars, Reshuffle, TakeFromBucket, OfferDraw
<1>3. Methods' = Methods
  BY <1>2 DEF Methods
<1>4. ASSUME NEW n \in 1..MaxDraw, Reshuffle(n) PROVE CatalogTypeInv'
  <2> DEFINE remaining == Excluded(Methods, offered)
             categories == {row.category : row \in remaining}
  <2>1. /\ eligible' = remaining /\ buckets' = [c \in categories |-> Bucket(remaining, c)] /\ turn' = categories
        /\ draw' = [on |-> TRUE, wanted |-> Smaller(n, Cardinality(remaining)), rows |-> <<>>] /\ offered' = offered
        /\ remaining # {}
    BY <1>4 DEF Reshuffle
  <2>2. remaining \subseteq Range(Methods)
    BY DEF Excluded
  <2> HIDE DEF remaining
  <2>3. \A c \in categories : Bucket(remaining, c) # {}
    BY DEF Bucket
  <2>4. \A row \in remaining : row.category \in categories /\ row \in Bucket(remaining, row.category)
    BY DEF Bucket
  <2> HIDE DEF categories
  <2>5. \A row \in eligible' : \E c \in DOMAIN buckets' : row \in buckets'[c]
    BY <2>1, <2>4
  <2>6. draw'.wanted = Smaller(n, Cardinality(remaining)) /\ n \in Nat
    BY <2>1
  <2>7. (draw'.wanted \in Nat /\ draw'.wanted < Cardinality(eligible')) \/ draw'.wanted = Cardinality(eligible')
    BY <2>1, <2>6 DEF Smaller
  <2>8. CoverInv'
    BY <1>3, <2>1, <2>2, <2>3, <2>4, <2>5, <2>7 DEF CoverInv
  <2> QED BY <1>1, <1>3, <2>1, <2>8 DEF CatalogTypeInv
<1>5. ASSUME NEW c \in turn, TakeFromBucket(c) PROVE CatalogTypeInv'
  <2>1. PICK row \in buckets[c] : /\ draw' = [draw EXCEPT !.rows = Append(@, row)]
                                  /\ LET left == [buckets EXCEPT ![c] = @ \ {row}] open == {k \in DOMAIN left : left[k] # {}}
                                     IN buckets' = left /\ turn' = IF turn = {c} THEN open ELSE turn \ {c}
    BY <1>5 DEF TakeFromBucket
  <2>2. draw.on /\ offered' = offered /\ eligible' = eligible /\ c \in DOMAIN buckets /\ RowsInv /\ CoverInv
        /\ DOMAIN draw = {"on", "wanted", "rows"} /\ turn \subseteq DOMAIN buckets
    BY <1>1, <1>5 DEF TakeFromBucket, DrawInv, CatalogTypeInv
  <2>3. draw'.rows = Append(draw.rows, row) /\ draw'.wanted = draw.wanted
    BY <2>1, <2>2
  <2>4. /\ DOMAIN buckets' = DOMAIN buckets /\ buckets'[c] = buckets[c] \ {row}
        /\ \A d \in DOMAIN buckets : d # c => buckets'[d] = buckets[d]
    BY <2>1, <2>2
  <2>5. turn' = IF turn = {c} THEN {d \in DOMAIN buckets : buckets'[d] # {}} ELSE turn \ {c}
    BY <2>1, <2>4
  <2>6. Range(draw'.rows) = Range(draw.rows) \cup {row}
    <3>1. draw.rows \in Seq(eligible) /\ row \in eligible
      BY <2>2 DEF RowsInv
    <3>2. /\ DOMAIN draw.rows = 1..Len(draw.rows) /\ DOMAIN draw'.rows = 1..(Len(draw.rows) + 1) /\ Len(draw.rows) \in Nat
          /\ \A i \in DOMAIN draw.rows : draw'.rows[i] = draw.rows[i]
      BY <2>3, <3>1, AppendProperties
    <3>3. draw'.rows[Len(draw.rows) + 1] = row
      BY <2>3, <3>1, AppendProperties
    <3> QED BY <3>2, <3>3 DEF Range
  <2>7. \A other \in eligible : other \in Range(draw'.rows) \/ \E d \in DOMAIN buckets' : other \in buckets'[d]
    BY <2>2, <2>4, <2>6 DEF CoverInv
  <2>8. \A d \in turn' : buckets'[d] # {}
    BY <2>2, <2>4, <2>5 DEF CoverInv
  <2>9. turn' = {} => \A d \in DOMAIN buckets' : buckets'[d] = {}
    BY <2>4, <2>5
  <2>10. CoverInv'
    BY <1>3, <2>2, <2>3, <2>7, <2>8, <2>9 DEF CoverInv
  <2> QED BY <1>1, <1>3, <2>2, <2>10 DEF CatalogTypeInv
<1>6. CASE OfferDraw
  <2>1. draw.on /\ offered' = offered \cup NamesOf(Range(draw.rows)) /\ draw' = NoDraw
    BY <1>6 DEF OfferDraw, NamesOf
  <2>2. draw.rows \in Seq(eligible) /\ eligible \subseteq Range(Methods)
    BY <1>1, <2>1 DEF DrawInv, RowsInv, CatalogTypeInv, CoverInv
  <2>3. Range(draw.rows) \subseteq Range(Methods)
    <3>1. \A i \in DOMAIN draw.rows : draw.rows[i] \in eligible
      BY <2>2, ElementOfSeq, LenProperties
    <3> QED BY <2>2, <3>1 DEF Range
  <2>4. offered' \subseteq NamesOf(Range(Methods))
    BY <2>1, <2>3 DEF CatalogTypeInv, NamesOf
  <2>5. ~draw'.on
    BY <2>1 DEF NoDraw
  <2> QED BY <1>1, <1>3, <2>4, <2>5 DEF CatalogTypeInv
<1>7. CASE UNCHANGED catalogVars
  <2>1. UNCHANGED <<overlay, offered, buckets, turn, draw, eligible>>
    BY <1>7 DEF catalogVars
  <2>2. CoverInv => CoverInv'
    BY <1>3, <2>1 DEF CoverInv
  <2> QED BY <1>1, <1>3, <2>1, <2>2 DEF CatalogTypeInv
<1> QED BY <1>4, <1>5, <1>6, <1>7 DEF CatalogNext
-----------------------------------------------------------------------------
MethodPuts == INSTANCE SequenceFolds WITH Op <- PutMethod
TechniquePuts == INSTANCE SequenceFolds WITH Op <- PutTechnique
-----------------------------------------------------------------------------
\* The steps of both merges.
PutMethodFold(f, table, extras, n) ==
  /\ f[0] = table /\ f[n] = FoldLeft(PutMethod, table, extras)
  /\ \A k \in 0..(n - 1) : f[k + 1] = PutMethod(f[k], extras[k + 1])
PutTechniqueFold(f, table, extras, n) ==
  /\ f[0] = table /\ f[n] = FoldLeft(PutTechnique, table, extras)
  /\ \A k \in 0..(n - 1) : f[k + 1] = PutTechnique(f[k], extras[k + 1])

LEMMA PutMethodSteps ==
  ASSUME NEW table, NEW extras, NEW n \in Nat, DOMAIN extras = 1..n
  PROVE  \E f : PutMethodFold(f, table, extras, n)
<1>1. PICK f : MethodPuts!Iterates(f, table, extras, n)
  BY MethodPuts!FoldLeftIterates, Zenon
<1>2. FoldLeft(PutMethod, table, extras) = MethodPuts!FoldOf(table, extras)
  BY DEF FoldLeft, MethodPuts!FoldOf, MapThenFoldSet, MethodPuts!MapThenFoldSet, Max, MethodPuts!Largest
<1> QED BY <1>1, <1>2, Zenon DEF MethodPuts!Iterates, PutMethodFold

LEMMA PutTechniqueSteps ==
  ASSUME NEW table, NEW extras, NEW n \in Nat, DOMAIN extras = 1..n
  PROVE  \E f : PutTechniqueFold(f, table, extras, n)
<1>1. PICK f : TechniquePuts!Iterates(f, table, extras, n)
  BY TechniquePuts!FoldLeftIterates, Zenon
<1>2. FoldLeft(PutTechnique, table, extras) = TechniquePuts!FoldOf(table, extras)
  BY DEF FoldLeft, TechniquePuts!FoldOf, MapThenFoldSet, TechniquePuts!MapThenFoldSet, Max, TechniquePuts!Largest
<1> QED BY <1>1, <1>2, Zenon DEF TechniquePuts!Iterates, PutTechniqueFold

\* Rows that differ in their numbers at most.
Renumbered(row, num) == [row EXCEPT !.num = num]
LEMMA RenumberedIs ==
  ASSUME NEW row \in CatalogRows, NEW num \in Nat
  PROVE  /\ Renumbered(row, num) \in CatalogRows /\ Renumbered(row, num).num = num
         /\ Renumbered(row, num).name = row.name /\ Renumbered(row, num).category = row.category
BY DEF CatalogRows, Renumbered

LEMMA RowsAreSame ==
  ASSUME NEW row \in CatalogRows, NEW other \in CatalogRows, row.name = other.name, row.category = other.category
  PROVE  row = Renumbered(other, row.num)
BY DEF CatalogRows, Renumbered

\* The merged methods and the merged techniques are the same but for the numbers; shipped
\* rows have their names, and their numbers where the extras state none.
Alike(methods, techniques) ==
  /\ methods \in Seq(CatalogRows) /\ techniques \in Seq(CatalogRows) /\ Len(techniques) = Len(methods)
  /\ \A i \in 1..Len(methods) : techniques[i].name = methods[i].name /\ techniques[i].category = methods[i].category
KeepsNumber(extras, i) == \A j \in DOMAIN extras : extras[j].name = ShippedRows[i].name => extras[j].num = 0
Shipped(methods, extras) ==
  /\ Len(ShippedRows) <= Len(methods)
  /\ \A i \in 1..Len(ShippedRows) :
       methods[i].name = ShippedRows[i].name /\ (KeepsNumber(extras, i) => methods[i].num = ShippedRows[i].num)

LEMMA LatestNamed ==
  ASSUME NEW table \in Seq(CatalogRows), NEW name, RowNamed(table, name) # {}
  PROVE  Max(RowNamed(table, name)) \in 1..Len(table) /\ table[Max(RowNamed(table, name))].name = name
<1>1. Len(table) \in Nat /\ DOMAIN table = 1..Len(table)
  BY LenProperties
<1>2. RowNamed(table, name) \in SUBSET (1..Len(table))
  BY <1>1 DEF RowNamed
<1>3. \E i \in RowNamed(table, name) : \A j \in RowNamed(table, name) : j <= i
  BY <1>1, <1>2, LargestIndexed
<1>4. \E i \in RowNamed(table, name) : \A j \in RowNamed(table, name) : i >= j
  BY <1>1, <1>2, <1>3
<1>5. Max(RowNamed(table, name)) \in RowNamed(table, name)
  BY <1>4 DEF Max
<1> HIDE DEF Max
<1> QED BY <1>1, <1>2, <1>5 DEF RowNamed

LEMMA RowsOf ==
  ASSUME NEW table \in Seq(CatalogRows), NEW row \in CatalogRows
  PROVE  /\ Len(table) \in Nat /\ DOMAIN table = 1..Len(table) /\ (\A i \in 1..Len(table) : table[i] \in CatalogRows)
         /\ Append(table, row) \in Seq(CatalogRows) /\ Len(Append(table, row)) = Len(table) + 1
         /\ Append(table, row)[Len(table) + 1] = row /\ \A i \in 1..Len(table) : Append(table, row)[i] = table[i]
         /\ \A at \in 1..Len(table) :
              /\ [table EXCEPT ![at] = row] \in Seq(CatalogRows) /\ Len([table EXCEPT ![at] = row]) = Len(table)
              /\ [table EXCEPT ![at] = row][at] = row
              /\ \A i \in 1..Len(table) : i # at => [table EXCEPT ![at] = row][i] = table[i]
BY AppendProperties, LenProperties, ElementOfSeq, ExceptSeq

LEMMA PutAlike ==
  ASSUME NEW methods, NEW techniques, NEW extras, Alike(methods, techniques), Shipped(methods, extras),
         NEW row \in CatalogRows, \E j \in DOMAIN extras : extras[j] = row
  PROVE  Alike(PutMethod(methods, row), PutTechnique(techniques, row)) /\ Shipped(PutMethod(methods, row), extras)
<1> DEFINE n == Len(methods) s == Len(ShippedRows)
<1>1. methods \in Seq(CatalogRows) /\ techniques \in Seq(CatalogRows) /\ Len(techniques) = n
  BY DEF Alike
<1>2. /\ n \in Nat /\ DOMAIN methods = 1..n /\ DOMAIN techniques = 1..n /\ \A i \in 1..n : methods[i] \in CatalogRows
  BY <1>1, RowsOf
<1>3. s \in Nat /\ s <= n
  <2>1. ShippedRows \in Seq(CatalogRows)
    BY Zenon, CatalogAssumption
  <2> QED BY <2>1, LenProperties DEF Shipped
<1>4. /\ \A i \in 1..n : techniques[i].name = methods[i].name /\ techniques[i].category = methods[i].category
      /\ \A i \in 1..s :
           methods[i].name = ShippedRows[i].name /\ (KeepsNumber(extras, i) => methods[i].num = ShippedRows[i].num)
  BY DEF Alike, Shipped
<1>5. RowNamed(techniques, row.name) = RowNamed(methods, row.name)
  BY <1>2, <1>4 DEF RowNamed
<1>6. CASE RowNamed(methods, row.name) = {}
  <2> DEFINE new == Append(methods, row) other == Append(techniques, row)
  <2>1. PutMethod(methods, row) = new /\ PutTechnique(techniques, row) = other
    BY <1>5, <1>6, Zenon DEF PutMethod, PutTechnique
  <2>2. new \in Seq(CatalogRows) /\ Len(new) = n + 1 /\ new[n + 1] = row /\ \A i \in 1..n : new[i] = methods[i]
    BY <1>1, RowsOf
  <2>3. other \in Seq(CatalogRows) /\ Len(other) = n + 1 /\ other[n + 1] = row /\ \A i \in 1..n : other[i] = techniques[i]
    BY <1>1, RowsOf
  <2> HIDE DEF new, other, n, s
  <2>4. \A i \in 1..(n + 1) : i = n + 1 \/ i \in 1..n
    BY <1>2
  <2>5. \A i \in 1..(n + 1) : other[i].name = new[i].name /\ other[i].category = new[i].category
    BY <1>4, <2>2, <2>3, <2>4
  <2>6. s <= n + 1 /\ \A i \in 1..s : i \in 1..n
    BY <1>2, <1>3
  <2>7. \A i \in 1..s : new[i].name = ShippedRows[i].name /\ (KeepsNumber(extras, i) => new[i].num = ShippedRows[i].num)
    BY <1>4, <2>2, <2>6
  <2>8. Alike(new, other) /\ Shipped(new, extras)
    BY <2>2, <2>3, <2>5, <2>6, <2>7 DEF Alike, Shipped, s
  <2> QED BY <2>1, <2>8
<1>7. CASE RowNamed(methods, row.name) # {}
  <2> DEFINE at == Max(RowNamed(methods, row.name))
             num == IF row.num = 0 THEN methods[at].num ELSE row.num
             put == Renumbered(row, num)
             new == [methods EXCEPT ![at] = put] other == [techniques EXCEPT ![at] = row]
  <2>1. at \in 1..n /\ methods[at].name = row.name
    BY <1>1, <1>7, LatestNamed
  <2>2. PutMethod(methods, row) = new /\ PutTechnique(techniques, row) = other
    <3>1. PutMethod(methods, row) = [methods EXCEPT ![at] = [row EXCEPT !.num = num]]
      BY <1>7 DEF PutMethod
    <3>2. PutTechnique(techniques, row) = other
      BY <1>5, <1>7 DEF PutTechnique
    <3> QED BY <3>1, <3>2 DEF Renumbered
  <2> HIDE DEF at
  <2>3. num \in Nat /\ (row.num = 0 => num = methods[at].num)
    BY <1>2, <2>1 DEF CatalogRows
  <2> HIDE DEF num
  <2>4. put \in CatalogRows /\ put.num = num /\ put.name = row.name /\ put.category = row.category
    BY <2>3, RenumberedIs
  <2> HIDE DEF put
  <2>5. new \in Seq(CatalogRows) /\ Len(new) = n /\ new[at] = put /\ \A i \in 1..n : i # at => new[i] = methods[i]
    BY <1>1, <2>1, <2>4, RowsOf
  <2>6. other \in Seq(CatalogRows) /\ Len(other) = n /\ other[at] = row /\ \A i \in 1..n : i # at => other[i] = techniques[i]
    BY <1>1, <2>1, RowsOf
  <2> HIDE DEF new, other, n, s
  <2>7. \A i \in 1..n : other[i].name = new[i].name /\ other[i].category = new[i].category
    BY <1>4, <2>4, <2>5, <2>6
  <2>8. ASSUME NEW i \in 1..s
        PROVE  new[i].name = ShippedRows[i].name /\ (KeepsNumber(extras, i) => new[i].num = ShippedRows[i].num)
    <3>1. i \in 1..n
      BY <1>2, <1>3
    <3>2. CASE i = at
      <4>1. row.name = ShippedRows[i].name
        BY <1>4, <2>1, <3>2
      <4>2. KeepsNumber(extras, i) => row.num = 0
        BY <4>1 DEF KeepsNumber
      <4> QED BY <1>4, <2>3, <2>4, <2>5, <3>2, <4>1, <4>2
    <3>3. CASE i # at
      BY <1>4, <2>5, <3>1, <3>3
    <3> QED BY <3>2, <3>3
  <2>10. Alike(new, other) /\ Shipped(new, extras)
    BY <1>3, <2>5, <2>6, <2>7, <2>8 DEF Alike, Shipped, s
  <2> QED BY <2>2, <2>10
<1> QED BY <1>6, <1>7

LEMMA MergesAlike ==
  ASSUME NEW extras \in Seq(CatalogRows)
  PROVE  /\ Alike(MergedMethods(ShippedRows, extras), MergeTechniques(ShippedRows, extras))
         /\ Shipped(MergedMethods(ShippedRows, extras), extras)
<1> DEFINE n == Len(extras)
<1>1. n \in Nat /\ DOMAIN extras = 1..n /\ \A i \in 1..n : extras[i] \in CatalogRows
  BY LenProperties, ElementOfSeq
<1> HIDE DEF n
<1>2. PICK f : PutMethodFold(f, ShippedRows, extras, n)
  BY <1>1, PutMethodSteps, Zenon
<1>3. PICK g : PutTechniqueFold(g, ShippedRows, extras, n)
  BY <1>1, PutTechniqueSteps, Zenon
<1> DEFINE Good == {k \in 0..n : Alike(f[k], g[k]) /\ Shipped(f[k], extras)}
<1>4. 0 \in Good
  <2>1. ShippedRows \in Seq(CatalogRows)
    BY Zenon, CatalogAssumption
  <2>2. f[0] = ShippedRows /\ g[0] = ShippedRows /\ 0 \in 0..n
    BY <1>1, <1>2, <1>3 DEF PutMethodFold, PutTechniqueFold
  <2>3. Len(ShippedRows) \in Nat
    BY <2>1, LenProperties
  <2>4. Alike(ShippedRows, ShippedRows) /\ Shipped(ShippedRows, extras)
    BY <2>1, <2>3 DEF Alike, Shipped
  <2> QED BY <2>2, <2>4
<1>5. ASSUME NEW k \in 0..(n - 1), k \in Good PROVE k + 1 \in Good
  <2>1. k + 1 \in 1..n /\ k + 1 \in 0..n
    BY <1>1
  <2>2. extras[k + 1] \in CatalogRows /\ \E j \in DOMAIN extras : extras[j] = extras[k + 1]
    BY <1>1, <2>1
  <2>3. f[k + 1] = PutMethod(f[k], extras[k + 1]) /\ g[k + 1] = PutTechnique(g[k], extras[k + 1])
    BY <1>2, <1>3 DEF PutMethodFold, PutTechniqueFold
  <2>4. Alike(f[k], g[k]) /\ Shipped(f[k], extras)
    BY <1>5
  <2>5. Alike(f[k + 1], g[k + 1]) /\ Shipped(f[k + 1], extras)
    BY <2>2, <2>3, <2>4, PutAlike
  <2> QED BY <2>1, <2>5
<1> HIDE DEF Good
<1>6. n \in Good
  BY <1>1, <1>4, <1>5, MethodPuts!UpTo
<1>7. f[n] = MergedMethods(ShippedRows, extras) /\ g[n] = MergeTechniques(ShippedRows, extras)
  BY <1>2, <1>3, Zenon DEF PutMethodFold, PutTechniqueFold, MergedMethods, MergeTechniques
<1> QED BY <1>6, <1>7 DEF Good
-----------------------------------------------------------------------------
HighestOf(table) == Max({0} \cup {table[i].num : i \in DOMAIN table})

LEMMA HighestIs ==
  ASSUME NEW table \in Seq(CatalogRows)
  PROVE  HighestOf(table) \in Nat /\ \A i \in 1..Len(table) : table[i].num <= HighestOf(table)
<1> DEFINE n == Len(table) V == {0} \cup {table[i].num : i \in DOMAIN table}
<1>1. n \in Nat /\ DOMAIN table = 1..n /\ \A i \in 1..n : table[i] \in CatalogRows
  BY LenProperties, ElementOfSeq
<1>2. \A i \in 1..n : table[i].num \in Nat
  BY <1>1 DEF CatalogRows
<1> HIDE DEF n
<1>3. 0 \in V /\ V \subseteq Nat /\ (\A i \in 1..n : table[i].num \in V) /\ \A v \in V : v = 0 \/ \E i \in 1..n : v = table[i].num
  BY <1>1, <1>2
<1> HIDE DEF V
<1> DEFINE Good == {k \in 0..n : \E x \in V : \A i \in 1..k : table[i].num <= x}
<1>4. 0 \in Good
  <2>1. 1..0 = {} /\ 0 \in 0..n
    BY <1>1
  <2> QED BY <1>3, <2>1
<1>5. ASSUME NEW k \in 0..(n - 1), k \in Good PROVE k + 1 \in Good
  <2>1. PICK x \in V : \A i \in 1..k : table[i].num <= x
    BY <1>5
  <2>2. k + 1 \in 1..n /\ k + 1 \in 0..n /\ \A i \in 1..(k + 1) : i = k + 1 \/ i \in 1..k
    BY <1>1
  <2>3. \A i \in 1..k : i \in 1..n
    BY <1>1
  <2>4. CASE table[k + 1].num <= x
    BY <2>1, <2>2, <2>4
  <2>5. CASE ~(table[k + 1].num <= x)
    <3>1. table[k + 1].num \in V /\ table[k + 1].num \in Nat /\ x \in Nat
      BY <1>2, <1>3, <2>2
    <3>2. \A i \in 1..(k + 1) : table[i].num <= table[k + 1].num
      BY <1>2, <2>1, <2>2, <2>3, <2>5, <3>1
    <3> QED BY <2>2, <3>1, <3>2
  <2> QED BY <2>4, <2>5
<1> HIDE DEF Good
<1>6. n \in Good
  BY <1>1, <1>4, <1>5, MethodPuts!UpTo
<1>7. PICK x \in V : \A i \in 1..n : table[i].num <= x
  BY <1>6 DEF Good
<1>8. x \in Nat /\ \A v \in V : v <= x
  BY <1>3, <1>7
<1>9. \A v \in V : x >= v
  BY <1>3, <1>8
<1>10. Max(V) \in V /\ \A v \in V : Max(V) >= v
  BY <1>9 DEF Max
<1> HIDE DEF Max
<1>11. Max(V) \in Nat /\ \A i \in 1..n : table[i].num <= Max(V)
  BY <1>2, <1>3, <1>10
<1> QED BY <1>11 DEF HighestOf, V, n

\* How many rows up to the i-th have no number.
EarlierOf(table, i) == Cardinality({j \in 1..i : table[j].num = 0})

LEMMA EarlierGrows ==
  ASSUME NEW table, NEW i \in Nat, NEW j \in Nat, i < j, table[j].num = 0
  PROVE  EarlierOf(table, i) \in Nat /\ EarlierOf(table, j) \in Nat /\ EarlierOf(table, i) < EarlierOf(table, j)
<1> DEFINE I == {k \in 1..i : table[k].num = 0} J == {k \in 1..j : table[k].num = 0}
<1>1. IsFiniteSet(1..i) /\ IsFiniteSet(1..j)
  BY FS_Interval
<1>2. I \in SUBSET (1..i) /\ J \in SUBSET (1..j)
  OBVIOUS
<1>3. j \in J /\ j \notin I /\ I \subseteq J
  OBVIOUS
<1> HIDE DEF I, J
<1>4. IsFiniteSet(I) /\ IsFiniteSet(J)
  BY <1>1, <1>2, FS_Subset
<1>5. IsFiniteSet(I \cup {j}) /\ Cardinality(I \cup {j}) = Cardinality(I) + 1
  BY <1>3, <1>4, FS_AddElement
<1>6. I \cup {j} \subseteq J
  BY <1>3
<1>7. Cardinality(I \cup {j}) <= Cardinality(J)
  BY <1>4, <1>6, FS_Subset
<1>8. Cardinality(I) \in Nat /\ Cardinality(J) \in Nat
  BY <1>4, FS_CardinalityType
<1>9. Cardinality(I) < Cardinality(J)
  BY <1>5, <1>7, <1>8
<1> QED BY <1>8, <1>9 DEF EarlierOf, I, J

\* The numbers after numbering: stated ones are kept, and the others are greater, each
\* greater than the one before.
LEMMA NumberedIs ==
  ASSUME NEW methods \in Seq(CatalogRows)
  PROVE  /\ Numbered(methods) \in Seq(CatalogRows) /\ Len(Numbered(methods)) = Len(methods)
         /\ \A i \in 1..Len(methods) :
              /\ Numbered(methods)[i].name = methods[i].name /\ Numbered(methods)[i].category = methods[i].category
              /\ Numbered(methods)[i].num = IF methods[i].num = 0 THEN HighestOf(methods) + EarlierOf(methods, i)
                                            ELSE methods[i].num
<1> DEFINE n == Len(methods) highest == HighestOf(methods)
           Row(i) == IF methods[i].num = 0 THEN Renumbered(methods[i], highest + EarlierOf(methods, i)) ELSE methods[i]
           R == [i \in 1..n |-> Row(i)]
<1>1. n \in Nat /\ DOMAIN methods = 1..n /\ \A i \in 1..n : methods[i] \in CatalogRows
  BY LenProperties, ElementOfSeq
<1>2. highest \in Nat
  BY HighestIs
<1>3. Numbered(methods) = R
  BY <1>1 DEF Numbered, HighestOf, Renumbered, EarlierOf
<1> HIDE DEF n, highest, R
<1>4. ASSUME NEW i \in 1..n
      PROVE  /\ Row(i) \in CatalogRows /\ Row(i).name = methods[i].name /\ Row(i).category = methods[i].category
             /\ Row(i).num = IF methods[i].num = 0 THEN highest + EarlierOf(methods, i) ELSE methods[i].num
  <2>1. methods[i] \in CatalogRows
    BY <1>1
  <2>2. CASE methods[i].num # 0
    BY <2>1, <2>2
  <2>3. CASE methods[i].num = 0
    <3> DEFINE num == highest + EarlierOf(methods, i)
    <3>1. EarlierOf(methods, i) \in Nat
      <4>1. 0 \in Nat /\ i \in Nat /\ 0 < i
        BY <1>1
      <4> QED BY <2>3, <4>1, EarlierGrows
    <3>2. num \in Nat /\ Row(i) = Renumbered(methods[i], num)
      BY <1>2, <2>3, <3>1
    <3> HIDE DEF num, Row
    <3>3. /\ Renumbered(methods[i], num) \in CatalogRows /\ Renumbered(methods[i], num).num = num
          /\ Renumbered(methods[i], num).name = methods[i].name
          /\ Renumbered(methods[i], num).category = methods[i].category
      BY <2>1, <3>2, RenumberedIs
    <3> QED BY <2>3, <3>2, <3>3 DEF num
  <2> QED BY <2>2, <2>3
<1> HIDE DEF Row
<1>5. R \in [1..n -> CatalogRows] /\ \A i \in 1..n : R[i] = Row(i)
  BY <1>4 DEF R
<1>6. R \in Seq(CatalogRows) /\ Len(R) = n
  <2>1. R \in Seq(CatalogRows)
    BY <1>1, <1>5, SeqDef
  <2> QED BY <1>1, <1>5, <2>1, LenProperties
<1> QED BY <1>3, <1>4, <1>5, <1>6 DEF n, highest

LEMMA MinOfOne ==
  ASSUME NEW i \in Nat
  PROVE  Min({i}) = i
<1>1. \E x \in {i} : \A y \in {i} : x <= y
  OBVIOUS
<1>2. Min({i}) \in {i}
  BY <1>1 DEF Min
<1> HIDE DEF Min
<1> QED BY <1>2

LEMMA MethodsAreAddressable ==
  ASSUME overlay \in Overlays
  PROVE  OverlayIsAddressable
<1> DEFINE methods == MergedMethods(ShippedRows, overlay) techniques == MergeTechniques(ShippedRows, overlay)
           n == Len(methods) s == Len(ShippedRows) highest == HighestOf(methods)
           IsAlone(i) == methods[i].num = 0 \/ \A j \in DOMAIN methods : methods[j].num = methods[i].num => i = j
<1>1. overlay \in Seq(CatalogRows)
  BY Zenon, CatalogAssumption
<1>2. Alike(methods, techniques) /\ Shipped(methods, overlay)
  BY <1>1, MergesAlike
<1>3. Methods = Numbered(methods)
  BY Zenon DEF Methods, MergeExtra
<1> HIDE DEF methods, techniques
<1>4. methods \in Seq(CatalogRows) /\ techniques \in Seq(CatalogRows)
  BY <1>2 DEF Alike
<1>5. /\ n \in Nat /\ DOMAIN methods = 1..n /\ highest \in Nat /\ \A i \in 1..n : methods[i] \in CatalogRows
      /\ \A i \in 1..n : methods[i].num <= highest
  BY <1>4, HighestIs, LenProperties, ElementOfSeq
<1>6. ShippedRows \in Seq(CatalogRows) /\ \A i \in DOMAIN ShippedRows : ShippedRows[i].num # 0
  BY Zenon, CatalogAssumption
<1>7. /\ s \in Nat /\ DOMAIN ShippedRows = 1..s /\ s <= n
      /\ \A i \in 1..s : methods[i].name = ShippedRows[i].name /\ (KeepsNumber(overlay, i) => methods[i].num = ShippedRows[i].num)
  BY <1>2, <1>6, LenProperties DEF Shipped
<1>8. \A i \in 1..n : methods[i].num \in Nat
  BY <1>5 DEF CatalogRows
<1>9. /\ Methods \in Seq(CatalogRows) /\ Len(Methods) = n
      /\ \A i \in 1..n : /\ Methods[i].name = methods[i].name /\ Methods[i].category = methods[i].category
                         /\ Methods[i].num = IF methods[i].num = 0 THEN highest + EarlierOf(methods, i) ELSE methods[i].num
  BY <1>3, <1>4, NumberedIs
<1> HIDE DEF n, s, highest
<1>10. DOMAIN Methods = 1..n /\ \A i \in 1..n : Methods[i] \in CatalogRows
  BY <1>9, LenProperties, ElementOfSeq
\* A number that is given is above every stated one, and no two given ones are the same.
<1>18. ASSUME NEW i \in 1..n, methods[i].num = 0 PROVE Methods[i].num \in Nat /\ Methods[i].num > highest
  <2>1. EarlierOf(methods, 0) \in Nat /\ EarlierOf(methods, i) \in Nat /\ EarlierOf(methods, 0) < EarlierOf(methods, i)
    <3>1. 0 \in Nat /\ i \in Nat /\ 0 < i
      BY <1>5
    <3> QED BY <1>18, <3>1, EarlierGrows
  <2> QED BY <1>5, <1>9, <1>18, <2>1
<1>19. ASSUME NEW i \in 1..n, NEW j \in 1..n, methods[i].num = 0, methods[j].num = 0, i < j
       PROVE  Methods[i].num # Methods[j].num
  <2>1. EarlierOf(methods, i) \in Nat /\ EarlierOf(methods, j) \in Nat /\ EarlierOf(methods, i) < EarlierOf(methods, j)
    BY <1>5, <1>19, EarlierGrows
  <2> QED BY <1>5, <1>9, <1>19, <2>1
<1>11. ASSUME NEW i \in 1..n, NEW j \in 1..n, IsAlone(i), Methods[j].num = Methods[i].num PROVE i = j
  <2>1. CASE methods[i].num = 0 /\ methods[j].num = 0
    <3>1. ~(i < j) /\ ~(j < i)
      BY <1>11, <1>19, <2>1
    <3> QED BY <1>5, <3>1
  <2>2. CASE methods[i].num = 0 /\ methods[j].num # 0
    <3>1. Methods[j].num = methods[j].num
      BY <1>9, <2>2
    <3>2. Methods[i].num \in Nat /\ Methods[i].num > highest
      BY <1>18, <2>2
    <3> QED BY <1>5, <1>8, <1>11, <3>1, <3>2
  <2>3. CASE methods[i].num # 0 /\ methods[j].num = 0
    <3>1. Methods[i].num = methods[i].num
      BY <1>9, <2>3
    <3>2. Methods[j].num \in Nat /\ Methods[j].num > highest
      BY <1>18, <2>3
    <3> QED BY <1>5, <1>8, <1>11, <3>1, <3>2
  <2>4. CASE methods[i].num # 0 /\ methods[j].num # 0
    <3>1. methods[j].num = methods[i].num
      BY <1>9, <1>11, <2>4
    <3> QED BY <1>5, <1>11, <2>4, <3>1
  <2> QED BY <2>1, <2>2, <2>3, <2>4
<1>12. ASSUME NEW i \in 1..n, IsAlone(i) PROVE FindMethod(Methods, Methods[i].num) = i
  <2> DEFINE numbered == {j \in DOMAIN Methods : Methods[j].num = Methods[i].num}
  <2>1. numbered = {i} /\ numbered # {}
    BY <1>10, <1>11, <1>12
  <2>2. FindMethod(Methods, Methods[i].num) = Min(numbered)
    BY <2>1, Zenon DEF FindMethod
  <2> HIDE DEF numbered
  <2>3. i \in Nat
    BY <1>5
  <2> QED BY <2>1, <2>2, <2>3, MinOfOne
<1>13. ASSUME NEW i \in DOMAIN ShippedRows, i \in 1..n
       PROVE  Methods[i].name = ShippedRows[i].name /\ (KeepsNumber(overlay, i) => Methods[i].num = ShippedRows[i].num)
  <2>1. i \in 1..s
    BY <1>7
  <2>2. methods[i].name = ShippedRows[i].name /\ (KeepsNumber(overlay, i) => methods[i].num = ShippedRows[i].num)
    BY <1>7, <2>1
  <2>3. ShippedRows[i].num # 0
    BY <1>6
  <2> QED BY <1>9, <1>13, <2>2, <2>3
<1>14. Len(techniques) = n /\ \A i \in 1..n : techniques[i].name = methods[i].name /\ techniques[i].category = methods[i].category
  BY <1>2 DEF Alike, n
<1>15. \A i \in 1..n : techniques[i] \in CatalogRows
  BY <1>4, <1>14, LenProperties, ElementOfSeq
<1>16. ASSUME NEW i \in 1..n PROVE techniques[i] = [Methods[i] EXCEPT !.num = techniques[i].num]
  <2>1. techniques[i] \in CatalogRows /\ Methods[i] \in CatalogRows
    BY <1>10, <1>15
  <2>2. techniques[i].name = Methods[i].name /\ techniques[i].category = Methods[i].category
    BY <1>9, <1>14
  <2> QED BY <2>1, <2>2, RowsAreSame DEF Renumbered
<1>17. ASSUME NEW i \in DOMAIN Methods
       PROVE  /\ IsAlone(i) => FindMethod(Methods, Methods[i].num) = i
              /\ i \in DOMAIN ShippedRows =>
                   Methods[i].name = ShippedRows[i].name /\ (KeepsNumber(overlay, i) => Methods[i].num = ShippedRows[i].num)
              /\ techniques[i] = [Methods[i] EXCEPT !.num = techniques[i].num]
  <2>1. i \in 1..n
    BY <1>10
  <2> HIDE DEF IsAlone
  <2> QED BY <1>12, <1>13, <1>16, <2>1
<1>20. Len(techniques) = Len(Methods)
  BY <1>9, <1>14
<1> HIDE DEF IsAlone
<1> QED BY <1>17, <1>20, Zenon DEF OverlayIsAddressable, techniques, methods, IsAlone, KeepsNumber
-----------------------------------------------------------------------------
\* Whatever agents a configuration states for a task, in whatever state document it is
\* pinned, the task gets them, and the runtimes among them are started; every state document
\* is valid (agent_config.py, state.py, orchestrator_epic_agents.py, tmux.py).
THEOREM AgentsAreTheGiven ==
  AgentSpec => [](StatedAgentsAreGiven /\ AnswerIsTheOtherResolvers /\ AnsweredAgentRuns /\ StatedConfigIsValid)
BY AgentInit_Inv, AgentStepInv, AgentInvImplies, PTL DEF AgentSpec

\* Every method of a catalog with an overlay is shown by its number unless that number is
\* stated twice, has the name it was shipped with and its number unless another is stated,
\* and both catalogs agree, whatever the rows are (pick_methods.py: merge_extra, find).
THEOREM OverlaysAreAddressable == CatalogSpec => []OverlayIsAddressable
<1> DEFINE Known == overlay \in Overlays
<1>1. CatalogInit => Known
  BY DEF CatalogInit
<1>2. Known /\ [CatalogNext]_catalogVars => Known'
  BY DEF CatalogNext, Reshuffle, TakeFromBucket, OfferDraw, catalogVars
<1>3. Known => OverlayIsAddressable
  BY MethodsAreAddressable
<1> HIDE DEF Known
<1> QED BY <1>1, <1>2, <1>3, PTL DEF CatalogSpec
=============================================================================
