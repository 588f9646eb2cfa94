------------------------------ MODULE EpicRun ------------------------------
(***************************************************************************)
(* An orchestration over the stories of epic files: the story range is     *)
(* chosen from an epic file (core/epic_parser.py), the helpers say which   *)
(* stories belong to an epic, which is the last and which one blocks       *)
(* others (commands/orchestrator_epic_agents.py), the story creation gate  *)
(* counts files (commands/validate_story_creation.py), sprint-compare      *)
(* checks a resumed run (commands/state.py), and the finish step decides   *)
(* from them when an epic gets its retrospective.  The rows and files of   *)
(* StoryStatus change all the while.                                       *)
(***************************************************************************)
EXTENDS StoryStatus

CONSTANTS HeadingsOf(_), \* story headings of an epic file, in the order of the file
          Selections     \* the story ranges a user may type

ASSUME EpicRunAssumption ==
  \A doc \in EpicDocs : HeadingsOf(doc) \in Seq(Range(HeadingsOf(doc))) /\ \A heading \in Range(HeadingsOf(doc)) :
    heading.epic \in Seq(Int) /\ heading.ref.segments \in Seq(Int) \ {<<>>}

VARIABLES storyRange,  \* storyRange of the state document
          source,      \* the epic file it was chosen from
          current,     \* how many stories of the range are finished
          retros       \* epics whose retrospective was triggered

epicRunVars == <<rows, stories, epics, storyRange, source, current, retros>>

\* A heading is [epic |-> the "## Epic" it stands under, or <<>>, ref |-> as written,
\* slug |-> its title, needs |-> the references on its Dependencies line].
\* The elements at the places of a set, in order.
Picked(seq, at) ==
  [k \in 1..Cardinality(at) |-> seq[CHOOSE i \in at : Cardinality({j \in at : j <= i}) = k]]

IdOf(story) == DotRef(story.epic, story.num)
PrefixOf(story) == Ref(Prefix(story))

\* normalize_story_key_for_epic of a reference as written.
NormalizeForEpic(epic, ref) ==
  LET Only(story) == IF IsOfEpic(story, epic) THEN story ELSE NotAKey
  IN IF ref.dot THEN Only(NormalizeStoryKey(ref)) ELSE NormalizeStoryKeyForEpic(epic, ref.segments)
InEpic(epic, ref) == IsOfEpic(NormalizeForEpic(epic, ref), epic)

NormalizeHeaderStory(heading) ==
  LET Or(story) == IF heading.epic # <<>> /\ story.ok THEN story ELSE NormalizeStoryKey(heading.ref)
  IN Or(NormalizeForEpic(heading.epic, heading.ref))

(***************************************************************************)
(* core/epic_parser.py: the stories of a file and the range of a run.      *)
(***************************************************************************)
ParseEpicFile(doc) ==
  LET Readable(entries) == Picked(entries, {i \in DOMAIN entries : entries[i].story.ok})
  IN Readable([i \in DOMAIN HeadingsOf(doc) |->
                 [story |-> NormalizeHeaderStory(HeadingsOf(doc)[i]), heading |-> HeadingsOf(doc)[i]]])

\* The first heading that a reference names, 0 when there is none (story_not_found).
ParseStory(entries, target) ==
  LET Names(story, ref) == {ref, IdOf(story), PrefixOf(story), Ref(story.key)}
      First(found) == IF found = {} THEN 0 ELSE SmallestOf(found)
  IN First({i \in DOMAIN entries : target \in Names(entries[i].story, entries[i].heading.ref)})

\* "all", or pairs <<from, to>> in either order; places beyond the file are dropped.
ParseStoryRange(picks, ids) ==
  Picked(ids, {i \in DOMAIN ids : \E pick \in picks : SmallestOf({pick[1], pick[2]}) <= i
                                                    /\ i <= LargestOf({pick[1], pick[2]})})

StoryAliases(entry) ==
  LET story == entry.story ref == entry.heading.ref
      explicit == ref \notin {IdOf(story), PrefixOf(story)}
  IN {IdOf(story), ref, Ref(story.key)}
     \cup IF explicit THEN {} ELSE {PrefixOf(story), Ref(Prefix(story) \o entry.heading.slug)}

CanonicalStoryId(ref, entries) ==
  LET First(known) == IF known = {} THEN ref ELSE IdOf(entries[SmallestOf(known)].story)
  IN First({i \in DOMAIN entries : ref \in StoryAliases(entries[i])})

\* _story_sort_key: numbered epics first, then by the number of the story.
IdBefore(a, b) ==
  LET epicOf(id) == Front(id.segments)
      numbered(id) == Len(epicOf(id)) = 1 /\ IsNumber(epicOf(id)[1])
  IN IF numbered(a) # numbered(b) THEN numbered(a)
     ELSE IF epicOf(a) # epicOf(b) THEN NameBefore(epicOf(a), epicOf(b))
     ELSE Last(a.segments) <= Last(b.segments)
LastId(ids) == CHOOSE id \in ids : \A other \in ids : IdBefore(other, id)

IdsOf(entries) == {IdOf(entries[i].story) : i \in DOMAIN entries}

RangeReachesLastStory(entries, refs) ==
  LET Reaches(ids, selected) == ids # {} /\ selected # {} /\ LastId(selected) = LastId(ids)
  IN Reaches(IdsOf(entries), {CanonicalStoryId(ref, entries) : ref \in refs})

(***************************************************************************)
(* commands/orchestrator_epic_agents.py.                                   *)
(***************************************************************************)
HasStoryOf(doc, epic) == \E i \in DOMAIN HeadingsOf(doc) : InEpic(epic, HeadingsOf(doc)[i].ref)

\* epic-<epic>.md, or the first file that continues the name and has a story of it.
FindEpicFile(epic) ==
  LET First(docs) == IF docs = {} THEN <<>> ELSE FirstName(docs)
  IN First({doc \in epics : IsPrefix(epic, doc) /\ HasStoryOf(doc, epic)})

IsExplicit(ref, story) == story.ok /\ ~ref.dot /\ ref.segments = story.key /\ ref.segments # Prefix(story)
StoryKeyRank(ref, story) == IF IsExplicit(ref, story) THEN 2 ELSE 1

\* The references of an epic, one per story: the last of the best rank.
Dedupe(epic, refs) ==
  LET Same(of, i, j) == IF of[i].ok /\ of[j].ok THEN SameStory(of[i], of[j]) ELSE refs[i] = refs[j]
      Better(of, i, j) == \/ StoryKeyRank(refs[i], of[i]) > StoryKeyRank(refs[j], of[j])
                          \/ StoryKeyRank(refs[i], of[i]) = StoryKeyRank(refs[j], of[j]) /\ i >= j
      Kept(of) == {refs[i] : i \in {i \in DOMAIN of : \A j \in DOMAIN of : Same(of, i, j) => Better(of, i, j)}}
  IN Kept([i \in DOMAIN refs |-> NormalizeForEpic(epic, refs[i])])

StateStories(epic) == Picked(storyRange, {i \in DOMAIN storyRange : InEpic(epic, storyRange[i])})
SprintStories(epic) == {Ref(rows[i].key) : i \in SprintStatusEpic(epic)}

SameStoryInEpic(epic, left, right) ==
  LET Same(l, r) == IF l.ok /\ r.ok /\ ~IsExplicit(left, l) THEN SameStory(l, r) ELSE left = right
  IN Same(NormalizeForEpic(epic, left), NormalizeForEpic(epic, right))

\* A reference that is no story's has number 0.
LastStory(epic, refs) ==
  LET Greatest(num) == CHOOSE ref \in refs : \A other \in refs : num[other] <= num[ref]
  IN Greatest([ref \in refs |-> NormalizeForEpic(epic, ref).num])

\* isLastStory of check-epic-complete, from the state document or the sprint status.
CheckEpicComplete(epic, ref, fromState) ==
  LET EpicOf(story) == IF story.ok THEN story.epic ELSE IF ref.dot THEN Front(ref.segments) ELSE ref.segments
      IsLastOf(listed) == listed # {} /\ SameStoryInEpic(epic, ref, LastStory(epic, listed))
  IN /\ EpicOf(NormalizeForEpic(epic, ref)) = epic
     /\ IsLastOf(IF fromState THEN Dedupe(epic, StateStories(epic)) ELSE SprintStories(epic))

StoryIdsFromEpicFile(doc, epic) ==
  LET headings == HeadingsOf(doc)
      Firsts(of) == {headings[i].ref : i \in {i \in DOMAIN of : /\ IsOfEpic(of[i], epic)
                                                               /\ \A j \in DOMAIN of : SameStory(of[i], of[j]) => i <= j}}
  IN Firsts([i \in DOMAIN headings |-> NormalizeForEpic(epic, headings[i].ref)])

GetEpicStories(epic) ==
  LET FromFile(doc) == IF doc = <<>> THEN {} ELSE StoryIdsFromEpicFile(doc, epic)
      OrFromFile(refs) == IF refs # {} THEN refs ELSE FromFile(FindEpicFile(epic))
      OrFromSprint(refs) == IF refs # <<>> THEN Dedupe(epic, refs) ELSE OrFromFile(SprintStories(epic))
  IN OrFromSprint(StateStories(epic))

\* The first reference of the line to the story decides; two full keys must be the same.
ReferencesStory(epic, target, asked, tokens) ==
  LET Decides(token) == IsExplicit(asked, target) /\ IsExplicit(token, NormalizeForEpic(epic, token)) => token = asked
      FirstOf(naming) == naming # {} /\ Decides(tokens[SmallestOf(naming)])
  IN FirstOf({i \in DOMAIN tokens : SameStory(NormalizeForEpic(epic, tokens[i]), target)})

\* A story whose epic file is unknown counts as blocking.
CheckBlocking(ref) ==
  LET Needed(story, doc) ==
        doc = <<>> \/ \E i \in DOMAIN HeadingsOf(doc) :
                        /\ InEpic(story.epic, HeadingsOf(doc)[i].ref)
                        /\ ReferencesStory(story.epic, story, ref, HeadingsOf(doc)[i].needs)
      Blocking(story) == story.ok /\ Needed(story, FindEpicFile(story.epic))
  IN Blocking(NormalizeStoryKey(ref))

(***************************************************************************)
(* Gates: story creation, commit, story-file-status.                       *)
(***************************************************************************)
\* The first file of the prefix, whichever story it belongs to.
StoryFileStatus(ref) ==
  LET StatusOf(files) == IF files = {} THEN "" ELSE stories[FirstName(files)]
      Of(story) == StatusOf({k \in DOMAIN stories : story.ok /\ Under(Prefix(story), k)})
  IN Of(NormalizeStoryKey(ref))

CheckEpicDone(epic) == AllRowsDone(SprintStatusEpic(epic))

(***************************************************************************)
(* The run.                                                                *)
(***************************************************************************)
\* Preflight parses an epic file and writes the ids of the selection.
ChooseRange(doc, picks) ==
  /\ storyRange = <<>> /\ doc \in epics
  /\ LET Ids(entries) == [i \in DOMAIN entries |-> IdOf(entries[i].story)]
     IN storyRange' = ParseStoryRange(picks, Ids(ParseEpicFile(doc)))
  /\ storyRange' # <<>>
  /\ source' = doc
  /\ UNCHANGED <<rows, stories, epics, current, retros>>

\* The finish step: the sprint status by the completed key, or the story file.
FinishStory ==
  /\ current < Len(storyRange)
  /\ LET ref == storyRange[current + 1]
         Finished(story) == story.ok /\ (IsDone(Ref(story.key)) \/ StoryFileStatus(ref) = "done")
     IN Finished(NormalizeStoryKey(ref))
  /\ current' = current + 1
  /\ UNCHANGED <<rows, stories, epics, storyRange, source, retros>>

\* After a story the epic is checked twice: each of its stories, and all its rows.
TriggerRetro ==
  /\ current > 0
  /\ LET epic == Front(storyRange[current].segments)
         AllDone(refs) == refs # {} /\ \A ref \in refs : IsDone(ref)
     IN /\ epic \notin retros /\ CheckEpicDone(epic)
        /\ AllDone(GetEpicStories(epic))
        /\ retros' = retros \cup {epic}
  /\ UNCHANGED <<rows, stories, epics, storyRange, source, current>>

EpicRunInit == StatusInit /\ storyRange = <<>> /\ source = <<>> /\ current = 0 /\ retros = {}

EpicRunNext ==
  \/ StatusNext /\ UNCHANGED <<storyRange, source, current, retros>>
  \/ \E doc \in EpicDocs, picks \in Selections : ChooseRange(doc, picks)
  \/ FinishStory
  \/ TriggerRetro

EpicRunSpec == EpicRunInit /\ [][EpicRunNext]_epicRunVars

-----------------------------------------------------------------------------
\* The run's range and progress (preflight, finish step).
EpicRunTypeOK ==
  /\ StatusTypeOK
  /\ current \in 0..Len(storyRange) /\ retros \subseteq {Front(storyRange[i].segments) : i \in DOMAIN storyRange}
  /\ storyRange # <<>> => source \in epics

\* The places of the headings of a file that read in one way.
FirmHeadings(doc) == {h \in DOMAIN HeadingsOf(doc) : ReadsInOneWay(HeadingsOf(doc)[h].ref)}

\* However rows and files change, an id of the range that comes from a heading that reads
\* in one way still names a story of the file it was chosen from, and that story has that
\* id (parse-story after preflight).  Another heading may be read as a story of a longer
\* epic once that has rows or a file, and its old id names nothing.
RangeStaysResolvable ==
  LET NamesIt(entries, id, at) == at # 0 /\ IdOf(entries[at].story) = id
      IsFirm(id) == \E h \in FirmHeadings(source) : IdOf(SplitRef(HeadingsOf(source)[h].ref)) = id
      AllNamed(entries) == \A i \in DOMAIN storyRange :
        IsFirm(storyRange[i]) => NamesIt(entries, storyRange[i], ParseStory(entries, storyRange[i]))
  IN storyRange # <<>> => AllNamed(ParseEpicFile(source))

\* Exactly one story of an epic in the range is its last (check-epic-complete), however
\* many headings were read as that story.
OneLastStory ==
  \A epic \in EpicNames : StateStories(epic) # <<>> =>
    Cardinality({id \in Range(storyRange) : CheckEpicComplete(epic, id, TRUE)}) = 1

\* A range that ends with the last story of a file whose headings read in one way is
\* seen to reach it (epic-complete).
LastStoryIsReached ==
  LET Chosen == Range(storyRange)
      IsSeen(entries) == RangeReachesLastStory(entries, Chosen) <=> LastId(IdsOf(entries)) \in Chosen
  IN storyRange # <<>> /\ FirmHeadings(source) = DOMAIN HeadingsOf(source) => IsSeen(ParseEpicFile(source))

\* A story of the range that another story of its epic depends on, in the file the epic
\* is looked up in, blocks (check-blocking).
DependedOnBlocks ==
  LET Needs(heading, id) == \E n \in DOMAIN heading.needs : heading.needs[n] = id
      Blocks(id, epic) == FindEpicFile(epic) = source =>
        \A h \in FirmHeadings(source) :
          Needs(HeadingsOf(source)[h], id) /\ SplitRef(HeadingsOf(source)[h].ref).epic = epic => CheckBlocking(id)
  IN \A id \in Range(storyRange) : Blocks(id, Front(id.segments))

\* A retrospective is triggered only when each story of the epic in the range is done.
RetroMeansDone ==
  [][\A epic \in retros' \ retros : \A i \in DOMAIN storyRange :
       Front(storyRange[i].segments) = epic =>
         \E r \in DOMAIN rows : rows[r].status = "done" /\ SameStory(SplitRef(Ref(rows[r].key)), SplitRef(storyRange[i]))]_epicRunVars
=============================================================================
