---------------------------- MODULE StoryStatus -----------------------------
(***************************************************************************)
(* What the story automator takes for a story and for its status: the      *)
(* normalisation of story keys (core/story_keys.py), the look-ups in       *)
(* sprint-status.yaml (core/sprint.py) and the verifiers that decide       *)
(* whether a step has succeeded (core/success_verifiers.py), while agents  *)
(* add rows, files and statuses.                                           *)
(*                                                                         *)
(* A key is the sequence of its segments between dashes: a number stands   *)
(* for itself and a word for a negative number.  A reference may also end  *)
(* in ".n".  The epic of a key like auth-1-2-login is ambiguous, and the   *)
(* code guesses it from the rows and files there are.                      *)
(***************************************************************************)
EXTENDS Integers, Sequences, FiniteSets, SequencesExt

CONSTANTS StoryRefs,  \* the references to stories that agents and users write
          EpicNames,  \* the epics they ask about
          EpicDocs,   \* the epics that may have an epic file
          StoryKeys,  \* the keys that rows and story files may have
          MaxRows, MaxFiles, MaxEpicFiles \* bounds: rows of sprint-status.yaml, story files, epic files

ASSUME StatusAssumption ==
  /\ {MaxRows, MaxFiles, MaxEpicFiles} \subseteq Nat /\ StoryKeys \subseteq Seq(Int) \ {<<>>}
  /\ \A ref \in StoryRefs : ref.segments \in Seq(Int) \ {<<>>}

VARIABLES rows,      \* sprint-status.yaml: sequence of keys with a status
          stories,   \* story files: the status each carries
          epics      \* epic files

statusVars == <<rows, stories, epics>>

Statuses == {"open", "done"}
IsNumber(segment) == segment >= 0
Ref(segments) == [segments |-> segments, dot |-> FALSE]
DotRef(epic, num) == [segments |-> Append(epic, num), dot |-> TRUE]

Before(key, i) == SubSeq(key, 1, i - 1)
Under(prefix, key) == Len(key) > Len(prefix) /\ IsPrefix(prefix, key)
RowKeys == {rows[i].key : i \in DOMAIN rows}
LargestOf(S) == CHOOSE i \in S : \A j \in S : j <= i
SmallestOf(S) == CHOOSE i \in S : \A j \in S : i <= j

(***************************************************************************)
(* Story keys.                                                             *)
(***************************************************************************)
\* The places where a key may be cut: before a number that something follows.
Cuts(key) == {i \in 2..(Len(key) - 1) : IsNumber(key[i])}

\* epic-<epic>.md, or a file whose name goes on after a dash.
EpicFileExists(epic) == \E doc \in epics : IsPrefix(epic, doc)

EpicExists(epic) ==
  \/ EpicFileExists(epic)
  \/ Cardinality({k[Len(epic) + 1] : k \in {r \in RowKeys : Under(epic, r) /\ IsNumber(r[Len(epic) + 1])}}) > 1

HasExactStoryKey(key) == key \in DOMAIN stories \cup RowKeys

KnownParentEpic(epic) == Len(epic) > 1 /\ IsNumber(Last(epic)) /\ EpicExists(Front(epic))

YearLikeNumericSuffixEpic(epic) == epic # <<>> /\ Last(epic) >= 1000

SingleStoryNumericEpic(epic) ==
  LET numbers == {i \in DOMAIN epic : IsNumber(epic[i])}
  IN \/ Cardinality(numbers) = 1
     \/ /\ Cardinality(numbers) = 2 /\ epic[LargestOf(numbers)] <= 99
        /\ \E i \in (SmallestOf(numbers) + 1)..(LargestOf(numbers) - 1) : ~IsNumber(epic[i])

IsSingleStoryKey(key, i) ==
  LET epic == Before(key, i) IN
  /\ ~(key[i] # 1 /\ KnownParentEpic(epic))
  /\ HasExactStoryKey(key) /\ IsNumber(Last(epic)) /\ SingleStoryNumericEpic(epic)
  /\ key[i] = 1 \/ (key[i] \in 10..99 /\ YearLikeNumericSuffixEpic(epic))

\* _split_non_numeric_full_key: the longest epic that the project knows, and a guess otherwise.
SplitNonNumericFullKey(key, cuts) ==
  LET later == cuts \ {SmallestOf(cuts)}
      Preferred(single, known, yearly, first) ==
        IF single # {} THEN LargestOf(single)
        ELSE IF known # {} THEN LargestOf(known)
        ELSE IF later # {} /\ key[first] >= 1000 /\ key[SmallestOf(later)] >= 100 THEN SmallestOf(later)
        ELSE IF yearly # {} THEN LargestOf(yearly) ELSE first
  IN Preferred({i \in later : IsSingleStoryKey(key, i)}, {i \in cuts : EpicExists(Before(key, i))},
               {i \in later : key[i] \in 10..99 /\ YearLikeNumericSuffixEpic(Before(key, i))}, SmallestOf(cuts))

NotAKey == [ok |-> FALSE, epic |-> <<>>, num |-> 0, key |-> <<>>]
StoryOf(epic, num, key) == [ok |-> TRUE, epic |-> epic, num |-> num, key |-> key]
CutAt(key, i) == StoryOf(Before(key, i), key[i], key)
Prefix(story) == Append(story.epic, story.num)
SameStory(a, b) == a.ok /\ b.ok /\ a.epic = b.epic /\ a.num = b.num

\* The story a reference names, and the reference itself when it is a full key.
SplitRef(ref) ==
  LET key == ref.segments
      numeric == IsNumber(key[1])
      whole == IsNumber(Last(key)) /\ Len(key) >= 2 /\ (numeric => Len(key) = 2)
  IN IF whole THEN StoryOf(Front(key), Last(key), <<>>)
     ELSE IF ref.dot THEN NotAKey
     ELSE IF numeric
     THEN IF Len(key) >= 3 /\ IsNumber(key[2]) THEN StoryOf(<<key[1]>>, key[2], key) ELSE NotAKey
     ELSE IF Cuts(key) # {}
     THEN CutAt(key, SplitNonNumericFullKey(key, Cuts(key)))
     ELSE NotAKey

HasAmbiguousLaterBoundary(key, story) ==
  /\ story.num >= 1000 /\ Under(Prefix(story), key)
  /\ LET rest == SubSeq(key, Len(Prefix(story)) + 1, Len(key))
     IN Len(rest) >= 4 /\ IsNumber(rest[2]) /\ IsNumber(rest[3])

\* Mutant: whatever continues the story's prefix is a key of the story.
KeyContinuesStory(key, story, allowAmbiguous) == Under(Prefix(story), key)

\* A key that continues the story's prefix can always be split, so the code's
\* branch for one that cannot is never taken.
FullKeyMatchesStory(key, story, allowAmbiguous) ==
  /\ SameStory(SplitRef(Ref(key)), story)
  /\ allowAmbiguous \/ ~HasAmbiguousLaterBoundary(key, story)

\* Files come sorted by name, rows in the order of the file.
NameBefore(a, b) ==
  LET differ == {i \in DOMAIN a \cap DOMAIN b : a[i] # b[i]}
  IN IF differ = {} THEN Len(a) <= Len(b)
     ELSE LET i == SmallestOf(differ) IN
          IF IsNumber(a[i]) = IsNumber(b[i]) THEN a[i] < b[i] ELSE IsNumber(a[i])

FirstName(files) == CHOOSE k \in files : \A m \in files : NameBefore(k, m)

CompleteStoryKey(story) ==
  LET Complete(files, keyed) ==
        IF files # {} THEN FirstName(files)
        ELSE IF keyed # {} THEN rows[SmallestOf(keyed)].key ELSE Prefix(story)
  IN IF ~story.ok \/ story.key # <<>> THEN story
     ELSE [story EXCEPT !.key =
             Complete({k \in DOMAIN stories : Under(Prefix(story), k) /\ FullKeyMatchesStory(k, story, FALSE)},
                      {i \in DOMAIN rows : Under(Prefix(story), rows[i].key) /\ FullKeyMatchesStory(rows[i].key, story, TRUE)})]

NormalizeStoryKey(ref) == CompleteStoryKey(SplitRef(ref))

\* Mutant: the epic itself passes for a longer one.
HasKnownEpic(epic, key) ==
  \E i \in Cuts(key) : /\ IsPrefix(epic, Before(key, i))
                       /\ EpicExists(Before(key, i)) \/ IsSingleStoryKey(key, i)
HasKnownLongerEpic(epic, key) ==
  \E i \in Cuts(key) : /\ Under(epic, Before(key, i))
                       /\ EpicExists(Before(key, i)) \/ IsSingleStoryKey(key, i)

\* The same key read as a key of one epic, unless a longer or the parent epic owns it.
ReadAs(epic, key, ofParent) ==
  LET next == Len(epic) + 1 IN
  IF ~(Under(epic, key) /\ IsNumber(key[next])) THEN NormalizeStoryKey(Ref(key))
  ELSE IF \/ HasKnownLongerEpic(epic, key)
          \/ Len(epic) > 1 /\ IsNumber(Last(epic)) /\ ~EpicExists(epic) /\ ofParent.ok
  THEN NotAKey
  ELSE CompleteStoryKey(StoryOf(epic, key[next], IF Len(key) > next THEN key ELSE <<>>))
NormalizeStoryKeyForEpic(epic, key) ==
  LET Read[n \in 0..Len(epic)] == ReadAs(SubSeq(epic, 1, n), key, Read[n - 1]) IN Read[Len(epic)]

(***************************************************************************)
(* sprint-status.yaml.                                                     *)
(***************************************************************************)
IsExplicitFullKey(ref, story) == ~ref.dot /\ ref.segments = story.key /\ story.key # Prefix(story)

ExactRows(key) == {i \in DOMAIN rows : rows[i].key = key}
Candidate(rank, order, i) == [rank |-> rank, order |-> order, row |-> i]

StatusOfRow(i) == [found |-> TRUE, key |-> rows[i].key, status |-> rows[i].status]
NoStatus == [found |-> FALSE, key |-> <<>>, status |-> "not_found"]

\* _best_status_match: a full key before the requested key before id and prefix;
\* among full keys of the story the last row wins.
BestStatusMatch(ref, story) ==
  LET explicit == IsExplicitFullKey(ref, story)
      exact == {Candidate(IF explicit THEN 5 ELSE 3, 0, SmallestOf(ExactRows(k))) :
                  k \in {k \in {ref.segments} : ~ref.dot /\ ExactRows(k) # {}}}
                 \cup {Candidate(2, 1, SmallestOf(ExactRows(k))) : k \in {k \in {Prefix(story)} : ExactRows(k) # {}}}
      full == {Candidate(4, 1 + i, i) : i \in {i \in DOMAIN rows :
                  /\ explicit => rows[i].key = ref.segments
                  /\ Under(Prefix(story), rows[i].key) /\ SameStory(SplitRef(Ref(rows[i].key)), story)}}
      Best(all) ==
        IF all = {} THEN NoStatus
        ELSE StatusOfRow((CHOOSE c \in all : \A d \in all : d.rank < c.rank \/ (d.rank = c.rank /\ d.order <= c.order)).row)
  IN Best(exact \cup full)

SprintStatusGet(ref) ==
  LET OrTheRow(best) ==
        IF best.found \/ ref.dot \/ ExactRows(ref.segments) = {} THEN best
        ELSE StatusOfRow(SmallestOf(ExactRows(ref.segments)))
      Of(story) == OrTheRow(IF story.ok THEN BestStatusMatch(ref, story) ELSE NoStatus)
  IN Of(NormalizeStoryKey(ref))

\* sprint_status_epic: one row per story of the epic, the last of the best rank.
IsOfEpic(story, epic) == story.ok /\ story.epic = epic
EpicRowsOf(epic) == {i \in DOMAIN rows : IsOfEpic(NormalizeStoryKeyForEpic(epic, rows[i].key), epic)}
StatusKeyRank(key, story) == IF key = story.key /\ story.key # Prefix(story) THEN 2 ELSE 1
SprintStatusEpic(epic) ==
  LET BestRows(of) ==
        {i \in DOMAIN of : \A j \in DOMAIN of : SameStory(of[i], of[j]) =>
           \/ StatusKeyRank(rows[j].key, of[j]) < StatusKeyRank(rows[i].key, of[i])
           \/ StatusKeyRank(rows[j].key, of[j]) = StatusKeyRank(rows[i].key, of[i]) /\ j <= i}
  IN BestRows([i \in EpicRowsOf(epic) |-> NormalizeStoryKeyForEpic(epic, rows[i].key)])

(***************************************************************************)
(* The verifiers.                                                          *)
(***************************************************************************)
CreateStoryArtifact(ref, expected) ==
  LET Created(story) ==
        story.ok /\ expected = Cardinality({k \in DOMAIN stories : /\ Under(Prefix(story), k)
                                                                   /\ IsExplicitFullKey(ref, story) => k = story.key})
  IN Created(NormalizeStoryKey(ref))

ReviewCompletion(ref) ==
  LET Source(status, selected) ==
        IF status = "done" THEN "sprint-status.yaml"
        ELSE IF selected \in DOMAIN stories /\ stories[selected] = "done" THEN "story-file" ELSE ""
      Verdict(selected, source) == [verified |-> source # "", story |-> selected, source |-> source]
      Review(story, sprint) ==
        LET selected == IF sprint.found /\ sprint.key # Prefix(story) THEN sprint.key ELSE story.key
        IN IF story.ok THEN Verdict(selected, Source(sprint.status, selected)) ELSE Verdict(<<>>, "")
  IN Review(NormalizeStoryKey(ref), SprintStatusGet(ref))

\* A step is verified for an epic when it is named by its number or has rows.
EpicIdentifier(ref, story) ==
  LET name == ref.segments IN
  IF ~ref.dot /\ Len(name) = 1 /\ IsNumber(name[1]) THEN name
  ELSE IF story.ok THEN story.epic
  ELSE IF ~ref.dot /\ ~IsNumber(name[1]) /\ EpicRowsOf(name) # {} THEN name ELSE <<>>

AllRowsDone(counted) == counted # {} /\ \A i \in counted : rows[i].status = "done"
IsDone(ref) == LET Done(got) == got.found /\ got.status = "done" IN Done(SprintStatusGet(ref))

EpicComplete(ref) ==
  LET Complete(story, epic) ==
        /\ epic # <<>>
        /\ story.ok /\ IsExplicitFullKey(ref, story) => IsDone(ref)
        /\ AllRowsDone(SprintStatusEpic(epic))
      Of(story) == Complete(story, EpicIdentifier(ref, story))
  IN Of(NormalizeStoryKey(ref))

\* verify-step answers and changes nothing; a created story has one file.
VerifyStep(ref) ==
  [created |-> CreateStoryArtifact(ref, 1), reviewed |-> ReviewCompletion(ref).verified, epic |-> EpicComplete(ref)]

(***************************************************************************)
(* Agents and users change the files.                                      *)
(***************************************************************************)
AddRow(key) ==
  /\ Len(rows) < MaxRows /\ key \notin RowKeys
  /\ rows' = Append(rows, [key |-> key, status |-> "open"])
  /\ UNCHANGED <<stories, epics>>

SetRow(i) ==
  /\ rows[i].status = "open" /\ rows' = [rows EXCEPT ![i].status = "done"]
  /\ UNCHANGED <<stories, epics>>

WriteStory(key) ==
  /\ key \notin DOMAIN stories /\ Cardinality(DOMAIN stories) < MaxFiles
  /\ \E status \in Statuses : stories' = [k \in DOMAIN stories \cup {key} |-> IF k = key THEN status ELSE stories[k]]
  /\ UNCHANGED <<rows, epics>>

WriteEpicFile(epic) ==
  /\ Cardinality(epics) < MaxEpicFiles /\ epic \notin epics /\ epics' = epics \cup {epic}
  /\ UNCHANGED <<rows, stories>>

StatusInit == rows = <<>> /\ stories = <<>> /\ epics = {}

StatusNext ==
  \/ \E key \in StoryKeys : AddRow(key) \/ WriteStory(key)
  \/ \E i \in DOMAIN rows : SetRow(i)
  \/ \E epic \in EpicDocs : WriteEpicFile(epic)

StatusSpec == StatusInit /\ [][StatusNext]_statusVars

-----------------------------------------------------------------------------
StatusTypeOK ==
  /\ \A i \in DOMAIN rows : rows[i].key \in StoryKeys /\ rows[i].status \in Statuses
  /\ DOMAIN stories \subseteq StoryKeys /\ \A k \in DOMAIN stories : stories[k] \in Statuses

\* The full key that an id is completed to names the story of that id.
CompletedKeyIsOfTheStory ==
  LET IsOfIt(story) == story.ok => SameStory(SplitRef(Ref(story.key)), story)
  IN \A ref \in StoryRefs : IsOfIt(NormalizeStoryKey(ref))

\* A status reported for a story is the status of a row of that story.
StatusIsOfTheStory ==
  LET IsOfIt(story, got) == story.ok /\ got.found => SameStory(SplitRef(Ref(got.key)), story)
  IN \A ref \in StoryRefs : IsOfIt(NormalizeStoryKey(ref), SprintStatusGet(ref))

\* One number after the first segment: whatever rows and files there are, the reference
\* can only be read as one story.  Of the others the code guesses, and guesses may differ.
ReadsInOneWay(ref) == ref.dot \/ Cardinality({i \in 2..Len(ref.segments) : IsNumber(ref.segments[i])}) = 1
FirmRows == {i \in DOMAIN rows : ReadsInOneWay(Ref(rows[i].key))}

\* No row that reads in one way is counted for two epics.
OneEpicPerRow ==
  \A e, f \in EpicNames : e # f => EpicRowsOf(e) \cap EpicRowsOf(f) \cap FirmRows = {}

\* A row that reads in one way is counted for the epic its own key is read as,
\* whichever longer epics have rows or files.
EveryRowIsCounted ==
  LET IsCounted(i, story) == story.ok => i \in EpicRowsOf(story.epic)
  IN \A i \in FirmRows : IsCounted(i, SplitRef(Ref(rows[i].key)))

\* Where each row reads in one way, the automator takes an epic for complete only when
\* each of its stories is done.
EpicCompleteIsDone ==
  LET IsDoneOf(story) == \E j \in DOMAIN rows : rows[j].status = "done" /\ SameStory(SplitRef(Ref(rows[j].key)), story)
      AllDoneOf(epic) == \A i \in DOMAIN rows :
        SplitRef(Ref(rows[i].key)).epic = epic => IsDoneOf(SplitRef(Ref(rows[i].key)))
  IN FirmRows = DOMAIN rows => \A ref \in StoryRefs :
       VerifyStep(ref).epic => AllDoneOf(EpicIdentifier(ref, NormalizeStoryKey(ref)))

\* A review verified from a story file was verified from a file of that story.
ReviewReadsTheStory ==
  LET IsOfIt(story, got) == got.source = "story-file" => SameStory(SplitRef(Ref(got.story)), story)
  IN \A ref \in StoryRefs : IsOfIt(NormalizeStoryKey(ref), ReviewCompletion(ref))
=============================================================================
