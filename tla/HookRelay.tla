----------------------------- MODULE HookRelay ------------------------------
(***************************************************************************)
(* The hook relay of the coding agents (.bmad-loop/bmad_loop_hook.py):     *)
(* hooks of several sessions, each a process of its own, leave one event   *)
(* file each in the events directory of a run.  The orchestrator polls the *)
(* directory; it takes a file name as consumed before it parses the file,  *)
(* so that a file that is not whole when its name appears is lost.         *)
(*                                                                         *)
(* A directory is [files, temps]: what stands under a final and under a    *)
(* temporary name, by the bytes that are written.  The path of the events  *)
(* directory leads to one of two: the run's own, or another one behind a   *)
(* link.                                                                   *)
(***************************************************************************)
EXTENDS Naturals

CONSTANTS Hooks,     \* hook processes; the name of an event has its time, task and kind
          EventSize  \* bytes of an event file

ASSUME HookRelayAssumption == EventSize \in Nat \ {0}

VARIABLES anchored,    \* whether the platform opens files relative to a directory
          eventsPath,  \* where the path of the events directory leads
          eventDirs,   \* the two directories
          hookProcess, \* what each hook process is doing, and in which directory
          consumed     \* names the orchestrator has taken, with what it read

relayVars == <<anchored, eventsPath, eventDirs, hookProcess, consumed>>

Paths == {"none", "own", "link"}
NoFiles == [h \in {} |-> 0]
IsLinkLike == eventsPath = "link"
HookAt(h, step) == hookProcess[h].step = step
HookGoes(h, step, dir) == hookProcess' = [hookProcess EXCEPT ![h] = [step |-> step, dir |-> dir]]
Holding(files, h, bytes) == [g \in DOMAIN files \cup {h} |-> IF g = h THEN bytes ELSE files[g]]
Lacking(files, h) == [g \in DOMAIN files \ {h} |-> files[g]]

\* The directory that a file operation of the hook reaches.
Reached(h) == IF anchored THEN hookProcess[h].dir ELSE eventsPath

\* Outside a run of the loop the relay does nothing.
HookStarts(h) ==
  /\ HookAt(h, "new")
  /\ \E inLoop \in BOOLEAN : HookGoes(h, IF inLoop THEN "check" ELSE "gone", "none")
  /\ UNCHANGED <<anchored, eventsPath, eventDirs, consumed>>

\* A redirected directory is refused, and a missing one is made.
CheckEventsDir(h) ==
  /\ HookAt(h, "check")
  /\ IF IsLinkLike THEN HookGoes(h, "gone", "none") /\ UNCHANGED eventsPath
     ELSE HookGoes(h, "open", "none") /\ eventsPath' = "own"
  /\ UNCHANGED <<anchored, eventDirs, consumed>>

\* With O_NOFOLLOW a link that has come since is not opened.
OpenEventsDir(h) ==
  /\ HookAt(h, "open")
  /\ IF anchored /\ IsLinkLike THEN HookGoes(h, "gone", "none") ELSE HookGoes(h, "create", eventsPath)
  /\ UNCHANGED <<anchored, eventsPath, eventDirs, consumed>>

CreateTemp(h) ==
  /\ HookAt(h, "create")
  /\ eventDirs' = [eventDirs EXCEPT ![Reached(h)].temps = Holding(@, h, 0)]
  /\ HookGoes(h, "write", Reached(h))
  /\ UNCHANGED <<anchored, eventsPath, consumed>>

\* Mutant: one write is taken for the whole event.
WriteOnce(h) ==
  /\ HookAt(h, "write")
  /\ \E bytes \in 1..EventSize :
       /\ eventDirs' = [eventDirs EXCEPT ![hookProcess[h].dir].temps[h] = bytes]
       /\ HookGoes(h, "publish", hookProcess[h].dir)
  /\ UNCHANGED <<anchored, eventsPath, consumed>>

\* One write may take fewer bytes than asked; the loop ends with the last byte.
WriteSome(h) ==
  /\ HookAt(h, "write")
  /\ \E bytes \in 1..EventSize :
       /\ bytes > eventDirs[hookProcess[h].dir].temps[h]
       /\ eventDirs' = [eventDirs EXCEPT ![hookProcess[h].dir].temps[h] = bytes]
       /\ HookGoes(h, IF bytes = EventSize THEN "publish" ELSE "write", hookProcess[h].dir)
  /\ UNCHANGED <<anchored, eventsPath, consumed>>

\* A full disk or a file system error: the relay gives up without a word.
WriteFails(h) ==
  /\ hookProcess[h].step \in {"create", "write", "publish"} /\ HookGoes(h, "gone", "none")
  /\ UNCHANGED <<anchored, eventsPath, eventDirs, consumed>>

\* Without an anchor the path is checked again before the rename.
RecheckEventsDir(h) ==
  /\ HookAt(h, "publish") /\ ~anchored
  /\ IF IsLinkLike
     THEN /\ eventDirs' = [eventDirs EXCEPT !["link"].temps = Lacking(@, h)]
          /\ HookGoes(h, "gone", "none")
     ELSE UNCHANGED eventDirs /\ HookGoes(h, "rename", hookProcess[h].dir)
  /\ UNCHANGED <<anchored, eventsPath, consumed>>

\* The rename finds the temporary file only where it was written.
PublishEvent(h) ==
  /\ HookAt(h, IF anchored THEN "publish" ELSE "rename")
  /\ IF h \in DOMAIN eventDirs[Reached(h)].temps
     THEN eventDirs' = [eventDirs EXCEPT ![Reached(h)] =
                          [files |-> Holding(@.files, h, @.temps[h]), temps |-> Lacking(@.temps, h)]]
          /\ HookGoes(h, "done", Reached(h))
     ELSE UNCHANGED eventDirs /\ HookGoes(h, "gone", "none")
  /\ UNCHANGED <<anchored, eventsPath, consumed>>

\* The agent's window is closed, and its hook with it.
HookDies(h) ==
  /\ hookProcess[h].step \notin {"new", "done", "gone"} /\ HookGoes(h, "gone", "none")
  /\ UNCHANGED <<anchored, eventsPath, eventDirs, consumed>>

\* SignalWatcher.poll of the loop: a new name is consumed with what is there.
PollEvents ==
  /\ eventsPath # "none"
  /\ \E h \in DOMAIN eventDirs[eventsPath].files \ DOMAIN consumed : consumed' = Holding(consumed, h, eventDirs[eventsPath].files[h])
  /\ UNCHANGED <<anchored, eventsPath, eventDirs, hookProcess>>

\* Somebody replaces the directory by a link to another, or takes the link away.
PathChanges ==
  /\ eventsPath' = (IF eventsPath = "link" THEN "own" ELSE "link")
  /\ UNCHANGED <<anchored, eventDirs, hookProcess, consumed>>

RelayInit ==
  /\ anchored \in BOOLEAN /\ eventsPath \in Paths \ {"link"}
  /\ eventDirs = [d \in {"own", "link"} |-> [files |-> NoFiles, temps |-> NoFiles]]
  /\ hookProcess = [h \in Hooks |-> [step |-> "new", dir |-> "none"]] /\ consumed = NoFiles

RelayNext ==
  \/ \E h \in Hooks : \/ HookStarts(h) \/ CheckEventsDir(h) \/ OpenEventsDir(h) \/ CreateTemp(h) \/ WriteSome(h)
                      \/ WriteFails(h) \/ RecheckEventsDir(h) \/ PublishEvent(h) \/ HookDies(h)
  \/ PollEvents \/ PathChanges

RelaySpec == RelayInit /\ [][RelayNext]_relayVars

-----------------------------------------------------------------------------
\* The directories and the processes that write into them.
RelayTypeOK ==
  /\ eventsPath \in Paths /\ DOMAIN consumed \subseteq Hooks
  /\ \A d \in {"own", "link"} : DOMAIN eventDirs[d].files \subseteq Hooks /\ DOMAIN eventDirs[d].temps \subseteq Hooks

\* Whenever hooks are killed and however their writes are cut, a name that the
\* orchestrator consumes stands for a whole event.
ConsumedIsWhole == \A h \in DOMAIN consumed : consumed[h] = EventSize

\* A relay on an anchored platform leaves its event in the run's own directory, whatever becomes of the path.
NoEventIsRedirected == anchored => \A h \in Hooks : HookAt(h, "done") => EventSize = eventDirs["own"].files[h]

\* An event that was published is not overwritten or taken back by another hook.
PublishedEventStays ==
  [][\A d \in {"own", "link"} : \A h \in DOMAIN eventDirs[d].files :
       h \in DOMAIN eventDirs'[d].files /\ eventDirs'[d].files[h] = eventDirs[d].files[h]]_relayVars
=============================================================================
