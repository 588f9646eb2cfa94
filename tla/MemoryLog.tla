----------------------------- MODULE MemoryLog ------------------------------
(***************************************************************************)
(* The memory logs of the skills (_bmad/scripts/memlog.py and the copy of  *)
(* the eval runner): every command reads the file, and writes it anew      *)
(* through a temporary file of a fixed name that it renames over the log.  *)
(* Commands run one after another when there is one writer; with several   *)
(* they may overlap.                                                       *)
(*                                                                         *)
(* A file is an inode: renaming and truncating act on different things.    *)
(***************************************************************************)
EXTENDS Naturals, Sequences, SequencesExt

CONSTANTS LogWriters,  \* processes that run memlog commands
          LogFields,   \* the descriptive fields set by init and set
          MaxCommands  \* bound: commands started

ASSUME LogAssumption == MaxCommands \in Nat

VARIABLES disk,     \* inode -> [whole, meta, entries]
          names,    \* the names "log" and "tmp" -> inode, 0 when absent
          writers,  \* what each process has read and how far it is
          acked,    \* entries whose command has answered ok, in that order
          commands  \* number of commands started

logVars == <<disk, names, writers, acked, commands>>

Remaining == [at |-> "rest", entry |-> 0, fd |-> 0, meta |-> {}, entries |-> <<>>]
Truncated == [whole |-> FALSE, meta |-> {}, entries |-> <<>>]
LogExists == names.log # 0
LogFile == disk[names.log]
Moved(w, to) == writers' = [writers EXCEPT ![w].at = to]

\* A new command: 0 stands for one that adds no entry.
Command(w, entry, meta, entries) ==
  /\ writers[w] = Remaining /\ commands < MaxCommands /\ commands' = commands + 1
  /\ writers' = [writers EXCEPT ![w] = [at |-> "read", entry |-> entry, fd |-> 0, meta |-> meta, entries |-> entries]]
  /\ UNCHANGED <<disk, names, acked>>

\* init refuses an existing file; append and set need one they can split.
CmdInit(w, fields) == ~LogExists /\ Command(w, 0, fields, <<>>)

CmdAppend(w) ==
  /\ LogExists /\ LogFile.whole
  /\ Command(w, commands + 1, LogFile.meta, Append(LogFile.entries, commands + 1))

CmdSet(w, field) ==
  /\ LogExists /\ LogFile.whole
  /\ Command(w, 0, LogFile.meta \cup {field}, LogFile.entries)

\* The eval runner's: status is a field that goes from active to complete.
CmdSetComplete(w) == CmdSet(w, "complete")

\* Mutant: the log itself is opened and truncated.
OpenLog(w) ==
  /\ writers[w].at = "read"
  /\ LET inode == IF names.log # 0 THEN names.log ELSE Len(disk) + 1 IN
     /\ disk' = IF names.log # 0 THEN [disk EXCEPT ![inode] = Truncated] ELSE Append(disk, Truncated)
     /\ names' = [log |-> inode, tmp |-> inode]
     /\ writers' = [writers EXCEPT ![w].at = "open", ![w].fd = inode]
  /\ UNCHANGED <<acked, commands>>

\* write_atomic: open(tmp, "w") truncates the file when another command left it.
OpenTemp(w) ==
  /\ writers[w].at = "read"
  /\ LET inode == IF names.tmp # 0 THEN names.tmp ELSE Len(disk) + 1 IN
     /\ disk' = IF names.tmp # 0 THEN [disk EXCEPT ![inode] = Truncated] ELSE Append(disk, Truncated)
     /\ names' = [names EXCEPT !.tmp = inode]
     /\ writers' = [writers EXCEPT ![w].at = "open", ![w].fd = inode]
  /\ UNCHANGED <<acked, commands>>

\* write, flush and fsync
WriteTemp(w) ==
  /\ writers[w].at = "open" /\ Moved(w, "written")
  /\ disk' = [disk EXCEPT ![writers[w].fd] = [whole |-> TRUE, meta |-> writers[w].meta, entries |-> writers[w].entries]]
  /\ UNCHANGED <<names, acked, commands>>

\* os.replace: fails when another command has renamed the file away.
ReplaceLog(w) ==
  /\ writers[w].at = "written"
  /\ IF names.tmp = 0 THEN writers' = [writers EXCEPT ![w] = Remaining] /\ UNCHANGED names
     ELSE Moved(w, "replaced") /\ names' = [log |-> names.tmp, tmp |-> 0]
  /\ UNCHANGED <<disk, acked, commands>>

\* ack: the command answers ok.
Ack(w) ==
  /\ writers[w].at = "replaced" /\ writers' = [writers EXCEPT ![w] = Remaining]
  /\ acked' = IF writers[w].entry = 0 THEN acked ELSE Append(acked, writers[w].entry)
  /\ UNCHANGED <<disk, names, commands>>

CommandKilled(w) ==
  /\ writers[w] # Remaining /\ writers' = [writers EXCEPT ![w] = Remaining]
  /\ UNCHANGED <<disk, names, acked, commands>>

LogInit ==
  /\ disk = <<>> /\ names = [log |-> 0, tmp |-> 0] /\ acked = <<>> /\ commands = 0
  /\ writers = [w \in LogWriters |-> Remaining]

LogNext == \E w \in LogWriters :
  \/ CmdInit(w, {}) \/ \E field \in LogFields : CmdInit(w, {field}) \/ CmdSet(w, field)
  \/ CmdAppend(w) \/ CmdSetComplete(w)
  \/ OpenTemp(w) \/ WriteTemp(w) \/ ReplaceLog(w) \/ Ack(w) \/ CommandKilled(w)

LogSpec == LogInit /\ [][LogNext]_logVars

-----------------------------------------------------------------------------
LogTypeOK ==
  /\ names \in [{"log", "tmp"} -> 0..Len(disk)] /\ commands \in 0..MaxCommands
  /\ \A i \in DOMAIN disk : disk[i].entries \in Seq(1..MaxCommands) /\ disk[i].whole \in BOOLEAN
  /\ \A w \in LogWriters : writers[w].at \in {"rest", "read", "open", "written", "replaced"} /\ writers[w].fd \in 0..Len(disk)

InOrder(entries) == \A i, j \in DOMAIN entries : i < j => entries[i] < entries[j]

\* Every entry whose command has answered is in the log, once and in the order of the
\* answers (entries are numbered as their commands start), and the log is there and never
\* half written, wherever a command is killed.
AckedEntriesStay ==
  /\ acked # <<>> => LogExists
  /\ LogExists => /\ LogFile.whole /\ InOrder(LogFile.entries) /\ InOrder(acked)
                  /\ Range(acked) \subseteq Range(LogFile.entries)

\* The log only grows at its end.
LogIsAppendOnly ==
  [][LogExists => names'.log # 0 /\ IsPrefix(LogFile.entries, disk'[names'.log].entries)]_logVars
=============================================================================
