----------------------------- MODULE SiteFiles ------------------------------
(***************************************************************************)
(* The file operations behind config.SaveSite and config.DeleteSite: a     *)
(* temporary file that is opened, written and renamed over the site's file *)
(* by several admin requests, with failures and crashes in between, beside *)
(* files that are dropped into sites/ by hand.                             *)
(*                                                                         *)
(* Names point to inodes, as they do in the kernel: os.WriteFile keeps     *)
(* writing to the inode that it opened whatever its name is renamed to.    *)
(* A document is a value with a length; a short one that is written over a *)
(* longer one leaves the rest of the longer one behind.                    *)
(***************************************************************************)
EXTENDS Integers, FiniteSets

CONSTANTS
  Files,      \* the site files, each named by the inode it starts with
  Jobs,       \* requests to save or delete a site, files dropped by hand
  Kind,       \* "save", "delete" or "drop", for each job
  Target,     \* the file of each job
  Doc,        \* the document that it writes
  Initial,    \* the contents at the start
  Docs,       \* the valid documents
  Size,       \* their lengths
  Empty,      \* the content of a file that was opened and not yet written
  Torn,       \* a mixture of two documents
  Absent,     \* there is no such site
  Inodes,     \* bound: inodes that are in use at a time
  NoInode,
  Overlap,    \* whether two admins may save the same site at a time
  MaxFaults,  \* bound: file operations that fail, events lost in an overflow
  MaxCrashes  \* bound: times the process dies and is restarted

Contents == Docs \cup {Empty, Torn}

ASSUME FilesAssumption ==
  /\ Kind \in [Jobs -> {"save", "delete", "drop"}]
  /\ Target \in [Jobs -> Files] /\ Doc \in [Jobs -> Docs]
  /\ Initial \in [Files -> Docs \cup {Absent}]
  /\ Size \in [Docs \cup {Torn} -> Nat]
  /\ {Empty, Torn, Absent} \cap Docs = {} /\ Absent \notin Files
  /\ Files \subseteq Inodes /\ Inodes \subseteq Nat /\ NoInode \notin Inodes
  /\ Overlap \in BOOLEAN
  /\ {MaxFaults, MaxCrashes} \subseteq Nat

VARIABLES
  path,     \* the inode of each site's file
  tmp,      \* the inode of each site's temporary file
  data,     \* the content of each inode
  step,     \* where each job is
  fd,       \* the inode that it has open
  queue,    \* the kinds of event that the kernel has for the watcher
  pc,       \* where the watcher is
  damaged,  \* an event or a read was lost since the last load began
  faults, crashes

nameVars  == <<path, tmp, data>>
jobVars   == <<step, fd>>
eventVars == <<queue, pc, damaged, faults>>

-----------------------------------------------------------------------------

\* SaveSite is between its first file operation and its last.
Busy(j) == step[j] \in {"open", "written"}

\* The inodes that a name, a job or the inode set Held of a reader refers to.
InUse(Held) ==
  {path[f] : f \in Files} \cup {tmp[f] : f \in Files} \cup {fd[j] : j \in Jobs}
    \cup Held

\* An inode that nothing refers to, the smallest.
Fresh(Held) == CHOOSE i \in Inodes \ InUse(Held) : \A k \in Inodes \ InUse(Held) : i <= k

\* Mutant of Watching: the watch is added after the first load.
WatchingLate == pc = "select"

\* The directory watch is in place.
Watching == pc \notin {"start", "exited"}

\* inotify queues events for a watched directory, or loses them in an overflow.
Emit(kinds) ==
  /\ UNCHANGED pc
  /\ \/ /\ queue' = IF Watching THEN queue \cup kinds ELSE queue
        /\ UNCHANGED <<damaged, faults>>
     \/ /\ Watching /\ faults < MaxFaults /\ faults' = faults + 1
        /\ queue' = queue \cup {"overflow"} /\ damaged' = TRUE

Advance(j, to) == step' = [step EXCEPT ![j] = to]

\* os.WriteFile, its open: O_CREATE and O_TRUNC.
Open(name, f, Held) ==
  IF name[f] = NoInode
  THEN LET i == Fresh(Held) IN
       [inode |-> i, names |-> [name EXCEPT ![f] = i], kind |-> "create"]
  ELSE [inode |-> name[f], names |-> name, kind |-> "write"]

\* Mutant of OpenTmp: the site's file is written in place.
OpenInPlace(j, Held) ==
  /\ step[j] = "todo" /\ Kind[j] = "save"
  /\ LET o == Open(path, Target[j], Held) IN
     /\ path' = o.names
     /\ data' = [data EXCEPT ![o.inode] = Empty]
     /\ fd' = [fd EXCEPT ![j] = o.inode]
     /\ Emit({o.kind})
  /\ Advance(j, "open")
  /\ UNCHANGED <<tmp, crashes>>

\* SaveSite opens path + ".tmp", whoever else has it open.
OpenTmp(j, Held) ==
  /\ step[j] = "todo" /\ Kind[j] = "save"
  /\ Overlap \/ ~\E k \in Jobs : Target[k] = Target[j] /\ Busy(k)
  /\ LET o == Open(tmp, Target[j], Held) IN
     /\ tmp' = o.names
     /\ data' = [data EXCEPT ![o.inode] = Empty]
     /\ fd' = [fd EXCEPT ![j] = o.inode]
     /\ Emit({o.kind})
  /\ Advance(j, "open")
  /\ UNCHANGED <<path, crashes>>

\* A write from the start of a file: what is longer stays behind.
WrittenOver(old, doc) == IF old # Empty /\ Size[old] > Size[doc] THEN Torn ELSE doc

\* os.WriteFile, its write and close.
WriteTmp(j) ==
  /\ step[j] = "open" /\ Kind[j] = "save"
  /\ data' = [data EXCEPT ![fd[j]] = WrittenOver(data[fd[j]], Doc[j])]
  /\ fd' = [fd EXCEPT ![j] = NoInode]
  /\ Emit({"write"})
  /\ Advance(j, "written")
  /\ UNCHANGED <<path, tmp, crashes>>

\* os.Rename: the temporary file becomes the site's file, whoever wrote it.
Rename(j) ==
  LET f == Target[j] IN
  /\ step[j] = "written" /\ tmp[f] # NoInode
  /\ path' = [path EXCEPT ![f] = tmp[f]]
  /\ tmp' = [tmp EXCEPT ![f] = NoInode]
  /\ Emit({"rename", "create"})
  /\ Advance(j, "done")
  /\ UNCHANGED <<data, fd, crashes>>

\* DeleteSite.
Remove(j) ==
  /\ step[j] = "todo" /\ Kind[j] = "delete" /\ path[Target[j]] # NoInode
  /\ path' = [path EXCEPT ![Target[j]] = NoInode]
  /\ Emit({"remove"})
  /\ Advance(j, "done")
  /\ UNCHANGED <<tmp, data, fd, crashes>>

\* The operation that comes next fails: there is no such file, or a fault.
\* What was opened is closed, and a temporary file stays where it is.
FailJob(j) ==
  /\ step[j] \in {"todo", "open", "written"} /\ Kind[j] # "drop"
  /\ \/ /\ step[j] = "written" /\ tmp[Target[j]] = NoInode
        /\ UNCHANGED faults
     \/ /\ Kind[j] = "delete" /\ path[Target[j]] = NoInode
        /\ UNCHANGED faults
     \/ faults < MaxFaults /\ faults' = faults + 1
  /\ fd' = [fd EXCEPT ![j] = NoInode]
  /\ Advance(j, "failed")
  /\ UNCHANGED <<nameVars, queue, pc, damaged, crashes>>

\* A YAML file is dropped into sites/ (scp, cp): created, then written.
Drop(j, Held) ==
  /\ step[j] = "todo" /\ Kind[j] = "drop" /\ path[Target[j]] = NoInode
  /\ LET o == Open(path, Target[j], Held) IN
     /\ path' = o.names
     /\ data' = [data EXCEPT ![o.inode] = Empty]
     /\ fd' = [fd EXCEPT ![j] = o.inode]
     /\ Emit({o.kind})
  /\ Advance(j, "open")
  /\ UNCHANGED <<tmp, crashes>>

FinishDrop(j) ==
  /\ step[j] = "open" /\ Kind[j] = "drop"
  /\ data' = [data EXCEPT ![fd[j]] = Doc[j]]
  /\ fd' = [fd EXCEPT ![j] = NoInode]
  /\ Emit({"write"})
  /\ Advance(j, "done")
  /\ UNCHANGED <<path, tmp, crashes>>

JobStep(j, Held) ==
  \/ OpenTmp(j, Held) \/ WriteTmp(j) \/ Rename(j) \/ Remove(j) \/ FailJob(j)
  \/ Drop(j, Held) \/ FinishDrop(j)

-----------------------------------------------------------------------------

\* Mutant of Loads: Validate is not called.
LoadsUnchecked(content) == content

\* What a file loads as: Validate turns down the empty and the torn one.
Loads(content) == IF content \in Docs THEN content ELSE Absent

Disk == [f \in Files |-> IF path[f] = NoInode THEN Absent ELSE Loads(data[path[f]])]

\* config.go: SaveSite writes a site config back to disk, to persist an edit.
\* With no save under way, each file loads as what it was, or as what one of the
\* saves and deletes left: no file is a mixture that nobody saved.
SavedIsPersisted ==
  (\A j \in Jobs : step[j] \in {"todo", "done", "failed"}) =>
    \A f \in Files :
      \/ Disk[f] = Initial[f]
      \/ \E j \in Jobs : Target[j] = f /\ step[j] # "todo"
                         /\ Disk[f] = IF Kind[j] = "delete" THEN Absent ELSE Doc[j]
=============================================================================
