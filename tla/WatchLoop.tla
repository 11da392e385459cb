----------------------------- MODULE WatchLoop ------------------------------
(***************************************************************************)
(* The watcher's loop in time (internal/config/watcher.go, Run) and its    *)
(* load, file by file (internal/config/config.go, LoadSites), over the     *)
(* file operations of SiteFiles.  HotReload has the same watcher with an   *)
(* untimed timer and reads a file in one step; this module shows what      *)
(* allows that: SiteFiles and the load implement Directory, and the        *)
(* debounce waits.                                                         *)
(*                                                                         *)
(* Time is counted in ticks of 200 ms / D.                                 *)
(***************************************************************************)
EXTENDS SiteFiles

CONSTANTS
  D,   \* the debounce interval, in ticks
  Off  \* no timer is running

ASSUME DebounceAssumption == D \in Nat \ {0} /\ Off \notin Nat

\* The bound on inodes leaves one that no name, descriptor or reader refers to.
ASSUME InodesAssumption ==
  /\ IsFiniteSet(Inodes) /\ IsFiniteSet(Jobs)
  /\ Cardinality(Inodes) > 2 * Cardinality(Files) + Cardinality(Jobs) + 1

VARIABLES
  listed,  \* the directory entries that the load has still to open
  held,    \* the file that it has open, and its inode
  got,     \* what it has read
  loaded,  \* the sites of the last load that was installed
  timer,   \* ticks until the timer's channel is ready
  armed,   \* ticks until armedTime
  quiet    \* history: ticks since an event re-armed the timer, up to D

loadVars  == <<listed, held, got>>
timeVars  == <<timer, armed, quiet>>
fileVars  == <<nameVars, jobVars, eventVars, crashes>>
vars == <<fileVars, loadVars, loaded, timeVars>>

NoHold  == [file |-> Absent, inode |-> NoInode]
Nothing == [f \in Files |-> Absent]
HeldInodes == {held.inode}

TypeOK ==
  /\ path \in [Files -> Inodes \cup {NoInode}]
  /\ tmp \in [Files -> Inodes \cup {NoInode}]
  /\ data \in [Inodes -> Contents]
  /\ step \in [Jobs -> {"todo", "open", "written", "done", "failed"}]
  /\ fd \in [Jobs -> Inodes \cup {NoInode}]
  /\ queue \subseteq {"create", "write", "rename", "remove", "chmod", "overflow"}
  /\ damaged \in BOOLEAN
  /\ faults \in 0..MaxFaults /\ crashes \in 0..MaxCrashes
  /\ pc \in {"start", "dir", "read", "select", "exited"}
  /\ listed \subseteq Files /\ held.inode \in Inodes \cup {NoInode}
  /\ {got, loaded} \subseteq [Files -> Docs \cup {Absent}]
  /\ timer \in 0..(D + 1) \cup {Off} /\ armed \in 0..D /\ quiet \in 0..D

Init ==
  /\ path = [f \in Files |-> IF Initial[f] = Absent THEN NoInode ELSE f]
  /\ data = [i \in Inodes |-> IF i \in Files /\ Initial[i] # Absent
                              THEN Initial[i] ELSE Empty]
  /\ tmp = [f \in Files |-> NoInode]
  /\ step = [j \in Jobs |-> "todo"] /\ fd = [j \in Jobs |-> NoInode]
  /\ queue = {} /\ damaged = FALSE
  /\ faults = 0 /\ crashes = 0
  /\ pc = "start" /\ listed = {} /\ held = NoHold
  /\ got = Nothing /\ loaded = Nothing
  /\ timer = Off /\ armed = 0 /\ quiet = D

-----------------------------------------------------------------------------
(* The watcher. *)

Fault == faults < MaxFaults /\ faults' = faults + 1

\* fw.Add, before the first load; when it fails the goroutine is gone.
StartWatch ==
  /\ pc = "start"
  /\ \/ pc' = "dir" /\ UNCHANGED <<damaged, faults>>
     \/ Fault /\ pc' = "exited" /\ damaged' = TRUE
  /\ UNCHANGED <<nameVars, jobVars, queue, crashes, loadVars, loaded,
                 timeVars>>

\* The operations of an event that Run looks at.
Relevant == {"create", "write", "rename", "remove"}

\* Mutant of Arm: an event does not arm a timer that is running.
ArmOnce ==
  IF timer = Off THEN armed' = D /\ timer' = D ELSE UNCHANGED <<armed, timer>>

\* time.Now().Add(debounce), and then a new time.After(debounce).
Arm == armed' = D /\ timer' \in {D, D + 1}

\* One turn of the select: an event, or an error that is only logged.
Receive(kind) ==
  /\ pc = "select" /\ kind \in queue /\ queue' = queue \ {kind}
  /\ IF kind \in Relevant THEN Arm /\ quiet' = 0 ELSE UNCHANGED timeVars
  /\ UNCHANGED <<nameVars, jobVars, damaged, faults, crashes,
                 pc, loadVars, loaded>>

\* One turn of the select: the timer.  An early tick arms it again; there is none,
\* since the channel is made anew together with armedTime.
TimerFires ==
  /\ pc = "select" /\ timer = 0
  /\ IF armed > 0 THEN timer' = armed /\ UNCHANGED pc
                  ELSE timer' = Off /\ pc' = "dir"
  /\ UNCHANGED <<nameVars, jobVars, queue, damaged, faults, crashes,
                 loadVars, loaded, armed, quiet>>

\* Time passes for a timer that is running.
Tick ==
  /\ timer # Off /\ timer > 0 /\ timer' = timer - 1
  /\ armed' = IF armed > 0 THEN armed - 1 ELSE 0
  /\ quiet' = IF quiet < D THEN quiet + 1 ELSE D
  /\ UNCHANGED <<fileVars, loadVars, loaded>>

-----------------------------------------------------------------------------
(* The load. *)

\* os.ReadDir; when it fails the load goes on with no sites.
ReadDir ==
  /\ pc = "dir" /\ pc' = "read"
  /\ \/ /\ listed' = {f \in Files : path[f] # NoInode}
        /\ damaged' = FALSE /\ UNCHANGED faults
     \/ Fault /\ listed' = {} /\ damaged' = TRUE
  /\ UNCHANGED <<nameVars, jobVars, queue, crashes, held, got,
                 loaded, timeVars>>

\* os.ReadFile opens the next file: it may have gone since, or fail here.
OpenSite(f) ==
  /\ pc = "read" /\ held = NoHold /\ f \in listed /\ listed' = listed \ {f}
  /\ \/ /\ path[f] # NoInode
        /\ held' = [file |-> f, inode |-> path[f]]
        /\ UNCHANGED <<damaged, faults>>
     \/ path[f] = NoInode /\ UNCHANGED <<held, damaged, faults>>
     \/ Fault /\ damaged' = TRUE /\ UNCHANGED held
  /\ UNCHANGED <<nameVars, jobVars, queue, crashes, pc, got,
                 loaded, timeVars>>

\* It reads the file that it opened; an invalid one is left out.
ReadSite ==
  /\ held # NoHold /\ held' = NoHold
  /\ got' = [got EXCEPT ![held.file] = Loads(data[held.inode])]
  /\ UNCHANGED <<fileVars, listed, loaded, timeVars>>

\* Store.Replace and OnReload install what was read.
Install ==
  /\ pc = "read" /\ listed = {} /\ held = NoHold
  /\ loaded' = got /\ got' = Nothing
  /\ pc' = "select"
  /\ UNCHANGED <<nameVars, jobVars, queue, damaged, faults, crashes,
                 listed, held, timeVars>>

Load == ReadDir \/ (\E f \in Files : OpenSite(f)) \/ ReadSite \/ Install

-----------------------------------------------------------------------------
(* The world around it. *)

Writes(j) ==
  /\ JobStep(j, HeldInodes)
  /\ UNCHANGED <<loadVars, loaded, timeVars>>

\* A backup tool or an admin changes a file's mode or times.
Touch ==
  /\ Watching /\ \E f \in Files : path[f] # NoInode
  /\ queue' = queue \cup {"chmod"}
  /\ UNCHANGED <<nameVars, jobVars, damaged, faults, crashes,
                 pc, loadVars, loaded, timeVars>>

\* The process dies and is restarted.  Saves are cut off where they are; a file
\* that someone else is copying into sites/ goes on.
Crash ==
  /\ crashes < MaxCrashes /\ crashes' = crashes + 1
  /\ step' = [j \in Jobs |-> IF Busy(j) /\ Kind[j] = "save" THEN "failed" ELSE step[j]]
  /\ fd' = [j \in Jobs |-> IF Kind[j] = "save" THEN NoInode ELSE fd[j]]
  /\ queue' = {}
  /\ pc' = "start" /\ listed' = {} /\ held' = NoHold
  /\ got' = Nothing /\ loaded' = Nothing
  /\ timer' = Off /\ armed' = 0 /\ quiet' = D
  /\ UNCHANGED <<nameVars, damaged, faults>>

Next ==
  \/ StartWatch \/ (\E kind \in queue : Receive(kind)) \/ TimerFires \/ Tick
  \/ Load
  \/ \E j \in Jobs : Writes(j)
  \/ Touch \/ Crash

\* The Go scheduler runs the watcher when a channel is ready, the channel of
\* events is first in first out, so that changes of mode do not hold up the
\* others for ever, time passes, and whoever has started to write goes on.
FairSpec ==
  /\ Init /\ [][Next]_vars
  /\ WF_vars(StartWatch \/ Load \/ TimerFires)
  /\ WF_vars(\E kind \in queue \ {"chmod"} : Receive(kind))
  /\ WF_vars(Tick)
  /\ WF_vars(\E j \in Jobs : step[j] # "todo" /\ Writes(j))

-----------------------------------------------------------------------------

\* What the abstract directory sees of a job, and of a load in progress: once
\* the file is open, later renames and removals do not change what it will read.
JobSeen ==
  [j \in Jobs |-> CASE step[j] \in {"done", "failed"} -> step[j] [] OTHER -> "todo"]
LoadSeen ==
  [f \in Files |-> IF held.file = f THEN Loads(data[held.inode]) ELSE got[f]]

Dir == INSTANCE Directory WITH
  disk <- Disk, job <- JobSeen, view <- LoadSeen,
  Doc <- [j \in Jobs |-> IF Kind[j] = "delete" THEN Absent ELSE Doc[j]]

\* A save, a delete or a dropped file takes effect at one instant, whole, and
\* a load finds whole documents only: the temporary file, its rename, and a
\* crash, a failure or a reader at any point in between cannot be told from a
\* directory whose files change atomically.
ImplementsDirectory == Dir!Spec

\* The watcher reloads only after D ticks without a change (watcher.go: "only
\* fire if no further events came in during the debounce").
QuietBeforeReload == [][pc = "select" /\ pc' = "dir" => quiet = D]_vars

\* When the files stop changing the watcher ends up with what they hold,
\* whatever failed or crashed in between, unless the kernel dropped an event or
\* the last load could not read something, which nothing makes up for.
\* Changes of mode alone, however many, do not keep it from reloading.
ChangesAreLoaded == <>[](loaded = Disk \/ damaged)
=============================================================================
