----------------------------- MODULE Directory ------------------------------
(***************************************************************************)
(* What sites/ promises to whoever saves, deletes or loads a site: a file  *)
(* changes at one instant, from one whole document to another, and a       *)
(* reader finds what was there at some instant.  SiteFiles and WatchLoop   *)
(* are shown to implement it, as long as no two saves of a site overlap,   *)
(* and the loads of HotReload read a file in one step because of it.       *)
(***************************************************************************)
CONSTANTS
  Files,    \* the site files
  Jobs,     \* requests to save or delete a site, files dropped by hand
  Target,   \* the file of each job
  Doc,      \* what it leaves there: a document, or Absent
  Initial,  \* the contents at the start
  Absent    \* there is no such site

VARIABLES
  disk,  \* the document in each file
  job,   \* "todo", "done" or "failed", for each job
  view   \* what the current load has found in each file

vars == <<disk, job, view>>

Nothing == [f \in Files |-> Absent]

Init == disk = Initial /\ job = [j \in Jobs |-> "todo"] /\ view = Nothing

\* A job takes effect and is answered; a load may read the file at that instant.
Do(j) ==
  /\ job[j] = "todo" /\ job' = [job EXCEPT ![j] = "done"]
  /\ disk' = [disk EXCEPT ![Target[j]] = Doc[j]]
  /\ view' \in {view, [view EXCEPT ![Target[j]] = Doc[j]]}

\* A job fails and leaves the file as it was.
Fail(j) ==
  /\ job[j] = "todo" /\ job' = [job EXCEPT ![j] = "failed"]
  /\ UNCHANGED <<disk, view>>

\* A load finds one file; a new load begins with nothing.
Read(f) == view' = [view EXCEPT ![f] = disk[f]] /\ UNCHANGED <<disk, job>>
Forget  == view' = Nothing /\ UNCHANGED <<disk, job>>

\* The process dies: some jobs are never answered, the files stay.
Die ==
  /\ \E J \in SUBSET {j \in Jobs : job[j] = "todo"} :
       job' = [j \in Jobs |-> IF j \in J THEN "failed" ELSE job[j]]
  /\ view' = Nothing /\ UNCHANGED disk

Next ==
  \/ \E j \in Jobs : Do(j) \/ Fail(j)
  \/ \E f \in Files : Read(f)
  \/ Forget \/ Die

Spec == Init /\ [][Next]_vars
=============================================================================
