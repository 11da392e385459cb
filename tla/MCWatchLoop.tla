---------------------------- MODULE MCWatchLoop -----------------------------
(***************************************************************************)
(* Values for WatchLoop: a site that is saved and deleted, one that is     *)
(* dropped into sites/ by hand, and a load that reads both.                *)
(***************************************************************************)
EXTENDS WatchLoop, TLC

CONSTANTS long, short, s1, s2, del, cp  \* documents and jobs

TwoFiles  == {1, 2}
TwoDocs   == {long, short}
SiteOne   == [f \in TwoFiles |-> IF f = 1 THEN long ELSE Absent]
DocSize   == [d \in TwoDocs \cup {Torn} |-> IF d = short THEN 1 ELSE 2]
FewInodes == 1..9

EditJobs   == {s1, del, cp}
EditKind   == [j \in EditJobs |-> CASE j = s1 -> "save" [] j = del -> "delete" [] j = cp -> "drop"]
EditTarget == [j \in EditJobs |-> IF j = cp THEN 2 ELSE 1]
EditDoc    == [j \in EditJobs |-> IF j = cp THEN long ELSE short]

TwoSaves  == {s1, s2}
SaveKind  == [j \in TwoSaves |-> "save"]
SaveFile  == [j \in TwoSaves |-> 1]
SaveDoc   == [j \in TwoSaves |-> IF j = s1 THEN long ELSE short]
=============================================================================
