------------------------- MODULE HotReloadVersions --------------------------
(***************************************************************************)
(* HotReload with a history of each file's versions, which shows that it   *)
(* implements Versions.                                                    *)
(***************************************************************************)
EXTENDS HotReload

VARIABLES
  past,    \* history: what each file held since the last start
  toggled  \* history: the files whose site was toggled since then

V == INSTANCE Versions WITH
  Offered <- Posted \cup Written \cup Blends \cup {Absent, Empty}, NoList <- NoSites,
  damaged <- faults > 0, list <- heap[store], index <- byDomain, routed <- heap[routes]

PastInit == Init /\ past = V!Since(disk) /\ toggled = {}

PastNext ==
  /\ Next
  /\ past' = IF crashes' # crashes THEN V!Since(disk)
             ELSE [f \in Files |-> past[f] \cup {disk'[f]}]
  /\ toggled' = IF crashes' # crashes THEN {}
                ELSE toggled \cup {req[h].file : h \in {k \in Handlers : WriteFlag(k)}}

PastSpec == PastInit /\ [][PastNext]_<<vars, past, toggled>>

PastFairSpec ==
  /\ PastSpec
  /\ WF_vars(WatcherLoop) /\ WF_vars(Reload(Watcher))
  /\ \A h \in Handlers : WF_vars(HandlerStep(h))

\* The tables are always those of a whole list, in which each site is a version
\* that its file really had, but for the flags of sites that were toggled: no reload
\* that crosses a save, a delete or a toggle (which writes into the objects of a
\* list in use, while tables are made of it, and back to disk what it found there,
\* however old that is) installs half a list, an index that is left over from
\* another list, a site that was never in its file, or the wrong flag of a site that
\* nobody toggled.
ImplementsVersions == V!Spec
=============================================================================
