------------------------------ MODULE Versions ------------------------------
(***************************************************************************)
(* What hot reload promises of the tables in use, whatever is saved,       *)
(* toggled and reloaded at a time: each site of a list in use is what its  *)
(* file held at some time since the process started, and each table is     *)
(* that of the whole list it is for.  Only the enabled flag of a site that *)
(* was toggled may be another, in the list as in the table.  HotReload is  *)
(* shown to implement it (HotReloadVersions).                              *)
(***************************************************************************)
EXTENDS SiteConfig

CONSTANTS
  Contents,  \* what a file can hold
  Offered,   \* what admins post, edits from outside write and saves mix up
  NoList     \* the list of no sites

VARIABLES
  disk,      \* what each file holds
  past,      \* what it has held since the process started
  toggled,   \* the files whose site was toggled since then
  damaged,   \* a file operation has failed
  list,      \* the list in the store, and the index made from it
  index,
  routed,    \* the list in the router, and the runtimes made from it
  runtimes

vars == <<disk, past, toggled, damaged, list, index, routed, runtimes>>

Flip(site) == [site EXCEPT !.enabled = ~@]

\* The versions of a file's site.
Known(f) ==
  past[f] \cup (IF f \in toggled THEN {Flip(s) : s \in past[f] \cap Sites} ELSE {})

\* A list is genuine when each site in it is a version of its file, and each
\* file without a site was once invalid or absent, or could not be read.
Genuine(l) ==
  \A f \in Files :
    \/ l[f] # NoSite /\ l[f] \in Known(f)
    \/ l[f] = NoSite /\ (damaged \/ \E c \in past[f] : LoadSiteFile(c) = NoSite)

Since(contents) == [f \in Files |-> {contents[f]}]

NoTable == [n \in Names |-> NoFile]

Init ==
  /\ disk \in [Files -> Contents] /\ past = Since(disk) /\ toggled = {} /\ damaged = FALSE
  /\ list = NoList /\ routed = NoList /\ index = NoTable /\ runtimes = NoTable

\* A file is written: what was offered, or a version that it had; the write may also fail.
Write ==
  /\ \E f \in Files : \E c \in Contents :
       /\ c \in Offered \cup Known(f)
       /\ disk' = [disk EXCEPT ![f] = c]
       /\ past' = [past EXCEPT ![f] = @ \cup {c}]
  /\ damaged' \in {damaged, TRUE} /\ UNCHANGED <<toggled, list, index, routed, runtimes>>

Damage ==
  damaged' \in {damaged, TRUE} /\ UNCHANGED <<disk, past, toggled, list, index, routed, runtimes>>

\* The list, with the flags of these sites the other way.
FlippedIn(l, F) == [f \in Files |-> IF f \in F /\ l[f] # NoSite THEN Flip(l[f]) ELSE l[f]]

\* A list is installed, whole, in the store or in the router, and its table, which
\* was made while sites were toggled.
InstallList ==
  /\ Genuine(list') /\ \E F \in SUBSET toggled : index' = ByDomain(FlippedIn(list', F))
  /\ UNCHANGED <<disk, past, toggled, damaged, routed, runtimes>>
InstallRoutes ==
  /\ Genuine(routed') /\ \E F \in SUBSET toggled : runtimes' = Runtimes(FlippedIn(routed', F))
  /\ UNCHANGED <<disk, past, toggled, damaged, list, index>>

\* A toggle flips a flag in the lists, not in the tables made from them.
Toggle ==
  /\ \E f \in Files :
       /\ toggled' = toggled \cup {f}
       /\ list' \in {list, FlippedIn(list, {f})} /\ routed' \in {routed, FlippedIn(routed, {f})}
  /\ UNCHANGED <<disk, past, damaged, index, runtimes>>

\* The process dies; the next one starts with nothing but the files.
Restart ==
  /\ past' = Since(disk) /\ toggled' = {}
  /\ list' = NoList /\ routed' = NoList /\ index' = NoTable /\ runtimes' = NoTable
  /\ UNCHANGED <<disk, damaged>>

Next == Write \/ Damage \/ InstallList \/ InstallRoutes \/ Toggle \/ Restart

Spec == Init /\ [][Next]_vars
=============================================================================
