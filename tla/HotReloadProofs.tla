-------------------------- MODULE HotReloadProofs ---------------------------
(***************************************************************************)
(* Proofs about HotReload and HotReloadVersions, for every set of files,   *)
(* names, sites and admin requests and every bound: types, the watcher's   *)
(* last word, certificates, untouched sites, and the refinement of         *)
(* Versions.                                                               *)
(*                                                                         *)
(* The inductive invariant says who points where: a load that is still     *)
(* being read belongs to one goroutine, and no table and no request points *)
(* into it, so the in-place toggles never meet it; and, for the watcher's  *)
(* own load, that each file it has read, and each flag its loops have      *)
(* read, is still what the directory holds, unless an event is queued, the *)
(* timer is armed, or a toggle of that very file has yet to open its .tmp. *)
(***************************************************************************)
EXTENDS HotReloadVersions, SiteConfigProofs, TLAPS

\* The steps at which a goroutine has a load of its own.
Loading == {"file", "router", "acme", "prune"}

\* The steps of a request that is about a file.
Editing == {"read", "flip", "save", "open", "write", "rename", "remove"}

\* What a request is about fits the step its handler is at.
Fits(r, step) ==
  /\ r.op # "none" => r.file \in Files
  /\ step \in {"read", "flip"} => r.op = "toggle"
  /\ step \in {"save", "open", "write", "rename"} => r.op \in {"toggle", "save"}
  /\ step \in {"open", "write", "rename"} => r.site \in Sites
  /\ step = "remove" => r.op = "delete"
  /\ r.op = "save" => r.site \in Sites
  /\ r.op = "toggle" /\ step \in {"read", "flip", "save"} => heap[r.gen][r.file] # NoSite
  /\ step \notin Editing => r = NoReq

RequestOK == \A h \in Handlers : Fits(req[h], pc[h])

\* Each goroutine's steps are its own, and a load is one goroutine's.
OwnLoads ==
  /\ pc[Watcher] \in WatcherSteps \cup ReloadSteps
  /\ \A h \in Handlers : pc[h] \in HandlerSteps \cup ReloadSteps
  /\ \A p \in Procs : pc[p] \in Loading => mine[p] # 0
  /\ pc[Watcher] = "select" => mine[Watcher] # 0
  /\ \A p, q \in Procs : p # q /\ mine[p] = mine[q] => mine[p] = 0
  /\ \A p \in Procs : pc[p] # "file" => todo[p] = {}

\* Nothing points into a load that is still being read.
Private ==
  \A p \in Procs : pc[p] = "file" =>
    /\ mine[p] # store /\ mine[p] # routes
    /\ \A h \in Handlers : mine[p] # req[h].gen

\* A goroutine is in a loop over the sites of its load.
Looping(p) == pc[p] \in {"router", "acme"} \/ (pc[p] = "file" /\ todo[p] = {})

\* A flag that was read is one of a site, and is forgotten with its loop.
OwnFlags ==
  \A p \in Procs :
    /\ ~Looping(p) => flags[p] = Unread
    /\ \A f \in Files : flags[p][f] # "unread" => heap[mine[p]][f] # NoSite

\* A loaded site passed Validate; a toggle keeps it so.
ValidSites ==
  \A g \in Gens, f \in Files : heap[g][f] # NoSite => Validate(heap[g][f])

TypeInv == TypeOK /\ RequestOK /\ OwnLoads /\ Private /\ OwnFlags /\ ValidSites

-----------------------------------------------------------------------------
(* Type correctness. *)

LEMMA NoReqType == 0 \in Gens /\ NoReq \in Requests
BY BoundsAssumption DEF Gens, NoReq, Requests

LEMMA UnreadType == Unread \in [Files -> {"unread", "on", "off"}]
BY DEF Unread

LEMMA WatcherIsAProc == Watcher \in Procs /\ Handlers \subseteq Procs
BY DEF Procs

LEMMA InitTypeInv == Init => TypeInv
<1> SUFFICES ASSUME Init PROVE TypeInv
  OBVIOUS
<1>1. TypeOK
  <2>1. pc \in [Procs -> WatcherSteps \cup HandlerSteps \cup ReloadSteps]
    BY DEF Init, WatcherSteps, HandlerSteps
  <2>2. disk \in [Files -> Contents] /\ tmp \in [Files -> Contents]
    BY DiskAssumption DEF Init, Contents
  <2>3. 0 \in Gens /\ NoReq \in Requests
    BY NoReqType
  <2>4. heap \in [Gens -> [Files -> Sites \cup {NoSite}]]
    BY DEF Init, NoSites
  <2>5. /\ byDomain \in [Names -> Files \cup {NoFile}]
        /\ runtimes \in [Names -> Files \cup {NoFile}]
    BY DEF Init, NoRoutes
  <2>6. /\ todo \in [Procs -> SUBSET Files] /\ mine \in [Procs -> Gens]
        /\ req \in [Handlers -> Requests]
    BY <2>3 DEF Init
  <2>7. events \in 0..MaxEvents
    BY BoundsAssumption DEF Init
  <2>10. timer \in BOOLEAN /\ store \in Gens /\ routes \in Gens
    BY <2>3 DEF Init
  <2>8. /\ managed \in SUBSET Names
        /\ edits \in 0..MaxEdits /\ faults \in 0..MaxMishaps /\ crashes \in 0..MaxMishaps
    BY BoundsAssumption DEF Init
  <2>9. /\ flags \in [Procs -> [Files -> {"unread", "on", "off"}]]
        /\ fd \in [Handlers -> {"none", "tmp", "site", "lost"}]
    BY UnreadType DEF Init
  <2> QED BY <2>1, <2>2, <2>4, <2>5, <2>6, <2>7, <2>8, <2>9, <2>10 DEF TypeOK
<1>2. RequestOK /\ OwnLoads /\ Private
  BY ProcsAssumption
  DEF Init, RequestOK, Fits, OwnLoads, Private, Procs, NoReq, Loading, Editing,
      WatcherSteps, HandlerSteps
<1>3. ValidSites /\ OwnFlags
  BY DEF Init, ValidSites, NoSites, OwnFlags, Unread
<1> QED BY <1>1, <1>2, <1>3 DEF TypeInv

LEMMA ReadDirType ==
  ASSUME TypeInv, NEW p \in Procs, ReadDir(p)
  PROVE  TypeInv'
<1> PICK g \in Gens \ Live :
      /\ mine' = [mine EXCEPT ![p] = g]
      /\ heap' = [k \in Gens |-> IF k \in Live THEN heap[k] ELSE NoSites]
      /\ todo' \in {[todo EXCEPT ![p] = {f \in Files : disk[f] # Absent}],
                    [todo EXCEPT ![p] = {}]}
      /\ UNCHANGED boundVars \/ Fault
  BY DEF ReadDir
<1> USE DEF TypeInv, fileVars, tableVars, storeVars, routerVars
<1>1. /\ UNCHANGED <<disk, tmp, fd, events, timer, flags, tableVars, req>>
      /\ pc[p] = "dir" /\ pc' = [pc EXCEPT ![p] = "file"]
  BY DEF ReadDir, Goto
<1>2. TypeOK'
  <2>1. /\ pc' \in [Procs -> WatcherSteps \cup HandlerSteps \cup ReloadSteps]
        /\ todo' \in [Procs -> SUBSET Files] /\ mine' \in [Procs -> Gens]
        /\ heap' \in [Gens -> [Files -> Sites \cup {NoSite}]]
    BY <1>1 DEF TypeOK, NoSites, ReloadSteps
  <2>2. edits' \in 0..MaxEdits /\ faults' \in 0..MaxMishaps /\ crashes' \in 0..MaxMishaps
    BY BoundsAssumption DEF TypeOK, boundVars, Fault
  <2> QED BY <1>1, <2>1, <2>2 DEF TypeOK
<1>3. \A k \in Live : k \in Gens => heap'[k] = heap[k]
  BY DEF Live
<1>4. g # 0 /\ g # store /\ g # routes
  BY DEF Live
<1>5. \A q \in Procs : mine[q] # g /\ mine[q] \in Live /\ mine[q] \in Gens
  BY DEF Live, TypeOK
<1>6. \A h \in Handlers : req[h].gen # g /\ req[h].gen \in Live
  BY DEF Live
<1>7. RequestOK'
  BY <1>1, <1>3, <1>6, ProcsAssumption
  DEF RequestOK, Fits, TypeOK, Requests, NoReq, Procs, Editing
<1>8. OwnLoads'
  BY <1>1, <1>4, <1>5, ProcsAssumption
  DEF OwnLoads, TypeOK, Loading, ReloadSteps, Procs
<1>9. Private'
  BY <1>1, <1>4, <1>5, <1>6 DEF Private, TypeOK
<1>10. OwnFlags'
  <2>1. flags[p] = Unread /\ flags' = flags
    BY <1>1 DEF OwnFlags, Looping
  <2>2. \A q \in Procs \ {p} : /\ pc'[q] = pc[q] /\ mine'[q] = mine[q] /\ todo'[q] = todo[q]
                               /\ heap'[mine[q]] = heap[mine[q]]
    BY <1>1, <1>3, <1>5 DEF TypeOK
  <2>3. \A f \in Files : flags[p][f] = "unread"
    BY <2>1 DEF Unread
  <2> QED BY <2>1, <2>2, <2>3 DEF OwnFlags, Looping
<1>11. ValidSites'
  BY DEF ValidSites, NoSites
<1> QED BY <1>2, <1>7, <1>8, <1>9, <1>10, <1>11

LEMMA ReadFileType ==
  ASSUME TypeInv, NEW p \in Procs, ReadFile(p)
  PROVE  TypeInv'
<1> PICK f \in todo[p] :
      /\ todo' = [todo EXCEPT ![p] = @ \ {f}]
      /\ \/ /\ heap' = [heap EXCEPT ![mine[p]][f] = LoadSiteFile(disk[f])]
            /\ UNCHANGED boundVars
         \/ Fault /\ UNCHANGED heap
  BY DEF ReadFile
<1> USE DEF TypeInv, fileVars, tableVars, storeVars, routerVars
<1>1. f \in Files /\ mine[p] \in Gens
  BY DEF TypeOK
<1>2. LoadSiteFile(disk[f]) \in Sites \cup {NoSite}
  BY LoadSiteFileType
<1>3. \A g \in Gens, e \in Files :
        heap'[g][e] = heap[g][e] \/ (g = mine[p] /\ e = f /\ heap'[g][e] = LoadSiteFile(disk[f]))
  BY <1>1 DEF TypeOK
<1>4. heap' \in [Gens -> [Files -> Sites \cup {NoSite}]]
  <2>1. heap[mine[p]] \in [Files -> Sites \cup {NoSite}]
    BY <1>1 DEF TypeOK
  <2>2. [heap[mine[p]] EXCEPT ![f] = LoadSiteFile(disk[f])]
          \in [Files -> Sites \cup {NoSite}]
    BY <1>2, <2>1
  <2> QED BY <1>1, <2>2 DEF TypeOK
<1>5. TypeOK'
  BY <1>4, BoundsAssumption DEF TypeOK, ReadFile, boundVars, Fault
<1>6. UNCHANGED <<pc, mine, flags, store, routes, req>> /\ pc[p] = "file"
  BY DEF ReadFile
<1>7. RequestOK'
  BY <1>3, <1>6 DEF RequestOK, Fits, Private, TypeOK, Requests
<1>8. OwnLoads'
  BY <1>6 DEF OwnLoads, TypeOK
<1>9. Private'
  BY <1>6 DEF Private
<1>10. OwnFlags'
  <2>1. flags[p] = Unread
    BY <1>6 DEF OwnFlags, Looping
  <2>2. \A q \in Procs \ {p} : /\ todo'[q] = todo[q] /\ mine[q] \in Gens
                               /\ pc[q] \in Loading => heap'[mine[q]] = heap[mine[q]]
    BY <1>1, <1>6 DEF TypeOK, OwnLoads, Loading
  <2>3. \A e \in Files : flags[p][e] = "unread"
    BY <2>1 DEF Unread
  <2>4. \A q \in Procs : pc[q] \notin Loading => flags[q] = Unread
    BY DEF OwnFlags, Looping, Loading
  <2> QED BY <1>6, <2>1, <2>2, <2>3, <2>4 DEF OwnFlags, Looping, Unread, Loading
<1>11. ValidSites'
  BY <1>3, LoadSiteFileType DEF ValidSites
<1> QED BY <1>5, <1>7, <1>8, <1>9, <1>10, <1>11

LEMMA LookType ==
  ASSUME TypeInv, NEW p \in Procs, Look(p)
  PROVE  TypeInv'
<1> USE DEF TypeInv, fileVars, tableVars, storeVars, routerVars, boundVars
<1> PICK f \in Ahead(p) :
      flags' = [flags EXCEPT ![p][f] = IF heap[mine[p]][f].enabled THEN "on" ELSE "off"]
  BY DEF Look
<1>1. f \in Files /\ heap[mine[p]][f] # NoSite /\ Looping(p)
  BY DEF Ahead, Looping
<1>2. UNCHANGED <<disk, tmp, fd, events, timer, pc, todo, mine, heap, tableVars, req, boundVars>>
  BY DEF Look
<1> HIDE DEF Ahead
<1> DEFINE flag == IF heap[mine[p]][f].enabled THEN "on" ELSE "off"
<1>3. flag \in {"unread", "on", "off"}
  OBVIOUS
<1> HIDE DEF flag
<1>4. flags' = [flags EXCEPT ![p] = [flags[p] EXCEPT ![f] = flag]]
  BY DEF flag, TypeOK
<1>5. flags[p] \in [Files -> {"unread", "on", "off"}]
  BY DEF TypeOK
<1>6. flags' \in [Procs -> [Files -> {"unread", "on", "off"}]]
  <2>1. [flags[p] EXCEPT ![f] = flag] \in [Files -> {"unread", "on", "off"}]
    BY <1>3, <1>5
  <2> QED BY <1>4, <2>1 DEF TypeOK
<1>7. TypeOK'
  BY <1>2, <1>6 DEF TypeOK
<1>8. RequestOK' /\ OwnLoads' /\ Private' /\ ValidSites'
  BY <1>2 DEF RequestOK, Fits, OwnLoads, Private, ValidSites
<1>9. OwnFlags'
  <2>1. \A q \in Procs \ {p} : flags'[q] = flags[q]
    BY <1>4 DEF TypeOK
  <2>2. \A e \in Files \ {f} : flags'[p][e] = flags[p][e]
    BY <1>4, <1>5 DEF TypeOK
  <2> QED BY <1>1, <1>2, <2>1, <2>2 DEF OwnFlags, Looping
<1> QED BY <1>7, <1>8, <1>9

\* The list that a loop has found is one of valid sites, like the one it read.
LEMMA LookedType ==
  ASSUME TypeInv, NEW p \in Procs
  PROVE  heap[mine[p]] \in Loaded /\ Looked(p) \in Loaded
<1>1. heap[mine[p]] \in [Files -> Sites \cup {NoSite}]
  BY DEF TypeInv, TypeOK
<1>2. ASSUME NEW f \in Files, NEW b \in BOOLEAN, heap[mine[p]][f] # NoSite
      PROVE  [heap[mine[p]][f] EXCEPT !.enabled = b] \in Sites
  BY <1>1, <1>2, SitesAssumption
<1>3. \A f \in Files : (flags[p][f] = "on") \in BOOLEAN
  OBVIOUS
<1> QED BY <1>1, <1>2, <1>3 DEF Looked, Loaded

LEMMA InstallType ==
  ASSUME TypeInv, NEW p \in Procs,
         Replace(p) \/ RouterReload(p) \/ SyncDomains(p)
  PROVE  TypeInv'
<1> USE DEF TypeInv, fileVars, tableVars, storeVars, routerVars, boundVars
<1>1. Looked(p) \in Loaded
  BY LookedType
<1>2. CertDomains(Looked(p)) \subseteq Names
  <2> DEFINE sites == Looked(p)
  <2>1. sites \in Loaded
    BY <1>1
  <2> HIDE DEF sites
  <2>2. CertDomains(sites) \subseteq Names
    BY <2>1, SitesAssumption DEF CertDomains, AllDomains, Active, Loaded, Site
  <2> QED BY <2>2 DEF sites
<1>3. PICK step \in {"router", "acme", "prune"} : EndLoop(p, step)
  BY DEF Replace, RouterReload, SyncDomains
<1>4. /\ flags' = [flags EXCEPT ![p] = Unread] /\ pc' = [pc EXCEPT ![p] = step]
      /\ UNCHANGED <<disk, tmp, fd, events, timer, todo, mine, heap, req, boundVars>>
  BY <1>3 DEF EndLoop, Goto
<1>5. /\ pc[p] \in Loading /\ todo[p] = {} /\ step # "file"
      /\ store' \in {store, mine[p]} /\ routes' \in {routes, mine[p]}
  BY <1>3 DEF Replace, RouterReload, SyncDomains, Loading, OwnLoads
<1>6. TypeOK'
  <2>1. /\ byDomain' \in [Names -> Files \cup {NoFile}]
        /\ runtimes' \in [Names -> Files \cup {NoFile}]
    BY <1>1, TablesType DEF Replace, RouterReload, SyncDomains, TypeOK
  <2>2. managed' \in SUBSET Names
    BY <1>2 DEF Replace, RouterReload, SyncDomains, ManageAsync, TypeOK
  <2>3. flags' \in [Procs -> [Files -> {"unread", "on", "off"}]]
    BY <1>4, UnreadType DEF TypeOK
  <2> QED BY <1>4, <1>5, <2>1, <2>2, <2>3 DEF TypeOK, ReloadSteps
<1>7. RequestOK'
  BY <1>4, <1>5, ProcsAssumption DEF RequestOK, Fits, TypeOK, Editing, Loading, Procs
<1>8. OwnLoads'
  BY <1>4, <1>5, ProcsAssumption DEF OwnLoads, TypeOK, Loading, ReloadSteps, Procs
<1>9. Private'
  <2>1. \A q \in Procs : pc'[q] = "file" => pc[q] = "file" /\ q # p
    BY <1>4, <1>5 DEF TypeOK
  <2>2. \A q \in Procs : pc'[q] = "file" => mine[q] # mine[p]
    BY <1>5, <2>1 DEF OwnLoads, Loading
  <2> QED BY <1>4, <1>5, <2>1, <2>2 DEF Private
<1>10. OwnFlags'
  <2>1. \A q \in Procs \ {p} : flags'[q] = flags[q] /\ pc'[q] = pc[q]
    BY <1>4 DEF TypeOK
  <2>2. flags'[p] = Unread
    BY <1>4 DEF TypeOK
  <2> QED BY <1>4, <2>1, <2>2 DEF OwnFlags, Looping, Unread
<1>11. ValidSites'
  BY <1>4 DEF ValidSites
<1> QED BY <1>6, <1>7, <1>8, <1>9, <1>10, <1>11

\* A request is over, or a goroutine starts its reload or ends it: it leaves the
\* load it had, if any, and holds no flags.
LEMMA PruneType ==
  ASSUME TypeInv, NEW p \in Procs, Prune(p)
  PROVE  TypeInv'
<1> USE DEF TypeInv, fileVars, tableVars, storeVars, routerVars, boundVars
<1>1. UNCHANGED <<disk, tmp, fd, events, timer, todo, heap, flags, tableVars, boundVars>>
      /\ pc[p] = "prune"
  BY DEF Prune
<1>2. ValidSites'
  BY <1>1 DEF ValidSites
<1>3. CASE p = Watcher
  <2>1. pc' = [pc EXCEPT ![p] = "select"] /\ UNCHANGED <<mine, req>>
    BY <1>3 DEF Prune, Goto
  <2>2. TypeOK'
    BY <1>1, <2>1 DEF TypeOK, WatcherSteps
  <2>3. RequestOK' /\ OwnLoads' /\ Private'
    BY <1>1, <1>3, <2>1, ProcsAssumption
    DEF TypeOK, RequestOK, Fits, OwnLoads, Private, Loading, WatcherSteps, Procs
  <2>4. OwnFlags'
    BY <1>1, <2>1 DEF OwnFlags, Looping, TypeOK
  <2> QED BY <1>2, <2>2, <2>3, <2>4
<1>4. CASE p # Watcher
  <2>1. p \in Handlers
    BY <1>4 DEF Procs
  <2>2. /\ pc' = [pc EXCEPT ![p] = "done"] /\ mine' = [mine EXCEPT ![p] = 0]
        /\ req' = [req EXCEPT ![p] = NoReq]
    BY <1>4 DEF Prune, Answer, Goto
  <2>3. TypeOK'
    BY <1>1, <2>2, NoReqType DEF TypeOK, HandlerSteps
  <2>4. RequestOK'
    BY <1>1, <2>1, <2>2 DEF RequestOK, Fits, TypeOK, NoReq, Procs, Editing
  <2>5. OwnLoads'
    BY <1>1, <2>1, <2>2, ProcsAssumption
    DEF OwnLoads, TypeOK, Procs, Loading, WatcherSteps, HandlerSteps
  <2>6. Private'
    BY <1>1, <2>1, <2>2 DEF Private, OwnLoads, TypeOK, NoReq, Loading
  <2>7. OwnFlags'
    <3>1. flags[p] = Unread
      BY <1>1 DEF OwnFlags, Looping
    <3>2. \A q \in Procs \ {p} : mine'[q] = mine[q] /\ pc'[q] = pc[q]
      BY <2>2 DEF TypeOK
    <3> QED BY <1>1, <3>1, <3>2 DEF OwnFlags, Looping, Unread
  <2> QED BY <1>2, <2>3, <2>4, <2>5, <2>6, <2>7
<1> QED BY <1>3, <1>4

LEMMA WatcherType ==
  ASSUME TypeInv, WatcherLoop \/ WatcherStops
  PROVE  TypeInv'
<1> USE DEF fileVars, loadVars, tableVars, storeVars, routerVars, boundVars
<1>1. /\ UNCHANGED <<disk, tmp, fd, loadVars, tableVars, req, edits, crashes>>
      /\ \E step \in {"dir", "exited", "select"} : pc' = [pc EXCEPT ![Watcher] = step]
      /\ pc[Watcher] \in {"start", "select"}
      /\ pc'[Watcher] = "select" => pc[Watcher] = "select"
  BY WatcherIsAProc
  DEF WatcherLoop, StartWatch, ReceiveEvent, TimerFires, WatcherStops, Goto, Fault, TypeInv,
      TypeOK
<1>2. events' \in 0..MaxEvents
  BY BoundsAssumption
  DEF WatcherLoop, StartWatch, ReceiveEvent, TimerFires, WatcherStops, TypeInv, TypeOK
<1>7. timer' \in BOOLEAN
  BY DEF WatcherLoop, StartWatch, ReceiveEvent, TimerFires, WatcherStops, TypeInv, TypeOK
<1>8. faults' \in 0..MaxMishaps
  BY BoundsAssumption
  DEF WatcherLoop, StartWatch, ReceiveEvent, TimerFires, WatcherStops, Fault, TypeInv, TypeOK
<1> USE DEF TypeInv
<1>3. TypeOK'
  BY <1>1, <1>2, <1>7, <1>8 DEF TypeOK, WatcherSteps, ReloadSteps
<1>4. RequestOK' /\ ValidSites'
  BY <1>1, ProcsAssumption DEF RequestOK, Fits, ValidSites, TypeOK, Procs
<1>5. OwnLoads'
  BY <1>1, ProcsAssumption
  DEF OwnLoads, TypeOK, Loading, WatcherSteps, ReloadSteps, Procs
<1>6. Private' /\ OwnFlags'
  BY <1>1 DEF Private, OwnFlags, Looping, TypeOK
<1> QED BY <1>3, <1>4, <1>5, <1>6

\* A handler moves to a step that fits what its request has become.
LEMMA MovesType ==
  ASSUME TypeInv, NEW h \in Handlers, NEW step \in Editing \cup {"dir", "done"},
         NEW r \in Requests, pc[h] \in Editing \cup {"idle"},
         pc' = [pc EXCEPT ![h] = step], req' = [req EXCEPT ![h] = r],
         Fits(r, step), r.gen \in {0, store, req[h].gen},
         disk' \in [Files -> Contents], tmp' \in [Files -> Contents],
         fd' \in [Handlers -> {"none", "tmp", "site", "lost"}],
         events' \in 0..MaxEvents, timer' = timer,
         UNCHANGED <<loadVars, tableVars>>,
         faults' \in 0..MaxMishaps, UNCHANGED <<edits, crashes>>
  PROVE  TypeInv'
<1> USE DEF TypeInv, loadVars, tableVars, storeVars, routerVars
<1>1. TypeOK'
  BY DEF TypeOK, HandlerSteps, ReloadSteps, Editing
<1>2. RequestOK'
  BY WatcherIsAProc DEF RequestOK, Fits, TypeOK
<1>3. OwnLoads'
  BY ProcsAssumption
  DEF OwnLoads, TypeOK, Procs, Loading, Editing, WatcherSteps, HandlerSteps, ReloadSteps
<1>4. Private'
  BY DEF Private, OwnLoads, TypeOK, Loading, Editing
<1>5. OwnFlags' /\ ValidSites'
  BY DEF OwnFlags, Looping, ValidSites, TypeOK, Editing
<1> QED BY <1>1, <1>2, <1>3, <1>4, <1>5

\* What every Begin action hands to Accept.
Acceptable(request, step) ==
  /\ request \in Requests /\ step \in Editing \cup {"done"}
  /\ Fits(request, step)
  /\ request.gen \in {0, store}
  /\ request.op = "toggle" => step = "read"
  /\ step \notin {"open", "write", "rename"}

LEMMA BeginAccepts ==
  ASSUME TypeInv, NEW h \in Handlers, HandlerBegins(h)
  PROVE  \E request, step : Acceptable(request, step) /\ Accept(h, request, step)
<1> USE DEF TypeInv, TypeOK, NoReq, Requests, Fits, Editing
<1>1. CASE NotFound(h)
  BY <1>1, NoReqType DEF NotFound, Acceptable
<1>2. ASSUME NEW f \in Files, BeginToggle(h, f)
      PROVE  Acceptable([NoReq EXCEPT !.op = "toggle", !.file = f, !.gen = store], "read")
  BY <1>2 DEF BeginToggle, Acceptable, Listed
<1>3. ASSUME NEW f \in Files
      PROVE  Acceptable([NoReq EXCEPT !.op = "delete", !.file = f], "remove")
  BY NoReqType DEF Acceptable
<1>4. ASSUME NEW f \in Files, NEW form \in Posted
      PROVE  Acceptable([NoReq EXCEPT !.op = "save", !.file = f, !.site = form], "save")
  BY NoReqType, DiskAssumption DEF Acceptable, Contents
<1>5. \A form \in Posted : FileOf[form.domain] \in Files
  BY DiskAssumption, SitesAssumption, FilesAssumption DEF Site
<1> QED
  BY <1>1, <1>2, <1>3, <1>4, <1>5
  DEF HandlerBegins, BeginToggle, BeginDelete, BeginUpdate, BeginCreate

LEMMA BeginsType ==
  ASSUME TypeInv, NEW h \in Handlers, HandlerBegins(h)
  PROVE  TypeInv'
<1> PICK request, step : Acceptable(request, step) /\ Accept(h, request, step)
  BY BeginAccepts
<1> QED
  BY MovesType
  DEF Accept, Acceptable, Goto, fileVars, boundVars, TypeInv, TypeOK

\* The object that a toggle points to.
LEMMA ToggledSite ==
  ASSUME TypeInv, NEW h \in Handlers, req[h].op = "toggle",
         pc[h] \in {"read", "flip", "save"}
  PROVE  /\ req[h].gen \in Gens /\ req[h].file \in Files
         /\ heap[req[h].gen][req[h].file] \in Sites
         /\ heap[req[h].gen][req[h].file] # NoSite
         /\ Validate(heap[req[h].gen][req[h].file])
BY DEF TypeInv, TypeOK, RequestOK, Fits, ValidSites, Requests

LEMMA ReadFlagType ==
  ASSUME TypeInv, NEW h \in Handlers, ReadFlag(h)
  PROVE  TypeInv'
<1> USE DEF fileVars, boundVars
<1> DEFINE b == heap[req[h].gen][req[h].file].enabled
           r == [req[h] EXCEPT !.flag = b]
<1>1. pc[h] = "read" /\ req[h].op = "toggle" /\ req[h] \in Requests
  BY DEF ReadFlag, TypeInv, TypeOK, RequestOK, Fits
<1>2. b \in BOOLEAN
  BY <1>1, ToggledSite, SitesAssumption DEF Site
<1>3. req' = [req EXCEPT ![h].flag = b]
  BY DEF ReadFlag
<1>4. pc' = [pc EXCEPT ![h] = "flip"] /\ UNCHANGED <<fileVars, timer, loadVars, tableVars, boundVars>>
  BY DEF ReadFlag, Goto
<1>5. Fits(req[h], "read")
  BY <1>1 DEF TypeInv, RequestOK
<1> HIDE DEF b
<1>6. req' = [req EXCEPT ![h] = r]
  BY <1>1, <1>3
<1>7. r \in Requests
  BY <1>1, <1>2 DEF Requests
<1>8. r.op = req[h].op /\ r.gen = req[h].gen /\ r.file = req[h].file /\ r.site = req[h].site
  BY <1>1 DEF Requests
<1> HIDE DEF r
<1>9. Fits(r, "flip")
  BY <1>1, <1>5, <1>8 DEF Fits, Editing
<1>10. /\ disk \in [Files -> Contents] /\ tmp \in [Files -> Contents]
       /\ fd \in [Handlers -> {"none", "tmp", "site", "lost"}]
       /\ events \in 0..MaxEvents /\ faults \in 0..MaxMishaps
  BY DEF TypeInv, TypeOK
<1>11. pc[h] \in Editing /\ "flip" \in Editing
  BY <1>1 DEF Editing
<1> QED BY <1>4, <1>6, <1>7, <1>8, <1>9, <1>10, <1>11, MovesType

\* What a flip of a flag does to the heap.
LEMMA FlagWritten ==
  ASSUME TypeInv, NEW h \in Handlers, WriteFlag(h)
  PROVE  /\ req[h].op = "toggle" /\ req[h].gen \in Gens /\ req[h].file \in Files
         /\ heap[req[h].gen][req[h].file] \in Sites
         /\ heap' \in [Gens -> [Files -> Sites \cup {NoSite}]]
         /\ \A g \in Gens, f \in Files :
              (g # req[h].gen \/ f # req[h].file) => heap'[g][f] = heap[g][f]
         /\ heap'[req[h].gen][req[h].file] =
              [heap[req[h].gen][req[h].file] EXCEPT !.enabled = ~req[h].flag]
         /\ (~req[h].flag) \in BOOLEAN
<1> DEFINE g == req[h].gen
           f == req[h].file
           b == ~req[h].flag
           new == [heap[g][f] EXCEPT !.enabled = b]
<1>1. req[h].op = "toggle" /\ pc[h] = "flip"
  BY DEF WriteFlag, TypeInv, RequestOK, Fits
<1>2. g \in Gens /\ f \in Files /\ heap[g][f] \in Sites
  BY <1>1, ToggledSite
<1>3. b \in BOOLEAN
  BY DEF TypeInv, TypeOK, Requests
<1>4. heap' = [heap EXCEPT ![g] = [heap[g] EXCEPT ![f] = new]]
  BY <1>2 DEF WriteFlag, TypeInv, TypeOK
<1> HIDE DEF b
<1>5. new \in Sites
  BY <1>2, <1>3, SitesAssumption
<1> HIDE DEF new
<1>6. heap[g] \in [Files -> Sites \cup {NoSite}]
  BY <1>2 DEF TypeInv, TypeOK
<1>7. [heap[g] EXCEPT ![f] = new] \in [Files -> Sites \cup {NoSite}]
  BY <1>5, <1>6
<1>8. heap' \in [Gens -> [Files -> Sites \cup {NoSite}]]
  BY <1>4, <1>7 DEF TypeInv, TypeOK
<1>9. \A k \in Gens, e \in Files : (k # g \/ e # f) => heap'[k][e] = heap[k][e]
  BY <1>2, <1>4, <1>6 DEF TypeInv, TypeOK
<1>10. heap'[g][f] = new
  BY <1>2, <1>4, <1>6 DEF TypeInv, TypeOK
<1> QED BY <1>1, <1>2, <1>3, <1>8, <1>9, <1>10 DEF new, b

LEMMA WriteFlagType ==
  ASSUME TypeInv, NEW h \in Handlers, WriteFlag(h)
  PROVE  TypeInv'
<1>0. \A g \in Gens, f \in Files :
        (g # req[h].gen \/ f # req[h].file) => heap'[g][f] = heap[g][f]
  BY FlagWritten
<1> USE DEF TypeInv, fileVars, loadVars, tableVars, storeVars, routerVars, boundVars
<1>1. UNCHANGED <<disk, tmp, fd, events, timer, todo, mine, flags, tableVars, req, boundVars>>
      /\ pc[h] = "flip" /\ pc' = [pc EXCEPT ![h] = "save"]
  BY DEF WriteFlag, Goto
<1>2. heap' \in [Gens -> [Files -> Sites \cup {NoSite}]]
  BY FlagWritten
<1>3. \A g \in Gens, f \in Files :
        /\ heap[g][f] # NoSite => heap'[g][f] # NoSite
        /\ heap'[g][f] # NoSite => Validate(heap'[g][f])
  <2> TAKE g \in Gens, f \in Files
  <2>1. CASE g # req[h].gen \/ f # req[h].file
    <3>1. heap'[g][f] = heap[g][f]
      BY <1>0, <2>1
    <3> QED BY <3>1 DEF ValidSites
  <2>2. CASE g = req[h].gen /\ f = req[h].file
    <3> DEFINE b == ~req[h].flag
    <3>1. heap'[g][f] = [heap[g][f] EXCEPT !.enabled = b] /\ b \in BOOLEAN
          /\ heap[g][f] \in Sites
      BY <2>2, FlagWritten
    <3>2. Validate(heap[g][f])
      BY <1>1, <2>2, ToggledSite, FlagWritten
    <3> HIDE DEF b
    <3> QED BY <3>1, <3>2, FlipKeepsValid
  <2> QED BY <2>1, <2>2
<1>4. TypeOK'
  BY <1>1, <1>2 DEF TypeOK, HandlerSteps
<1>5. RequestOK'
  <2>1. \A k \in Handlers : req[k].gen \in Gens
    BY DEF TypeOK, Requests
  <2>2. \A k \in Handlers \ {h} : pc'[k] = pc[k]
    BY <1>1 DEF TypeOK
  <2>3. pc'[h] = "save"
    BY <1>1, WatcherIsAProc DEF TypeOK
  <2>4. ASSUME NEW k \in Handlers, Fits(req[k], pc[k]) PROVE Fits(req[k], pc[k])'
    BY <1>1, <1>3, <2>1, <2>2, <2>3, <2>4 DEF Fits, Editing
  <2> QED BY <2>4 DEF RequestOK
<1>6. OwnLoads' /\ Private'
  BY <1>1, ProcsAssumption
  DEF OwnLoads, Private, TypeOK, Procs, Loading, HandlerSteps
<1>7. OwnFlags'
  <2>1. \A p \in Procs : mine[p] \in Gens
    BY DEF TypeOK
  <2>2. \A p \in Procs : Looping(p)' = Looping(p)
    BY <1>1, WatcherIsAProc DEF Looping, TypeOK
  <2> QED BY <1>1, <1>3, <2>1, <2>2 DEF OwnFlags
<1>8. ValidSites'
  BY <1>3 DEF ValidSites
<1> QED BY <1>4, <1>5, <1>6, <1>7, <1>8

\* An event is queued whenever somebody watches.
LEMMA Notified ==
  ASSUME TypeInv, Notify
  PROVE  events' \in 0..MaxEvents /\ (Watching => events' > 0)
BY BoundsAssumption DEF Notify, TypeInv, TypeOK

LEMMA Relinked ==
  ASSUME TypeInv, NEW f, Relink(f, Renamed) \/ Relink(f, Unlinked)
  PROVE  fd' \in [Handlers -> {"none", "tmp", "site", "lost"}]
<1>1. \A name \in {"none", "tmp", "site", "lost"} :
        /\ Renamed[name] \in {"none", "tmp", "site", "lost"}
        /\ Unlinked[name] \in {"none", "tmp", "site", "lost"}
  BY DEF Renamed, Unlinked
<1> HIDE DEF Renamed, Unlinked
<1> QED BY <1>1 DEF Relink, TypeInv, TypeOK

LEMMA Filled ==
  ASSUME TypeInv, NEW h \in Handlers, req[h].file \in Files,
         NEW contents \in SUBSET Contents, Fill(h, contents)
  PROVE  /\ disk' \in [Files -> Contents] /\ tmp' \in [Files -> Contents]
         /\ fd' \in [Handlers -> {"none", "tmp", "site", "lost"}]
         /\ events' \in 0..MaxEvents
<1>1. disk' \in [Files -> Contents] /\ tmp' \in [Files -> Contents]
  BY DEF Fill, TypeInv, TypeOK
<1>2. fd' \in [Handlers -> {"none", "tmp", "site", "lost"}]
  BY DEF Fill, TypeInv, TypeOK
<1> QED BY <1>1, <1>2, Notified DEF Fill

\* What a request that edits is about, and what it can leave in a file.
LEMMA EditedFile ==
  ASSUME TypeInv, NEW h \in Handlers, pc[h] \in Editing
  PROVE  /\ req[h] \in Requests /\ req[h].file \in Files
         /\ Found(h) \in Contents
         /\ pc[h] \in {"open", "write", "rename"} => req[h].site \in Contents
         /\ {Found(h)} \cup Blends \in SUBSET Contents
         /\ pc[h] = "write" => WrittenOver(Found(h), req[h].site) \in SUBSET Contents
<1>1. req[h] \in Requests /\ Fits(req[h], pc[h])
  BY DEF TypeInv, TypeOK, RequestOK
<1>2. req[h].file \in Files /\ (pc[h] \in {"open", "write", "rename"} => req[h].site \in Contents)
  BY <1>1 DEF Fits, Editing, Contents
<1>3. Found(h) \in Contents
  BY <1>2 DEF Found, TypeInv, TypeOK
<1>4. Blends \subseteq Contents
  BY DiskAssumption
<1> QED BY <1>1, <1>2, <1>3, <1>4 DEF WrittenOver

\* A step of an edit, its effects on the request and the files.
LEMMA EditShape ==
  ASSUME TypeInv, NEW h \in Handlers,
         Marshal(h) \/ SaveRejected(h) \/ OpenTmp(h) \/ WriteTmp(h) \/ Rename(h)
           \/ SaveFails(h) \/ DeleteSite(h) \/ DeleteFails(h)
  PROVE  /\ pc[h] \in {"save", "open", "write", "rename", "remove"}
         /\ UNCHANGED <<timer, loadVars, tableVars, edits, crashes>>
         /\ \E step \in {"open", "write", "rename", "dir", "done"} : \E r :
              /\ pc' = [pc EXCEPT ![h] = step] /\ req' = [req EXCEPT ![h] = r]
              /\ \/ step \in {"dir", "done"} /\ r = NoReq
                 \/ step = "open" /\ r = [req[h] EXCEPT !.site = SavedSite(h), !.gen = 0]
                    /\ pc[h] = "save"
                 \/ step \in {"write", "rename"} /\ r = req[h] /\ pc[h] \in {"open", "write"}
         /\ faults' = faults \/ Fault
         /\ disk' \in [Files -> Contents] /\ tmp' \in [Files -> Contents]
         /\ fd' \in [Handlers -> {"none", "tmp", "site", "lost"}]
         /\ events' \in 0..MaxEvents
<1> USE DEF fileVars, boundVars
<1>0. req = [req EXCEPT ![h] = req[h]]
  BY DEF TypeInv, TypeOK
<1>1. /\ disk \in [Files -> Contents] /\ tmp \in [Files -> Contents]
      /\ fd \in [Handlers -> {"none", "tmp", "site", "lost"}]
      /\ events \in 0..MaxEvents
      /\ Absent \in Contents /\ Empty \in Contents
  BY DEF TypeInv, TypeOK, Contents
<1>2. CASE Marshal(h)
  BY <1>1, <1>2 DEF Marshal, Goto
<1>3. CASE SaveRejected(h) \/ DeleteFails(h)
  BY <1>1, <1>3 DEF SaveRejected, DeleteFails, Answer, Goto, Fault
<1>4. CASE OpenTmp(h)
  <2>1. tmp' \in [Files -> Contents] /\ fd' \in [Handlers -> {"none", "tmp", "site", "lost"}]
    BY <1>1, <1>4 DEF OpenTmp
  <2>2. pc[h] = "open" /\ pc' = [pc EXCEPT ![h] = "write"] /\ req' = [req EXCEPT ![h] = req[h]]
        /\ UNCHANGED <<disk, timer, loadVars, tableVars, faults, edits, crashes>>
    BY <1>0, <1>4 DEF OpenTmp, Goto
  <2> QED BY <1>1, <1>4, <2>1, <2>2, Notified DEF OpenTmp
<1>5. CASE WriteTmp(h)
  <2>1. pc[h] = "write" /\ pc' = [pc EXCEPT ![h] = "rename"] /\ req' = [req EXCEPT ![h] = req[h]]
        /\ UNCHANGED <<timer, loadVars, tableVars, faults, edits, crashes>>
    BY <1>0, <1>5 DEF WriteTmp, Goto
  <2>2. /\ disk' \in [Files -> Contents] /\ tmp' \in [Files -> Contents]
        /\ fd' \in [Handlers -> {"none", "tmp", "site", "lost"}]
        /\ events' \in 0..MaxEvents
    BY <1>5, <2>1, EditedFile, Filled DEF WriteTmp, Editing
  <2> QED BY <2>1, <2>2
<1>6. CASE Rename(h)
  <2>1. pc[h] = "rename" /\ pc' = [pc EXCEPT ![h] = "dir"] /\ req' = [req EXCEPT ![h] = NoReq]
        /\ UNCHANGED <<timer, loadVars, tableVars, faults, edits, crashes>>
    BY <1>6 DEF Rename, Goto
  <2>2. req[h].file \in Files
    BY <2>1, EditedFile DEF Editing
  <2>3. disk' \in [Files -> Contents] /\ tmp' \in [Files -> Contents]
    BY <1>1, <1>6, <2>2 DEF Rename
  <2>4. fd' \in [Handlers -> {"none", "tmp", "site", "lost"}] /\ events' \in 0..MaxEvents
    BY <1>6, Relinked, Notified DEF Rename
  <2> QED BY <2>1, <2>3, <2>4
<1>7. CASE SaveFails(h)
  <2>1. /\ pc[h] \in {"open", "write", "rename"} /\ Answer(h)
        /\ UNCHANGED <<timer, loadVars, tableVars>>
        /\ UNCHANGED boundVars \/ Fault
    BY <1>7 DEF SaveFails
  <2>2. /\ disk' \in [Files -> Contents] /\ tmp' \in [Files -> Contents]
        /\ fd' \in [Handlers -> {"none", "tmp", "site", "lost"}]
        /\ events' \in 0..MaxEvents
    BY <1>1, <1>7, <2>1, EditedFile, Filled DEF SaveFails, Editing
  <2> QED BY <2>1, <2>2 DEF Answer, Goto, Fault
<1>8. CASE DeleteSite(h)
  <2>1. pc[h] = "remove" /\ pc' = [pc EXCEPT ![h] = "dir"] /\ req' = [req EXCEPT ![h] = NoReq]
        /\ UNCHANGED <<tmp, timer, loadVars, tableVars, faults, edits, crashes>>
    BY <1>8 DEF DeleteSite, Goto
  <2>2. disk' \in [Files -> Contents]
    BY <1>1, <1>8 DEF DeleteSite
  <2>3. fd' \in [Handlers -> {"none", "tmp", "site", "lost"}] /\ events' \in 0..MaxEvents
    BY <1>8, Relinked, Notified DEF DeleteSite
  <2> QED BY <1>1, <2>1, <2>2, <2>3
<1> QED BY <1>2, <1>3, <1>4, <1>5, <1>6, <1>7, <1>8

LEMMA EditType ==
  ASSUME TypeInv, NEW h \in Handlers,
         Marshal(h) \/ SaveRejected(h) \/ OpenTmp(h) \/ WriteTmp(h) \/ Rename(h)
           \/ SaveFails(h) \/ DeleteSite(h) \/ DeleteFails(h)
  PROVE  TypeInv'
<1> PICK step \in {"open", "write", "rename", "dir", "done"} :
      \E r :
        /\ pc' = [pc EXCEPT ![h] = step] /\ req' = [req EXCEPT ![h] = r]
        /\ \/ step \in {"dir", "done"} /\ r = NoReq
           \/ step = "open" /\ r = [req[h] EXCEPT !.site = SavedSite(h), !.gen = 0]
              /\ pc[h] = "save"
           \/ step \in {"write", "rename"} /\ r = req[h] /\ pc[h] \in {"open", "write"}
  BY EditShape
<1> PICK r :
      /\ pc' = [pc EXCEPT ![h] = step] /\ req' = [req EXCEPT ![h] = r]
      /\ \/ step \in {"dir", "done"} /\ r = NoReq
         \/ step = "open" /\ r = [req[h] EXCEPT !.site = SavedSite(h), !.gen = 0]
            /\ pc[h] = "save"
         \/ step \in {"write", "rename"} /\ r = req[h] /\ pc[h] \in {"open", "write"}
  OBVIOUS
<1>1. req[h] \in Requests /\ Fits(req[h], pc[h]) /\ req[h].gen \in Gens
  BY DEF TypeInv, TypeOK, RequestOK, Requests
<1>2. /\ pc[h] \in {"save", "open", "write", "rename", "remove"}
      /\ disk' \in [Files -> Contents] /\ tmp' \in [Files -> Contents]
      /\ fd' \in [Handlers -> {"none", "tmp", "site", "lost"}]
      /\ events' \in 0..MaxEvents
      /\ UNCHANGED <<timer, loadVars, tableVars, edits, crashes>>
      /\ faults' = faults \/ Fault
  BY EditShape
<1>3. faults' \in 0..MaxMishaps
  BY <1>2, BoundsAssumption DEF Fault, TypeInv, TypeOK
<1>4. r \in Requests /\ Fits(r, step) /\ r.gen \in {0, store, req[h].gen}
  <2>1. CASE r = NoReq /\ step \in {"dir", "done"}
    BY <2>1, NoReqType DEF Fits, NoReq, Editing
  <2>2. CASE step = "open" /\ r = [req[h] EXCEPT !.site = SavedSite(h), !.gen = 0]
             /\ pc[h] = "save"
    <3> DEFINE site == SavedSite(h)
    <3>1. site \in Sites
      BY <1>1, <2>2, ToggledSite DEF SavedSite, Fits
    <3>2. site \in Contents \cup {NoSite}
      BY <3>1 DEF Contents
    <3> HIDE DEF site
    <3>3. r = [req[h] EXCEPT !.site = site, !.gen = 0]
      BY <2>2 DEF site
    <3>4. r \in Requests /\ r.op = req[h].op /\ r.file = req[h].file /\ r.site = site /\ r.gen = 0
      BY <1>1, <3>2, <3>3, NoReqType DEF Requests
    <3> QED BY <1>1, <2>2, <3>1, <3>4 DEF Fits, Editing
  <2>3. CASE step \in {"write", "rename"} /\ r = req[h] /\ pc[h] \in {"open", "write"}
    BY <1>1, <2>3 DEF Fits, Editing
  <2> QED BY <2>1, <2>2, <2>3
<1>5. step \in Editing \cup {"dir", "done"} /\ pc[h] \in Editing \cup {"idle"}
  BY <1>2 DEF Editing
<1> QED BY <1>2, <1>3, <1>4, <1>5, MovesType

LEMMA OutsideType ==
  ASSUME TypeInv, ExternalEdit \/ Crash
  PROVE  TypeInv'
<1>1. CASE ExternalEdit
  <2>1. disk' \in [Files -> Contents]
    BY <1>1, DiskAssumption DEF ExternalEdit, TypeInv, TypeOK
  <2>2. fd' \in [Handlers -> {"none", "tmp", "site", "lost"}]
    BY <1>1, Relinked DEF ExternalEdit, TypeInv, TypeOK
  <2>3. events' \in 0..MaxEvents /\ edits' \in 0..MaxEdits
    BY <1>1, Notified, BoundsAssumption DEF ExternalEdit, TypeInv, TypeOK
  <2>4. UNCHANGED <<tmp, timer, pc, loadVars, tableVars, req, faults, crashes>>
    BY <1>1 DEF ExternalEdit
  <2> USE DEF TypeInv, loadVars, tableVars, storeVars, routerVars
  <2>5. TypeOK'
    BY <2>1, <2>2, <2>3, <2>4 DEF TypeOK
  <2>6. RequestOK' /\ OwnLoads' /\ Private' /\ OwnFlags' /\ ValidSites'
    BY <2>4 DEF RequestOK, Fits, OwnLoads, Private, OwnFlags, Looping, ValidSites
  <2> QED BY <2>5, <2>6
<1>2. CASE Crash
  <2> USE DEF TypeInv
  <2>1. NoReq \in Requests /\ 0 \in Gens
    BY NoReqType
  <2>2. /\ pc' \in [Procs -> WatcherSteps \cup HandlerSteps \cup ReloadSteps]
        /\ todo' \in [Procs -> SUBSET Files] /\ mine' \in [Procs -> Gens]
        /\ heap' \in [Gens -> [Files -> Sites \cup {NoSite}]]
        /\ req' \in [Handlers -> Requests]
    BY <1>2, <2>1 DEF Crash, WatcherSteps, HandlerSteps, NoSites
  <2>3. /\ byDomain' \in [Names -> Files \cup {NoFile}]
        /\ runtimes' \in [Names -> Files \cup {NoFile}]
        /\ crashes' \in 0..MaxMishaps
    BY <1>2, BoundsAssumption DEF Crash, NoRoutes, TypeOK
  <2>4. /\ flags' \in [Procs -> [Files -> {"unread", "on", "off"}]]
        /\ fd' \in [Handlers -> {"none", "tmp", "site", "lost"}]
        /\ events' \in 0..MaxEvents
    BY <1>2, UnreadType, BoundsAssumption DEF Crash
  <2>5. TypeOK'
    BY <1>2, <2>1, <2>2, <2>3, <2>4 DEF TypeOK, Crash
  <2>6. RequestOK' /\ OwnLoads' /\ Private' /\ ValidSites'
    BY <1>2, ProcsAssumption
    DEF Crash, RequestOK, Fits, OwnLoads, Private, ValidSites, Procs, NoReq, NoSites,
        Loading, Editing, WatcherSteps, HandlerSteps
  <2>7. OwnFlags'
    BY <1>2 DEF Crash, OwnFlags, Unread
  <2> QED BY <2>5, <2>6, <2>7
<1> QED BY <1>1, <1>2

LEMMA TypeInvStep == TypeInv /\ [Next]_vars => TypeInv'
<1> SUFFICES ASSUME TypeInv, [Next]_vars PROVE TypeInv'
  OBVIOUS
<1>1. ASSUME NEW p \in Procs, Reload(p) PROVE TypeInv'
  BY <1>1, ReadDirType, ReadFileType, LookType, InstallType, PruneType DEF Reload
<1>2. ASSUME NEW h \in Handlers, HandlerStep(h) PROVE TypeInv'
  BY <1>1, <1>2, ReadFlagType, WriteFlagType, EditType, WatcherIsAProc DEF HandlerStep
<1>3. CASE UNCHANGED vars
  BY <1>3
  DEF vars, fileVars, loadVars, tableVars, storeVars, routerVars, boundVars,
      TypeInv, TypeOK, RequestOK, Fits, OwnLoads, Private, OwnFlags, Looping, ValidSites
<1> QED
  BY <1>1, <1>2, <1>3, WatcherIsAProc, WatcherType, BeginsType, OutsideType DEF Next

\* Every variable keeps its type, the tables name files only, and the objects
\* of a load stay well-formed sites however the toggles write into them.
THEOREM TypeCorrect == Spec => []TypeOK
<1>1. TypeInv => TypeOK
  BY DEF TypeInv
<1> QED BY <1>1, InitTypeInv, TypeInvStep, PTL DEF Spec

-----------------------------------------------------------------------------
(***************************************************************************)
(* The watcher has the last word, and certmagic is told of all names.      *)
(*                                                                         *)
(* Nothing here looks at the .tmp files: whatever becomes of a save, each  *)
(* of its file operations that succeeds queues an event, and a toggle has  *)
(* flipped its flag before the first of them.                              *)
(***************************************************************************)

\* The watcher will reload again.
Noticed == events > 0 \/ timer

\* A toggle is under way whose flip of f has yet to be followed by an event.
Pending(f) ==
  \E h \in Handlers :
    req[h].op = "toggle" /\ req[h].file = f /\ pc[h] \in {"read", "flip", "save", "open"}

\* Something will still change, or has just changed.
Stale(f) == Noticed \/ Pending(f)

\* The watcher has read the directory at least in part, or has been told all of it.
HasRead   == pc[Watcher] \notin {"start", "exited", "dir"}
HasSynced == pc[Watcher] \in {"prune", "select"}

FreshLoad ==
  HasRead => \A f \in Files \ todo[Watcher] :
    heap[mine[Watcher]][f] = LoadSiteFile(disk[f]) \/ Stale(f)

FreshFlags ==
  HasRead => \A f \in Files :
    flags[Watcher][f] # "unread" =>
      (flags[Watcher][f] = "on" <=> heap[mine[Watcher]][f].enabled) \/ Stale(f)

FreshStore ==
  HasRead /\ store = mine[Watcher] =>
    byDomain = ByDomain(heap[store]) \/ Noticed \/ \E f \in Files : Pending(f)

FreshRoutes ==
  HasRead /\ routes = mine[Watcher] =>
    runtimes = Runtimes(heap[routes]) \/ Noticed \/ \E f \in Files : Pending(f)

Wanted(f, d) ==
  LET s == LoadSiteFile(disk[f]) IN
  s # NoSite /\ s.enabled /\ s.auto /\ d \in AllDomains(s)

FreshCerts ==
  HasSynced => \A f \in Files, d \in Names : Wanted(f, d) => d \in managed \/ Stale(f)

Fresh == FreshLoad /\ FreshFlags /\ FreshStore /\ FreshRoutes /\ FreshCerts

IInv == TypeInv /\ (faults = 0 => Fresh)

\* A step that leaves the watcher's load, the tables and the directory alone keeps
\* what was fresh, or leaves it stale.
LEMMA FreshFrame ==
  ASSUME Fresh, UNCHANGED <<disk, store, byDomain, routes, runtimes>>,
         managed \subseteq managed',
         UNCHANGED <<mine[Watcher], todo[Watcher], flags[Watcher]>>,
         HasRead' => HasRead, HasSynced' => HasSynced,
         HasRead => heap'[mine[Watcher]] = heap[mine[Watcher]],
         HasRead' /\ Noticed => Noticed',
         HasRead' => \A f \in Files : Pending(f) => Pending(f)' \/ Noticed'
  PROVE  Fresh'
<1>1. HasSynced => HasRead
  BY DEF HasSynced, HasRead
<1>2. HasRead' => \A f \in Files : Stale(f) => Stale(f)'
  BY DEF Stale
<1>3. FreshLoad'
  BY <1>2 DEF Fresh, FreshLoad
<1>4. FreshFlags'
  BY <1>2 DEF Fresh, FreshFlags
<1>5. FreshStore'
  BY DEF Fresh, FreshStore
<1>6. FreshRoutes'
  BY DEF Fresh, FreshRoutes
<1>7. FreshCerts'
  <2>1. HasSynced' => HasRead'
    BY DEF HasSynced, HasRead
  <2> QED BY <1>2, <2>1 DEF Fresh, FreshCerts, Wanted
<1> QED BY <1>3, <1>4, <1>5, <1>6, <1>7 DEF Fresh

\* Once an event is queued, nothing needs to be fresh.
LEMMA StaleIsFresh ==
  ASSUME HasRead' => events' > 0
  PROVE  Fresh'
BY DEF Fresh, FreshLoad, FreshFlags, FreshStore, FreshRoutes, FreshCerts, Stale, Noticed,
       HasSynced, HasRead

LEMMA NoFault == faults = 0 /\ faults' = 0 => ~Fault
BY DEF Fault

LEMMA ReadDirFresh ==
  ASSUME TypeInv, Fresh, NEW p \in Procs, ReadDir(p), faults = 0, faults' = 0
  PROVE  Fresh'
<1> USE DEF fileVars, tableVars, storeVars, routerVars
<1> PICK g \in Gens \ Live :
      /\ mine' = [mine EXCEPT ![p] = g]
      /\ heap' = [k \in Gens |-> IF k \in Live THEN heap[k] ELSE NoSites]
      /\ todo' = [todo EXCEPT ![p] = {f \in Files : disk[f] # Absent}]
  BY NoFault DEF ReadDir
<1>1. /\ pc[p] = "dir" /\ pc' = [pc EXCEPT ![p] = "file"]
      /\ UNCHANGED <<disk, events, timer, flags, store, byDomain, routes, runtimes, managed, req>>
  BY DEF ReadDir, Goto
<1>2. g # store /\ g # routes
  BY DEF Live
<1>3. CASE p = Watcher
  <2>1. mine'[Watcher] = g /\ heap'[g] = NoSites /\ pc'[Watcher] = "file"
        /\ todo'[Watcher] = {f \in Files : disk[f] # Absent}
    BY <1>1, <1>3 DEF TypeInv, TypeOK
  <2>2. FreshLoad'
    BY <1>1, <2>1, DiskAssumption DEF FreshLoad, NoSites, LoadSiteFile
  <2>3. FreshFlags'
    <3>1. flags'[Watcher] = Unread
      BY <1>1, <1>3 DEF TypeInv, OwnFlags, Looping
    <3> QED BY <3>1 DEF FreshFlags, Unread
  <2>4. FreshStore' /\ FreshRoutes' /\ FreshCerts'
    BY <1>1, <1>2, <2>1 DEF FreshStore, FreshRoutes, FreshCerts, HasSynced
  <2> QED BY <2>2, <2>3, <2>4 DEF Fresh
<1>4. CASE p # Watcher
  <2>1. /\ mine'[Watcher] = mine[Watcher] /\ todo'[Watcher] = todo[Watcher]
        /\ pc'[Watcher] = pc[Watcher] /\ p \in Handlers
        /\ mine[Watcher] \in Live /\ mine[Watcher] \in Gens
    BY <1>1, <1>4, WatcherIsAProc DEF TypeInv, TypeOK, Live, Procs
  <2>2. heap'[mine[Watcher]] = heap[mine[Watcher]]
    BY <2>1
  <2>3. \A f : Pending(f) => Pending(f)'
    BY <1>1 DEF Pending, TypeInv, TypeOK
  <2> QED BY <1>1, <2>1, <2>2, <2>3, FreshFrame DEF HasRead, HasSynced, Noticed
<1> QED BY <1>3, <1>4

LEMMA ReadFileFresh ==
  ASSUME TypeInv, Fresh, NEW p \in Procs, ReadFile(p), faults = 0, faults' = 0
  PROVE  Fresh'
<1> USE DEF fileVars, tableVars, storeVars, routerVars
<1> PICK f \in todo[p] :
      /\ todo' = [todo EXCEPT ![p] = @ \ {f}]
      /\ heap' = [heap EXCEPT ![mine[p]][f] = LoadSiteFile(disk[f])]
  BY NoFault DEF ReadFile
<1>1. /\ pc[p] = "file" /\ mine[p] # 0
      /\ UNCHANGED <<disk, events, timer, pc, mine, flags, store, byDomain, routes, runtimes,
                     managed, req>>
  BY DEF ReadFile, TypeInv, OwnLoads, Loading
<1>2. /\ heap'[mine[p]] = [heap[mine[p]] EXCEPT ![f] = LoadSiteFile(disk[f])]
      /\ \A g \in Gens : g # mine[p] => heap'[g] = heap[g]
  BY DEF TypeInv, TypeOK
<1>3. /\ store \in Gens /\ routes \in Gens /\ mine[p] # store /\ mine[p] # routes
      /\ mine[Watcher] \in Gens
  BY <1>1, WatcherIsAProc DEF TypeInv, TypeOK, Private
<1>4. \A e : Stale(e)' = Stale(e)
  BY <1>1 DEF Stale, Pending, Noticed
<1>5. CASE p = Watcher
  <2>1. /\ todo'[Watcher] = todo[Watcher] \ {f} /\ f \in Files
        /\ \A e \in Files : heap'[mine[Watcher]][e] =
             IF e = f THEN LoadSiteFile(disk[f]) ELSE heap[mine[Watcher]][e]
    BY <1>2, <1>3, <1>5 DEF TypeInv, TypeOK
  <2>2. FreshLoad'
    BY <1>1, <1>4, <2>1 DEF Fresh, FreshLoad, HasRead
  <2>3. FreshFlags'
    <3>1. flags[Watcher] = Unread
      BY <1>1, <1>5 DEF TypeInv, OwnFlags, Looping
    <3> QED BY <1>1, <3>1 DEF FreshFlags, Unread
  <2>4. FreshStore' /\ FreshRoutes' /\ FreshCerts'
    BY <1>1, <1>3, <1>5 DEF FreshStore, FreshRoutes, FreshCerts, HasSynced
  <2> QED BY <2>2, <2>3, <2>4 DEF Fresh
<1>6. CASE p # Watcher
  <2>1. todo'[Watcher] = todo[Watcher]
    BY <1>6, WatcherIsAProc DEF TypeInv, TypeOK
  <2>2. heap'[mine[Watcher]] = heap[mine[Watcher]]
    BY <1>1, <1>2, <1>3, <1>6, WatcherIsAProc DEF TypeInv, OwnLoads
  <2>3. \A e : Pending(e) => Pending(e)'
    BY <1>1 DEF Pending
  <2> QED BY <1>1, <2>1, <2>2, <2>3, FreshFrame DEF HasRead, HasSynced, Noticed
<1> QED BY <1>5, <1>6

LEMMA LookFresh ==
  ASSUME TypeInv, Fresh, NEW p \in Procs, Look(p)
  PROVE  Fresh'
<1> USE DEF fileVars, tableVars, storeVars, routerVars
<1> PICK f \in Ahead(p) :
      flags' = [flags EXCEPT ![p][f] = IF heap[mine[p]][f].enabled THEN "on" ELSE "off"]
  BY DEF Look
<1>1. UNCHANGED <<disk, events, timer, pc, todo, mine, heap, store, byDomain, routes, runtimes,
                  managed, req>>
  BY DEF Look
<1>2. \A e : Pending(e)' = Pending(e) /\ Stale(e)' = Stale(e)
  BY <1>1 DEF Pending, Stale, Noticed
<1>3. CASE p # Watcher
  <2>1. flags'[Watcher] = flags[Watcher]
    BY <1>3, WatcherIsAProc DEF TypeInv, TypeOK
  <2> QED BY <1>1, <1>2, <2>1, FreshFrame DEF HasRead, HasSynced, Noticed
<1>4. CASE p = Watcher
  <2>1. f \in Files /\ flags[Watcher] \in [Files -> {"unread", "on", "off"}]
    BY WatcherIsAProc DEF Ahead, TypeInv, TypeOK
  <2>2. /\ \A e \in Files \ {f} : flags'[Watcher][e] = flags[Watcher][e]
        /\ flags'[Watcher][f] = "on" <=> heap[mine[Watcher]][f].enabled
    <3>1. flags' = [flags EXCEPT ![Watcher] = [flags[Watcher] EXCEPT ![f] =
             IF heap[mine[Watcher]][f].enabled THEN "on" ELSE "off"]]
      BY <1>4 DEF TypeInv, TypeOK
    <3>2. flags'[Watcher] = [flags[Watcher] EXCEPT ![f] =
             IF heap[mine[Watcher]][f].enabled THEN "on" ELSE "off"]
      BY <3>1, WatcherIsAProc DEF TypeInv, TypeOK
    <3> QED BY <2>1, <3>2
  <2>3. FreshFlags'
    BY <1>1, <1>2, <2>2 DEF Fresh, FreshFlags, HasRead
  <2>4. FreshLoad' /\ FreshStore' /\ FreshRoutes' /\ FreshCerts'
    BY <1>1, <1>2
    DEF Fresh, FreshLoad, FreshStore, FreshRoutes, FreshCerts, Wanted, HasRead, HasSynced, Noticed
  <2> QED BY <2>3, <2>4 DEF Fresh
<1> QED BY <1>3, <1>4

\* A loop finds of a site what its load holds, if the flag is what it read.
LEMMA LookedSame ==
  ASSUME TypeInv, NEW p \in Procs, Looping(p), Ahead(p) = {}, NEW f \in Files,
         flags[p][f] # "unread" => (flags[p][f] = "on" <=> heap[mine[p]][f].enabled)
  PROVE  Looked(p)[f] = heap[mine[p]][f]
<1>1. CASE heap[mine[p]][f] = NoSite
  BY <1>1 DEF Looked
<1>2. CASE heap[mine[p]][f] # NoSite
  <2>1. heap[mine[p]][f] \in Site
    BY <1>2, SitesAssumption DEF TypeInv, TypeOK
  <2>2. flags[p][f] # "unread"
    BY <1>2 DEF Ahead, Looping
  <2>3. heap[mine[p]][f].enabled \in BOOLEAN
    BY <2>1 DEF Site
  <2>4. (flags[p][f] = "on") = heap[mine[p]][f].enabled
    BY <2>2, <2>3
  <2>5. [heap[mine[p]][f] EXCEPT !.enabled = heap[mine[p]][f].enabled] = heap[mine[p]][f]
    BY <2>1 DEF Site
  <2>6. Looked(p)[f] = [heap[mine[p]][f] EXCEPT !.enabled = heap[mine[p]][f].enabled]
    BY <1>2, <2>4 DEF Looked
  <2> QED BY <2>5, <2>6
<1> QED BY <1>1, <1>2

\* What a loop of the watcher has found is what it read, and what the directory holds,
\* unless a site of the list is stale.
LEMMA LookedFresh ==
  ASSUME TypeInv, Fresh, Looping(Watcher), Ahead(Watcher) = {}
  PROVE  \A f \in Files : \/ /\ Looked(Watcher)[f] = heap[mine[Watcher]][f]
                             /\ Looked(Watcher)[f] = LoadSiteFile(disk[f])
                          \/ Stale(f)
<1> SUFFICES ASSUME NEW f \in Files, ~Stale(f)
             PROVE  /\ Looked(Watcher)[f] = heap[mine[Watcher]][f]
                    /\ heap[mine[Watcher]][f] = LoadSiteFile(disk[f])
  OBVIOUS
<1>1. HasRead /\ todo[Watcher] = {}
  BY WatcherIsAProc DEF HasRead, Looping, TypeInv, OwnLoads
<1>2. heap[mine[Watcher]][f] = LoadSiteFile(disk[f])
  BY <1>1 DEF Fresh, FreshLoad
<1>3. flags[Watcher][f] # "unread" =>
        (flags[Watcher][f] = "on" <=> heap[mine[Watcher]][f].enabled)
  BY <1>1 DEF Fresh, FreshFlags
<1> QED BY <1>2, <1>3, LookedSame, WatcherIsAProc

LEMMA InstallFresh ==
  ASSUME TypeInv, Fresh, NEW p \in Procs,
         Replace(p) \/ RouterReload(p) \/ SyncDomains(p)
  PROVE  Fresh'
<1> USE DEF fileVars, loadVars, tableVars, storeVars, routerVars
<1>1. PICK step \in {"router", "acme", "prune"} : EndLoop(p, step)
  BY DEF Replace, RouterReload, SyncDomains
<1>2. /\ flags' = [flags EXCEPT ![p] = Unread] /\ pc' = [pc EXCEPT ![p] = step]
      /\ UNCHANGED <<disk, events, timer, todo, mine, heap, req>>
      /\ Ahead(p) = {}
  BY <1>1 DEF EndLoop, Goto
<1>3. /\ pc[p] \in Loading /\ Looping(p) /\ managed \subseteq managed'
      /\ (store' = store /\ byDomain' = byDomain) \/ store' = mine[p]
      /\ (routes' = routes /\ runtimes' = runtimes) \/ routes' = mine[p]
  BY DEF Replace, RouterReload, SyncDomains, ManageAsync, Loading, Looping
<1>4. /\ \A q \in Procs \ {p} : pc'[q] = pc[q] /\ flags'[q] = flags[q]
      /\ pc'[p] = step /\ flags'[p] = Unread
  BY <1>2 DEF TypeInv, TypeOK
<1>5. /\ HasRead' = HasRead
      /\ \A f : Pending(f)' = Pending(f)
      /\ \A f : Stale(f)' = Stale(f)
      /\ Noticed' = Noticed
  <2>1. HasRead' = HasRead
    BY <1>3, <1>4, WatcherIsAProc DEF HasRead, Loading
  <2>2. \A f : Pending(f)' = Pending(f)
    BY <1>2, <1>3, <1>4, WatcherIsAProc DEF Pending, Loading
  <2> QED BY <1>2, <2>1, <2>2 DEF Stale, Noticed
<1>6. FreshLoad'
  BY <1>2, <1>5 DEF Fresh, FreshLoad
<1>7. FreshFlags'
  BY <1>2, <1>4, <1>5, WatcherIsAProc DEF Fresh, FreshFlags, Unread
<1>8. HasRead => mine[Watcher] # 0
  BY WatcherIsAProc DEF HasRead, TypeInv, OwnLoads, WatcherSteps, ReloadSteps, Loading
<1>9. p # Watcher /\ HasRead => mine[p] # mine[Watcher]
  BY <1>8, WatcherIsAProc DEF TypeInv, OwnLoads
<1>10. p = Watcher => Looked(Watcher) = heap[mine[Watcher]] \/ Noticed \/ \E f \in Files : Pending(f)
  <2> SUFFICES ASSUME p = Watcher, \A f \in Files : ~Stale(f), ~Noticed
               PROVE  Looked(Watcher) = heap[mine[Watcher]]
    BY DEF Stale
  <2>1. \A f \in Files : Looked(Watcher)[f] = heap[mine[Watcher]][f]
    BY <1>2, <1>3, LookedFresh
  <2>2. heap[mine[Watcher]] \in Loaded /\ Looked(Watcher) \in Loaded
    BY LookedType, WatcherIsAProc
  <2> QED BY <2>1, <2>2 DEF Loaded
<1>11. FreshStore'
  <2>1. CASE store' = store /\ byDomain' = byDomain
    BY <1>2, <1>5, <2>1 DEF Fresh, FreshStore
  <2>2. CASE ~(store' = store /\ byDomain' = byDomain)
    <3>1. store' = mine[p] /\ byDomain' = ByDomain(Looked(p))
      BY <2>2 DEF Replace, RouterReload, SyncDomains
    <3>2. CASE p = Watcher
      BY <1>2, <1>5, <1>10, <3>1, <3>2 DEF FreshStore
    <3>3. CASE p # Watcher
      BY <1>2, <1>5, <1>9, <3>1, <3>3 DEF FreshStore
    <3> QED BY <3>2, <3>3
  <2> QED BY <2>1, <2>2
<1>12. FreshRoutes'
  <2>1. CASE routes' = routes /\ runtimes' = runtimes
    BY <1>2, <1>5, <2>1 DEF Fresh, FreshRoutes
  <2>2. CASE ~(routes' = routes /\ runtimes' = runtimes)
    <3>1. routes' = mine[p] /\ runtimes' = Runtimes(Looked(p))
      BY <2>2 DEF Replace, RouterReload, SyncDomains
    <3>2. CASE p = Watcher
      BY <1>2, <1>5, <1>10, <3>1, <3>2 DEF FreshRoutes
    <3>3. CASE p # Watcher
      BY <1>2, <1>5, <1>9, <3>1, <3>3 DEF FreshRoutes
    <3> QED BY <3>2, <3>3
  <2> QED BY <2>1, <2>2
<1>13. FreshCerts'
  <2> SUFFICES ASSUME HasSynced', NEW f \in Files, NEW d \in Names, Wanted(f, d)', ~Stale(f)'
               PROVE  d \in managed'
    BY DEF FreshCerts
  <2>1. Wanted(f, d) /\ ~Stale(f)
    BY <1>2, <1>5 DEF Wanted
  <2>2. CASE HasSynced
    BY <1>3, <2>1, <2>2 DEF Fresh, FreshCerts
  <2>3. CASE ~HasSynced
    <3>1. p = Watcher /\ step = "prune"
      BY <1>4, <2>3, WatcherIsAProc DEF HasSynced
    <3>2. SyncDomains(p)
      BY <1>4, <3>1 DEF Replace, RouterReload, EndLoop, Goto, TypeInv, TypeOK
    <3>3. managed' = managed \cup CertDomains(Looked(p))
      BY <3>2 DEF SyncDomains, ManageAsync
    <3>4. Looked(p)[f] = LoadSiteFile(disk[f])
      BY <1>2, <1>3, <2>1, <3>1, LookedFresh
    <3>5. d \in CertDomains(Looked(p))
      BY <2>1, <3>4 DEF Wanted, CertDomains, Active
    <3> QED BY <3>3, <3>5
  <2> QED BY <2>2, <2>3
<1> QED BY <1>6, <1>7, <1>11, <1>12, <1>13 DEF Fresh

LEMMA PruneFresh ==
  ASSUME TypeInv, Fresh, NEW p \in Procs, Prune(p)
  PROVE  Fresh'
<1>1. /\ UNCHANGED <<disk, events, timer, todo, heap, flags, store, byDomain, routes, runtimes,
                     managed>>
      /\ pc[p] = "prune" /\ (p = Watcher => pc' = [pc EXCEPT ![p] = "select"])
      /\ (p # Watcher => p \in Handlers)
  BY DEF Prune, Goto, fileVars, tableVars, storeVars, routerVars, Procs
<1>2. /\ mine'[Watcher] = mine[Watcher]
      /\ HasRead' = HasRead /\ HasSynced' = HasSynced
  BY <1>1, WatcherIsAProc DEF Prune, Answer, Goto, HasRead, HasSynced, TypeInv, TypeOK
<1>3. \A f : Pending(f) => Pending(f)'
  <2>1. CASE p = Watcher
    BY <1>1, <2>1, ProcsAssumption DEF Prune, Pending, TypeInv, TypeOK, Procs
  <2>2. CASE p # Watcher
    <3>1. pc' = [pc EXCEPT ![p] = "done"] /\ req' = [req EXCEPT ![p] = NoReq]
      BY <2>2 DEF Prune, Answer, Goto
    <3>2. \A h \in Handlers \ {p} : pc'[h] = pc[h] /\ req'[h] = req[h]
      BY <3>1, WatcherIsAProc DEF TypeInv, TypeOK
    <3> QED BY <1>1, <3>2 DEF Pending
  <2> QED BY <2>1, <2>2
<1> QED BY <1>1, <1>2, <1>3, FreshFrame DEF Noticed

\* Requests start; a toggle reads its flag; a save takes what it will write.
LEMMA HandlerFresh ==
  ASSUME TypeInv, Fresh, NEW h \in Handlers,
         HandlerBegins(h) \/ ReadFlag(h) \/ Marshal(h)
  PROVE  Fresh'
<1>1. /\ UNCHANGED <<disk, events, timer, todo, mine, heap, flags, store, byDomain,
                     routes, runtimes, managed>>
      /\ pc'[Watcher] = pc[Watcher]
  BY WatcherIsAProc, ProcsAssumption, BeginAccepts
  DEF ReadFlag, Marshal, Accept, Goto, TypeInv, TypeOK, fileVars, loadVars, tableVars,
      storeVars, routerVars
<1>2. /\ \A k \in Handlers \ {h} : req'[k] = req[k] /\ pc'[k] = pc[k]
      /\ req[h].op = "toggle" /\ pc[h] \in {"read", "flip", "save", "open"} =>
           /\ req'[h].op = "toggle" /\ req'[h].file = req[h].file
           /\ pc'[h] \in {"read", "flip", "save", "open"}
  <2>1. CASE ReadFlag(h)
    BY <2>1, WatcherIsAProc DEF ReadFlag, Goto, TypeInv, TypeOK, Requests
  <2>2. CASE Marshal(h)
    <3>1. req[h] \in Requests
      BY DEF TypeInv, TypeOK
    <3>2. req' = [req EXCEPT ![h] = [req[h] EXCEPT !.site = SavedSite(h), !.gen = 0]]
          /\ pc' = [pc EXCEPT ![h] = "open"]
      BY <2>2 DEF Marshal, Goto
    <3>3. req'[h] = [req[h] EXCEPT !.site = SavedSite(h), !.gen = 0]
      BY <3>2 DEF TypeInv, TypeOK
    <3>4. req'[h].op = req[h].op /\ req'[h].file = req[h].file
      BY <3>1, <3>3 DEF Requests
    <3> QED BY <3>2, <3>4, WatcherIsAProc DEF TypeInv, TypeOK
  <2>3. CASE HandlerBegins(h)
    <3>1. pc[h] = "idle"
      BY <2>3, BeginAccepts DEF Accept
    <3> QED BY <2>3, <3>1, BeginAccepts, WatcherIsAProc DEF Accept, Goto, TypeInv, TypeOK
  <2> QED BY <2>1, <2>2, <2>3
<1>3. \A f : Pending(f) => Pending(f)'
  BY <1>2 DEF Pending
<1> QED BY <1>1, <1>3, FreshFrame DEF HasRead, HasSynced, Noticed

LEMMA WriteFlagFresh ==
  ASSUME TypeInv, Fresh, NEW h \in Handlers, WriteFlag(h)
  PROVE  Fresh'
<1> PICK g \in Gens, f \in Files : g = req[h].gen /\ f = req[h].file
  BY FlagWritten
<1>1. /\ UNCHANGED <<disk, events, timer, todo, mine, flags, store, byDomain, routes,
                     runtimes, managed, req>>
      /\ pc[h] = "flip" /\ pc' = [pc EXCEPT ![h] = "save"]
  BY DEF WriteFlag, Goto, fileVars, tableVars, storeVars, routerVars
<1>0. /\ req[h].op = "toggle"
      /\ \A k \in Gens, e \in Files :
           (k # req[h].gen \/ e # req[h].file) => heap'[k][e] = heap[k][e]
      /\ heap' \in [Gens -> [Files -> Sites \cup {NoSite}]]
  BY FlagWritten
<1>2. /\ req[h].op = "toggle"
      /\ \A k \in Gens, e \in Files : (k # g \/ e # f) => heap'[k][e] = heap[k][e]
      /\ heap' \in [Gens -> [Files -> Sites \cup {NoSite}]]
  BY <1>0
<1>3. /\ store \in Gens /\ routes \in Gens /\ mine[Watcher] \in Gens
      /\ heap \in [Gens -> [Files -> Sites \cup {NoSite}]]
      /\ pc'[Watcher] = pc[Watcher]
      /\ \A k \in Handlers \ {h} : pc'[k] = pc[k]
      /\ pc'[h] = "save"
  BY <1>1, WatcherIsAProc, ProcsAssumption DEF TypeInv, TypeOK
<1>4. Pending(f) /\ Pending(f)'
  BY <1>1, <1>2, <1>3 DEF Pending
<1>5. \A e : Pending(e)' = Pending(e)
  BY <1>1, <1>2, <1>3 DEF Pending
<1>6. \A k \in Gens : k # g => heap'[k] = heap[k]
  BY <1>2, <1>3
<1>7. HasRead' = HasRead /\ HasSynced' = HasSynced /\ Noticed' = Noticed
      /\ \A e : Stale(e)' = Stale(e)
  BY <1>1, <1>3, <1>5 DEF HasRead, HasSynced, Noticed, Stale
<1>8. FreshLoad' /\ FreshFlags'
  <2>1. ASSUME NEW e \in Files
        PROVE  heap'[mine[Watcher]][e] = heap[mine[Watcher]][e] \/ Stale(e)'
    <3>1. CASE e = f
      <4>1. Stale(f)'
        BY <1>4 DEF Stale
      <4> QED BY <3>1, <4>1, Zenon
    <3>2. CASE e # f
      BY <1>2, <1>3, <3>2
    <3> QED BY <3>1, <3>2
  <2> QED BY <1>1, <1>7, <2>1 DEF Fresh, FreshLoad, FreshFlags
<1>9. FreshStore' /\ FreshRoutes'
  <2>1. \E e \in Files : Pending(e)'
    BY <1>2, <1>4
  <2>2. CASE store = g
    <3>1. FreshStore'
      BY <2>1 DEF FreshStore
    <3>2. FreshRoutes'
      BY <2>1 DEF FreshRoutes
    <3> QED BY <3>1, <3>2
  <2>3. CASE store # g
    <3>1. FreshStore'
      BY <1>1, <1>3, <1>6, <1>7, <2>1, <2>3 DEF Fresh, FreshStore
    <3>2. FreshRoutes'
      BY <2>1 DEF FreshRoutes
    <3> QED BY <3>1, <3>2
  <2> QED BY <2>2, <2>3
<1>10. FreshCerts'
  BY <1>1, <1>7 DEF Fresh, FreshCerts, Wanted
<1> QED BY <1>8, <1>9, <1>10 DEF Fresh

\* A file operation queues an event while the watch is in place, and the watch is in
\* place before the watcher reads anything.
LEMMA NotifyFresh ==
  ASSUME TypeInv, Fresh, Notify, pc'[Watcher] = pc[Watcher]
  PROVE  Fresh'
<1>1. HasRead' => Watching
  BY DEF HasRead, Watching
<1> QED BY <1>1, Notified, StaleIsFresh

\* A request that ends without an operation on a file was no toggle, or the .tmp that
\* it had opened was renamed by another one.
LEMMA EndsFresh ==
  ASSUME TypeInv, Fresh, NEW h \in Handlers, Answer(h),
         req[h].op # "toggle" \/ pc[h] = "rename",
         UNCHANGED <<fileVars, timer, loadVars, tableVars>>
  PROVE  Fresh'
<1>1. pc' = [pc EXCEPT ![h] = "done"] /\ req' = [req EXCEPT ![h] = NoReq]
  BY DEF Answer, Goto
<1>2. pc'[Watcher] = pc[Watcher]
      /\ \A k \in Handlers \ {h} : req'[k] = req[k] /\ pc'[k] = pc[k]
  BY <1>1, WatcherIsAProc, ProcsAssumption DEF TypeInv, TypeOK
<1>3. \A f : Pending(f) => Pending(f)'
  BY <1>2 DEF Pending
<1> QED
  BY <1>2, <1>3, FreshFrame
  DEF HasRead, HasSynced, Noticed, fileVars, loadVars, tableVars, storeVars, routerVars

LEMMA EditFresh ==
  ASSUME TypeInv, Fresh, NEW h \in Handlers, faults = 0, faults' = 0,
         SaveRejected(h) \/ OpenTmp(h) \/ WriteTmp(h) \/ Rename(h)
           \/ SaveFails(h) \/ DeleteSite(h) \/ DeleteFails(h)
  PROVE  Fresh'
<1>1. pc'[Watcher] = pc[Watcher]
  <2>1. \E step : pc' = [pc EXCEPT ![h] = step]
    BY EditShape
  <2> QED BY <2>1, WatcherIsAProc, ProcsAssumption DEF TypeInv, TypeOK
<1>2. CASE OpenTmp(h) \/ WriteTmp(h) \/ Rename(h) \/ DeleteSite(h)
  BY <1>1, <1>2, NotifyFresh DEF OpenTmp, WriteTmp, Fill, Rename, DeleteSite
<1>3. CASE SaveRejected(h) \/ DeleteFails(h)
  <2>1. req[h].op # "toggle"
    BY <1>3, ToggledSite
    DEF SaveRejected, DeleteFails, SavedSite, TypeInv, RequestOK, Fits
  <2> QED BY <1>3, <2>1, EndsFresh DEF SaveRejected, DeleteFails
<1>4. CASE SaveFails(h)
  <2>1. pc[h] = "rename" /\ Answer(h) /\ UNCHANGED <<fileVars, timer, loadVars, tableVars>>
    BY <1>4, NoFault DEF SaveFails
  <2> QED BY <2>1, EndsFresh
<1> QED BY <1>2, <1>3, <1>4

LEMMA WatcherFresh ==
  ASSUME TypeInv, Fresh, WatcherLoop \/ WatcherStops
  PROVE  Fresh'
<1> USE DEF fileVars, loadVars, tableVars, storeVars, routerVars
<1>1. CASE ReceiveEvent
  BY <1>1, FreshFrame DEF ReceiveEvent, Noticed, HasRead, HasSynced, Pending
<1>2. CASE StartWatch \/ TimerFires \/ WatcherStops
  <2>1. ~HasRead' /\ ~HasSynced'
    BY <1>2, WatcherIsAProc
    DEF StartWatch, TimerFires, WatcherStops, Goto, HasRead, HasSynced, TypeInv, TypeOK
  <2> QED BY <2>1 DEF Fresh, FreshLoad, FreshFlags, FreshStore, FreshRoutes, FreshCerts
<1> QED BY <1>1, <1>2 DEF WatcherLoop

LEMMA OutsideFresh ==
  ASSUME TypeInv, Fresh, ExternalEdit \/ Crash
  PROVE  Fresh'
<1>1. CASE ExternalEdit
  BY <1>1, NotifyFresh DEF ExternalEdit
<1>2. CASE Crash
  <2>1. ~HasRead' /\ ~HasSynced'
    BY <1>2, WatcherIsAProc DEF Crash, HasRead, HasSynced
  <2> QED BY <2>1 DEF Fresh, FreshLoad, FreshFlags, FreshStore, FreshRoutes, FreshCerts
<1> QED BY <1>1, <1>2

\* What the steps do to the counters of mishaps.
LEMMA Mishaps ==
  ASSUME TypeInv, Next
  PROVE  /\ faults' \in {faults, faults + 1}
         /\ Crash => crashes' = crashes + 1
         /\ ~Crash => crashes' = crashes
<1> USE DEF boundVars, Fault
<1>1. ASSUME NEW p \in Procs, Reload(p) PROVE faults' \in {faults, faults + 1} /\ crashes' = crashes
  BY <1>1
  DEF Reload, ReadDir, ReadFile, Look, Replace, RouterReload, SyncDomains, EndLoop, Prune
<1>2. ASSUME NEW h \in Handlers, HandlerBegins(h) \/ HandlerStep(h)
      PROVE  faults' \in {faults, faults + 1} /\ crashes' = crashes
  <2>1. CASE HandlerBegins(h)
    BY <2>1, BeginAccepts DEF Accept
  <2>2. CASE ReadFlag(h) \/ WriteFlag(h)
    BY <2>2 DEF ReadFlag, WriteFlag
  <2> QED BY <1>1, <1>2, <2>1, <2>2, WatcherIsAProc, EditShape DEF HandlerStep
<1>3. ASSUME WatcherLoop \/ WatcherStops \/ ExternalEdit
      PROVE  faults' \in {faults, faults + 1} /\ crashes' = crashes
  BY <1>3
  DEF WatcherLoop, StartWatch, ReceiveEvent, TimerFires, WatcherStops, ExternalEdit
<1>5. CASE Crash
  BY <1>5 DEF Crash
<1>6. Crash => crashes' = crashes + 1 /\ crashes' # crashes
  BY DEF Crash, TypeInv, TypeOK
<1> QED BY <1>1, <1>2, <1>3, <1>5, <1>6, WatcherIsAProc DEF Next

LEMMA FaultsGrow == TypeInv /\ [Next]_vars /\ faults' = 0 => faults = 0
<1> SUFFICES ASSUME TypeInv, [Next]_vars PROVE faults' \in {faults, faults + 1}
  BY DEF TypeInv, TypeOK
<1>1. CASE Next
  BY <1>1, Mishaps
<1>2. CASE UNCHANGED vars
  BY <1>2 DEF vars, boundVars
<1> QED BY <1>1, <1>2

LEMMA IInvInit == Init => IInv
<1>1. Init => ~HasRead /\ ~HasSynced
  BY WatcherIsAProc DEF Init, HasRead, HasSynced
<1> QED
  BY <1>1, InitTypeInv
  DEF IInv, Fresh, FreshLoad, FreshFlags, FreshStore, FreshRoutes, FreshCerts

LEMMA IInvStep == IInv /\ [Next]_vars => IInv'
<1> SUFFICES ASSUME TypeInv, [Next]_vars, faults = 0, faults' = 0, Fresh
             PROVE  Fresh'
  BY TypeInvStep, FaultsGrow DEF IInv
<1>1. ASSUME NEW p \in Procs, Reload(p) PROVE Fresh'
  BY <1>1, ReadDirFresh, ReadFileFresh, LookFresh, InstallFresh, PruneFresh DEF Reload
<1>2. ASSUME NEW h \in Handlers, HandlerStep(h) PROVE Fresh'
  BY <1>1, <1>2, WatcherIsAProc, HandlerFresh, WriteFlagFresh, EditFresh DEF HandlerStep
<1>3. CASE UNCHANGED vars
  BY <1>3, FreshFrame
  DEF vars, fileVars, loadVars, tableVars, storeVars, routerVars,
      HasRead, HasSynced, Noticed, Pending
<1> QED
  BY <1>1, <1>2, <1>3, WatcherIsAProc, WatcherFresh, HandlerFresh, OutsideFresh DEF Next

\* Once the watcher has settled, nothing is stale.
LEMMA NothingStale ==
  ASSUME Settled
  PROVE  HasRead /\ HasSynced /\ ~Noticed /\ \A f : ~Pending(f) /\ ~Stale(f)
BY DEF Settled, HasRead, HasSynced, Noticed, Pending, Stale

LEMMA IInvImplies == IInv => WatcherHasLastWord
<1> SUFFICES ASSUME TypeInv, Fresh, Settled
             PROVE  /\ store = mine[Watcher] =>
                         heap[store] = FromDisk /\ byDomain = ByDomain(FromDisk)
                    /\ routes = mine[Watcher] => runtimes = Runtimes(FromDisk)
  BY DEF IInv, WatcherHasLastWord
<1>1. todo[Watcher] = {} /\ heap[mine[Watcher]] \in [Files -> Sites \cup {NoSite}]
  BY WatcherIsAProc DEF Settled, TypeInv, TypeOK, OwnLoads
<1>2. heap[mine[Watcher]] = FromDisk
  BY <1>1, NothingStale DEF Fresh, FreshLoad, FromDisk
<1> QED BY <1>2, NothingStale DEF Fresh, FreshStore, FreshRoutes

\* When the watcher has settled on its own load, that load is the directory,
\* whatever edits, toggles, saves and other reloads came in between.
THEOREM LastWord == Spec => []WatcherHasLastWord
BY IInvInit, IInvStep, IInvImplies, PTL DEF Spec

LEMMA IInvCovers == IInv => CertsCoverDirectory
<1> SUFFICES ASSUME Fresh, Settled, NEW f \in Files, NEW d, Wanted(f, d)
             PROVE  d \in managed
  BY DEF IInv, CertsCoverDirectory, Wanted
<1>1. d \in Names
  BY LoadSiteFileType, SitesAssumption DEF Wanted, AllDomains, Site
<1> QED BY <1>1, NothingStale DEF Fresh, FreshCerts

\* Once the watcher has settled, certmagic has been told of every name of the enabled
\* sites with tls.auto in the directory: the flags that the loop of DomainsFromSites
\* read are those of the files, or the watcher will reload again.
THEOREM CertsCovered == Spec => []CertsCoverDirectory
BY IInvInit, IInvStep, IInvCovers, PTL DEF Spec

\* What the watcher installed last is still installed.
Solo ==
  /\ pc[Watcher] \in {"router", "acme", "prune", "select"} => store = mine[Watcher]
  /\ pc[Watcher] \in {"acme", "prune", "select"} => routes = mine[Watcher]

\* Without admin requests nobody else installs anything.
LEMMA SoloStep ==
  ASSUME Handlers = {}, TypeOK, Solo, [Next]_vars
  PROVE  Solo'
<1>0. Watcher \in Procs
  BY WatcherIsAProc
<1>1. CASE WatcherLoop \/ WatcherStops
  BY <1>0, <1>1
  DEF WatcherLoop, StartWatch, ReceiveEvent, TimerFires, WatcherStops, Goto, Solo, TypeOK,
      loadVars, tableVars, storeVars, routerVars
<1>2. CASE ReadDir(Watcher) \/ ReadFile(Watcher) \/ Look(Watcher)
  BY <1>0, <1>2
  DEF ReadDir, ReadFile, Look, Goto, Solo, TypeOK, tableVars, storeVars, routerVars
<1>3. CASE Replace(Watcher) \/ RouterReload(Watcher) \/ SyncDomains(Watcher)
  BY <1>0, <1>3
  DEF Replace, RouterReload, SyncDomains, EndLoop, Goto, Solo, TypeOK, loadVars, storeVars,
      routerVars
<1>4. CASE Prune(Watcher)
  BY <1>0, <1>4
  DEF Prune, Goto, Solo, TypeOK, tableVars, storeVars, routerVars
<1>5. CASE ExternalEdit \/ UNCHANGED vars
  BY <1>5 DEF ExternalEdit, vars, Solo, loadVars, tableVars, storeVars, routerVars
<1>6. CASE Crash
  BY <1>0, <1>6 DEF Crash, Solo
<1> QED  BY <1>1, <1>2, <1>3, <1>4, <1>5, <1>6 DEF Next, Reload

\* README.md on hot reload, where it holds: when sites are only edited by hand and no
\* file operation fails, nothing pending means that the tables are the directory.
THEOREM HandEditsArrive ==
  Handlers = {} => (Spec => [](faults = 0 => SettledTablesMatchDisk))
<1> SUFFICES ASSUME Handlers = {} PROVE Spec => [](faults = 0 => SettledTablesMatchDisk)
  OBVIOUS
<1>1. Init => Solo
  BY WatcherIsAProc DEF Init, Solo
<1>2. IInv /\ Solo /\ [Next]_vars => Solo'
  BY SoloStep DEF IInv, TypeInv
<1>3. Solo /\ WatcherHasLastWord => (faults = 0 => SettledTablesMatchDisk)
  BY DEF Solo, WatcherHasLastWord, SettledTablesMatchDisk, TablesMatchDisk, Settled
<1> QED  BY <1>1, <1>2, <1>3, IInvInit, IInvStep, IInvImplies, PTL DEF Spec

-----------------------------------------------------------------------------
(***************************************************************************)
(* UntouchedStaysRouted for every set of files, names, sites and requests: *)
(* while no file operation fails, a site that nobody edits keeps its hosts *)
(* in the store's index and in the router's runtimes.                      *)
(*                                                                         *)
(* The step that matters is Replace and RouterReload, where a table is     *)
(* put in place that was computed from a load: the load must hold the      *)
(* untouched file, and the loop must have found it enabled.  Both are so   *)
(* because every load that has passed the file read it from a directory    *)
(* that still has it, and no toggle, whose pointers reach only the files   *)
(* that requests name, has written into that object.                       *)
(***************************************************************************)

\* No request is about a pinned file.
RequestsElsewhere ==
  \A h \in Handlers : req[h].op # "none" => req[h].file \notin Pinned

\* Each loop that has read the flag of a file found what the object still holds.
FlagTrue(f) ==
  \A p \in Procs :
    flags[p][f] # "unread" => (flags[p][f] = "on" <=> heap[mine[p]][f].enabled)

\* Every load holds the pinned files it has read, and every loop finds their flags.
PinnedLoaded ==
  \A p \in Procs : pc[p] \in Loading =>
    \A f \in Pinned \ todo[p] : heap[mine[p]][f] = LoadSiteFile(disk[f])

PinnedLooked == \A f \in Pinned : FlagTrue(f)

\* The hosts of a valid and enabled pinned file.
PinnedHost(f, d) ==
  LET s == LoadSiteFile(disk[f]) IN
  s # NoSite /\ s.enabled /\ d \in AllDomains(s)

StoreRouted ==
  \A f \in Pinned, d \in Names :
    PinnedHost(f, d) /\ store # 0 => byDomain[Lower[d]] # NoFile

RouterRouted ==
  \A f \in Pinned, d \in Names :
    PinnedHost(f, d) /\ routes # 0
      /\ (\A u \in LoadSiteFile(disk[f]).ups : ParsesUpstream(u))
    => runtimes[d] # NoFile

Routed == PinnedLoaded /\ PinnedLooked /\ StoreRouted /\ RouterRouted

UInv == TypeInv /\ RequestsElsewhere /\ (faults = 0 => Routed)

-----------------------------------------------------------------------------
(* Nobody writes a pinned file, on disk or in memory. *)

\* A request that edits names a file that is not pinned.
LEMMA EditsElsewhere ==
  ASSUME TypeInv, RequestsElsewhere, NEW h \in Handlers, pc[h] \in Editing
  PROVE  req[h].file \in Files \ Pinned
BY DEF TypeInv, RequestOK, Fits, RequestsElsewhere, Editing

LEMMA RequestsElsewhereStep ==
  TypeInv /\ RequestsElsewhere /\ [Next]_vars => RequestsElsewhere'
<1> SUFFICES ASSUME TypeInv, RequestsElsewhere, [Next]_vars PROVE RequestsElsewhere'
  OBVIOUS
<1>1. ASSUME NEW h \in Handlers, NEW r, req' = [req EXCEPT ![h] = r],
             r.op # "none" => r.file \notin Pinned
      PROVE  RequestsElsewhere'
  BY <1>1 DEF RequestsElsewhere, TypeInv, TypeOK
<1>2. NoReq.op = "none"
  BY DEF NoReq
<1>3. ASSUME NEW p \in Procs, Reload(p) PROVE RequestsElsewhere'
  <2>1. CASE Prune(p)
    BY <1>1, <1>2, <2>1 DEF Prune, Answer, Procs, RequestsElsewhere
  <2>2. CASE ~Prune(p)
    BY <1>3, <2>2
    DEF Reload, ReadDir, ReadFile, Look, Replace, RouterReload, SyncDomains, EndLoop,
        RequestsElsewhere
  <2> QED BY <2>1, <2>2
<1>4. ASSUME NEW h \in Handlers, HandlerStep(h) PROVE RequestsElsewhere'
  <2>1. CASE ReadFlag(h)
    BY <2>1 DEF ReadFlag, RequestsElsewhere, TypeInv, TypeOK, Requests
  <2>2. CASE WriteFlag(h)
    BY <2>2, SMTT(30) DEF WriteFlag, RequestsElsewhere
  <2>3. CASE Reload(h)
    BY <1>3, <2>3, WatcherIsAProc
  <2>4. CASE ~ReadFlag(h) /\ ~WriteFlag(h) /\ ~Reload(h)
    <3>1. PICK step, r :
            /\ req' = [req EXCEPT ![h] = r]
            /\ r \in {NoReq, req[h]} \/ (step = "open" /\ pc[h] = "save"
                                         /\ r = [req[h] EXCEPT !.site = SavedSite(h), !.gen = 0])
      <4>1. Marshal(h) \/ SaveRejected(h) \/ OpenTmp(h) \/ WriteTmp(h) \/ Rename(h)
              \/ SaveFails(h) \/ DeleteSite(h) \/ DeleteFails(h)
        BY <1>4, <2>4 DEF HandlerStep
      <4> QED BY <4>1, EditShape
    <3>2. r.op # "none" => r.file \notin Pinned
      <4>1. CASE r \in {NoReq, req[h]}
        BY <1>2, <4>1 DEF RequestsElsewhere
      <4>2. CASE pc[h] = "save" /\ r = [req[h] EXCEPT !.site = SavedSite(h), !.gen = 0]
        <5>1. r.file = req[h].file
          BY <4>2 DEF TypeInv, TypeOK, Requests
        <5> QED BY <4>2, <5>1, EditsElsewhere DEF Editing
      <4> QED BY <3>1, <4>1, <4>2
    <3> QED BY <1>1, <3>1, <3>2
  <2> QED BY <2>1, <2>2, <2>3, <2>4
<1>5. ASSUME NEW h \in Handlers, HandlerBegins(h) PROVE RequestsElsewhere'
  BY <1>1, <1>5
  DEF HandlerBegins, NotFound, BeginToggle, BeginUpdate, BeginCreate, BeginDelete, Accept,
      NoReq
<1>6. CASE WatcherLoop \/ WatcherStops \/ ExternalEdit \/ UNCHANGED vars
  BY <1>6
  DEF WatcherLoop, StartWatch, ReceiveEvent, TimerFires, WatcherStops, ExternalEdit, vars,
      RequestsElsewhere
<1>7. CASE Crash
  BY <1>2, <1>7 DEF Crash, RequestsElsewhere
<1> QED BY <1>3, <1>4, <1>5, <1>6, <1>7, WatcherIsAProc DEF Next

\* What a request's steps leave of a file that is not its own.
LEMMA EditTouches ==
  ASSUME TypeInv, NEW h \in Handlers, HandlerStep(h), ~Reload(h), NEW f \in Files,
         disk'[f] # disk[f]
  PROVE  pc[h] \in Editing /\ req[h].file = f
<1>1. CASE ReadFlag(h) \/ WriteFlag(h)
  BY <1>1 DEF ReadFlag, WriteFlag, fileVars
<1>2. CASE Marshal(h) \/ SaveRejected(h) \/ OpenTmp(h) \/ DeleteFails(h)
  BY <1>2 DEF Marshal, SaveRejected, OpenTmp, DeleteFails, fileVars
<1>3. CASE WriteTmp(h) \/ Rename(h) \/ SaveFails(h) \/ DeleteSite(h)
  <2>1. pc[h] \in Editing
    BY <1>3 DEF WriteTmp, Rename, SaveFails, DeleteSite, Editing
  <2>2. \E c : disk' \in {disk, [disk EXCEPT ![req[h].file] = c]}
    BY <1>3 DEF WriteTmp, Rename, SaveFails, DeleteSite, Fill, fileVars
  <2> QED BY <2>1, <2>2 DEF TypeInv, TypeOK
<1> QED BY <1>1, <1>2, <1>3 DEF HandlerStep

LEMMA PinnedUnwritten ==
  ASSUME TypeInv, RequestsElsewhere, [Next]_vars, NEW f \in Pinned
  PROVE  disk'[f] = disk[f]
<1> USE DEF fileVars
<1>0. f \in Files
  BY DiskAssumption
<1>1. ASSUME NEW p \in Procs, Reload(p) PROVE disk' = disk
  BY <1>1
  DEF Reload, ReadDir, ReadFile, Look, Replace, RouterReload, SyncDomains, EndLoop, Prune
<1>2. ASSUME NEW h \in Handlers, HandlerBegins(h) PROVE disk' = disk
  BY <1>2, BeginAccepts DEF Accept
<1>3. ASSUME NEW h \in Handlers, HandlerStep(h) PROVE disk'[f] = disk[f]
  BY <1>0, <1>1, <1>3, EditTouches, EditsElsewhere, WatcherIsAProc
<1>4. CASE ExternalEdit
  BY <1>0, <1>4 DEF ExternalEdit, TypeInv, TypeOK
<1>5. CASE WatcherLoop \/ WatcherStops \/ Crash \/ UNCHANGED vars
  BY <1>5 DEF WatcherLoop, StartWatch, ReceiveEvent, TimerFires, WatcherStops, Crash, vars
<1> QED BY <1>1, <1>2, <1>3, <1>4, <1>5, WatcherIsAProc DEF Next

-----------------------------------------------------------------------------
(* The loads, and what the loops find in them. *)

LEMMA ReloadLoaded ==
  ASSUME TypeInv, PinnedLoaded, NEW p \in Procs, Reload(p), faults = 0, faults' = 0
  PROVE  PinnedLoaded'
<1> USE DEF fileVars, tableVars, storeVars, routerVars, loadVars
<1>1. CASE ReadDir(p)
  <2> PICK g \in Gens \ Live :
        /\ mine' = [mine EXCEPT ![p] = g]
        /\ heap' = [k \in Gens |-> IF k \in Live THEN heap[k] ELSE NoSites]
        /\ todo' = [todo EXCEPT ![p] = {f \in Files : disk[f] # Absent}]
    BY <1>1, NoFault DEF ReadDir
  <2>1. disk' = disk /\ pc' = [pc EXCEPT ![p] = "file"]
    BY <1>1 DEF ReadDir, Goto
  <2>2. \A f \in Pinned \ todo'[p] : heap'[mine'[p]][f] = LoadSiteFile(disk[f])
    BY DiskAssumption DEF NoSites, LoadSiteFile, TypeInv, TypeOK
  <2>3. \A q \in Procs \ {p} :
          /\ mine'[q] = mine[q] /\ todo'[q] = todo[q] /\ pc'[q] = pc[q]
          /\ heap'[mine[q]] = heap[mine[q]]
    BY <2>1 DEF TypeInv, TypeOK, Live
  <2> QED BY <2>1, <2>2, <2>3 DEF PinnedLoaded
<1>2. CASE ReadFile(p)
  <2> PICK f \in todo[p] :
        /\ todo' = [todo EXCEPT ![p] = @ \ {f}]
        /\ heap' = [heap EXCEPT ![mine[p]][f] = LoadSiteFile(disk[f])]
    BY <1>2, NoFault DEF ReadFile
  <2>1. UNCHANGED <<disk, pc, mine>> /\ pc[p] = "file"
    BY <1>2 DEF ReadFile
  <2>2. /\ todo'[p] = todo[p] \ {f} /\ f \in Files
        /\ \A e \in Files : heap'[mine[p]][e] =
             IF e = f THEN LoadSiteFile(disk[f]) ELSE heap[mine[p]][e]
    BY DEF TypeInv, TypeOK
  <2>3. \A q \in Procs \ {p} : pc[q] \in Loading =>
          todo'[q] = todo[q] /\ heap'[mine[q]] = heap[mine[q]]
    BY <2>1 DEF TypeInv, TypeOK, OwnLoads
  <2> QED BY <2>1, <2>2, <2>3, DiskAssumption DEF PinnedLoaded, Loading
<1>3. CASE Look(p)
  BY <1>3 DEF Look, PinnedLoaded
<1>4. CASE Replace(p) \/ RouterReload(p) \/ SyncDomains(p)
  <2>1. pc[p] \in Loading
    BY <1>4 DEF Replace, RouterReload, SyncDomains, Loading
  <2>2. PICK step \in {"router", "acme", "prune"} : EndLoop(p, step)
    BY <1>4 DEF Replace, RouterReload, SyncDomains
  <2>3. UNCHANGED <<disk, todo, mine, heap>> /\ \A q \in Procs \ {p} : pc'[q] = pc[q]
    BY <2>2 DEF EndLoop, Goto, TypeInv, TypeOK
  <2> QED BY <2>1, <2>3 DEF PinnedLoaded
<1>5. CASE Prune(p)
  <2>1. /\ UNCHANGED <<disk, todo, heap>>
        /\ pc'[p] \notin Loading
        /\ \A q \in Procs \ {p} : pc'[q] = pc[q] /\ mine'[q] = mine[q]
    BY <1>5 DEF Prune, Answer, Goto, Loading, TypeInv, TypeOK
  <2> QED BY <2>1 DEF PinnedLoaded
<1> QED BY <1>1, <1>2, <1>3, <1>4, <1>5 DEF Reload

\* A step that changes the flags or the load of one goroutine leaves it without flags.
LEMMA UnreadLooked ==
  ASSUME NEW f \in Files, FlagTrue(f), NEW p \in Procs, flags'[p] = Unread,
         \A q \in Procs \ {p} :
           /\ flags'[q] = flags[q]
           /\ flags[q] # Unread => mine'[q] = mine[q] /\ heap'[mine[q]] = heap[mine[q]]
  PROVE  FlagTrue(f)'
BY DEF FlagTrue, Unread

LEMMA ReloadLooked ==
  ASSUME TypeInv, NEW f \in Files, FlagTrue(f), NEW p \in Procs, Reload(p)
  PROVE  FlagTrue(f)'
<1>1. CASE ReadDir(p)
  <2> PICK g \in Gens \ Live :
        /\ mine' = [mine EXCEPT ![p] = g]
        /\ heap' = [k \in Gens |-> IF k \in Live THEN heap[k] ELSE NoSites]
    BY <1>1 DEF ReadDir
  <2>1. flags' = flags /\ flags[p] = Unread
    BY <1>1 DEF ReadDir, TypeInv, OwnFlags, Looping
  <2>2. \A q \in Procs \ {p} : mine'[q] = mine[q] /\ heap'[mine[q]] = heap[mine[q]]
    BY DEF TypeInv, TypeOK, Live
  <2> QED BY <2>1, <2>2, UnreadLooked
<1>2. CASE ReadFile(p)
  <2> PICK e \in todo[p] :
        heap' = [heap EXCEPT ![mine[p]][e] = LoadSiteFile(disk[e])] \/ UNCHANGED heap
    BY <1>2 DEF ReadFile
  <2>1. /\ flags' = flags /\ mine' = mine /\ flags[p] = Unread
        /\ mine[p] # 0
    BY <1>2 DEF ReadFile, TypeInv, OwnFlags, Looping, OwnLoads, Loading
  <2>2. \A q \in Procs \ {p} : heap'[mine[q]] = heap[mine[q]]
    BY <2>1 DEF TypeInv, TypeOK, OwnLoads
  <2> QED BY <2>1, <2>2, UnreadLooked
<1>3. CASE Look(p)
  <2> PICK e \in Ahead(p) :
        flags' = [flags EXCEPT ![p][e] = IF heap[mine[p]][e].enabled THEN "on" ELSE "off"]
    BY <1>3 DEF Look
  <2>1. e \in Files /\ flags[p] \in [Files -> {"unread", "on", "off"}]
    BY DEF Ahead, TypeInv, TypeOK
  <2>2. flags'[p] = [flags[p] EXCEPT ![e] = IF heap[mine[p]][e].enabled THEN "on" ELSE "off"]
        /\ \A q \in Procs \ {p} : flags'[q] = flags[q]
    BY DEF TypeInv, TypeOK
  <2>3. UNCHANGED <<mine, heap>>
    BY <1>3 DEF Look
  <2>4. /\ f # e => flags'[p][f] = flags[p][f]
        /\ flags'[p][e] = "on" <=> heap[mine[p]][e].enabled
    BY <2>1, <2>2
  <2> QED BY <2>2, <2>3, <2>4 DEF FlagTrue
<1>4. CASE Replace(p) \/ RouterReload(p) \/ SyncDomains(p)
  <2>1. PICK step \in {"router", "acme", "prune"} : EndLoop(p, step)
    BY <1>4 DEF Replace, RouterReload, SyncDomains
  <2>2. /\ UNCHANGED <<mine, heap>> /\ flags'[p] = Unread
        /\ \A q \in Procs \ {p} : flags'[q] = flags[q]
    BY <2>1 DEF EndLoop, TypeInv, TypeOK
  <2> QED BY <2>2, UnreadLooked
<1>5. CASE Prune(p)
  <2>1. /\ flags' = flags /\ heap' = heap /\ flags[p] = Unread
        /\ \A q \in Procs \ {p} : mine'[q] = mine[q]
    BY <1>5 DEF Prune, TypeInv, TypeOK, OwnFlags, Looping
  <2> QED BY <2>1, UnreadLooked
<1> QED BY <1>1, <1>2, <1>3, <1>4, <1>5 DEF Reload

\* A request's own steps, up to its reload, leave the loads and the loops alone, but
\* for the flag of a toggle.
LEMMA HandlerMoves ==
  ASSUME TypeInv, NEW h \in Handlers, HandlerBegins(h) \/ (HandlerStep(h) /\ ~Reload(h))
  PROVE  /\ UNCHANGED <<todo, mine, flags>>
         /\ pc'[h] \notin Loading /\ \A q \in Procs \ {h} : pc'[q] = pc[q]
         /\ ~WriteFlag(h) => UNCHANGED heap
         /\ UNCHANGED <<tableVars>>
<1> USE DEF loadVars
<1>1. CASE HandlerBegins(h)
  <2>1. PICK r, step : Acceptable(r, step) /\ Accept(h, r, step)
    BY <1>1, BeginAccepts
  <2>2. step \notin Loading
    BY <2>1 DEF Acceptable, Editing, Loading
  <2> QED BY <2>1, <2>2, WatcherIsAProc DEF Accept, Goto, TypeInv, TypeOK
<1>2. CASE ReadFlag(h) \/ WriteFlag(h)
  BY <1>2, WatcherIsAProc DEF ReadFlag, WriteFlag, Goto, Loading, TypeInv, TypeOK
<1>3. CASE HandlerStep(h) /\ ~Reload(h) /\ ~ReadFlag(h) /\ ~WriteFlag(h)
  <2>1. /\ UNCHANGED <<loadVars, tableVars>>
        /\ \E step \in {"open", "write", "rename", "dir", "done"} : pc' = [pc EXCEPT ![h] = step]
    BY <1>3, EditShape DEF HandlerStep
  <2> QED BY <2>1, WatcherIsAProc DEF Loading, TypeInv, TypeOK
<1> QED BY <1>1, <1>2, <1>3

LEMMA HandlerLoaded ==
  ASSUME TypeInv, RequestsElsewhere, PinnedLoaded, PinnedLooked, NEW h \in Handlers,
         [Next]_vars, HandlerBegins(h) \/ (HandlerStep(h) /\ ~Reload(h))
  PROVE  PinnedLoaded' /\ PinnedLooked'
<1>1. /\ UNCHANGED <<todo, mine, flags>>
      /\ pc'[h] \notin Loading /\ \A q \in Procs \ {h} : pc'[q] = pc[q]
  BY HandlerMoves
<1>2. \A f \in Pinned, q \in Procs : heap'[mine[q]][f] = heap[mine[q]][f]
  <2>1. CASE WriteFlag(h)
    <3>1. req[h].file \notin Pinned
      BY <2>1, EditsElsewhere DEF WriteFlag, Editing
    <3>2. \A g \in Gens, f \in Files :
            (g # req[h].gen \/ f # req[h].file) => heap'[g][f] = heap[g][f]
      BY <2>1, FlagWritten
    <3>3. \A q \in Procs : mine[q] \in Gens
      BY DEF TypeInv, TypeOK
    <3> QED BY <3>1, <3>2, <3>3, DiskAssumption
  <2> QED BY <2>1, HandlerMoves
<1>3. PinnedLoaded'
  BY <1>1, <1>2, PinnedUnwritten DEF PinnedLoaded
<1>4. PinnedLooked'
  BY <1>1, <1>2 DEF PinnedLooked, FlagTrue
<1> QED BY <1>3, <1>4

LEMMA OtherLoaded ==
  ASSUME TypeInv, RequestsElsewhere, PinnedLoaded, PinnedLooked, [Next]_vars,
         WatcherLoop \/ WatcherStops \/ ExternalEdit \/ Crash \/ UNCHANGED vars
  PROVE  PinnedLoaded' /\ PinnedLooked'
<1> USE DEF vars, loadVars
<1>1. CASE Crash
  <2>1. \A p \in Procs : pc'[p] \notin Loading /\ flags'[p] = Unread
    BY <1>1 DEF Crash, Loading
  <2> QED BY <2>1, DiskAssumption DEF PinnedLoaded, PinnedLooked, FlagTrue, Unread
<1>2. CASE ~Crash
  <2>1. /\ UNCHANGED <<todo, mine, heap, flags>>
        /\ \A p \in Procs : pc'[p] \in Loading => pc[p] = pc'[p]
    BY <1>2
    DEF WatcherLoop, StartWatch, ReceiveEvent, TimerFires, WatcherStops, ExternalEdit, Goto,
        Loading, TypeInv, TypeOK
  <2> QED BY <2>1, PinnedUnwritten DEF PinnedLoaded, PinnedLooked, FlagTrue
<1> QED BY <1>1, <1>2

-----------------------------------------------------------------------------
(* The tables. *)

\* A loop over a complete load finds every pinned file as it is, so the table that it
\* makes routes them.
LEMMA CompleteLoadRoutes ==
  ASSUME TypeInv, PinnedLoaded, PinnedLooked, NEW p \in Procs,
         pc[p] \in Loading, Looping(p), Ahead(p) = {},
         NEW f \in Pinned, NEW d \in Names, PinnedHost(f, d)
  PROVE  /\ ByDomain(Looked(p))[Lower[d]] # NoFile
         /\ (\A u \in LoadSiteFile(disk[f]).ups : ParsesUpstream(u))
              => Runtimes(Looked(p))[d] # NoFile
<1>1. f \in Files /\ todo[p] = {}
  BY DiskAssumption DEF Looping, TypeInv, OwnLoads
<1>2. Looked(p)[f] = heap[mine[p]][f]
  BY <1>1, LookedSame DEF PinnedLooked, FlagTrue
<1>3. heap[mine[p]][f] = LoadSiteFile(disk[f])
  BY <1>1 DEF PinnedLoaded
<1> DEFINE sites == Looked(p)
<1>4. sites \in Loaded /\ sites[f] = LoadSiteFile(disk[f])
  BY <1>2, <1>3, LookedType
<1> HIDE DEF sites
<1>5. f \in Active(sites) /\ d \in AllDomains(sites[f])
  BY <1>1, <1>4 DEF PinnedHost, Active
<1>6. (\A u \in LoadSiteFile(disk[f]).ups : ParsesUpstream(u)) => f \in Pooled(sites)
  BY <1>4, <1>5 DEF Pooled
<1> QED BY <1>4, <1>5, <1>6, ClaimedIsRouted DEF sites

LEMMA TablesStep ==
  ASSUME TypeInv, RequestsElsewhere, Routed, [Next]_vars
  PROVE  StoreRouted' /\ RouterRouted'
<1> USE DEF tableVars, storeVars, routerVars
<1>1. \A f \in Pinned : disk'[f] = disk[f]
  BY PinnedUnwritten
<1>2. CASE UNCHANGED <<store, byDomain, routes, runtimes>>
  BY <1>1, <1>2 DEF Routed, StoreRouted, RouterRouted, PinnedHost
<1>3. ASSUME NEW p \in Procs, Replace(p) PROVE StoreRouted' /\ RouterRouted'
  <2>1. /\ pc[p] \in Loading /\ Looping(p) /\ Ahead(p) = {} /\ byDomain' = ByDomain(Looked(p))
        /\ UNCHANGED <<routes, runtimes>>
    BY <1>3 DEF Replace, EndLoop, Loading, Looping
  <2>2. \A f \in Pinned, d \in Names : PinnedHost(f, d) => byDomain'[Lower[d]] # NoFile
    BY <2>1, CompleteLoadRoutes DEF Routed
  <2> QED BY <1>1, <2>1, <2>2 DEF Routed, StoreRouted, RouterRouted, PinnedHost
<1>4. ASSUME NEW p \in Procs, RouterReload(p) PROVE StoreRouted' /\ RouterRouted'
  <2>1. /\ pc[p] \in Loading /\ Looping(p) /\ Ahead(p) = {} /\ runtimes' = Runtimes(Looked(p))
        /\ UNCHANGED <<store, byDomain>>
    BY <1>4 DEF RouterReload, EndLoop, Loading, Looping
  <2>2. \A f \in Pinned, d \in Names :
          PinnedHost(f, d) /\ (\A u \in LoadSiteFile(disk[f]).ups : ParsesUpstream(u))
          => runtimes'[d] # NoFile
    BY <2>1, CompleteLoadRoutes DEF Routed
  <2> QED BY <1>1, <2>1, <2>2 DEF Routed, StoreRouted, RouterRouted, PinnedHost
<1>5. CASE Crash
  BY <1>5 DEF Crash, StoreRouted, RouterRouted
<1>6. ASSUME NEW p \in Procs, Reload(p) PROVE StoreRouted' /\ RouterRouted'
  <2>1. CASE ReadDir(p) \/ ReadFile(p) \/ Look(p) \/ SyncDomains(p) \/ Prune(p)
    BY <1>2, <2>1 DEF ReadDir, ReadFile, Look, SyncDomains, Prune
  <2> QED BY <1>3, <1>4, <1>6, <2>1 DEF Reload
<1>7. ASSUME NEW h \in Handlers, HandlerBegins(h) \/ HandlerStep(h)
      PROVE  StoreRouted' /\ RouterRouted'
  BY <1>2, <1>6, <1>7, HandlerMoves, WatcherIsAProc
<1>8. CASE WatcherLoop \/ WatcherStops \/ ExternalEdit \/ UNCHANGED vars
  BY <1>2, <1>8
  DEF WatcherLoop, StartWatch, ReceiveEvent, TimerFires, WatcherStops, ExternalEdit, vars
<1> QED BY <1>5, <1>6, <1>7, <1>8, WatcherIsAProc DEF Next

-----------------------------------------------------------------------------

LEMMA UInvInit == Init => UInv
<1> SUFFICES ASSUME Init PROVE RequestsElsewhere /\ Routed
  BY InitTypeInv DEF UInv
<1>1. RequestsElsewhere
  BY DEF Init, RequestsElsewhere, NoReq
<1>2. PinnedLoaded /\ PinnedLooked
  BY DiskAssumption DEF Init, PinnedLoaded, PinnedLooked, FlagTrue, Loading, Unread
<1> QED BY <1>1, <1>2 DEF Init, Routed, StoreRouted, RouterRouted

LEMMA UInvStep == UInv /\ [Next]_vars => UInv'
<1> SUFFICES ASSUME TypeInv, RequestsElsewhere, [Next]_vars,
                    faults = 0, faults' = 0, Routed
             PROVE  PinnedLoaded' /\ PinnedLooked'
  BY TypeInvStep, RequestsElsewhereStep, TablesStep, FaultsGrow DEF UInv, Routed
<1> QED
  <2>1. ASSUME NEW p \in Procs, Reload(p) PROVE PinnedLoaded' /\ PinnedLooked'
    BY <2>1, ReloadLoaded, ReloadLooked, DiskAssumption DEF Routed, PinnedLooked
  <2> QED BY <2>1, HandlerLoaded, OtherLoaded, WatcherIsAProc DEF Next, Routed

LEMMA UInvImplies == UInv => UntouchedStaysRouted
<1> SUFFICES ASSUME TypeInv, Routed, NEW f \in Pinned,
                    LoadSiteFile(disk[f]) # NoSite, LoadSiteFile(disk[f]).enabled,
                    NEW d \in AllDomains(LoadSiteFile(disk[f]))
             PROVE  /\ store # 0 => byDomain[Lower[d]] # NoFile
                    /\ routes # 0
                         /\ (\A u \in LoadSiteFile(disk[f]).ups : ParsesUpstream(u))
                       => runtimes[d] # NoFile
  BY DEF UInv, UntouchedStaysRouted
<1>1. d \in Names
  BY LoadSiteFileType, SitesAssumption DEF AllDomains, Site
<1> QED BY <1>1 DEF Routed, StoreRouted, RouterRouted, PinnedHost

\* Whatever is edited, toggled, saved or deleted beside it, a site that nobody
\* touches keeps its hosts in both tables from the first load on.
THEOREM UntouchedRouted == Spec => []UntouchedStaysRouted
BY UInvInit, UInvStep, UInvImplies, PTL DEF Spec

-----------------------------------------------------------------------------
(***************************************************************************)
(* HotReload implements Versions, for every set of files, names, sites and *)
(* requests: each list in use is one of sites that their files really had, *)
(* and each table is that of a whole list, but for the flags of sites that *)
(* were toggled.                                                           *)
(*                                                                         *)
(* The invariant follows each object from the file to the table and back:  *)
(* every object of every load is a version of its file, and so is what a   *)
(* toggle will save, through its .tmp or that of another request; where a  *)
(* load that has passed a file holds nothing, the file was once absent or  *)
(* invalid; and a loop has found the flag of each site that nobody has     *)
(* toggled as it is.                                                       *)
(***************************************************************************)

\* What a file can come to hold without having been a version.
Offer == Posted \cup Written \cup Blends \cup {Absent, Empty}

\* What each file holds is one of its versions, and the history is about files.
DiskIsPast ==
  /\ past \in [Files -> SUBSET Contents] /\ toggled \subseteq Files
  /\ \A f \in Files : disk[f] \in past[f]

\* Every object of a load is a version of its file.
ObjectsKnown ==
  \A g \in Gens, f \in Files : heap[g][f] # NoSite => heap[g][f] \in V!Known(f)

FlagsTrue == \A f \in Files \ toggled : FlagTrue(f)

\* The file has had a version that loads as nothing, or an operation failed.
Excused(f) == faults > 0 \/ \E c \in past[f] : LoadSiteFile(c) = NoSite

\* A load lacks no file that it has passed without an excuse.
GapsExcused ==
  \A p \in Procs : pc[p] \in Loading =>
    \A f \in Files \ todo[p] : heap[mine[p]][f] = NoSite => Excused(f)

\* What a save has in hand, and in its .tmp, may become its site's file.
Handed(r, step) ==
  /\ r.op = "save" /\ step = "save" => r.site \in Posted
  /\ step \in {"open", "write", "rename"} => r.site \in Offer \cup V!Known(r.file)
  /\ step \in {"write", "rename"} => tmp[r.file] \in Offer \cup V!Known(r.file)

SavesKnown == \A h \in Handlers : Handed(req[h], pc[h])

PastInv == TypeInv /\ DiskIsPast /\ ObjectsKnown /\ FlagsTrue /\ GapsExcused /\ SavesKnown

-----------------------------------------------------------------------------
(* The history grows, until a crash. *)

\* At most one request flips a flag in a step.
LEMMA OneFlips ==
  ASSUME TypeInv, NEW h \in Handlers, NEW k \in Handlers, WriteFlag(h), WriteFlag(k)
  PROVE  k = h
<1>1. pc[k] = "flip" /\ pc' = [pc EXCEPT ![h] = "save"] /\ pc' = [pc EXCEPT ![k] = "save"]
  BY DEF WriteFlag, Goto
<1>2. pc'[k] = "save"
  BY <1>1, WatcherIsAProc DEF TypeInv, TypeOK
<1> QED BY <1>1, <1>2, WatcherIsAProc DEF TypeInv, TypeOK

LEMMA PastGrows ==
  ASSUME TypeInv, DiskIsPast, PastNext, ~Crash
  PROVE  /\ \A f \in Files : past'[f] = past[f] \cup {disk'[f]}
         /\ disk' = disk => past' = past
         /\ toggled \subseteq toggled'
         /\ \A h \in Handlers : WriteFlag(h) => toggled' = toggled \cup {req[h].file}
         /\ (\A h \in Handlers : ~WriteFlag(h)) => toggled' = toggled
<1>0. crashes' = crashes
  BY Mishaps DEF PastNext
<1>1. past' = [f \in Files |-> past[f] \cup {disk'[f]}]
  BY <1>0 DEF PastNext
<1>2. ASSUME disk' = disk PROVE past' = past
  <2>1. past' = [f \in Files |-> past[f] \cup {disk[f]}]
    BY <1>1, <1>2
  <2>2. \A f \in Files : past[f] \cup {disk[f]} = past[f]
    BY DEF DiskIsPast
  <2>3. past = [f \in Files |-> past[f]]
    BY DEF DiskIsPast
  <2> QED BY <2>1, <2>2, <2>3
<1>3. toggled' = toggled \cup {req[h].file : h \in {k \in Handlers : WriteFlag(k)}}
  BY <1>0 DEF PastNext
<1>4. ASSUME NEW h \in Handlers, WriteFlag(h) PROVE toggled' = toggled \cup {req[h].file}
  <2>1. \A k \in Handlers : WriteFlag(k) => k = h
    BY <1>4, OneFlips
  <2> HIDE DEF WriteFlag
  <2> QED BY <1>3, <1>4, <2>1
<1>5. ASSUME \A h \in Handlers : ~WriteFlag(h) PROVE toggled' = toggled
  BY <1>3, <1>5
<1> QED BY <1>1, <1>2, <1>3, <1>4, <1>5

LEMMA CrashForgets ==
  ASSUME TypeInv, PastNext, Crash
  PROVE  past' = V!Since(disk) /\ disk' = disk /\ toggled' = {}
<1>1. crashes' # crashes
  BY Mishaps DEF PastNext, TypeInv, TypeOK
<1> QED BY <1>1 DEF PastNext, Crash

\* The versions of a file only grow, and what it holds is one of them.
LEMMA KnownGrows ==
  ASSUME TypeInv, DiskIsPast, PastNext, ~Crash, NEW f \in Files
  PROVE  V!Known(f) \subseteq V!Known(f)' /\ disk'[f] \in V!Known(f)'
<1>1. past'[f] = past[f] \cup {disk'[f]} /\ toggled \subseteq toggled'
  BY PastGrows
<1> QED BY <1>1 DEF V!Known

LEMMA DiskIsPastStep ==
  ASSUME TypeInv, DiskIsPast, PastNext
  PROVE  DiskIsPast'
<1>1. disk \in [Files -> Contents] /\ disk' \in [Files -> Contents]
  BY TypeInvStep DEF PastNext, TypeInv, TypeOK
<1>2. CASE Crash
  <2>1. past' = [f \in Files |-> {disk[f]}] /\ disk' = disk /\ toggled' = {}
    BY <1>2, CrashForgets DEF V!Since
  <2> QED BY <1>1, <2>1 DEF DiskIsPast
<1>3. CASE ~Crash
  <2>1. past' = [f \in Files |-> past[f] \cup {disk'[f]}]
    BY <1>3, Mishaps DEF PastNext
  <2>2. toggled' \subseteq Files
    <3>1. ASSUME NEW h \in Handlers, WriteFlag(h) PROVE req[h].file \in Files
      BY <3>1, FlagWritten
    <3> QED BY <1>3, <3>1, PastGrows DEF DiskIsPast
  <2> QED BY <1>1, <2>1, <2>2 DEF DiskIsPast
<1> QED BY <1>2, <1>3

-----------------------------------------------------------------------------
(* The objects. *)

LEMMA FlipTwice ==
  ASSUME NEW s \in Sites
  PROVE  V!Flip(s) \in Sites /\ V!Flip(V!Flip(s)) = s
<1>1. s \in Site /\ s.enabled \in BOOLEAN
  BY SitesAssumption DEF Site
<1>2. V!Flip(s) = [s EXCEPT !.enabled = ~s.enabled]
  BY <1>1 DEF V!Flip
<1>3. V!Flip(s) \in Sites
  BY <1>1, <1>2, SitesAssumption
<1>4. [s EXCEPT !.enabled = ~(~s.enabled)] = s
  BY <1>1 DEF Site
<1>5. V!Flip(V!Flip(s)) = [s EXCEPT !.enabled = ~(~s.enabled)]
  BY <1>1, <1>2 DEF V!Flip, Site
<1> QED BY <1>3, <1>4, <1>5

\* Among a file's versions and their flips, whatever becomes of a flag stays.
LEMMA FlipsAreKnown ==
  ASSUME NEW P, NEW s \in Sites, s \in P \cup {V!Flip(t) : t \in P \cap Sites}, NEW b \in BOOLEAN
  PROVE  [s EXCEPT !.enabled = b] \in P \cup {V!Flip(t) : t \in P \cap Sites}
<1>1. s \in Site /\ s.enabled \in BOOLEAN
  BY SitesAssumption DEF Site
<1>2. CASE b = s.enabled
  <2>1. [s EXCEPT !.enabled = b] = s
    BY <1>1, <1>2 DEF Site
  <2> QED BY <2>1
<1>3. CASE b = ~s.enabled
  <2>1. [s EXCEPT !.enabled = b] = V!Flip(s)
    BY <1>1, <1>3 DEF V!Flip
  <2>2. CASE s \in P
    BY <2>1, <2>2
  <2>3. ASSUME NEW t \in P \cap Sites, s = V!Flip(t)
        PROVE  [s EXCEPT !.enabled = b] \in P
    BY <2>1, <2>3, FlipTwice
  <2> QED BY <2>2, <2>3
<1> QED BY <1>1, <1>2, <1>3

\* The steps that write objects: a read, which writes what the disk holds, and a
\* flip of a flag; the others leave an object alone or throw it away.
LEMMA ObjectStep ==
  ASSUME TypeInv, Next, NEW g \in Gens, NEW f \in Files, heap'[g][f] # NoSite
  PROVE  /\ ~Crash
         /\ \/ heap'[g][f] = heap[g][f]
            \/ /\ disk' = disk /\ heap'[g][f] = LoadSiteFile(disk[f])
            \/ \E h \in Handlers, b \in BOOLEAN :
                 /\ WriteFlag(h) /\ req[h].file = f
                 /\ heap[g][f] \in Sites
                 /\ heap'[g][f] = [heap[g][f] EXCEPT !.enabled = b]
<1> USE DEF fileVars, loadVars
<1>1. ~Crash
  BY DEF Crash, NoSites
<1>2. ASSUME NEW p \in Procs, Reload(p)
      PROVE  \/ heap'[g][f] = heap[g][f]
             \/ disk' = disk /\ heap'[g][f] = LoadSiteFile(disk[f])
  <2>1. CASE ReadDir(p)
    BY <2>1 DEF ReadDir, NoSites
  <2>2. CASE ReadFile(p)
    <3>1. PICK e \in todo[p] :
            \/ heap' = [heap EXCEPT ![mine[p]][e] = LoadSiteFile(disk[e])]
            \/ UNCHANGED heap
      BY <2>2 DEF ReadFile
    <3>2. disk' = disk /\ mine[p] \in Gens /\ e \in Files
      BY <2>2 DEF ReadFile, TypeInv, TypeOK
    <3>3. CASE heap' = [heap EXCEPT ![mine[p]][e] = LoadSiteFile(disk[e])]
      BY <3>2, <3>3 DEF TypeInv, TypeOK
    <3> QED BY <3>1, <3>2, <3>3
  <2>3. CASE Look(p) \/ Replace(p) \/ RouterReload(p) \/ SyncDomains(p) \/ Prune(p)
    BY <2>3 DEF Look, Replace, RouterReload, SyncDomains, EndLoop, Prune
  <2> QED BY <1>2, <2>1, <2>2, <2>3 DEF Reload
<1>3. ASSUME NEW h \in Handlers, WriteFlag(h)
      PROVE  \/ heap'[g][f] = heap[g][f]
             \/ \E b \in BOOLEAN :
                  /\ req[h].file = f /\ heap[g][f] \in Sites
                  /\ heap'[g][f] = [heap[g][f] EXCEPT !.enabled = b]
  <2> DEFINE b == ~req[h].flag
  <2>1. /\ heap[req[h].gen][req[h].file] \in Sites /\ b \in BOOLEAN
        /\ heap'[req[h].gen][req[h].file] = [heap[req[h].gen][req[h].file] EXCEPT !.enabled = b]
    BY <1>3, FlagWritten
  <2>2. \A k \in Gens, e \in Files :
          (k # req[h].gen \/ e # req[h].file) => heap'[k][e] = heap[k][e]
    BY <1>3, FlagWritten
  <2> HIDE DEF b
  <2> QED BY <2>1, <2>2
<1>4. ASSUME NEW h \in Handlers, HandlerBegins(h) \/ (HandlerStep(h) /\ ~Reload(h)),
             ~WriteFlag(h)
      PROVE  heap' = heap
  BY <1>4, HandlerMoves
<1>5. ASSUME WatcherLoop \/ WatcherStops \/ ExternalEdit PROVE heap' = heap
  BY <1>5 DEF WatcherLoop, StartWatch, ReceiveEvent, TimerFires, WatcherStops, ExternalEdit
<1> HIDE DEF fileVars, loadVars
<1>6. ASSUME NEW h \in Handlers, HandlerBegins(h) \/ HandlerStep(h)
      PROVE  \/ heap'[g][f] = heap[g][f]
             \/ disk' = disk /\ heap'[g][f] = LoadSiteFile(disk[f])
             \/ \E k \in Handlers, b \in BOOLEAN :
                  /\ WriteFlag(k) /\ req[k].file = f
                  /\ heap[g][f] \in Sites
                  /\ heap'[g][f] = [heap[g][f] EXCEPT !.enabled = b]
  <2>1. CASE WriteFlag(h)
    BY <1>3, <2>1
  <2>2. CASE Reload(h)
    BY <1>2, <2>2, WatcherIsAProc
  <2>3. CASE ~WriteFlag(h) /\ ~Reload(h)
    BY <1>4, <1>6, <2>3
  <2> QED BY <2>1, <2>2, <2>3
<1> QED BY <1>1, <1>2, <1>5, <1>6, WatcherIsAProc DEF Next

LEMMA ObjectsKnownStep ==
  ASSUME TypeInv, DiskIsPast, ObjectsKnown, PastNext
  PROVE  ObjectsKnown'
<1> SUFFICES ASSUME NEW g \in Gens, NEW f \in Files, heap'[g][f] # NoSite
             PROVE  heap'[g][f] \in V!Known(f)'
  BY DEF ObjectsKnown
<1>1. ~Crash /\ Next
  BY ObjectStep DEF PastNext
<1>2. V!Known(f) \subseteq V!Known(f)' /\ disk'[f] \in V!Known(f)'
  BY <1>1, KnownGrows
<1>3. CASE heap'[g][f] = heap[g][f]
  BY <1>2, <1>3 DEF ObjectsKnown
<1>4. CASE disk' = disk /\ heap'[g][f] = LoadSiteFile(disk[f])
  BY <1>2, <1>4 DEF LoadSiteFile
<1>5. ASSUME NEW h \in Handlers, NEW b \in BOOLEAN, WriteFlag(h), req[h].file = f,
             heap[g][f] \in Sites, heap'[g][f] = [heap[g][f] EXCEPT !.enabled = b]
      PROVE  heap'[g][f] \in V!Known(f)'
  <2>1. PICK s \in Sites : s = heap[g][f]
    BY <1>5
  <2>2. s \in V!Known(f)'
    BY <1>2, <2>1, SitesAssumption DEF ObjectsKnown
  <2>3. f \in toggled'
    BY <1>1, <1>5, PastGrows
  <2>4. V!Known(f)' = past'[f] \cup {V!Flip(t) : t \in past'[f] \cap Sites}
    BY <2>3 DEF V!Known
  <2>5. [s EXCEPT !.enabled = b] \in V!Known(f)'
    BY <2>2, <2>4, FlipsAreKnown
  <2>6. heap'[g][f] = [s EXCEPT !.enabled = b]
    BY <1>5, <2>1
  <2> QED BY <2>5, <2>6
<1>6. \/ heap'[g][f] = heap[g][f]
      \/ disk' = disk /\ heap'[g][f] = LoadSiteFile(disk[f])
      \/ \E h \in Handlers, b \in BOOLEAN :
           /\ WriteFlag(h) /\ req[h].file = f
           /\ heap[g][f] \in Sites
           /\ heap'[g][f] = [heap[g][f] EXCEPT !.enabled = b]
  BY <1>1, ObjectStep
<1>7. CASE \E h \in Handlers, b \in BOOLEAN :
             /\ WriteFlag(h) /\ req[h].file = f
             /\ heap[g][f] \in Sites
             /\ heap'[g][f] = [heap[g][f] EXCEPT !.enabled = b]
  BY <1>5, <1>7
<1> QED BY <1>3, <1>4, <1>6, <1>7

LEMMA FlagsTrueStep ==
  ASSUME TypeInv, DiskIsPast, FlagsTrue, PastNext
  PROVE  FlagsTrue'
<1> SUFFICES ASSUME NEW f \in Files, f \notin toggled' PROVE FlagTrue(f)'
  BY DEF FlagsTrue
<1>1. CASE Crash
  BY <1>1 DEF Crash, FlagTrue, Unread
<1>2. CASE ~Crash
  <2>1. FlagTrue(f)
    BY <1>2, PastGrows DEF FlagsTrue
  <2>2. ASSUME NEW p \in Procs, Reload(p) PROVE FlagTrue(f)'
    BY <2>1, <2>2, ReloadLooked
  <2>3. ASSUME NEW h \in Handlers, HandlerBegins(h) \/ (HandlerStep(h) /\ ~Reload(h))
        PROVE  FlagTrue(f)'
    <3>1. UNCHANGED <<mine, flags>>
      BY <2>3, HandlerMoves
    <3>2. \A p \in Procs : heap'[mine[p]][f] = heap[mine[p]][f]
      <4>1. CASE WriteFlag(h)
        <5>1. f # req[h].file
          BY <1>2, <4>1, PastGrows
        <5>2. \A g \in Gens, e \in Files :
                (g # req[h].gen \/ e # req[h].file) => heap'[g][e] = heap[g][e]
          BY <4>1, FlagWritten
        <5>3. \A p \in Procs : mine[p] \in Gens
          BY DEF TypeInv, TypeOK
        <5> QED BY <5>1, <5>2, <5>3
      <4> QED BY <2>3, <4>1, HandlerMoves
    <3> QED BY <2>1, <3>1, <3>2 DEF FlagTrue
  <2>4. CASE WatcherLoop \/ WatcherStops \/ ExternalEdit
    BY <2>1, <2>4
    DEF WatcherLoop, StartWatch, ReceiveEvent, TimerFires, WatcherStops, ExternalEdit,
        loadVars, FlagTrue
  <2> QED BY <1>2, <2>2, <2>3, <2>4, WatcherIsAProc DEF PastNext, Next
<1> QED BY <1>1, <1>2

-----------------------------------------------------------------------------
(* The gaps. *)

\* A load lacked the file before, or has just failed to read it, or has just
\* found that it is absent or invalid.
OldGap(p, f) == pc[p] \in Loading /\ f \notin todo[p] /\ heap[mine[p]][f] = NoSite
NewGap(f)    == disk' = disk /\ LoadSiteFile(disk[f]) = NoSite

LEMMA ReloadGap ==
  ASSUME TypeInv, NEW q \in Procs, Reload(q), NEW p \in Procs, NEW f \in Files,
         OldGap(p, f)'
  PROVE  OldGap(p, f) \/ NewGap(f) \/ faults' > 0
<1> USE DEF OldGap, NewGap, fileVars, loadVars
<1>0. faults \in Nat
  BY BoundsAssumption DEF TypeInv, TypeOK
<1>1. CASE ReadDir(q)
  <2> PICK g \in Gens \ Live :
        /\ mine' = [mine EXCEPT ![q] = g]
        /\ heap' = [k \in Gens |-> IF k \in Live THEN heap[k] ELSE NoSites]
        /\ \/ todo' = [todo EXCEPT ![q] = {e \in Files : disk[e] # Absent}]
           \/ Fault
    BY <1>1 DEF ReadDir
  <2>1. disk' = disk /\ pc' = [pc EXCEPT ![q] = "file"]
    BY <1>1 DEF ReadDir, Goto
  <2>2. CASE p = q
    <3>1. CASE todo' = [todo EXCEPT ![q] = {e \in Files : disk[e] # Absent}]
      <4>1. disk[f] = Absent
        BY <2>2, <3>1 DEF TypeInv, TypeOK
      <4> QED BY <2>1, <4>1, DiskAssumption DEF LoadSiteFile
    <3>2. CASE Fault
      BY <1>0, <3>2 DEF Fault
    <3> QED BY <3>1, <3>2
  <2>3. CASE p # q
    <3>1. mine'[p] = mine[p] /\ pc'[p] = pc[p] /\ mine[p] \in Live /\ mine[p] \in Gens
      BY <2>1, <2>3 DEF TypeInv, TypeOK, Live
    <3>2. heap'[mine[p]] = heap[mine[p]]
      BY <3>1
    <3>3. todo'[p] = todo[p]
      BY <1>1, <2>3 DEF ReadDir, TypeInv, TypeOK
    <3> QED BY <3>1, <3>2, <3>3
  <2> QED BY <2>2, <2>3
<1>2. CASE ReadFile(q)
  <2> PICK e \in todo[q] :
        /\ todo' = [todo EXCEPT ![q] = @ \ {e}]
        /\ \/ heap' = [heap EXCEPT ![mine[q]][e] = LoadSiteFile(disk[e])]
           \/ Fault /\ UNCHANGED heap
    BY <1>2 DEF ReadFile
  <2>1. UNCHANGED <<disk, pc, mine>> /\ pc[q] = "file" /\ e \in Files /\ mine[q] \in Gens
    BY <1>2 DEF ReadFile, TypeInv, TypeOK
  <2>2. CASE Fault
    BY <1>0, <2>2 DEF Fault
  <2>3. CASE heap' = [heap EXCEPT ![mine[q]][e] = LoadSiteFile(disk[e])]
    <3>1. CASE p = q
      <4>1. heap'[mine[q]][f] = IF f = e THEN LoadSiteFile(disk[f]) ELSE heap[mine[q]][f]
        BY <2>1, <2>3 DEF TypeInv, TypeOK
      <4>2. f = e \/ f \notin todo[q]
        BY <3>1 DEF TypeInv, TypeOK
      <4> QED BY <2>1, <3>1, <4>1, <4>2
    <3>2. CASE p # q
      <4>1. pc[p] \in Loading
        BY <2>1
      <4>2. mine[p] # mine[q]
        BY <2>1, <3>2, <4>1 DEF TypeInv, OwnLoads, Loading
      <4>3. heap'[mine[p]] = heap[mine[p]] /\ todo'[p] = todo[p]
        BY <2>3, <3>2, <4>2 DEF TypeInv, TypeOK
      <4> QED BY <2>1, <4>1, <4>3
    <3> QED BY <3>1, <3>2
  <2> QED BY <2>2, <2>3
<1>3. CASE Look(q)
  BY <1>3 DEF Look
<1>4. CASE Replace(q) \/ RouterReload(q) \/ SyncDomains(q)
  <2>1. PICK step \in {"router", "acme", "prune"} : EndLoop(q, step)
    BY <1>4 DEF Replace, RouterReload, SyncDomains
  <2>2. pc[q] \in Loading
    BY <1>4 DEF Replace, RouterReload, SyncDomains, Loading
  <2> QED BY <2>1, <2>2 DEF EndLoop, Goto, TypeInv, TypeOK
<1>5. CASE Prune(q)
  <2>1. /\ UNCHANGED <<todo, heap>> /\ pc'[q] \notin Loading
        /\ p # q => pc'[p] = pc[p] /\ mine'[p] = mine[p]
    BY <1>5 DEF Prune, Answer, Goto, Loading, TypeInv, TypeOK
  <2> QED BY <2>1
<1> QED BY <1>1, <1>2, <1>3, <1>4, <1>5 DEF Reload

LEMMA HandlerGap ==
  ASSUME TypeInv, NEW h \in Handlers,
         HandlerBegins(h) \/ (HandlerStep(h) /\ ~Reload(h)),
         NEW p \in Procs, NEW f \in Files, OldGap(p, f)'
  PROVE  OldGap(p, f)
<1>1. /\ UNCHANGED <<todo, mine>>
      /\ pc'[h] \notin Loading /\ \A q \in Procs \ {h} : pc'[q] = pc[q]
  BY HandlerMoves
<1>2. heap[mine[p]][f] # NoSite => heap'[mine[p]][f] # NoSite
  <2>1. CASE WriteFlag(h)
    <3>1. \A g \in Gens, e \in Files :
            (g # req[h].gen \/ e # req[h].file) => heap'[g][e] = heap[g][e]
      BY <2>1, FlagWritten
    <3>2. heap'[req[h].gen][req[h].file] # NoSite
      <4> DEFINE b == ~req[h].flag
      <4>1. /\ heap[req[h].gen][req[h].file] \in Sites /\ b \in BOOLEAN
            /\ heap'[req[h].gen][req[h].file] =
                 [heap[req[h].gen][req[h].file] EXCEPT !.enabled = b]
        BY <2>1, FlagWritten
      <4> HIDE DEF b
      <4> QED BY <4>1, FlipKeepsValid
    <3>3. mine[p] \in Gens
      BY DEF TypeInv, TypeOK
    <3> QED BY <3>1, <3>2, <3>3
  <2>2. CASE ~WriteFlag(h)
    BY <2>2, HandlerMoves
  <2> QED BY <2>1, <2>2
<1> QED BY <1>1, <1>2 DEF OldGap

LEMMA GapsExcusedStep ==
  ASSUME TypeInv, DiskIsPast, GapsExcused, PastNext
  PROVE  GapsExcused'
<1>1. CASE Crash
  BY <1>1 DEF Crash, GapsExcused, Loading
<1>2. CASE ~Crash
  <2> SUFFICES ASSUME NEW p \in Procs, NEW f \in Files, OldGap(p, f)'
               PROVE  Excused(f)'
    BY DEF GapsExcused, OldGap
  <2>1. OldGap(p, f) \/ NewGap(f) \/ faults' > 0
    <3>1. CASE WatcherLoop \/ WatcherStops \/ ExternalEdit
      BY <3>1
      DEF WatcherLoop, StartWatch, ReceiveEvent, TimerFires, WatcherStops, ExternalEdit,
          Goto, Loading, OldGap, loadVars, TypeInv, TypeOK
    <3> QED BY <1>2, <3>1, ReloadGap, HandlerGap, WatcherIsAProc DEF PastNext, Next
  <2>2. faults > 0 => faults' > 0
    <3>1. faults \in Nat /\ faults' \in Nat
      BY TypeInvStep, BoundsAssumption DEF PastNext, TypeInv, TypeOK
    <3>2. faults' = 0 => faults = 0
      BY FaultsGrow DEF PastNext
    <3> QED BY <3>1, <3>2
  <2>3. past[f] \subseteq past'[f]
    BY <1>2, PastGrows
  <2>4. CASE OldGap(p, f)
    BY <2>2, <2>3, <2>4 DEF OldGap, GapsExcused, Excused
  <2>5. CASE NewGap(f)
    <3>1. disk[f] \in past[f]
      BY DEF DiskIsPast
    <3> QED BY <2>3, <2>5, <3>1 DEF NewGap, Excused
  <2>6. CASE faults' > 0
    BY <2>6 DEF Excused
  <2> QED BY <2>1, <2>4, <2>5, <2>6
<1> QED BY <1>1, <1>2

-----------------------------------------------------------------------------
(* The saves. *)

\* Whatever a save's write leaves in the file that it has open may be there.
LEMMA FilledKnown ==
  ASSUME TypeInv, DiskIsPast, SavesKnown, NEW h \in Handlers, pc[h] = "write"
  PROVE  WrittenOver(Found(h), req[h].site) \cup {Found(h)} \cup Blends
           \subseteq Offer \cup V!Known(req[h].file)
<1>1. Handed(req[h], "write") /\ req[h].file \in Files
  BY EditedFile DEF SavesKnown, Editing
<1>2. disk[req[h].file] \in V!Known(req[h].file)
  BY <1>1 DEF DiskIsPast, V!Known
<1>3. Found(h) \in Offer \cup V!Known(req[h].file)
  BY <1>1, <1>2 DEF Handed, Found
<1> QED BY <1>1, <1>3 DEF Handed, WrittenOver, Offer

\* What an edit leaves on disk and in its .tmp.
LEMMA EditLeaves ==
  ASSUME TypeInv, DiskIsPast, SavesKnown, NEW h \in Handlers,
         Marshal(h) \/ SaveRejected(h) \/ OpenTmp(h) \/ WriteTmp(h) \/ Rename(h)
           \/ SaveFails(h) \/ DeleteSite(h) \/ DeleteFails(h)
  PROVE  /\ req[h].file \in Files
         /\ \E c \in Offer \cup V!Known(req[h].file) :
              tmp' \in {tmp, [tmp EXCEPT ![req[h].file] = c]}
         /\ \E c \in Offer \cup V!Known(req[h].file) :
              disk' \in {disk, [disk EXCEPT ![req[h].file] = c]}
<1> USE DEF fileVars
<1>1. pc[h] \in Editing /\ req[h].file \in Files
  BY EditShape, EditedFile DEF Editing
<1>2. Absent \in Offer /\ Empty \in Offer
  BY DEF Offer
<1>3. CASE Marshal(h) \/ SaveRejected(h) \/ OpenTmp(h) \/ DeleteSite(h) \/ DeleteFails(h)
  BY <1>1, <1>2, <1>3 DEF Marshal, SaveRejected, OpenTmp, DeleteSite, DeleteFails
<1>4. CASE Rename(h)
  <2>1. Handed(req[h], "rename")
    BY <1>4 DEF Rename, SavesKnown
  <2>2. tmp[req[h].file] \in Offer \cup V!Known(req[h].file)
    BY <2>1 DEF Handed
  <2> QED BY <1>1, <1>2, <1>4, <2>2 DEF Rename
<1>5. ASSUME NEW contents, Fill(h, contents), pc[h] = "write",
             contents \subseteq WrittenOver(Found(h), req[h].site) \cup {Found(h)} \cup Blends
      PROVE  \E c \in Offer \cup V!Known(req[h].file) :
               /\ tmp'  \in {tmp, [tmp EXCEPT ![req[h].file] = c]}
               /\ disk' \in {disk, [disk EXCEPT ![req[h].file] = c]}
  <2>1. contents \subseteq Offer \cup V!Known(req[h].file)
    BY <1>5, FilledKnown
  <2> QED BY <1>5, <2>1 DEF Fill
<1>6. CASE WriteTmp(h) \/ SaveFails(h)
  <2>1. CASE UNCHANGED <<disk, tmp>>
    BY <1>1, <1>2, <2>1
  <2>2. CASE ~UNCHANGED <<disk, tmp>>
    <3>1. PICK contents : /\ Fill(h, contents) /\ pc[h] = "write"
                          /\ contents \subseteq
                               WrittenOver(Found(h), req[h].site) \cup {Found(h)} \cup Blends
      BY <1>6, <2>2 DEF WriteTmp, SaveFails
    <3> QED BY <1>1, <1>5, <3>1
  <2> QED BY <2>1, <2>2
<1> QED BY <1>3, <1>4, <1>6

\* The goroutines that do not move keep their requests, and the .tmp files change in
\* edits alone.
LEMMA OthersStay ==
  ASSUME TypeInv, Next, ~Crash, NEW h \in Handlers, ~HandlerBegins(h), ~HandlerStep(h)
  PROVE  pc'[h] = pc[h] /\ req'[h] = req[h]
<1> USE DEF TypeInv, TypeOK
<1>1. h \in Procs /\ h # Watcher
  BY WatcherIsAProc, ProcsAssumption
<1>2. ASSUME NEW p \in Procs, p # h, Reload(p) PROVE pc'[h] = pc[h] /\ req'[h] = req[h]
  <2>1. (\E step : pc' = [pc EXCEPT ![p] = step]) \/ pc' = pc
    BY <1>2
    DEF Reload, ReadDir, ReadFile, Look, Replace, RouterReload, SyncDomains, EndLoop, Prune,
        Answer, Goto
  <2>2. req' = req \/ req' = [req EXCEPT ![p] = NoReq]
    BY <1>2
    DEF Reload, ReadDir, ReadFile, Look, Replace, RouterReload, SyncDomains, EndLoop, Prune,
        Answer
  <2> QED BY <1>1, <1>2, <2>1, <2>2
<1>3. ASSUME NEW k \in Handlers, k # h, HandlerBegins(k) \/ HandlerStep(k)
      PROVE  pc'[h] = pc[h] /\ req'[h] = req[h]
  <2>1. CASE HandlerBegins(k)
    BY <1>1, <1>3, <2>1, BeginAccepts DEF Accept, Goto
  <2>2. CASE ReadFlag(k) \/ WriteFlag(k)
    BY <1>1, <1>3, <2>2 DEF ReadFlag, WriteFlag, Goto
  <2>3. CASE Reload(k)
    BY <1>2, <1>3, <2>3, WatcherIsAProc
  <2>4. CASE HandlerStep(k) /\ ~ReadFlag(k) /\ ~WriteFlag(k) /\ ~Reload(k)
    <3>1. PICK step, r : pc' = [pc EXCEPT ![k] = step] /\ req' = [req EXCEPT ![k] = r]
      BY <2>4, EditShape DEF HandlerStep
    <3> QED BY <1>1, <1>3, <3>1
  <2> QED BY <1>3, <2>1, <2>2, <2>3, <2>4
<1>4. CASE WatcherLoop \/ WatcherStops \/ ExternalEdit
  BY <1>1, <1>4
  DEF WatcherLoop, StartWatch, ReceiveEvent, TimerFires, WatcherStops, ExternalEdit, Goto
<1> QED BY <1>1, <1>2, <1>3, <1>4, WatcherIsAProc DEF Next

LEMMA TmpStep ==
  ASSUME TypeInv, DiskIsPast, SavesKnown, Next, ~Crash, NEW f \in Files
  PROVE  tmp'[f] = tmp[f] \/ tmp'[f] \in Offer \cup V!Known(f)
<1> USE DEF fileVars
<1>1. ASSUME NEW p \in Procs, Reload(p) PROVE tmp' = tmp
  BY <1>1
  DEF Reload, ReadDir, ReadFile, Look, Replace, RouterReload, SyncDomains, EndLoop, Prune
<1>2. ASSUME NEW h \in Handlers, HandlerBegins(h) \/ ReadFlag(h) \/ WriteFlag(h) PROVE tmp' = tmp
  BY <1>2, BeginAccepts DEF Accept, ReadFlag, WriteFlag
<1>3. ASSUME NEW h \in Handlers, HandlerStep(h), ~ReadFlag(h), ~WriteFlag(h), ~Reload(h)
      PROVE  tmp'[f] = tmp[f] \/ tmp'[f] \in Offer \cup V!Known(f)
  <2>1. /\ req[h].file \in Files
        /\ \E c \in Offer \cup V!Known(req[h].file) :
             tmp' \in {tmp, [tmp EXCEPT ![req[h].file] = c]}
    BY <1>3, EditLeaves DEF HandlerStep
  <2> QED BY <2>1 DEF TypeInv, TypeOK
<1>4. CASE WatcherLoop \/ WatcherStops \/ ExternalEdit
  BY <1>4 DEF WatcherLoop, StartWatch, ReceiveEvent, TimerFires, WatcherStops, ExternalEdit
<1> QED BY <1>1, <1>2, <1>3, <1>4, WatcherIsAProc DEF Next

\* A request that begins has nothing in hand but a form that was posted.
LEMMA BeginsPosted ==
  ASSUME TypeInv, NEW h \in Handlers, HandlerBegins(h)
  PROVE  /\ pc'[h] \notin {"open", "write", "rename"}
         /\ req'[h].op = "save" => req'[h].site \in Posted
<1>1. pc'[h] \notin {"open", "write", "rename"}
  BY BeginAccepts, WatcherIsAProc DEF Accept, Acceptable, Goto, TypeInv, TypeOK
<1>2. ASSUME NEW r, NEW step, Accept(h, r, step), r.op = "save" => r.site \in Posted
      PROVE  req'[h].op = "save" => req'[h].site \in Posted
  BY <1>2 DEF Accept, TypeInv, TypeOK
<1>3. req'[h].op = "save" => req'[h].site \in Posted
  BY <1>2
  DEF HandlerBegins, NotFound, BeginToggle, BeginUpdate, BeginCreate, BeginDelete, NoReq
<1> QED BY <1>1, <1>3

LEMMA SavesKnownStep ==
  ASSUME TypeInv, DiskIsPast, ObjectsKnown, SavesKnown, PastNext
  PROVE  SavesKnown'
<1> SUFFICES ASSUME NEW h \in Handlers PROVE Handed(req[h], pc[h])'
  BY DEF SavesKnown
<1> USE WatcherIsAProc
<1>1. CASE Crash
  <2>1. pc'[h] \in {"idle", "done", "start"}
    BY <1>1 DEF Crash
  <2> QED BY <2>1 DEF Handed
<1>2. CASE pc'[h] \notin {"save", "open", "write", "rename"}
  BY <1>2 DEF Handed
<1> SUFFICES ASSUME ~Crash, pc'[h] \in {"save", "open", "write", "rename"}
             PROVE  Handed(req[h], pc[h])'
  BY <1>1, <1>2
<1>3. Next /\ Handed(req[h], pc[h]) /\ req[h] \in Requests
  BY DEF PastNext, SavesKnown, TypeInv, TypeOK
<1>4. \A f \in Files : V!Known(f) \subseteq V!Known(f)'
  BY KnownGrows
<1>5. \A f \in Files : tmp'[f] = tmp[f] \/ tmp'[f] \in Offer \cup V!Known(f)
  BY <1>3, TmpStep
<1>6. CASE pc'[h] = pc[h] /\ req'[h] = req[h]
  <2>1. req[h].file \in Files
    BY <1>6, EditedFile DEF Editing
  <2> QED BY <1>3, <1>4, <1>5, <1>6, <2>1 DEF Handed
<1>7. CASE HandlerBegins(h)
  BY <1>7, BeginsPosted DEF Handed
<1>8. CASE HandlerStep(h)
  <2>1. ~ReadFlag(h) /\ ~Reload(h)
    <3>1. CASE ReadFlag(h)
      BY <3>1 DEF ReadFlag, Goto, TypeInv, TypeOK
    <3>2. CASE ReadDir(h)
      BY <3>2 DEF ReadDir, Goto, TypeInv, TypeOK
    <3>3. CASE ReadFile(h) \/ Look(h)
      BY <3>3 DEF ReadFile, Look, Ahead
    <3>4. CASE Replace(h) \/ RouterReload(h) \/ SyncDomains(h)
      BY <3>4 DEF Replace, RouterReload, SyncDomains, EndLoop, Goto, TypeInv, TypeOK
    <3>5. CASE Prune(h)
      BY <3>5 DEF Prune, Answer, Goto, TypeInv, TypeOK
    <3> QED BY <3>1, <3>2, <3>3, <3>4, <3>5 DEF Reload
  <2>2. CASE WriteFlag(h)
    <3>1. req'[h].op = "toggle" /\ pc'[h] = "save"
      BY <2>2, FlagWritten DEF WriteFlag, Goto, TypeInv, TypeOK
    <3> QED BY <3>1 DEF Handed
  <2>3. CASE ~WriteFlag(h)
    <3>1. Marshal(h) \/ SaveRejected(h) \/ OpenTmp(h) \/ WriteTmp(h) \/ Rename(h)
            \/ SaveFails(h) \/ DeleteSite(h) \/ DeleteFails(h)
      BY <1>8, <2>1, <2>3 DEF HandlerStep
    <3>2. req[h].file \in Files
      BY <3>1, EditLeaves
    <3>3. CASE Marshal(h)
      <4> PICK s : s = SavedSite(h)
        OBVIOUS
      <4>1. /\ pc[h] = "save" /\ pc'[h] = "open" /\ req'[h].file = req[h].file
            /\ req'[h].site = s
        BY <1>3, <3>3 DEF Marshal, Goto, TypeInv, TypeOK, Requests
      <4>2. s \in Offer \cup V!Known(req[h].file)
        <5>1. CASE req[h].op = "toggle"
          BY <4>1, <5>1, ToggledSite DEF SavedSite, ObjectsKnown
        <5>2. CASE req[h].op = "save"
          BY <1>3, <4>1, <5>2 DEF SavedSite, Handed, Offer
        <5> QED BY <4>1, <5>1, <5>2 DEF TypeInv, RequestOK, Fits
      <4> QED BY <1>4, <3>2, <4>1, <4>2 DEF Handed
    <3>4. CASE OpenTmp(h)
      <4>1. /\ pc[h] = "open" /\ pc'[h] = "write" /\ req'[h] = req[h]
            /\ tmp'[req[h].file] = Empty
        BY <3>2, <3>4 DEF OpenTmp, Goto, TypeInv, TypeOK
      <4> QED BY <1>3, <1>4, <3>2, <4>1 DEF Handed, Offer
    <3>5. CASE WriteTmp(h)
      <4>1. pc[h] = "write" /\ pc'[h] = "rename" /\ req'[h] = req[h]
        BY <3>5 DEF WriteTmp, Goto, TypeInv, TypeOK
      <4> QED BY <1>3, <1>4, <1>5, <3>2, <4>1 DEF Handed
    <3>6. CASE SaveRejected(h) \/ Rename(h) \/ SaveFails(h) \/ DeleteSite(h) \/ DeleteFails(h)
      <4>1. pc'[h] \in {"dir", "done"}
        BY <3>6 DEF SaveRejected, Rename, SaveFails, DeleteSite, DeleteFails, Answer, Goto,
                    TypeInv, TypeOK
      <4> QED BY <4>1
    <3> QED BY <3>1, <3>3, <3>4, <3>5, <3>6
  <2> QED BY <2>2, <2>3
<1> QED BY <1>3, <1>6, <1>7, <1>8, OthersStay

LEMMA PastInvInit == PastInit => PastInv
<1> SUFFICES ASSUME Init, past = V!Since(disk), toggled = {} PROVE PastInv
  BY DEF PastInit
<1>1. TypeInv /\ disk \in [Files -> Contents]
  BY InitTypeInv DEF TypeInv, TypeOK
<1>2. DiskIsPast
  BY <1>1 DEF DiskIsPast, V!Since
<1>3. ObjectsKnown /\ GapsExcused
  BY DEF Init, ObjectsKnown, GapsExcused, NoSites, Loading
<1>4. FlagsTrue
  BY DEF Init, FlagsTrue, FlagTrue, Unread
<1>5. SavesKnown
  BY WatcherIsAProc DEF Init, SavesKnown, Handed
<1> QED BY <1>1, <1>2, <1>3, <1>4, <1>5 DEF PastInv

LEMMA PastInvStep == PastInv /\ [PastNext]_<<vars, past, toggled>> => PastInv'
<1>1. ASSUME PastInv, PastNext PROVE PastInv'
  BY <1>1, TypeInvStep, DiskIsPastStep, ObjectsKnownStep, FlagsTrueStep, GapsExcusedStep,
     SavesKnownStep
  DEF PastInv, PastNext
<1>2. ASSUME PastInv, UNCHANGED <<vars, past, toggled>> PROVE PastInv'
  <2>1. TypeInv'
    BY <1>2, TypeInvStep DEF PastInv
  <2> QED
    BY <1>2, <2>1
    DEF PastInv, DiskIsPast, ObjectsKnown, FlagsTrue, FlagTrue, GapsExcused, Excused,
        SavesKnown, Handed, V!Known, vars, fileVars, loadVars, boundVars
<1> QED BY <1>1, <1>2

-----------------------------------------------------------------------------
(* The steps of Versions. *)

\* Both modules mean the same tables.
LEMMA SameTables ==
  ASSUME NEW sites
  PROVE  V!ByDomain(sites) = ByDomain(sites) /\ V!Runtimes(sites) = Runtimes(sites)
BY DEF V!ByDomain, V!Runtimes, V!LastOf, V!Active, V!Pooled, V!AllDomains, V!Before,
       V!ParsesUpstream, ByDomain, Runtimes, LastOf, Active, Pooled, AllDomains, Before,
       ParsesUpstream

LEMMA SameLoads == \A c : V!LoadSiteFile(c) = LoadSiteFile(c)
BY DEF V!LoadSiteFile, V!Validate, V!ValidUpstream, LoadSiteFile, Validate, ValidUpstream

\* A load that is complete is genuine.
LEMMA CompleteIsGenuine ==
  ASSUME PastInv, NEW p \in Procs, pc[p] \in Loading, todo[p] = {}
  PROVE  V!Genuine(heap[mine[p]])
<1>1. mine[p] \in Gens
  BY DEF PastInv, TypeInv, TypeOK
<1> SUFFICES ASSUME NEW f \in Files
             PROVE  \/ heap[mine[p]][f] # NoSite /\ heap[mine[p]][f] \in V!Known(f)
                    \/ heap[mine[p]][f] = NoSite /\ Excused(f)
  BY SameLoads DEF V!Genuine, Excused
<1> QED BY <1>1 DEF PastInv, ObjectsKnown, GapsExcused

\* What a loop has found is its load, but for the flags of sites that were toggled.
LEMMA LookedIsFlipped ==
  ASSUME PastInv, NEW p \in Procs, Looping(p), Ahead(p) = {}
  PROVE  \E F \in SUBSET toggled : Looked(p) = V!FlippedIn(heap[mine[p]], F)
<1> DEFINE l == heap[mine[p]]
           F == {f \in Files : Looked(p)[f] # l[f]}
<1>1. F \subseteq toggled
  BY LookedSame DEF PastInv, FlagsTrue, FlagTrue
<1>2. ASSUME NEW f \in Files
      PROVE  Looked(p)[f] = IF f \in F /\ l[f] # NoSite THEN V!Flip(l[f]) ELSE l[f]
  <2>1. CASE l[f] = NoSite
    BY <2>1 DEF Looked
  <2>2. CASE l[f] # NoSite /\ f \in F
    <3> DEFINE s == l[f]
               b == flags[p][f] = "on"
    <3>1. s \in Site /\ s.enabled \in BOOLEAN
      BY <2>2, SitesAssumption DEF PastInv, TypeInv, TypeOK, Site
    <3>2. Looked(p)[f] = [s EXCEPT !.enabled = b]
      BY <2>2 DEF Looked
    <3>3. b \in BOOLEAN
      OBVIOUS
    <3>4. Looked(p)[f] # s
      BY <2>2
    <3> HIDE DEF s, b
    <3>5. b # s.enabled
      <4>1. b = s.enabled => [s EXCEPT !.enabled = b] = s
        BY <3>1 DEF Site
      <4> QED BY <3>2, <3>4, <4>1
    <3>6. b = ~s.enabled
      BY <3>1, <3>3, <3>5
    <3>7. Looked(p)[f] = V!Flip(s)
      BY <3>1, <3>2, <3>6 DEF V!Flip
    <3> QED BY <2>2, <3>7 DEF s
  <2> QED BY <2>1, <2>2
<1>3. Looked(p) = [f \in Files |-> Looked(p)[f]]
  BY DEF Looked
<1>4. Looked(p) = V!FlippedIn(l, F)
  BY <1>2, <1>3 DEF V!FlippedIn
<1> QED BY <1>1, <1>4

\* A failed operation stays on record.
LEMMA DamageStays ==
  ASSUME PastInv, PastNext
  PROVE  (faults' > 0) \in {faults > 0, TRUE}
<1>1. faults \in Nat /\ faults' \in Nat
  BY TypeInvStep, BoundsAssumption DEF PastInv, PastNext, TypeInv, TypeOK
<1>2. faults' = 0 => faults = 0
  BY FaultsGrow DEF PastInv, PastNext
<1>3. (faults' > 0) = TRUE \/ (faults' > 0) = (faults > 0)
  BY <1>1, <1>2
<1> QED BY <1>3, Zenon

\* No flag is written.
Steady == \A h \in Handlers : ~WriteFlag(h)

\* The steps that touch no file and no table: at most an operation fails.
LEMMA QuietStep ==
  ASSUME PastInv, PastNext, ~Crash, Steady,
         UNCHANGED <<disk, byDomain, runtimes>>,
         heap'[store'] = heap[store], heap'[routes'] = heap[routes]
  PROVE  V!Damage
<1>1. past' = past /\ toggled' = toggled
  BY PastGrows DEF PastInv, Steady
<1> QED BY <1>1, DamageStays DEF V!Damage

LEMMA InstallStep ==
  ASSUME PastInv, PastNext, ~Crash, Steady, NEW p \in Procs, Replace(p) \/ RouterReload(p)
  PROVE  V!InstallList \/ V!InstallRoutes
<1> USE DEF fileVars, loadVars, storeVars, routerVars, boundVars
<1>1. /\ UNCHANGED <<disk, heap, faults>>
      /\ pc[p] \in Loading /\ todo[p] = {} /\ Looping(p) /\ Ahead(p) = {}
  BY DEF Replace, RouterReload, EndLoop, Loading, Looping, PastInv, TypeInv, OwnLoads
<1>2. past' = past /\ toggled' = toggled
  BY <1>1, PastGrows DEF PastInv, Steady
<1>3. V!Genuine(heap[mine[p]])
  BY <1>1, CompleteIsGenuine
<1> PICK F \in SUBSET toggled : Looked(p) = V!FlippedIn(heap[mine[p]], F)
  BY <1>1, LookedIsFlipped
<1>4. CASE Replace(p)
  <2>1. store' = mine[p] /\ byDomain' = ByDomain(Looked(p)) /\ UNCHANGED <<routes, runtimes>>
    BY <1>4 DEF Replace
  <2>2. heap'[store'] = heap[mine[p]] /\ heap'[routes'] = heap[routes]
    BY <1>1, <2>1
  <2>3. V!Genuine(heap'[store'])
    BY <1>3, <2>2
  <2>4. byDomain' = V!ByDomain(V!FlippedIn(heap'[store'], F))
    BY <2>1, <2>2, SameTables
  <2> QED BY <1>1, <1>2, <2>1, <2>2, <2>3, <2>4 DEF V!InstallList
<1>5. CASE RouterReload(p)
  <2>1. routes' = mine[p] /\ runtimes' = Runtimes(Looked(p)) /\ UNCHANGED <<store, byDomain>>
    BY <1>5 DEF RouterReload
  <2>2. heap'[routes'] = heap[mine[p]] /\ heap'[store'] = heap[store]
    BY <1>1, <2>1
  <2>3. V!Genuine(heap'[routes'])
    BY <1>3, <2>2
  <2>4. runtimes' = V!Runtimes(V!FlippedIn(heap'[routes'], F))
    BY <2>1, <2>2, SameTables
  <2> QED BY <1>1, <1>2, <2>1, <2>2, <2>3, <2>4 DEF V!InstallRoutes
<1> QED BY <1>4, <1>5

\* Two toggles may overlap, so a flag may be set to what it was.
LEMMA FlipStep ==
  ASSUME PastInv, PastNext, ~Crash, NEW h \in Handlers, WriteFlag(h)
  PROVE  V!Toggle
<1> USE DEF fileVars, tableVars, storeVars, routerVars, boundVars
<1> PICK g, f, b : g = req[h].gen /\ f = req[h].file /\ b = ~req[h].flag
  OBVIOUS
<1>0. TypeInv
  BY DEF PastInv
<1> PICK s : s = heap[g][f]
  OBVIOUS
<1>1. g \in Gens /\ f \in Files /\ s \in Sites /\ b \in BOOLEAN
  BY <1>0, FlagWritten
<1>2. UNCHANGED <<disk, store, byDomain, routes, runtimes, faults>>
      /\ store \in Gens /\ routes \in Gens
  BY <1>0 DEF WriteFlag, TypeInv, TypeOK
<1>3. past' = past /\ toggled' = toggled \cup {f}
  BY <1>2, PastGrows DEF PastInv
<1>4. /\ heap'[g][f] = [s EXCEPT !.enabled = b]
      /\ heap' \in [Gens -> [Files -> Sites \cup {NoSite}]]
      /\ heap \in [Gens -> [Files -> Sites \cup {NoSite}]]
  BY <1>0, FlagWritten DEF TypeInv, TypeOK
<1>5. \A k \in Gens, e \in Files :
        (k # req[h].gen \/ e # req[h].file) => heap'[k][e] = heap[k][e]
  BY <1>0, FlagWritten
<1>6. s \in Site /\ s # NoSite /\ s.enabled \in BOOLEAN
  BY <1>1, SitesAssumption DEF Site
<1>7. heap'[g][f] \in {s, V!Flip(s)}
  <2>1. b = s.enabled => [s EXCEPT !.enabled = b] = s
    BY <1>6 DEF Site
  <2>2. b = ~s.enabled => [s EXCEPT !.enabled = b] = V!Flip(s)
    BY <1>6 DEF V!Flip
  <2> QED BY <1>1, <1>4, <1>6, <2>1, <2>2
<1>8. \A k \in Gens : heap'[k] \in {heap[k], V!FlippedIn(heap[k], {f})}
  <2> SUFFICES ASSUME NEW k \in Gens PROVE heap'[k] \in {heap[k], V!FlippedIn(heap[k], {f})}
    OBVIOUS
  <2>1. heap'[k] = [e \in Files |-> heap'[k][e]] /\ heap[k] = [e \in Files |-> heap[k][e]]
    BY <1>4
  <2>2. CASE k # g \/ heap'[g][f] = s
    <3>1. \A e \in Files : heap'[k][e] = heap[k][e]
      BY <1>5, <2>2
    <3> QED BY <2>1, <3>1
  <2>3. CASE k = g /\ heap'[g][f] = V!Flip(s)
    <3>1. \A e \in Files : heap'[k][e] =
            IF e \in {f} /\ heap[k][e] # NoSite THEN V!Flip(heap[k][e]) ELSE heap[k][e]
      BY <1>5, <1>6, <2>3
    <3> QED BY <2>1, <3>1 DEF V!FlippedIn
  <2> QED BY <1>7, <2>2, <2>3
<1>9. /\ heap'[store'] \in {heap[store], V!FlippedIn(heap[store], {f})}
      /\ heap'[routes'] \in {heap[routes], V!FlippedIn(heap[routes], {f})}
  BY <1>2, <1>8
<1> QED BY <1>1, <1>2, <1>3, <1>9 DEF V!Toggle

\* A file changes to what was offered, to a version that a toggle found in memory, or
\* goes away.
LEMMA WriteStep ==
  ASSUME PastInv, PastNext, ~Crash, Steady,
         NEW f \in Files, NEW c \in Offer \cup V!Known(f), disk' = [disk EXCEPT ![f] = c],
         UNCHANGED <<heap, store, byDomain, routes, runtimes>>
  PROVE  V!Write
<1>1. /\ disk \in [Files -> Contents] /\ disk' \in [Files -> Contents]
      /\ past \in [Files -> SUBSET Contents] /\ past' \in [Files -> SUBSET Contents]
  <2>1. PastInv'
    BY PastInvStep
  <2> QED BY <2>1 DEF PastInv, DiskIsPast, TypeInv, TypeOK
<1>2. disk'[f] = c /\ c \in Contents
  BY <1>1
<1>3. toggled' = toggled /\ \A e \in Files : past'[e] = past[e] \cup {disk'[e]}
  BY PastGrows DEF PastInv, Steady
<1>4. past' = [past EXCEPT ![f] = past[f] \cup {c}]
  <2>1. past'[f] = past[f] \cup {c}
    BY <1>2, <1>3
  <2>2. ASSUME NEW e \in Files, e # f PROVE past'[e] = past[e]
    <3>1. disk'[e] = disk[e] /\ disk[e] \in past[e]
      BY <1>1, <2>2 DEF PastInv, DiskIsPast
    <3> QED BY <1>3, <3>1
  <2> QED BY <1>1, <2>1, <2>2
<1>5. heap'[store'] = heap[store] /\ heap'[routes'] = heap[routes]
  OBVIOUS
<1> QED BY <1>2, <1>3, <1>4, <1>5, DamageStays DEF V!Write, Offer

LEMMA RestartStep ==
  ASSUME PastInv, PastNext, Crash
  PROVE  V!Restart
<1>1. past' = V!Since(disk) /\ disk' = disk /\ toggled' = {}
  BY CrashForgets DEF PastInv
<1>2. heap'[store'] = NoSites /\ heap'[routes'] = NoSites
  BY BoundsAssumption DEF Crash, Gens
<1>3. byDomain' = V!NoTable /\ runtimes' = V!NoTable
  BY DEF Crash, NoRoutes, V!NoTable
<1> QED BY <1>1, <1>2, <1>3 DEF V!Restart, Crash

LEMMA ReloadMaps ==
  ASSUME PastInv, PastNext, ~Crash, Steady, NEW p \in Procs, Reload(p)
  PROVE  V!Next
<1> USE DEF fileVars, tableVars, storeVars, routerVars, loadVars
<1>1. CASE ReadDir(p) \/ ReadFile(p)
  <2>1. UNCHANGED <<disk, store, byDomain, routes, runtimes>>
    BY <1>1 DEF ReadDir, ReadFile
  <2>2. store \in Live /\ routes \in Live /\ store \in Gens /\ routes \in Gens
    BY DEF Live, PastInv, TypeInv, TypeOK
  <2>3. heap'[store] = heap[store] /\ heap'[routes] = heap[routes]
    <3>1. CASE ReadDir(p)
      BY <2>2, <3>1 DEF ReadDir
    <3>2. CASE ReadFile(p)
      BY <2>2, <3>2 DEF ReadFile, Private, PastInv, TypeInv, TypeOK
    <3> QED BY <1>1, <3>1, <3>2
  <2> QED BY <2>1, <2>3, QuietStep DEF V!Next
<1>2. CASE Look(p) \/ SyncDomains(p) \/ Prune(p)
  <2>1. UNCHANGED <<disk, heap, store, byDomain, routes, runtimes>>
    BY <1>2 DEF Look, SyncDomains, EndLoop, Prune
  <2> QED BY <2>1, QuietStep DEF V!Next
<1>3. CASE Replace(p) \/ RouterReload(p)
  BY <1>3, InstallStep DEF V!Next
<1> QED BY <1>1, <1>2, <1>3 DEF Reload

LEMMA HandlerMaps ==
  ASSUME PastInv, PastNext, ~Crash, Steady, NEW h \in Handlers,
         HandlerBegins(h) \/ (HandlerStep(h) /\ ~Reload(h))
  PROVE  V!Next
<1>1. UNCHANGED <<heap, store, byDomain, routes, runtimes>>
  BY HandlerMoves DEF Steady, PastInv, tableVars, storeVars, routerVars
<1>2. CASE disk' = disk
  BY <1>1, <1>2, QuietStep DEF V!Next
<1>3. CASE disk' # disk
  <2>1. ~HandlerBegins(h) /\ ~ReadFlag(h) /\ ~WriteFlag(h)
    BY <1>3, BeginAccepts DEF Accept, ReadFlag, Steady, fileVars, PastInv
  <2>2. /\ req[h].file \in Files
        /\ \E c \in Offer \cup V!Known(req[h].file) :
             disk' \in {disk, [disk EXCEPT ![req[h].file] = c]}
    BY <2>1, EditLeaves DEF HandlerStep, PastInv
  <2> QED BY <1>1, <1>3, <2>2, WriteStep DEF V!Next
<1> QED BY <1>2, <1>3

\* Every step of HotReload is a step of Versions.
LEMMA StepMaps ==
  ASSUME PastInv, PastNext
  PROVE  V!Next
<1> USE DEF fileVars, tableVars, storeVars, routerVars, loadVars
<1>1. CASE Crash
  BY <1>1, RestartStep DEF V!Next
<1>2. ASSUME NEW h \in Handlers, WriteFlag(h), ~Crash PROVE V!Next
  BY <1>2, FlipStep DEF V!Next
<1>3. ASSUME ~Crash, Steady, WatcherLoop \/ WatcherStops PROVE V!Next
  <2>1. UNCHANGED <<disk, heap, store, byDomain, routes, runtimes>>
    BY <1>3 DEF WatcherLoop, StartWatch, ReceiveEvent, TimerFires, WatcherStops
  <2> QED BY <1>3, <2>1, QuietStep DEF V!Next
<1>4. ASSUME ~Crash, Steady, ExternalEdit PROVE V!Next
  <2>1. PICK f \in Files \ Pinned, c \in Written : disk' = [disk EXCEPT ![f] = c]
    BY <1>4 DEF ExternalEdit
  <2>2. UNCHANGED <<heap, store, byDomain, routes, runtimes>> /\ c \in Offer
    BY <1>4 DEF ExternalEdit, Offer
  <2> QED BY <1>4, <2>1, <2>2, WriteStep DEF V!Next
<1>5. CASE Steady
  BY <1>1, <1>3, <1>4, <1>5, ReloadMaps, HandlerMaps, WatcherIsAProc DEF PastNext, Next
<1> QED BY <1>1, <1>2, <1>5 DEF Steady

LEMMA InitMaps == PastInit => V!Init
<1> SUFFICES ASSUME Init, past = V!Since(disk), toggled = {} PROVE V!Init
  BY DEF PastInit
<1>1. disk \in [Files -> Contents] /\ (faults > 0) = FALSE
  BY DiskAssumption DEF Init
<1>2. heap[store] = NoSites /\ heap[routes] = NoSites
  BY BoundsAssumption DEF Init, Gens
<1>3. byDomain = V!NoTable /\ runtimes = V!NoTable
  BY DEF Init, NoRoutes, V!NoTable
<1> QED BY <1>1, <1>2, <1>3 DEF V!Init

\* HotReload implements Versions: whatever edits, saves (of one file at once, too),
\* toggles, deletes, failed operations and restarts cross a reload and the loops that
\* make its tables, what is in use are whole lists of sites that their files really
\* had, and tables of such lists but for the flags of toggled sites.
THEOREM VersionsImplemented == PastSpec => ImplementsVersions
<1>1. PastInv /\ [PastNext]_<<vars, past, toggled>> => [V!Next]_V!vars
  <2>1. ASSUME UNCHANGED <<vars, past, toggled>> PROVE UNCHANGED V!vars
    BY <2>1
    DEF vars, fileVars, loadVars, tableVars, storeVars, routerVars, boundVars, V!vars
  <2> QED BY <2>1, StepMaps
<1> QED
  BY <1>1, InitMaps, PastInvInit, PastInvStep, PTL
  DEF PastSpec, ImplementsVersions, V!Spec
=============================================================================
