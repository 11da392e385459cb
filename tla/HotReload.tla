----------------------------- MODULE HotReload ------------------------------
(***************************************************************************)
(* Hot reload of the site files: the sites/ directory, the fsnotify        *)
(* watcher with its debounce timer (internal/config/watcher.go), the admin *)
(* handlers that edit, toggle and delete sites (internal/ui/ui.go), and    *)
(* the reload that both run, unsynchronised, through LoadSites,            *)
(* Store.Replace and OnReload (cmd/jobcloud/main.go).                      *)
(*                                                                         *)
(* A process is a goroutine: the watcher, or the handler of one admin      *)
(* request.  One action is one lock-protected section, one file operation  *)
(* or one access to the enabled flag of a shared site.  A load allocates   *)
(* fresh *Site objects; the handlers that toggle a site write into them    *)
(* while the store, the router's reload and other handlers hold the same   *)
(* pointers, so the loads are kept as a heap and everything else refers to *)
(* a load by its number.  The loops that make a table read the flags one   *)
(* by one, and swap the table in later.                                    *)
(*                                                                         *)
(* Handlers that save one site share its name.tmp.  What a reader finds    *)
(* between the open and the read of a file is left to WatchLoop, and what  *)
(* the metrics keep of a reload to Proxy.                                  *)
(***************************************************************************)
EXTENDS SiteConfig

CONSTANTS
  Watcher,      \* the watcher goroutine
  Handlers,     \* admin requests; each runs at most once
  Broken,       \* a file that is not a YAML site document
  Absent,       \* there is no such file
  Empty,        \* a file of no bytes
  Blends,       \* what is left of a document that was written over a longer one,
                \* or in part
  Pinned,       \* files that nobody writes during the run
  InitialDisks, \* the contents of sites/ at the first start
  Posted,       \* the sites that the form is submitted with
  Written,      \* the contents that edits from outside leave in a file
  MaxLoads,     \* bound: loads that are alive at a time
  MaxEvents,    \* bound: queued events; the kernel merges equal ones
  MaxEdits,     \* bound: edits from outside (editor, git pull, scp)
  MaxMishaps    \* bound: file operations that fail, and deaths of the process

Contents == Sites \cup {Broken, Absent, Empty}
Procs    == Handlers \cup {Watcher}
Gens     == 0..MaxLoads       \* number 0 is the empty list of NewStore

ASSUME ProcsAssumption == Watcher \notin Handlers

ASSUME DiskAssumption ==
  /\ {Broken, Absent, Empty} \cap Sites = {} /\ Absent \notin {Broken, Empty}
  /\ Blends \subseteq Contents \ {Absent}
  /\ Pinned \subseteq Files
  /\ InitialDisks \subseteq [Files -> Contents]
  /\ Posted \subseteq Sites /\ Written \subseteq Contents

ASSUME BoundsAssumption ==
  MaxLoads \in Nat /\ MaxEvents \in Nat \ {0} /\ MaxEdits \in Nat /\ MaxMishaps \in Nat

VARIABLES
  disk,      \* what each file of sites/ holds
  tmp,       \* what the name.tmp of each holds
  fd,        \* what the file that a handler writes to is called by now
  events,    \* change events queued by the kernel and not yet received
  timer,     \* the debounce timer is running
  pc,        \* where each goroutine is
  todo,      \* the directory entries a load has still to read
  mine,      \* the load a goroutine works on
  heap,      \* the site objects of each load
  flags,     \* the enabled flags that the loop over its sites has read
  store,     \* the load whose list config.Store holds
  byDomain,  \* the Host index of config.Store
  routes,    \* the load that the router's runtimes were built from
  runtimes,  \* the runtimes map of proxy.Router
  managed,   \* the domains certmagic has been told to manage
  req,       \* what an admin request is about
  edits, faults, crashes

fileVars   == <<disk, tmp, fd, events>>
loadVars   == <<todo, mine, heap, flags>>
storeVars  == <<store, byDomain>>
routerVars == <<routes, runtimes>>
tableVars  == <<storeVars, routerVars, managed>>
boundVars  == <<edits, faults, crashes>>
vars == <<fileVars, timer, pc, loadVars, tableVars, req, boundVars>>

NoSites  == [f \in Files |-> NoSite]
NoRoutes == [n \in Names |-> NoFile]
NoReq    == [op |-> "none", file |-> NoFile, gen |-> 0, site |-> NoSite,
             flag |-> FALSE]

Requests == [op : {"none", "toggle", "save", "delete"},
             file : Files \cup {NoFile}, gen : Gens,
             site : Contents \cup {NoSite}, flag : BOOLEAN]

Unread   == [f \in Files |-> "unread"]

WatcherSteps == {"start", "select", "exited"}
HandlerSteps ==
  {"idle", "read", "flip", "save", "open", "write", "rename", "remove", "done"}
ReloadSteps  == {"dir", "file", "router", "acme", "prune"}

TypeOK ==
  /\ disk \in [Files -> Contents] /\ tmp \in [Files -> Contents]
  /\ fd \in [Handlers -> {"none", "tmp", "site", "lost"}]
  /\ events \in 0..MaxEvents /\ timer \in BOOLEAN
  /\ pc \in [Procs -> WatcherSteps \cup HandlerSteps \cup ReloadSteps]
  /\ todo \in [Procs -> SUBSET Files] /\ mine \in [Procs -> Gens]
  /\ heap \in [Gens -> [Files -> Sites \cup {NoSite}]]
  /\ flags \in [Procs -> [Files -> {"unread", "on", "off"}]]
  /\ store \in Gens /\ byDomain \in [Names -> Files \cup {NoFile}]
  /\ routes \in Gens /\ runtimes \in [Names -> Files \cup {NoFile}]
  /\ managed \in SUBSET Names
  /\ req \in [Handlers -> Requests]
  /\ edits \in 0..MaxEdits /\ faults \in 0..MaxMishaps
  /\ crashes \in 0..MaxMishaps

\* main builds empty tables; the watcher goroutine does the initial load.
Init ==
  /\ disk \in InitialDisks /\ tmp = [f \in Files |-> Absent]
  /\ fd = [h \in Handlers |-> "none"]
  /\ events = 0 /\ timer = FALSE
  /\ pc = [p \in Procs |-> IF p = Watcher THEN "start" ELSE "idle"]
  /\ todo = [p \in Procs |-> {}] /\ mine = [p \in Procs |-> 0]
  /\ heap = [g \in Gens |-> NoSites] /\ flags = [p \in Procs |-> Unread]
  /\ store = 0 /\ byDomain = NoRoutes
  /\ routes = 0 /\ runtimes = NoRoutes
  /\ managed = {}
  /\ req = [h \in Handlers |-> NoReq]
  /\ edits = 0 /\ faults = 0 /\ crashes = 0

-----------------------------------------------------------------------------
(* Shared pieces. *)

Goto(p, step) == pc' = [pc EXCEPT ![p] = step]

\* Mutant of Watching: the watch is added after the initial load.
WatchingLate == pc[Watcher] = "select"

\* The directory watch is in place: fw.Add has returned, fw.Close has not run.
Watching == pc[Watcher] \notin {"start", "exited"}

\* A name of the directory changes, or a file in it: the kernel queues an event
\* when the directory is watched.
Notify == events' = IF Watching /\ events < MaxEvents THEN events + 1 ELSE events

\* The files that handlers write to, once a name is given away or taken: the .tmp
\* that becomes the site's file stays open, and a file without a name can no
\* longer be found.
Renamed  == [none |-> "none", tmp |-> "site", site |-> "lost", lost |-> "lost"]
Unlinked == [none |-> "none", tmp |-> "tmp", site |-> "lost", lost |-> "lost"]
Relink(f, name) ==
  fd' = [h \in Handlers |-> IF req[h].file = f THEN name[fd[h]] ELSE fd[h]]

\* The loads that a table, a goroutine or a request still points into.
Live ==
  {0, store, routes} \cup {mine[p] : p \in Procs} \cup {req[h].gen : h \in Handlers}

\* The handler has answered: what it pointed to is garbage.
Answer(h) ==
  /\ Goto(h, "done")
  /\ req' = [req EXCEPT ![h] = NoReq]

\* A file operation fails (permissions, descriptors, a full disk).
Fault == faults + crashes < MaxMishaps /\ faults' = faults + 1 /\ UNCHANGED <<edits, crashes>>

-----------------------------------------------------------------------------
(* The reload: LoadSites, Store.Replace, OnReload. *)

\* os.ReadDir.  The list stays empty when it fails.  The load's objects are
\* new: they take a number that nothing points to.
ReadDir(p) ==
  /\ pc[p] = "dir"
  /\ \E g \in Gens \ Live :
       /\ \A k \in Gens \ Live : g <= k
       /\ mine' = [mine EXCEPT ![p] = g]
       /\ heap' = [k \in Gens |-> IF k \in Live THEN heap[k] ELSE NoSites]
       /\ \/ /\ todo' = [todo EXCEPT ![p] = {f \in Files : disk[f] # Absent}]
             /\ UNCHANGED boundVars
          \/ /\ Fault
             /\ todo' = [todo EXCEPT ![p] = {}]
  /\ Goto(p, "file")
  /\ UNCHANGED <<fileVars, timer, flags, tableVars, req>>

\* Mutant of ReadFile: the first invalid file ends the load.
ReadFileAborts(p) ==
  /\ pc[p] = "file"
  /\ \E f \in todo[p] :
       /\ \A g \in todo[p] : f <= g
       /\ todo' = [todo EXCEPT ![p] =
                     IF LoadSiteFile(disk[f]) = NoSite THEN {} ELSE @ \ {f}]
       /\ heap' = [heap EXCEPT ![mine[p]][f] = LoadSiteFile(disk[f])]
  /\ UNCHANGED <<fileVars, timer, pc, mine, flags, tableVars, req, boundVars>>

\* One turn of the loop over the entries, in directory order.
ReadFile(p) ==
  /\ pc[p] = "file"
  /\ \E f \in todo[p] :
       /\ \A g \in todo[p] : f <= g
       /\ todo' = [todo EXCEPT ![p] = @ \ {f}]
       /\ \/ /\ heap' = [heap EXCEPT ![mine[p]][f] = LoadSiteFile(disk[f])]
             /\ UNCHANGED boundVars
          \/ Fault /\ UNCHANGED heap
  /\ UNCHANGED <<fileVars, timer, pc, mine, flags, tableVars, req>>

\* The sites whose flag a loop over the list has still to read: the loop of
\* Store.Replace once the files are read, those of Router.Reload and of
\* DomainsFromSites.
Ahead(p) ==
  {f \in Files : /\ pc[p] \in {"router", "acme"} \/ (pc[p] = "file" /\ todo[p] = {})
                 /\ heap[mine[p]][f] # NoSite /\ flags[p][f] = "unread"}

\* One turn of such a loop, in the order of the list.
Look(p) ==
  /\ \E f \in Ahead(p) :
       /\ \A g \in Ahead(p) \ {f} : Before(heap[mine[p]], f, g)
       /\ flags' = [flags EXCEPT ![p][f] = IF heap[mine[p]][f].enabled THEN "on" ELSE "off"]
  /\ UNCHANGED <<fileVars, timer, pc, todo, mine, heap, tableVars, req, boundVars>>

\* The list as the loop has found it.
Looked(p) ==
  [f \in Files |-> IF heap[mine[p]][f] = NoSite THEN NoSite
                   ELSE [heap[mine[p]][f] EXCEPT !.enabled = flags[p][f] = "on"]]

\* A loop has come to its end, and what it has made is put in place.
EndLoop(p, step) ==
  /\ Ahead(p) = {}
  /\ flags' = [flags EXCEPT ![p] = Unread]
  /\ Goto(p, step)
  /\ UNCHANGED <<fileVars, timer, todo, mine, heap, req, boundVars>>

\* Mutant of Replace: the index of the list before is not emptied.
ReplaceAdds(p) ==
  /\ pc[p] = "file" /\ todo[p] = {} /\ EndLoop(p, "router")
  /\ store' = mine[p]
  /\ byDomain' = [n \in Names |-> IF ByDomain(Looked(p))[n] # NoFile
                                 THEN ByDomain(Looked(p))[n] ELSE byDomain[n]]
  /\ UNCHANGED <<routerVars, managed>>

\* Store.Replace swaps the list and its index under the lock.
Replace(p) ==
  /\ pc[p] = "file" /\ todo[p] = {} /\ EndLoop(p, "router")
  /\ store' = mine[p]
  /\ byDomain' = ByDomain(Looked(p))
  /\ UNCHANGED <<routerVars, managed>>

\* Router.Reload swaps the runtimes, with the flags as its own loop has read them.
RouterReload(p) ==
  /\ pc[p] = "router" /\ EndLoop(p, "acme")
  /\ routes' = mine[p]
  /\ runtimes' = Runtimes(Looked(p))
  /\ UNCHANGED <<storeVars, managed>>

\* certmagic's ManageAsync: it adds what it is given to what it manages.
ManageAsync(domains) == managed' = managed \cup domains

\* Manager.SyncDomains on what DomainsFromSites has collected, with its early return.
SyncDomains(p) ==
  /\ pc[p] = "acme" /\ EndLoop(p, "prune")
  /\ IF CertDomains(Looked(p)) = {} THEN UNCHANGED managed
     ELSE ManageAsync(CertDomains(Looked(p)))
  /\ UNCHANGED <<storeVars, routerVars>>

\* The reload's last step, Registry.Prune: the watcher loops, a handler redirects.
Prune(p) ==
  /\ pc[p] = "prune"
  /\ IF p = Watcher
     THEN Goto(p, "select") /\ UNCHANGED <<mine, req>>
     ELSE Answer(p) /\ mine' = [mine EXCEPT ![p] = 0]
  /\ UNCHANGED <<fileVars, timer, todo, heap, flags, tableVars, boundVars>>

Reload(p) ==
  \/ ReadDir(p) \/ ReadFile(p) \/ Look(p) \/ Replace(p)
  \/ RouterReload(p) \/ SyncDomains(p) \/ Prune(p)

-----------------------------------------------------------------------------
(* The watcher. *)

\* fw.Add before the first load; when it fails the goroutine is gone for good.
StartWatch ==
  /\ pc[Watcher] = "start"
  /\ \/ Goto(Watcher, "dir") /\ UNCHANGED boundVars
     \/ Fault /\ Goto(Watcher, "exited")
  /\ UNCHANGED <<fileVars, timer, loadVars, tableVars, req>>

\* One event is received: the timer is armed, or armed anew.
ReceiveEvent ==
  /\ pc[Watcher] = "select" /\ events > 0
  /\ events' = events - 1
  /\ timer' = TRUE
  /\ UNCHANGED <<disk, tmp, fd, pc, loadVars, tableVars, req, boundVars>>

\* The timer channel is ready.
TimerFires ==
  /\ pc[Watcher] = "select" /\ timer
  /\ timer' = FALSE
  /\ Goto(Watcher, "dir")
  /\ UNCHANGED <<fileVars, loadVars, tableVars, req, boundVars>>

\* ctx is cancelled, or fsnotify closed its channels: Run returns, defer Close.
WatcherStops ==
  /\ pc[Watcher] = "select"
  /\ events' = 0 /\ timer' = FALSE
  /\ Goto(Watcher, "exited")
  /\ UNCHANGED <<disk, tmp, fd, loadVars, tableVars, req, boundVars>>

WatcherLoop == StartWatch \/ ReceiveEvent \/ TimerFires

-----------------------------------------------------------------------------
(* The admin handlers. *)

\* The site that handleSitesItem finds in the store's snapshot by file name.
Listed(f) == heap[store][f] # NoSite

Accept(h, request, step) ==
  /\ pc[h] = "idle"
  /\ req' = [req EXCEPT ![h] = request]
  /\ Goto(h, step)
  /\ UNCHANGED <<fileVars, timer, loadVars, tableVars, boundVars>>

\* 404: the store lists no site of that file.
NotFound(h) ==
  /\ \E f \in Files \ Pinned : ~Listed(f)
  /\ Accept(h, NoReq, "done")

\* Toggle: the handler keeps the pointer it found.
BeginToggle(h, f) ==
  /\ Listed(f)
  /\ Accept(h, [NoReq EXCEPT !.op = "toggle", !.file = f, !.gen = store], "read")

\* A form posted for a listed file.
BeginUpdate(h, f, form) ==
  /\ Listed(f)
  /\ Accept(h, [NoReq EXCEPT !.op = "save", !.file = f, !.site = form], "save")

\* A form for a new site: SaveSite derives the file from the domain.
BeginCreate(h, form) ==
  /\ FileOf[form.domain] \notin Pinned
  /\ Accept(h, [NoReq EXCEPT !.op = "save", !.file = FileOf[form.domain],
                             !.site = form], "save")

\* The delete action does not look at the site it found.
BeginDelete(h, f) ==
  Accept(h, [NoReq EXCEPT !.op = "delete", !.file = f], "remove")

\* site.Enabled = !site.Enabled on the shared object, with no lock: a load ...
ReadFlag(h) ==
  /\ pc[h] = "read"
  /\ req' = [req EXCEPT ![h].flag = heap[req[h].gen][req[h].file].enabled]
  /\ Goto(h, "flip")
  /\ UNCHANGED <<fileVars, timer, loadVars, tableVars, boundVars>>

\* ... and a store.
WriteFlag(h) ==
  /\ pc[h] = "flip"
  /\ heap' = [heap EXCEPT ![req[h].gen][req[h].file].enabled = ~req[h].flag]
  /\ Goto(h, "save")
  /\ UNCHANGED <<fileVars, timer, todo, mine, flags, tableVars, req, boundVars>>

\* What SaveSite marshals: the form, or the shared object as it is now.
SavedSite(h) ==
  IF req[h].op = "toggle" THEN heap[req[h].gen][req[h].file] ELSE req[h].site

\* SaveSite begins: from here on it is about bytes.
Marshal(h) ==
  /\ pc[h] = "save" /\ Validate(SavedSite(h))
  /\ req' = [req EXCEPT ![h] = [@ EXCEPT !.site = SavedSite(h), !.gen = 0]]
  /\ Goto(h, "open")
  /\ UNCHANGED <<fileVars, timer, loadVars, tableVars, boundVars>>

\* SaveSite returns an error: the site is invalid.
SaveRejected(h) ==
  /\ pc[h] = "save" /\ ~Validate(SavedSite(h))
  /\ Answer(h)
  /\ UNCHANGED <<fileVars, timer, loadVars, tableVars, boundVars>>

\* os.WriteFile opens name.tmp: it is created, or emptied under whoever writes it.
OpenTmp(h) ==
  /\ pc[h] = "open" /\ Notify
  /\ tmp' = [tmp EXCEPT ![req[h].file] = Empty]
  /\ fd' = [fd EXCEPT ![h] = "tmp"]
  /\ Goto(h, "write")
  /\ UNCHANGED <<disk, timer, loadVars, tableVars, req, boundVars>>

\* What a document leaves in a file that another one was written to before.
WrittenOver(old, doc) == IF old \in {Empty, doc} THEN {doc} ELSE {doc} \cup Blends

\* What is in the file that the handler has open, by whatever name.
Found(h) == IF fd[h] = "site" THEN disk[req[h].file] ELSE tmp[req[h].file]

\* It comes to hold one of these, and is closed.
Fill(h, contents) ==
  /\ \E c \in contents :
       /\ tmp'  = IF fd[h] = "tmp"  THEN [tmp EXCEPT ![req[h].file] = c] ELSE tmp
       /\ disk' = IF fd[h] = "site" THEN [disk EXCEPT ![req[h].file] = c] ELSE disk
  /\ fd' = [fd EXCEPT ![h] = "none"]
  /\ Notify

\* The document is written from the start of the file, which the save of another
\* request may have renamed to the site's own since it was opened.
WriteTmp(h) ==
  /\ pc[h] = "write"
  /\ Fill(h, WrittenOver(Found(h), req[h].site))
  /\ Goto(h, "rename")
  /\ UNCHANGED <<timer, loadVars, tableVars, req, boundVars>>

\* name.tmp, whoever wrote it, becomes the site's file.  Then triggerReload.
Rename(h) ==
  LET f == req[h].file IN
  /\ pc[h] = "rename" /\ tmp[f] # Absent
  /\ disk' = [disk EXCEPT ![f] = tmp[f]] /\ tmp' = [tmp EXCEPT ![f] = Absent]
  /\ Relink(f, Renamed) /\ Notify
  /\ Goto(h, "dir")
  /\ req' = [req EXCEPT ![h] = NoReq]
  /\ UNCHANGED <<timer, loadVars, tableVars, boundVars>>

\* SaveSite returns an error: the rename finds that another request's has taken
\* name.tmp, or a file operation failed, perhaps half-way through the document.
\* A toggle's flag stays flipped in memory.
SaveFails(h) ==
  /\ \/ /\ pc[h] = "rename" /\ tmp[req[h].file] = Absent
        /\ UNCHANGED <<fileVars, boundVars>>
     \/ /\ pc[h] \in {"open", "rename"} /\ Fault
        /\ UNCHANGED fileVars
     \/ /\ pc[h] = "write" /\ Fault
        /\ Fill(h, {Found(h)} \cup Blends)
  /\ Answer(h)
  /\ UNCHANGED <<timer, loadVars, tableVars>>

\* DeleteSite, then triggerReload.
DeleteSite(h) ==
  LET f == req[h].file IN
  /\ pc[h] = "remove" /\ disk[f] # Absent
  /\ disk' = [disk EXCEPT ![f] = Absent]
  /\ Relink(f, Unlinked) /\ Notify
  /\ Goto(h, "dir")
  /\ req' = [req EXCEPT ![h] = NoReq]
  /\ UNCHANGED <<tmp, timer, loadVars, tableVars, boundVars>>

\* os.Remove returns an error: there is no such file, or it failed.
DeleteFails(h) ==
  /\ pc[h] = "remove"
  /\ (disk[req[h].file] = Absent /\ UNCHANGED boundVars) \/ Fault
  /\ Answer(h)
  /\ UNCHANGED <<fileVars, timer, loadVars, tableVars>>

HandlerStep(h) ==
  \/ ReadFlag(h) \/ WriteFlag(h)
  \/ Marshal(h) \/ SaveRejected(h)
  \/ OpenTmp(h) \/ WriteTmp(h) \/ Rename(h) \/ SaveFails(h)
  \/ DeleteSite(h) \/ DeleteFails(h) \/ Reload(h)

HandlerBegins(h) ==
  \/ NotFound(h)
  \/ \E f \in Files \ Pinned : BeginToggle(h, f) \/ BeginDelete(h, f)
  \/ \E f \in Files \ Pinned, form \in Posted : BeginUpdate(h, f, form)
  \/ \E form \in Posted : BeginCreate(h, form)

-----------------------------------------------------------------------------
(* The world outside. *)

\* A site's file is removed, replaced, or written in place.
ExternalEdit ==
  /\ edits < MaxEdits /\ edits' = edits + 1
  /\ \E f \in Files \ Pinned, c \in Written :
       /\ disk[f] # c /\ disk' = [disk EXCEPT ![f] = c]
       /\ Relink(f, Unlinked) \/ (disk[f] # Absent /\ c # Absent /\ UNCHANGED fd)
  /\ Notify
  /\ UNCHANGED <<tmp, timer, pc, loadVars, tableVars, req, faults, crashes>>

\* The process dies between any two steps and docker restarts it.
Crash ==
  /\ faults + crashes < MaxMishaps /\ crashes' = crashes + 1
  /\ fd' = [h \in Handlers |-> "none"] /\ events' = 0 /\ timer' = FALSE
  /\ todo' = [p \in Procs |-> {}] /\ mine' = [p \in Procs |-> 0]
  /\ heap' = [g \in Gens |-> NoSites] /\ flags' = [p \in Procs |-> Unread]
  /\ store' = 0 /\ byDomain' = NoRoutes
  /\ routes' = 0 /\ runtimes' = NoRoutes
  /\ managed' = {}
  /\ req' = [h \in Handlers |-> NoReq]
  /\ pc' = [p \in Procs |-> IF p = Watcher THEN "start"
                            ELSE IF pc[p] = "idle" THEN "idle" ELSE "done"]
  /\ UNCHANGED <<disk, tmp, edits, faults>>

Next ==
  \/ WatcherLoop \/ WatcherStops \/ Reload(Watcher)
  \/ \E h \in Handlers : HandlerBegins(h) \/ HandlerStep(h)
  \/ ExternalEdit \/ Crash

Spec == Init /\ [][Next]_vars

\* The Go scheduler runs every goroutine that is not blocked on a channel, and
\* the armed timer expires: the watcher moves on, a started request moves on.
FairSpec ==
  /\ Spec
  /\ WF_vars(WatcherLoop) /\ WF_vars(Reload(Watcher))
  /\ \A h \in Handlers : WF_vars(HandlerStep(h))

-----------------------------------------------------------------------------
(* Properties. *)

\* What a load would read if nobody else touched the directory.
FromDisk == [f \in Files |-> LoadSiteFile(disk[f])]

\* The watcher has nothing left to do and no toggle is half way.
Settled ==
  /\ pc[Watcher] = "select" /\ events = 0 /\ ~timer
  /\ \A h \in Handlers : req[h].op # "toggle"

\* Whatever came in between (edits while the directory was being read, handlers
\* that reloaded at the same time, toggles that wrote into the very objects the
\* tables hold), once the watcher has settled and its own load is the one that
\* is installed, that load is the directory: watcher.go adds the watch before
\* the first load and clears the timer before it reloads, so no change is lost.
WatcherHasLastWord ==
  (Settled /\ faults = 0) =>
    /\ store = mine[Watcher] =>
         heap[store] = FromDisk /\ byDomain = ByDomain(FromDisk)
    /\ routes = mine[Watcher] =>
         runtimes = Runtimes(FromDisk)

\* A site that nobody edits, valid and enabled, is routed from the first load
\* on: no interleaving of the reloads of other goroutines, no broken or deleted
\* file beside it and no half-installed pair of tables takes its hosts away, in
\* the store's index or in the router's runtimes.  (LoadSites: a broken site
\* doesn't take down the whole proxy.)
UntouchedStaysRouted ==
  faults = 0 =>
    \A f \in Pinned :
      LET s == LoadSiteFile(disk[f]) IN
      (s # NoSite /\ s.enabled) =>
        \A d \in AllDomains(s) :
          /\ (store # 0) => byDomain[Lower[d]] # NoFile
          /\ (routes # 0 /\ (\A u \in s.ups : ParsesUpstream(u)))
               => runtimes[d] # NoFile

\* Once the watcher has settled, certmagic manages every name of the enabled sites
\* with tls.auto in the directory, whoever filled the tables last: the names are
\* collected in a loop of their own, after the store and the router were given
\* the list, from flags that toggles change meanwhile.
CertsCoverDirectory ==
  (Settled /\ faults = 0) =>
    \A f \in Files :
      LET s == LoadSiteFile(disk[f]) IN
      (s # NoSite /\ s.enabled /\ s.auto) => AllDomains(s) \subseteq managed

\* Both tables are what the directory holds.
TablesMatchDisk ==
  /\ heap[store] = FromDisk /\ byDomain = ByDomain(FromDisk)
  /\ runtimes = Runtimes(FromDisk)

\* The files stop changing, so the watcher, unless it has returned, makes the
\* tables match them for good, after a crash and restart too, with admin requests
\* in between; unless a file operation failed, or an admin's reload, which may be
\* older (see SettledTablesMatchDisk), was installed last.
ChangesReachTables ==
  <>[](\/ pc[Watcher] = "exited" \/ TablesMatchDisk \/ faults > 0
       \/ store # mine[Watcher] \/ routes # mine[Watcher])

\* README.md on hot reload: any change triggers a debounced reload that
\* rebuilds the in-memory routing table atomically.  With nothing pending, the
\* tables should therefore be those of the directory, whoever reloaded last.
SettledTablesMatchDisk ==
  (Settled /\ \A h \in Handlers : pc[h] \in {"idle", "done"}) => TablesMatchDisk
=============================================================================
