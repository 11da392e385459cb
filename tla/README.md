# jobcloud in TLA+

A specification of `jobcloud`, the reverse proxy with an admin UI in this
repository: TLA+ modules translated from the Go code, TLC configurations that
check them on small instances, and TLAPS proofs of the main results for every
value of the constants.

Run from this directory: `tlc -config X.cfg M` checks module `M`,
`tlapm M.tla` checks the proofs of `M`.  `PROJECT.json` maps each definition to
the source lines it stands for and lists runs, mutants, findings, hazards and
theorems.

## The system

One process.  `sites/*.yml` is the database; everything else is rebuilt from it.

| part | state | operations | who calls it |
|---|---|---|---|
| **site files, store** `internal/config/config.go` | the files; `Store.sites`, `Store.byDomain` under an RWMutex | `LoadSites`, `loadSiteFile`, `Validate`, `SaveSite` (temporary file and rename), `DeleteSite`, `Store.Replace/Lookup/Snapshot` | watcher and admin handlers write, requests read |
| **watcher** `internal/config/watcher.go` | fsnotify queue, debounce timer | `Run`: watch, first load, event loop; `reload` | one goroutine, started by `main` |
| **reload** `cmd/jobcloud/main.go` | none | `OnReload`: `Router.Reload`, `SyncDomains`, `Prune`; `ReloadCallback` runs `LoadSites`, `Replace`, `OnReload` | the watcher, and every admin handler that saved or deleted, without a lock around it |
| **admin UI** `internal/ui/ui.go` | none; holds pointers into the store's list | create, update, toggle, delete; pages | HTTP, several at a time |
| **request path** `internal/proxy/router.go` | `runtimes` under an RWMutex, `stopping` | `Reload`, `ServeHTTP`, `Stop` | every request; the reload |
| **pool** `upstream.go` | an atomic counter | `NewPool`, `Next` | the reverse proxy's director |
| **rate limiter** `ratelimit.go` | a bucket per address under a mutex | `Allow` | every request of a limited site |
| **metrics** `internal/metrics` | registry of entries; totals, 60 one-second buckets, latency ring | `SiteFor`, `Record`, `Snapshot`, `Prune` | every answered request, the dashboard, the reload |
| **certificates** `internal/acme` | certmagic's cache | `SyncDomains`, `ListCerts` | the reload, the TLS listener, the UI |
| **listeners** `internal/server` | three servers, `errCh` | start, fail, drain | `main` |
| **sessions** `internal/auth` | the secret file, signed cookies | `resolveSecret`, `IssueCookie`, `Authenticated` | admin requests |
| command line, logging, templates, packaging | none | | |

What is hard here, and what makes each part correct:

* **Hot reload.**  Two kinds of goroutine reload, with no mutual exclusion from
  reading the directory to swapping the tables; site objects are shared by
  pointer and a toggle writes into them; the directory changes while it is read;
  events are debounced; a file operation may fail; the process may be killed and
  restarted.  Correct means: no change is lost, a site that nobody touches is
  never taken down, certificates cover what the directory asks for.
* **Request path.**  A request reads the Host index, then the runtimes, then the
  metrics registry, in separate critical sections, while a reload swaps them one
  by one.  Correct means: a request is served by the site that its host belongs
  to, an untouched site never answers 404 or 503, each answer is counted once.
* **Rate limiter.**  The clock is read before the lock.  Correct means: the
  budget is kept although stamps are out of order, and a paced client passes.
* **Metrics** (buckets, ring): a wrapped slot, a late recorder.  Correct means:
  the minute's sums are sums of the minute, also in totals that are read site by
  site.
* **Saving a file**: fixed temporary name, no sync, concurrent saves, crash.
  Correct means: a reader sees one version or another, never a mixture.
* **Shutdown**: first failing listener, shared drain deadline.  Correct means:
  `Run` returns and no started request is cut before the deadline.
* **Sessions**: secret file across restarts, failing reads and new containers,
  cookie round trip.

## The modules

| module | models |
|---|---|
| `SiteConfig` | pure operators: what a file loads as (`LoadSiteFile`, `Validate`), and the tables a list of sites becomes (`ByDomain`, `Runtimes`, `CertDomains`, `Keep`) |
| `HotReload` | the directory, watcher, admin handlers with the file operations of their saves, and their concurrent reloads |
| `Versions`, `HotReloadVersions` | what a reload promises of the tables in use, and `HotReload` with the history that shows it keeps the promise |
| `SiteFiles` | `SaveSite` and `DeleteSite` by their file operations, beside files copied in by hand |
| `WatchLoop` (extends `SiteFiles`) | the watcher's loop in time, its load file by file, lost events |
| `Directory` | what `sites/` promises to whoever saves or loads; implemented by `WatchLoop` |
| `RateLimiter` | one `Limiter` under concurrent requests |
| `SiteRuntime` (extends `RateLimiter`) | limiters and pools replaced by reloads while requests still use the old ones |
| `Proxy` | `ServeHTTP` against concurrent reloads, with the metrics registry |
| `Metrics` | `Record` and `Snapshot` on the rings, and a dashboard that reads site by site |
| `Sessions` | boot, secret, cookies |
| `Listeners` | `server.Run` |
| `Service` (extends `Sessions`, `Listeners`) | the process from start to exit, restarted by docker |
| `MCHotReload`, `MCWatchLoop`, `MCSiteRuntime`, `MCProxy`, `MCMetrics`, `MCService` | values for the runs |
| `SiteConfigProofs`, `HotReloadProofs`, `WatchLoopProofs`, `SiteRuntimeProofs` (also of `RateLimiter`), `ProxyProofs`, `MetricsProofs`, `ServiceProofs` | theorems about the module of that name |
| `ArithmeticProofs` | lemmas on division with remainder, induction over finite sets, and sums over them |

**SiteConfig.**  Names are opaque; `Lower` is `strings.ToLower` and `Rank` the
order of strings.  An upstream is kept as what the two validity checks look at:
a scheme, a host, and whether the port is absent, empty, digits or something
else.  This is enough to tell `validUpstream` from `url.Parse`, which reject
different things.  A loaded list is a function from files to sites; `Before` is
the order of `sort.Slice` on it.  `sort.Slice` is not stable in general; it is
for the lists of up to twelve elements that Go sorts by insertion, and the tie
between two sites of one domain is broken in directory order here.

**HotReload.**  A process is a goroutine.  `pc` names the point it is at, and an
action is one critical section, one file operation or one access to a shared
flag.  The steps of a reload are `ReadDir`, `ReadFile` (one per entry), and then
three loops over the sites, each of which reads the enabled flags one by one
(`Look`) before what it made is put in place: the index (`Replace`), the runtimes
(`RouterReload`), the names for certmagic (`SyncDomains`).  Anything may come
between a look and the swap.  `Prune` ends the reload (its effect on the registry
is in `Proxy`).  Watcher and handlers run the same steps.  Loads live in `heap`,
by number, because the code shares `*Site` pointers: `store`, `routes`, `mine[p]`
and `req[h].gen` are the pointers.  A number is reused once nothing refers to it,
as a garbage collector would.  `ReadFlag` and `WriteFlag` are the two halves of
`site.Enabled = !site.Enabled`, which races with itself and with reloads.

A save is `Marshal`, `OpenTmp`, `WriteTmp`, `Rename`, and saves of one site share
`tmp`: one may empty the file under another, write into what the other has
already renamed (`fd` says what a handler's open file is called by now), leave a
mixture (`Blends`), or find at its rename that `name.tmp` is gone.  `Fault` is a
failing file operation; `Crash` kills the process between any two steps and
restarts it.  Each file operation queues an event, and equal events merge as they
do in the kernel.  That a reader finds a file empty between an open and a write
from outside is left to `WatchLoop`, where the loads read as `HotReload` has them
do (`Directory`).

**Versions.**  Each site of a list in use is what its file held at some time since
the process started; a file without a site was invalid, absent, or could not be
read.  Each table in use is that of one whole list.  The one liberty is the
enabled flag of a site that was toggled since the start, which may be either way
in a list, and another way in the table made of that list while it was toggled:
the code does not keep more.  The refinement mapping reads the lists through the
store's and the router's pointers (`list <- heap[store]`), so that a toggle, which
writes into objects that both lists may share, is one step of both.  `past` and
`toggled` are history variables.  A failed toggle's flag that stays flipped, and a
toggle that writes back an older version of a file, are steps of `Versions`: it
says how far they can go, not that they do not happen.

**SiteFiles, WatchLoop, Directory.**  Names point to inodes: `os.WriteFile` goes
on writing to what it opened, whatever its name is renamed to.  Documents are
values with a length, and a short one written over a longer one is `Torn`, which
loads as no site.  Events have the kind that `Run` filters on; `Emit` may lose
them in an overflow, whose error is queued instead and only logged.  Ticks are
200 ms / D; `Arm` lets the new timer fire at `armedTime` or a tick later, and an
early one is armed again, a branch that neither the code nor the model ever takes
(the channel is made anew whenever `armedTime` is).  `damaged` marks what no retry makes up for until the
next load: a lost event, a directory or a file that could not be read, a watch
that could not be set.  The refinement mapping shows a job as done when its file
has changed, and a load in progress as what the open file holds.  `Overlap` says
whether two admins may save one site at a time; the refinement needs that they
do not, and `torn_save` shows what happens when they do.

**RateLimiter, SiteRuntime.**  `Stamp` is `now := time.Now()`, `FirstVisit` and
`Visit` are the critical section, in any order of the stamped requests.  A tick
is 1/Q second, tokens are counted in parts of 1/Q, so a tick refills `RPS` and a
request costs `Q`; the rounding of `float64` is left out.  `log` and `seen` are
history.  In `SiteRuntime` a key is one client's bucket in one runtime, `gen`
the runtime in the router's table; a request fetches one (`Route`), asks its
limiter (`Ask`) and takes its pool's next upstream (`Forward`), whichever
runtimes have been made since.  `Wrap` stands for 2^64.

**Proxy.**  A request goes through `FindSite`, `Route`, `Limit`, `Forward`,
`FindEntry`/`CreateEntry` (the two locks of `SiteFor`) and `Record`; a reload
through `Load`, `Replace`, `RouterReload`, `Prune`, for any list of `Loads`, with
toggles in between.  Whether a limiter refuses, and what an upstream answers, are
choices; the redirect to HTTPS and the exploit filter are one early answer.
Tables hold site records instead of pointers, which is the same here because the
hot path never reads the one field that is written in place.  The reading of the
flags and the swap are one step here: a toggle in between concerns one site, and
does the same to every table as one right after the swap.

**Metrics.**  `Count` is the atomic counters (one step: nothing on a page reads
them), `Stamp` the clock, `Record` the critical section.  A request may hold its
stamp for `MaxDelay` seconds.  `Snapshot` holds the lock from the clock to the
last copy, so it is an operator on a state: `ReqsLast`, `PerSec`, `Pct` of
`Sample`.  The dashboard is one `SnapshotSite` for each domain, in any order, with
requests and seconds in between, and what `buildSiteRows` and `handleDashboard`
make of the rows.

**Sessions, Listeners, Service.**  `proc` goes through `LoadGlobal`, `ReadKey`,
`OpenKey`, `WriteKey`, `NewManagers`, `RunServer`; `Kill` may come between any
two, also between the truncation of `secret.key` and its writing.  Passwords and
signatures are compared as bcrypt and HMAC promise.  `login` is history: which
login a cookie is from, and how many calls had failed by then: a read of
`secret.key` that fails leads to a new secret over a good one, as in the code.  A listener binds, dies, reports and ends; `Run` selects,
stops the router, shuts the servers down in turn under one deadline and waits.
`Recreate` takes `secret.key` away with the container, because `/etc/jobcloud`
itself is no volume in `docker-compose.yml`; that README.md says otherwise is what
the run `sessions` shows.

## The runs

| run | shows |
|---|---|
| `races` | one file, two admin requests and the watcher, all toggles, saves (overlapping ones too) and deletes: `WatcherHasLastWord`, `CertsCoverDirectory`, `ImplementsVersions` |
| `faults` | two files, one request, one edit, one failing operation or crash: types, `WatcherHasLastWord`, `UntouchedStaysRouted`, `CertsCoverDirectory`, `ChangesReachTables`, `ImplementsVersions` |
| `stale_tables` | violated: `SettledTablesMatchDisk` |
| `files` | a save, a delete and a dropped file against the timed watcher, one fault or lost event, one crash: types, `SavedIsPersisted` (the jobs are of different sites), `ImplementsDirectory`, `QuietBeforeReload`, `ChangesAreLoaded` |
| `torn_save` | violated: `SavedIsPersisted` |
| `limiter` | five requests of one client, two runtimes: types, `SlidingBound`, `WindowBound`, `SpacedClientAllowed`, `ClientBudget`, `RotationFair` |
| `hot_path` | two requests, for the kept site or for the one that changes, two reloading goroutines, three possible lists, a toggle, shutdown: types, `CountsExact`, `UntouchedIsServed`, and `LimitedByOwnSite` where no site has another one's domain among its names |
| `shared_name` | violated: `LimitedByOwnSite` |
| `metrics` | four requests of two sites on rings of three seconds and two latencies, and a dashboard: types, `MinuteIsExact`, `TotalsAccounted`, `ChartAddsUp`, `PercentilesOfLatest` |
| `service` | types, `CookieDecides`, `SecretIsWhole`, `DrainedBeforeExit`, `ReportsGoThrough`, `ShutdownEnds`, `ServiceRecovers` |
| `logins` | violated: `LoginLetsIn` |
| `sessions` | violated: `SessionsKept` |

What each violated run shows, and the lines of the repository that say otherwise,
is in `PROJECT.json` under `findings`: a handler's older load overwrites the
watcher's newer one and stays; two saves of one site mix in the temporary file
that they share; the alias of one site takes the runtime of the site whose domain
it is; a user whose name has a dot logs in in vain; a container made anew with
everything that README.md says to keep has lost all sessions, because the secret is
not in `data/`.  One more disagreement needs no run: router.go:245-247 and
README.md:24 promise WebSocket upgrades, and `countingWriter` has neither `Hijack`
nor `Unwrap`, so `httputil.ReverseProxy` answers 502 (`Upgrade` of `Proxy`).

`CHECK_DEADLOCK FALSE` is set everywhere: requests, edits and reloads are bounded
and the system may come to rest.

**Bounds.**  `MaxLoads` never binds: the tables, the watcher and each handler refer
to one load at most, and one number more is free (five with one handler, six with
two).  `races` tells loads apart by their contents and by who points to them
(`VIEW UpToNumbers`), never by their numbers, which no step looks at.  Two
handlers suffice for races between handlers, one edit that breaks a file (requests
rewrite and delete it) for a change at any step of
a reload, one mishap (`MaxMishaps`) for a failure or a crash at any step.  One
queued event (`MaxEvents`) is what the kernel makes of equal ones that nobody has
received.  In
`files`, nine inodes never bind (`InodesAssumption` says how many are enough:
one for each name, temporary name, job and open file, and one to spare), D = 2 tells an event at once from one during the
debounce and one after it, and the three jobs create, write, rename and remove.
In `limiter`, rate 2 and a third of a second per tick make refills that do and do
not complete a token; four requests exceed the capacity of two, a fifth comes to
the second runtime; a counter that wraps at 3 with two upstreams repeats one, as
2^64 does with three.  In `hot_path`, two requests are what it takes to race for
an entry and two reloads to cross each other; any two of three requests arrive
(`TwoArrive`), two for the kept site or one for each.  In `metrics`, seconds 3 to 6
turn a ring of three over, three requests fill a ring of two latencies more than
once, and one page (`MaxPages`) is read while the others are recorded: a page
depends on no earlier one.  `service` plays two scenes from one specification, since sessions and
listeners share only the process: in one, admins log in, `config.yml` is edited
once (to other admins, a weak or a good secret, no address, or nonsense), one
call fails, one container is made anew and the process is killed once, over two
ticks that a cookie lives; in the other up to three listeners die, so that errors stay in `errCh`
that nobody reads, and a signal or a kill comes, with a request on each of two listeners.  Requests of `limiter`, handlers
of `races` and goroutines of `hot_path` are interchangeable, hence the symmetry
sets; no liveness property is checked with symmetry.

**Fairness.**  `HotReload` (`PastFairSpec`) assumes weak fairness of the watcher's
loop, of its reload and of each started handler: the Go scheduler runs a
goroutine that can run, an armed timer expires and a `select` with a ready case
proceeds.  Nothing is assumed of clients, edits, faults or crashes, nor of the end
of the watcher, which stays possible at any time.  Edits are bounded; without that
a directory written more often than every 200 ms would never be reloaded, since
each event arms the timer anew.  `WatchLoop` says the same in time, with one
addition: events other than changes of mode are received although changes of mode
go on for ever, because the channel of events is first in, first out.  `Service`
assumes that docker restarts what has exited, that goroutines which can go on do,
and that the 30 seconds pass; requests need not end, and listeners need not die.

## What is proved

All proofs are for every set of files, names, sites, requests, every rate and
burst, and every bound, from the named assumptions on the constants that the
modules state (`FilesAssumption`, `SitesAssumption`, `DiskAssumption`, ...; TLC
evaluates them in the runs).  Beyond what the code says of its parameters they
ask that sets which are counted or summed over are finite (`Keys`, `Requests`,
`Sites`, `Inodes`, `Jobs`), that runtimes are numbered from one, that the clock
may pass the length of the ring (`N <= MaxClock`), that the bound on inodes
leaves a fresh one, and that a queue has room for an event.  The theorems of one module share an inductive invariant
where they can; each invariant was checked by TLC on a run before it was proved.

* `SiteConfigProofs`: `LastOfIsLast`.  A non-empty set of loaded sites has a
  last one in the order of the list (by well-founded induction on finite
  subsets), and the loops that fill the tables keep that one; `ByDomain` and
  `Runtimes` are well typed and every claimed name is routed.
* `HotReloadProofs`: `TypeCorrect` (`[]TypeOK`) and `LastWord`
  (`[]WatcherHasLastWord`).  Types alone are not inductive: a toggle writes into
  `heap` through a pointer, so `TypeInv` adds what an accepted request points to
  (`RequestOK`), that each load in progress has one owner (`OwnLoads`), that no
  table or request points into a load still being read (`Private`), that a flag
  which a loop has read is one of its load (`OwnFlags`), and that what was loaded
  is valid (`ValidSites`).  `LastWord` adds `Fresh`: each file that the watcher has
  read, each flag that its loops have read, each table it has installed and each
  name it has told certmagic is what the directory says, *or* an event is queued or
  the timer is armed, *or* a toggle of that file has yet to open its `.tmp`.  The
  steps that matter are a change on disk, which must queue an event (the watch is
  there before the load, and the timer is cleared before the reload), and a flip,
  which is always followed by one.  `CertsCovered` (`[]CertsCoverDirectory`) is from
  the same invariant.
  `HandEditsArrive` is the other side of `stale_tables`: when there are no admin
  handlers and no file fault has happened, `SettledTablesMatchDisk` holds, because
  every reload is then the watcher's.
  `UntouchedRouted` (`[]UntouchedStaysRouted`): every load that has passed a
  pinned file holds it and every loop that has passed it has read it enabled,
  because no request names it and so no toggle writes into it; then every table
  computed from a load routes its names.
  `VersionsImplemented` (`PastSpec => ImplementsVersions`): every object of every
  load is a version that its file had, or, if it was toggled, one with the flag the
  other way; so is what a save has marshalled and what is in a `.tmp`
  (`ObjectsKnown`, `SavesKnown`); no flag of an untoggled site is read wrong
  (`FlagsTrue`); and where a load that has passed a file holds nothing, the file was
  once without a site or a fault excuses it (`GapsExcused`).  Then each step of
  `HotReload` is an install, a flip, a write or a restart of `Versions`, or is not
  seen there.
* `WatchLoopProofs`: `TypeCorrect`, which needs a fresh inode for each file that is
  opened, hence a count of the inodes in use; `ReloadWaits` (`QuietBeforeReload`),
  from `armed + quiet = D`; and, under `Separate`, `DirectoryImplemented`
  (`FairSpec => ImplementsDirectory`) and `PersistedAlone` (`[]SavedIsPersisted`).
  The invariant: no two names share an inode, the inode that the load has open is
  under no other name than its own (`Names`), and a job finds at each step the
  file that it left (`Work`), because one at a time works on a site (`Alone`).  A
  save takes effect at its rename, a delete at its removal, a copy when it is
  written, a read when the file is opened.  `Separate` says that saves of a site
  do not overlap and that a file copied in by hand is no other job's; both are
  needed: `torn_save` shows the first, and a copy whose name is taken by a rename
  in between finishes in a file without a name.
* `SiteRuntimeProofs`, of one limiter: `TypeCorrect`, `RateIsKept`
  (`[]SlidingBound`), `WindowIsKept` (`[]WindowBound`), `PaceIsAllowed`
  (`SpacedClientAllowed`).  The
  invariant is a ledger: from any entry of the log on, what the bucket has now is
  at most the capacity, plus what the rate gave since, minus what was let
  through (`Paid`); and the bucket is behind by no more than the rate gives up to
  its last answer (`NoDebt`).  Both hold with negative elapsed times, because
  what a stale stamp takes away, the next visit gives back.  `WindowIsKept`
  follows from the first and the last entry in the window.
  Of runtimes: `RuntimeWindow` carries `WindowIsKept` over, since reloading, routing
  and forwarding leave the limiters alone.
  `BudgetIsKept` (`[]ClientBudget`) sums it over the runtimes, each from the time
  it was made, since nobody asked it earlier (`Heard`).  `RotationIsFair`
  (`[]RotationFair`): no upstream is ahead of another by more than the turns that
  the counter gives it since the last full round, and one for each wrap (`Even`).
* `ProxyProofs`: `TypeCorrect`, `CountsKept` (`[]CountsExact`), `UntouchedServed`
  (`UntouchedIsServed`).  An entry number is given to one domain and never again, so
  a request that still holds one can only count for the domain it found (`Owned`),
  and an entry of a site that stays is not pruned; a table is empty or holds the
  untouched site at any point of any reloads (`ServedBy`).  `OwnLimiter` is the other
  side of `shared_name`: when no name is the domain of one site and a name of
  another one (`Unshared`), `LimitedByOwnSite` holds, since whatever list filled the
  runtimes, what is filed under a domain is of that domain (`Filed`).
* `MetricsProofs`: `TypeCorrect`, `TheMinuteIsExact` (`[]MinuteIsExact`),
  `TheTotalsAccount` (`[]TotalsAccounted`), `TheChartAddsUp` (`[]ChartAddsUp`).  The bucket of each of the last N seconds
  counts exactly the requests of that second, or there were none and its slot
  still holds another one (`Kept`): a late request finds its slot as the earlier ones
  of its second left it, because no second N later has begun.  The sums follow by
  counting each request in the one slot of its second.  The totals follow by keeping,
  for each site whose row is filled, a set of requests that the row counts, between
  those that are due and those that are allowed (`Pages`), and joining the sets.
  `PercentilesAreOfLatest` (`[]PercentilesOfLatest`): the ring holds the latency of
  each of the latest requests in the slot of its number modulo the length of the
  ring (`Rings`), so it is a rearrangement of them, and sorting it is another; what
  is counted below and above the number at a place of a sorted sequence does not
  change when the sequence is rearranged.
* `ServiceProofs`: `TypeCorrect`, `CookiesDecide` (`[]CookieDecides`), `SecretWhole`
  (`[]SecretIsWhole`), `Drains` (`[]DrainedBeforeExit`), `ReportsPass`
  (`[]ReportsGoThrough`).  The invariant relates a cookie's key to the secret of the
  process that issued it and to those since, as long as the container is the same
  and no call has failed (`Signatures`), the point that `Run`
  is at to what is still answered on each server (`Drained`), and the room in
  `errCh` to the listeners that have ended (`Reported`).

Sums (`SumFunction`) are folds, which recur: `ArithmeticProofs` shows that the
recursion has a solution on finite sets and that it does not depend on the order,
by an induction whose predicate is a set of subsets.  It also shows, without
induction, that numbers have a sorting order (each goes to the place of its rank) and
how many of the sorted ones are no greater, or smaller, than the one at a place.

## Only model-checked

Liveness (`ChangesReachTables`, `ChangesAreLoaded`, `ShutdownEnds`, `ServiceRecovers`): it needs `ENABLED`, which is beyond the prover,
and is shown for the bounds above.  The violated
properties are counterexamples, not proofs.

## Not modelled

`bcrypt`, HMAC, TLS and the ACME protocol, certmagic's own concurrency and what
`ListCerts` asks it, syncing a file before its rename, HTML rendering, logging, flag parsing, header rewriting
(`X-Forwarded-*`, `ClientIP`, custom headers), path joining, byte counts, the
content of requests and answers: pure functions or external code whose results no
property tells apart.  Memory effects of the data race on `Enabled` beyond the
separate read and write.  The 50 ms between the watcher's start and the listeners:
`Proxy` begins once both tables were filled, and main.go:172-173 names the race.
The lifetime totals that `Snapshot` reads one by one: no page shows them.

## Plan

Every safety and action property of a passing run is stated by a theorem; what is
left to prove are weaker hypotheses for the properties that the code does not keep:
`SettledTablesMatchDisk` with admin handlers whose reloads do not overlap the
watcher's, and `CertsCoverDirectory` and `WatcherHasLastWord` when file operations fail.

Modules meant for proofs use no `RECURSIVE` operator, declare their parameters as
constants with named assumptions, and have one action per operation.
