------------------------------- MODULE Proxy --------------------------------
(***************************************************************************)
(* The hot path: ServeHTTP of internal/proxy/router.go from the Host       *)
(* lookup to the metrics record, while reloads swap the three tables that  *)
(* it reads one after the other (the Host index, the runtimes, the metrics *)
(* registry).                                                              *)
(*                                                                         *)
(* How a reload comes about is the subject of HotReload; here a reload is  *)
(* any list of Loads, installed by the same steps in the same order by     *)
(* goroutines that do not wait for each other.  (The certificates are left *)
(* out: no request reads them.)  A site that a request points to is its    *)
(* record: the only field ever written in place, enabled, is not read on   *)
(* the hot path.  The loops that make a table read the flags of the        *)
(* goroutine's own load before the swap; a toggle between the read of a    *)
(* site's flag and the swap does to every table what it does right after   *)
(* the swap, so here the two are one step (HotReload has them apart).      *)
(***************************************************************************)
EXTENDS SiteConfig

CONSTANTS
  Requests,    \* HTTP requests
  HostOf,      \* the Host header of each
  Upgrading,   \* the requests that ask for a WebSocket
  Reloaders,   \* goroutines that reload: the watcher, admin handlers
  Loads,       \* what LoadSites returns during the run
  Pinned,      \* files that are the same in every load and that nobody toggles
  MaxReloads,  \* bound: reloads in a run
  MaxToggles,  \* bound: enabled flags flipped in the middle of a reload
  NoEntry      \* the registry has no entry

Entries == 1..Cardinality(Requests)  \* each request creates at most one

ASSUME ProxyAssumption ==
  /\ IsFiniteSet(Requests)
  /\ HostOf \in [Requests -> Names] /\ Upgrading \subseteq Requests
  /\ Loads \subseteq [Files -> Sites \cup {NoSite}]
  /\ Pinned \subseteq Files
  /\ \A f \in Pinned, k, l \in Loads : k[f] = l[f]
  /\ MaxReloads \in Nat /\ MaxToggles \in Nat
  /\ NoEntry \notin Entries

VARIABLES
  index,     \* byDomain of config.Store: the site of each Host
  runtimes,  \* the runtimes of proxy.Router: the site each was built from
  ready,     \* history: a reload has filled both
  entries,   \* the metrics entry of each domain
  made,      \* how many metrics entries were made
  counts,    \* TotalRequests of each entry
  step,      \* where each reloader is
  list,      \* the sites it works on
  reloads, toggles,
  stopping,  \* Router.Stop was called
  pc,        \* where each request is
  site,      \* the site that a request found
  rt,        \* the runtime that it was given
  stat,      \* the metrics entry it records to
  reply,     \* what the upstream answered
  status     \* how the request was answered

tableVars   == <<index, runtimes, ready>>
metricsVars == <<entries, made, counts>>
reloadVars  == <<step, list, reloads, toggles>>
requestVars == <<pc, site, rt, stat, reply, status>>
vars == <<tableVars, metricsVars, reloadVars, stopping, requestVars>>

Statuses == {"none", "stopping", "404", "early", "503", "429", "101", "200",
             "502", "aborted"}

TypeOK ==
  /\ index \in [Names -> Sites \cup {NoSite}]
  /\ runtimes \in [Names -> Sites \cup {NoSite}] /\ ready \in BOOLEAN
  /\ entries \in [Names -> Entries \cup {NoEntry}]
  /\ made \in 0..Cardinality(Requests) /\ counts \in [Entries -> Nat]
  /\ step \in [Reloaders -> {"idle", "replace", "router", "prune"}]
  /\ list \in [Reloaders -> [Files -> Sites \cup {NoSite}]]
  /\ reloads \in 0..MaxReloads /\ toggles \in 0..MaxToggles
  /\ stopping \in BOOLEAN
  /\ pc \in [Requests -> {"new", "found", "routed", "admitted", "upgrade",
                          "find", "create", "record", "done"}]
  /\ site \in [Requests -> Sites \cup {NoSite}]
  /\ rt \in [Requests -> Sites \cup {NoSite}]
  /\ stat \in [Requests -> Entries \cup {NoEntry}]
  /\ reply \in [Requests -> {"none", "answer", "switch", "fault"}]
  /\ status \in [Requests -> Statuses]
  /\ \A r \in Requests :
       /\ pc[r] \notin {"new", "done"} => site[r] # NoSite
       /\ pc[r] \notin {"new", "done", "found"} => rt[r] # NoSite
       /\ pc[r] = "record" => stat[r] # NoEntry

Init ==
  /\ index = [n \in Names |-> NoSite]
  /\ runtimes = [n \in Names |-> NoSite] /\ ready = FALSE
  /\ entries = [n \in Names |-> NoEntry]
  /\ made = 0 /\ counts = [e \in Entries |-> 0]
  /\ step = [p \in Reloaders |-> "idle"]
  /\ list = [p \in Reloaders |-> [f \in Files |-> NoSite]]
  /\ reloads = 0 /\ toggles = 0
  /\ stopping = FALSE
  /\ pc = [r \in Requests |-> "new"]
  /\ site = [r \in Requests |-> NoSite] /\ rt = [r \in Requests |-> NoSite]
  /\ stat = [r \in Requests |-> NoEntry]
  /\ reply = [r \in Requests |-> "none"]
  /\ status = [r \in Requests |-> "none"]

-----------------------------------------------------------------------------
(* A reload, as the hot path sees it. *)

\* A table of files, seen through the list that it was built from.
Holding(sites, table) ==
  [n \in Names |-> IF table[n] = NoFile THEN NoSite ELSE sites[table[n]]]

\* LoadSites has returned.
Load(p) ==
  /\ step[p] = "idle" /\ reloads < MaxReloads
  /\ reloads' = reloads + 1
  /\ \E sites \in Loads : list' = [list EXCEPT ![p] = sites]
  /\ step' = [step EXCEPT ![p] = "replace"]
  /\ UNCHANGED <<tableVars, metricsVars, toggles, stopping, requestVars>>

\* Store.Replace.
Replace(p) ==
  /\ step[p] = "replace"
  /\ index' = Holding(list[p], ByDomain(list[p]))
  /\ step' = [step EXCEPT ![p] = "router"]
  /\ UNCHANGED <<runtimes, ready, metricsVars, list, reloads, toggles,
                 stopping, requestVars>>

\* Mutant of RuntimesOf: the keys are lowercased, as those of the index are.
RuntimesLower(sites) ==
  [n \in Names |->
     LET f == LastOf(sites, {g \in Pooled(sites) :
                               \E d \in AllDomains(sites[g]) : Lower[d] = n})
     IN IF f = NoFile THEN NoSite ELSE sites[f]]

\* Mutant of RuntimesOf: every name gets the runtime that the loop built last.
RuntimesCaptured(sites) ==
  [n \in Names |-> IF Runtimes(sites)[n] = NoFile THEN NoSite
                   ELSE sites[LastOf(sites, Pooled(sites))]]

\* The map that Router.Reload builds, under the domain and the aliases.
RuntimesOf(sites) == Holding(sites, Runtimes(sites))

\* Router.Reload.
RouterReload(p) ==
  /\ step[p] = "router"
  /\ runtimes' = RuntimesOf(list[p])
  /\ ready' = TRUE
  /\ step' = [step EXCEPT ![p] = "prune"]
  /\ UNCHANGED <<index, metricsVars, list, reloads, toggles, stopping, requestVars>>

\* Registry.Prune on the keep set of OnReload, under the registry's lock.
Prune(p) ==
  /\ step[p] = "prune"
  /\ entries' = [n \in Names |-> IF n \in Keep(list[p]) THEN entries[n] ELSE NoEntry]
  /\ step' = [step EXCEPT ![p] = "idle"]
  /\ UNCHANGED <<tableVars, made, counts, list, reloads, toggles, stopping,
                 requestVars>>

\* An admin handler flips the flag of a site that is already in the store.
Toggle(p) ==
  /\ step[p] \in {"router", "prune"} /\ toggles < MaxToggles
  /\ toggles' = toggles + 1
  /\ \E f \in Files \ Pinned :
       /\ list[p][f] # NoSite
       /\ list' = [list EXCEPT ![p][f].enabled = ~@]
  /\ UNCHANGED <<tableVars, metricsVars, step, reloads, stopping, requestVars>>

\* Router.Stop, at shutdown.
Stop ==
  /\ ~stopping /\ stopping' = TRUE
  /\ UNCHANGED <<tableVars, metricsVars, reloadVars, requestVars>>

-----------------------------------------------------------------------------
(* ServeHTTP. *)

Advance(r, to) == pc' = [pc EXCEPT ![r] = to]

Finish(r, code) ==
  /\ Advance(r, "done")
  /\ status' = [status EXCEPT ![r] = code]

\* 503 once the router is stopping.
Refuse(r) ==
  /\ pc[r] = "new" /\ stopping
  /\ Finish(r, "stopping")
  /\ UNCHANGED <<tableVars, metricsVars, reloadVars, stopping, site, rt, stat, reply>>

\* Store.Lookup; 404 when no site claims the host.
FindSite(r) ==
  /\ pc[r] = "new" /\ ~stopping
  /\ LET s == Lookup(index, HostOf[r]) IN
     /\ site' = [site EXCEPT ![r] = s]
     /\ IF s = NoSite THEN Finish(r, "404") ELSE Advance(r, "found") /\ UNCHANGED status
  /\ UNCHANGED <<tableVars, metricsVars, reloadVars, stopping, rt, stat, reply>>

\* The redirect to HTTPS and the exploit filter answer before any accounting.
AnswerEarly(r) ==
  /\ pc[r] = "found"
  /\ Finish(r, "early")
  /\ UNCHANGED <<tableVars, metricsVars, reloadVars, stopping, site, rt, stat, reply>>

\* Mutant of Route: the runtime is not checked for nil.
RouteUnchecked(r) ==
  /\ pc[r] = "found"
  /\ rt' = [rt EXCEPT ![r] = runtimes[site[r].domain]]
  /\ Advance(r, "routed") /\ UNCHANGED status
  /\ UNCHANGED <<tableVars, metricsVars, reloadVars, stopping, site, stat, reply>>

\* The runtime filed under the found site's domain; 503 when there is none.
Route(r) ==
  /\ pc[r] = "found"
  /\ LET s == runtimes[site[r].domain] IN
     /\ rt' = [rt EXCEPT ![r] = s]
     /\ IF s = NoSite THEN Finish(r, "503") ELSE Advance(r, "routed") /\ UNCHANGED status
  /\ UNCHANGED <<tableVars, metricsVars, reloadVars, stopping, site, stat, reply>>

\* The runtime's limiter, if it has one, lets the request pass or not (see
\* RateLimiter); a refusal is recorded.
Limit(r) ==
  /\ pc[r] = "routed"
  /\ \/ Advance(r, "admitted") /\ UNCHANGED status
     \/ /\ Limited(rt[r])
        /\ Advance(r, "find")
        /\ status' = [status EXCEPT ![r] = "429"]
  /\ UNCHANGED <<tableVars, metricsVars, reloadVars, stopping, site, rt, stat, reply>>

\* ReverseProxy.ServeHTTP: an answer is copied, whatever its code ("200" stands
\* for all of them), a transport error becomes a 502 (or, when the client has
\* gone, the 200 that the writer starts with), and a body that breaks off panics
\* past the accounting.
Forward(r) ==
  /\ pc[r] = "admitted"
  /\ \/ /\ reply' = [reply EXCEPT ![r] = "answer"]
        /\ \/ Advance(r, "find") /\ status' = [status EXCEPT ![r] = "200"]
           \/ Finish(r, "aborted")
     \/ /\ reply' = [reply EXCEPT ![r] = "fault"]
        /\ Advance(r, "find")
        /\ \E code \in {"502", "200"} : status' = [status EXCEPT ![r] = code]
     \/ /\ r \in Upgrading
        /\ reply' = [reply EXCEPT ![r] = "switch"]
        /\ Advance(r, "upgrade") /\ UNCHANGED status
  /\ UNCHANGED <<tableVars, metricsVars, reloadVars, stopping, site, rt, stat>>

\* The methods of countingWriter, those of the embedded interface included.
WriterMethods == {"Header", "Write", "WriteHeader", "Flush"}

\* What ReverseProxy asks of the writer before it switches protocols.
Hijackable == "Hijack" \in WriterMethods \/ "Unwrap" \in WriterMethods

\* The upstream switched protocols: 101 if the writer can be hijacked, else 502.
Upgrade(r) ==
  /\ pc[r] = "upgrade"
  /\ Advance(r, "find")
  /\ status' = [status EXCEPT ![r] = IF Hijackable THEN "101" ELSE "502"]
  /\ UNCHANGED <<tableVars, metricsVars, reloadVars, stopping, site, rt, stat, reply>>

-----------------------------------------------------------------------------
(* recordMetric: SiteFor, then Record. *)

\* SiteFor, under the read lock.
FindEntry(r) ==
  /\ pc[r] = "find"
  /\ LET e == entries[site[r].domain] IN
     IF e # NoEntry
     THEN stat' = [stat EXCEPT ![r] = e] /\ Advance(r, "record")
     ELSE Advance(r, "create") /\ UNCHANGED stat
  /\ UNCHANGED <<tableVars, metricsVars, reloadVars, stopping, site, rt, reply, status>>

\* Mutant of CreateEntry: no second look once the write lock is held.
CreateAnyway(r) ==
  /\ pc[r] = "create"
  /\ made' = made + 1
  /\ entries' = [entries EXCEPT ![site[r].domain] = made + 1]
  /\ stat' = [stat EXCEPT ![r] = made + 1]
  /\ Advance(r, "record")
  /\ UNCHANGED <<tableVars, counts, reloadVars, stopping, site, rt, reply, status>>

\* SiteFor, under the write lock: it looks again before it makes an entry.
CreateEntry(r) ==
  /\ pc[r] = "create"
  /\ LET d == site[r].domain IN
     IF entries[d] # NoEntry
     THEN stat' = [stat EXCEPT ![r] = entries[d]] /\ UNCHANGED <<entries, made>>
     ELSE /\ made' = made + 1
          /\ entries' = [entries EXCEPT ![d] = made + 1]
          /\ stat' = [stat EXCEPT ![r] = made + 1]
  /\ Advance(r, "record")
  /\ UNCHANGED <<tableVars, counts, reloadVars, stopping, site, rt, reply, status>>

\* Record, on the entry that SiteFor returned, pruned since or not.
Record(r) ==
  /\ pc[r] = "record"
  /\ counts' = [counts EXCEPT ![stat[r]] = @ + 1]
  /\ Advance(r, "done")
  /\ UNCHANGED <<tableVars, entries, made, reloadVars, stopping, site, rt, stat,
                 reply, status>>

Serve(r) ==
  \/ Refuse(r) \/ FindSite(r) \/ AnswerEarly(r) \/ Route(r) \/ Limit(r)
  \/ Forward(r) \/ Upgrade(r)
  \/ FindEntry(r) \/ CreateEntry(r) \/ Record(r)

Next ==
  \/ \E p \in Reloaders :
       Load(p) \/ Replace(p) \/ RouterReload(p) \/ Prune(p) \/ Toggle(p)
  \/ Stop
  \/ \E r \in Requests : Serve(r)

Spec == Init /\ [][Next]_vars

-----------------------------------------------------------------------------
(* Properties. *)

\* A host that only the enabled, well-formed site of the pinned file f claims,
\* in every load and whatever is toggled.
OwnHost(r, f) ==
  \A l \in Loads :
    /\ f \in Pooled(l)
    /\ \E d \in AllDomains(l[f]) : Lower[d] = Lower[HostOf[r]]
    /\ \A g \in Files \ {f} : l[g] # NoSite =>
         \A d \in AllDomains(l[f]), e \in AllDomains(l[g]) : Lower[d] # Lower[e]

\* While reloads swap the index and the runtimes one after the other, in any
\* order of two goroutines, the hosts of a site that nobody touches are served,
\* and by that site's own upstreams and limiter: never 404 or 503 once both
\* tables were filled.
UntouchedIsServed ==
  [][\A r \in Requests, f \in Pinned :
       OwnHost(r, f) =>
         /\ ready /\ status'[r] # status[r] => status'[r] \notin {"404", "503"}
         /\ rt'[r] # NoSite => \A l \in Loads : rt'[r] = l[f]]_vars

\* An answered request that the accounting is there for: not one that never
\* reached a runtime, not one whose body broke off.
Accountable(r) == pc[r] = "done" /\ status[r] \in {"429", "101", "200", "502"}

\* No count of a site that stays is lost or split over two entries: not when two
\* first requests create the entry at a time, not when a prune comes between
\* SiteFor and Record.
CountsExact ==
  \A f \in Pinned : \A l \in Loads :
    f \in Active(l) =>
      LET d      == l[f].domain
          answered == {r \in Requests : Accountable(r) /\ site[r].domain = d}
      IN Cardinality(answered)
           = IF entries[d] = NoEntry THEN 0 ELSE counts[entries[d]]

\* ratelimit.go: one Limiter per Site, so configurations don't bleed across
\* sites.  A request should be limited and forwarded by the runtime of the site
\* that its host was found to belong to.
LimitedByOwnSite ==
  \A r \in Requests : rt[r] # NoSite => rt[r].domain = site[r].domain
=============================================================================
