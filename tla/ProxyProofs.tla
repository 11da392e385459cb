---------------------------- MODULE ProxyProofs -----------------------------
(***************************************************************************)
(* The request path for every set of requests, sites, lists and reloading  *)
(* goroutines: type correctness, CountsExact (no count of a site that      *)
(* stays is lost or split) and UntouchedIsServed (the hosts of a site that *)
(* nobody touches are never answered 404 or 503, nor by another site); and,*)
(* when no site has another one's domain among its names, LimitedByOwnSite *)
(* (a request is limited by the runtime of its own site).                  *)
(*                                                                         *)
(* The invariants say what the tables can be of at any point of any two    *)
(* reloads (Lists, Served), and whose an entry of the metrics registry is  *)
(* (Owned): an entry number is given to one domain and never again, so a   *)
(* request that still holds one can only count for the domain it found.    *)
(***************************************************************************)
EXTENDS Proxy, SiteConfigProofs

\* A list that a load returned, but for enabled flags flipped since.
FromLoad(sites) ==
  \E l \in Loads :
    /\ \A f \in Pinned : sites[f] = l[f]
    /\ \A g \in Files : sites[g] # NoSite =>
         /\ l[g] # NoSite /\ sites[g].domain = l[g].domain
         /\ AllDomains(sites[g]) = AllDomains(l[g])

Lists == \A p \in Reloaders : step[p] # "idle" => FromLoad(list[p])

\* The requests that may have made a metrics entry.
Creators == {r \in Requests : pc[r] \in {"record", "done"}}

Typed == TypeOK /\ made <= Cardinality(Creators)

\* What recordMetric may be called for.
Answerable ==
  \A r \in Requests : pc[r] \in {"find", "create", "record"} =>
    status[r] \in {"429", "101", "200", "502"}

\* The domain of a site that is enabled and untouched in every list.
Stays(d) == \E f \in Pinned : \A l \in Loads : f \in Active(l) /\ l[f].domain = d

\* An entry belongs to one domain, in the registry and in the hands of a request.
Owned ==
  /\ \A n \in Names : entries[n] # NoEntry => entries[n] <= made
  /\ \A m, n \in Names : entries[m] # NoEntry /\ entries[m] = entries[n] => m = n
  /\ \A r \in Requests : pc[r] = "record" =>
       /\ stat[r] <= made
       /\ \A n \in Names : entries[n] = stat[r] => site[r].domain = n
       /\ Stays(site[r].domain) => entries[site[r].domain] = stat[r]
  /\ \A e \in Entries : e > made => counts[e] = 0

Answered(d) == {r \in Requests : Accountable(r) /\ site[r].domain = d}

Counted ==
  \A d \in Names : Stays(d) =>
    Cardinality(Answered(d)) = IF entries[d] = NoEntry THEN 0 ELSE counts[entries[d]]

CInv == Typed /\ Lists /\ Answerable /\ Owned /\ Counted

\* The tables and the requests of an untouched host h, site s.
ServedBy(h, s) ==
  /\ index[Lower[h]] \in {NoSite, s} /\ runtimes[s.domain] \in {NoSite, s}
  /\ \A p \in Reloaders : step[p] \in {"router", "prune"} => index[Lower[h]] = s
  /\ ready => index[Lower[h]] = s /\ runtimes[s.domain] = s
  /\ \A r \in Requests : HostOf[r] = h => site[r] \in {NoSite, s} /\ rt[r] \in {NoSite, s}

Served ==
  \A r \in Requests, f \in Pinned : OwnHost(r, f) =>
    \A l \in Loads : ServedBy(HostOf[r], l[f])

\* The tables have been filled from some list.
Filled == ready => Loads # {}

SInv == TypeOK /\ Lists /\ Filled /\ Served

-----------------------------------------------------------------------------
(* The lists. *)

\* A toggle leaves a list a list of sites, with the same names in it.
LEMMA FlipKeepsList ==
  ASSUME NEW sites \in Loaded, NEW f \in Files, sites[f] # NoSite
  PROVE  LET flipped == [sites EXCEPT ![f].enabled = ~@] IN
         /\ flipped \in Loaded
         /\ \A g \in Files \ {f} : flipped[g] = sites[g]
         /\ flipped[f] \in Sites /\ flipped[f].domain = sites[f].domain
         /\ AllDomains(flipped[f]) = AllDomains(sites[f])
<1>1. sites[f] \in Sites /\ sites[f] \in Site
  BY SitesAssumption DEF Loaded
<1> DEFINE new == [sites[f] EXCEPT !.enabled = ~sites[f].enabled]
<1>2. new \in Sites
  BY <1>1, SitesAssumption DEF Site
<1>3. new.domain = sites[f].domain /\ AllDomains(new) = AllDomains(sites[f])
  BY <1>1 DEF AllDomains, Site
<1>4. [sites EXCEPT ![f].enabled = ~@] = [sites EXCEPT ![f] = new]
  BY DEF Loaded
<1> HIDE DEF new
<1>5. [sites EXCEPT ![f] = new] \in Loaded
  BY <1>2 DEF Loaded
<1> QED BY <1>2, <1>3, <1>4, <1>5 DEF Loaded

\* Only Load and Toggle change a list.
LEMMA ListsStep ==
  ASSUME TypeOK, Lists, [Next]_vars
  PROVE  Lists'
<1> USE DEF vars, reloadVars
<1>1. ASSUME NEW p \in Reloaders, Load(p) PROVE Lists'
  <2>1. PICK l \in Loads : list' = [list EXCEPT ![p] = l]
    BY <1>1 DEF Load
  <2>2. FromLoad(l)
    BY DEF FromLoad
  <2>3. /\ list'[p] = l /\ \A q \in Reloaders \ {p} : list'[q] = list[q] /\ step'[q] = step[q]
    BY <1>1, <2>1 DEF Load, TypeOK
  <2> QED BY <2>2, <2>3 DEF Lists
<1>2. ASSUME NEW p \in Reloaders, Toggle(p) PROVE Lists'
  <2>1. PICK f \in Files \ Pinned :
          list[p][f] # NoSite /\ list' = [list EXCEPT ![p][f].enabled = ~@]
    BY <1>2 DEF Toggle
  <2>2. list[p] \in Loaded /\ step' = step
    BY <1>2 DEF Toggle, TypeOK, Loaded
  <2>3. /\ list'[p] = [list[p] EXCEPT ![f].enabled = ~@]
        /\ \A q \in Reloaders \ {p} : list'[q] = list[q]
    BY <2>1 DEF TypeOK
  <2>4. /\ \A g \in Files \ {f} : list'[p][g] = list[p][g]
        /\ list'[p][f].domain = list[p][f].domain
        /\ AllDomains(list'[p][f]) = AllDomains(list[p][f])
    BY <2>1, <2>2, <2>3, FlipKeepsList
  <2>5. FromLoad(list[p]) => FromLoad(list'[p])
    BY <2>1, <2>4, ProxyAssumption DEF FromLoad
  <2> QED BY <2>2, <2>3, <2>5 DEF Lists
<1>3. ASSUME NEW p \in Reloaders, Replace(p) \/ RouterReload(p) \/ Prune(p) PROVE Lists'
  BY <1>3 DEF Replace, RouterReload, Prune, TypeOK, Lists
<1>4. CASE Stop \/ UNCHANGED vars
  BY <1>4 DEF Stop, Lists
<1>5. ASSUME NEW r \in Requests, Serve(r) PROVE Lists'
  BY <1>5
  DEF Serve, Refuse, FindSite, AnswerEarly, Route, Limit, Forward, Upgrade, FindEntry,
      CreateEntry, Record, Lists
<1> QED BY <1>1, <1>2, <1>3, <1>4, <1>5 DEF Next

\* The tables that a list becomes are of its sites.
LEMMA HoldingType ==
  ASSUME NEW sites \in Loaded, NEW table \in [Names -> Files \cup {NoFile}]
  PROVE  Holding(sites, table) \in [Names -> Sites \cup {NoSite}]
BY DEF Holding, Loaded

-----------------------------------------------------------------------------
(* Type correctness. *)

LEMMA InitTyped == Init => Typed
<1> SUFFICES ASSUME Init PROVE Typed
  OBVIOUS
<1>1. IsFiniteSet(Creators) /\ Cardinality(Creators) \in Nat /\ Cardinality(Requests) \in Nat
  BY ProxyAssumption, FS_Subset, FS_CardinalityType DEF Creators
<1>2. /\ entries \in [Names -> Entries \cup {NoEntry}] /\ counts \in [Entries -> Nat]
      /\ stat \in [Requests -> Entries \cup {NoEntry}]
  BY DEF Init
<1>3. /\ step \in [Reloaders -> {"idle", "replace", "router", "prune"}]
      /\ list \in [Reloaders -> [Files -> Sites \cup {NoSite}]]
  BY DEF Init
<1>4. /\ status \in [Requests -> Statuses]
      /\ reply \in [Requests -> {"none", "answer", "switch", "fault"}]
      /\ pc \in [Requests -> {"new", "found", "routed", "admitted", "upgrade",
                              "find", "create", "record", "done"}]
  BY DEF Init, Statuses
<1>5. /\ index \in [Names -> Sites \cup {NoSite}] /\ runtimes \in [Names -> Sites \cup {NoSite}]
      /\ site \in [Requests -> Sites \cup {NoSite}] /\ rt \in [Requests -> Sites \cup {NoSite}]
  BY DEF Init
<1>6. \A r \in Requests : pc[r] = "new"
  BY DEF Init
<1>7. /\ made = 0 /\ made \in 0..Cardinality(Requests)
      /\ reloads \in 0..MaxReloads /\ toggles \in 0..MaxToggles
  <2>1. made = 0 /\ reloads = 0 /\ toggles = 0
    BY DEF Init
  <2>2. MaxReloads \in Nat /\ MaxToggles \in Nat
    BY ProxyAssumption
  <2> QED BY <1>1, <2>1, <2>2
<1>8. ready \in BOOLEAN /\ stopping \in BOOLEAN
  BY DEF Init
<1>9. TypeOK
  BY <1>2, <1>3, <1>4, <1>5, <1>6, <1>7, <1>8 DEF TypeOK
<1> QED BY <1>1, <1>7, <1>9 DEF Typed

\* A reload changes the tables, the registry and the lists, and no request.
LEMMA ReloadTyped ==
  ASSUME Typed, NEW p \in Reloaders,
         Load(p) \/ Replace(p) \/ RouterReload(p) \/ Prune(p) \/ Toggle(p)
  PROVE  Typed'
<1>1. UNCHANGED requestVars
  BY DEF Load, Replace, RouterReload, Prune, Toggle
<1>2. list[p] \in Loaded
  BY DEF Typed, TypeOK, Loaded
<1>3. list' \in [Reloaders -> Loaded]
  <2>1. CASE Toggle(p)
    <3>1. PICK f \in Files : list[p][f] # NoSite /\ list' = [list EXCEPT ![p][f].enabled = ~@]
      BY <2>1, ProxyAssumption DEF Toggle
    <3>2. [list[p] EXCEPT ![f].enabled = ~@] \in Loaded
      BY <1>2, <3>1, FlipKeepsList
    <3> QED BY <3>1, <3>2 DEF Typed, TypeOK, Loaded
  <2>2. CASE ~Toggle(p)
    BY <2>2, ProxyAssumption DEF Load, Replace, RouterReload, Prune, Typed, TypeOK, Loaded
  <2> QED BY <2>1, <2>2
<1>4. index' \in [Names -> Sites \cup {NoSite}]
  <2>1. CASE Replace(p)
    BY <1>2, <2>1, TablesType, HoldingType DEF Replace
  <2> QED BY <2>1 DEF Load, RouterReload, Prune, Toggle, tableVars, Typed, TypeOK
<1>5. runtimes' \in [Names -> Sites \cup {NoSite}] /\ ready' \in BOOLEAN
  <2>1. CASE RouterReload(p)
    BY <1>2, <2>1, TablesType, HoldingType DEF RouterReload, RuntimesOf
  <2> QED BY <2>1 DEF Load, Replace, Prune, Toggle, tableVars, Typed, TypeOK
<1>6. entries' \in [Names -> Entries \cup {NoEntry}]
  BY DEF Load, Replace, RouterReload, Prune, Toggle, metricsVars, Typed, TypeOK
<1>7. /\ step' \in [Reloaders -> {"idle", "replace", "router", "prune"}]
      /\ reloads' \in 0..MaxReloads /\ toggles' \in 0..MaxToggles
  BY ProxyAssumption DEF Load, Replace, RouterReload, Prune, Toggle, Typed, TypeOK
<1>8. UNCHANGED <<made, counts, stopping>>
  BY DEF Load, Replace, RouterReload, Prune, Toggle, metricsVars
<1> QED
  BY <1>1, <1>3, <1>4, <1>5, <1>6, <1>7, <1>8
  DEF requestVars, Typed, TypeOK, Creators, Loaded

\* A request that found a site has one with a domain among the names.
LEMMA FoundSite ==
  ASSUME TypeOK, NEW r \in Requests, pc[r] \notin {"new", "done"}
  PROVE  site[r] \in Sites /\ site[r].domain \in Names
BY SitesAssumption DEF TypeOK, Site

\* As long as no entry is made, it is enough that no creator is forgotten.
LEMMA CreatorsKept ==
  ASSUME Typed, made' = made, Creators \subseteq Creators', Creators' \subseteq Requests
  PROVE  made' <= Cardinality(Creators')
<1>1. IsFiniteSet(Creators') /\ IsFiniteSet(Creators)
  BY ProxyAssumption, FS_Subset
<1>2. Cardinality(Creators) <= Cardinality(Creators')
  BY <1>1, FS_Subset
<1>3. Cardinality(Creators) \in Nat /\ Cardinality(Creators') \in Nat
  BY <1>1, FS_CardinalityType
<1> QED BY <1>2, <1>3 DEF Typed, TypeOK

\* A request on its way to an entry has not made one yet: there is a number left.
LEMMA EntryIsLeft ==
  ASSUME Typed, NEW r \in Requests, pc[r] = "create"
  PROVE  /\ made + 1 \in Entries /\ made + 1 <= Cardinality(Creators \cup {r})
         /\ made + 1 <= Cardinality(Requests)
<1>1. IsFiniteSet(Creators) /\ Creators \cup {r} \subseteq Requests /\ r \notin Creators
  BY ProxyAssumption, FS_Subset DEF Creators
<1>2. Cardinality(Creators \cup {r}) = Cardinality(Creators) + 1
  BY <1>1, FS_AddElement
<1>3. Cardinality(Creators \cup {r}) <= Cardinality(Requests)
  BY <1>1, ProxyAssumption, FS_Subset
<1>4. /\ Cardinality(Creators) \in Nat /\ Cardinality(Requests) \in Nat
  BY <1>1, ProxyAssumption, FS_CardinalityType
<1> QED BY <1>2, <1>3, <1>4 DEF Typed, TypeOK, Entries

LEMMA ServeTyped ==
  ASSUME Typed, NEW r \in Requests, Serve(r)
  PROVE  Typed'
<1> USE DEF Advance, Finish
<1>1. ASSUME pc[r] \notin {"record", "done"}, UNCHANGED made,
             \A q \in Requests \ {r} : pc'[q] = pc[q]
      PROVE  made' <= Cardinality(Creators')
  <2>1. Creators \subseteq Creators' /\ Creators' \subseteq Requests
    BY <1>1 DEF Creators
  <2> QED BY <1>1, <2>1, CreatorsKept
<1>2. CASE Refuse(r) \/ AnswerEarly(r)
  <2>1. TypeOK'
    BY <1>2
    DEF Refuse, AnswerEarly, Typed, TypeOK, tableVars, metricsVars, reloadVars, Statuses
  <2> QED
    BY <1>1, <1>2, <2>1 DEF Refuse, AnswerEarly, Typed, TypeOK, metricsVars
<1>3. CASE FindSite(r)
  <2>1. Lookup(index, HostOf[r]) \in Sites \cup {NoSite}
    BY ProxyAssumption, NamesAssumption DEF Lookup, Typed, TypeOK
  <2>2. TypeOK'
    BY <1>3, <2>1 DEF FindSite, Typed, TypeOK, tableVars, metricsVars, reloadVars, Statuses
  <2> QED BY <1>1, <1>3, <2>2 DEF FindSite, Typed, TypeOK, metricsVars
<1>4. CASE Route(r)
  <2>1. runtimes[site[r].domain] \in Sites \cup {NoSite}
    BY <1>4, FoundSite DEF Route, Typed, TypeOK
  <2>2. TypeOK'
    BY <1>4, <2>1 DEF Route, Typed, TypeOK, tableVars, metricsVars, reloadVars, Statuses
  <2> QED BY <1>1, <1>4, <2>2 DEF Route, Typed, TypeOK, metricsVars
<1>5. CASE Limit(r)
  <2>1. TypeOK'
    BY <1>5 DEF Limit, Typed, TypeOK, tableVars, metricsVars, reloadVars, Statuses
  <2> QED BY <1>1, <1>5, <2>1 DEF Limit, Typed, TypeOK, metricsVars
<1>6. CASE Forward(r)
  <2>1. \E to \in {"find", "upgrade", "done"}, answer \in {"answer", "fault", "switch"} :
          \E code \in Statuses :
            /\ pc' = [pc EXCEPT ![r] = to] /\ reply' = [reply EXCEPT ![r] = answer]
            /\ status' = [status EXCEPT ![r] = code]
    <3>1. status[r] \in Statuses /\ [status EXCEPT ![r] = status[r]] = status
      BY DEF Typed, TypeOK
    <3> QED BY <1>6, <3>1 DEF Forward, Statuses
  <2>2. TypeOK'
    BY <1>6, <2>1 DEF Forward, Typed, TypeOK, tableVars, metricsVars, reloadVars
  <2> QED BY <1>1, <1>6, <2>2 DEF Forward, Typed, TypeOK, metricsVars
<1>7. CASE Upgrade(r)
  <2>1. TypeOK'
    BY <1>7 DEF Upgrade, Typed, TypeOK, tableVars, metricsVars, reloadVars, Statuses
  <2> QED BY <1>1, <1>7, <2>1 DEF Upgrade, Typed, TypeOK, metricsVars
<1>8. CASE FindEntry(r)
  <2>1. entries[site[r].domain] \in Entries \cup {NoEntry}
    BY <1>8, FoundSite DEF FindEntry, Typed, TypeOK
  <2>2. TypeOK'
    BY <1>8, <2>1, ZenonT(60) DEF FindEntry, Typed, TypeOK, tableVars, metricsVars, reloadVars
  <2> QED BY <1>1, <1>8, <2>2 DEF FindEntry, Typed, TypeOK, metricsVars
<1>9. CASE CreateEntry(r)
  <2>1. /\ made + 1 \in Entries /\ made + 1 <= Cardinality(Creators \cup {r})
        /\ made + 1 <= Cardinality(Requests)
    BY <1>9, EntryIsLeft DEF CreateEntry
  <2>2. site[r].domain \in Names /\ entries[site[r].domain] \in Entries \cup {NoEntry}
    BY <1>9, FoundSite DEF CreateEntry, Typed, TypeOK
  <2>3. Cardinality(Requests) \in Nat
    BY ProxyAssumption, FS_CardinalityType
  <2>4. /\ entries' \in [Names -> Entries \cup {NoEntry}]
        /\ stat' \in [Requests -> Entries \cup {NoEntry}] /\ stat'[r] # NoEntry
        /\ made' \in 0..Cardinality(Requests)
    BY <1>9, <2>1, <2>2, <2>3, ProxyAssumption DEF CreateEntry, Typed, TypeOK
  <2>5. TypeOK'
    BY <1>9, <2>4 DEF CreateEntry, Typed, TypeOK, tableVars, reloadVars
  <2>6. Creators' = Creators \cup {r}
    BY <1>9 DEF CreateEntry, Typed, TypeOK, Creators
  <2>7. made' <= Cardinality(Creators')
    <3>1. CASE made' = made + 1
      BY <2>1, <2>6, <3>1
    <3>2. CASE made' = made
      BY <2>5, <2>6, <3>2, CreatorsKept DEF Creators, TypeOK
    <3> QED BY <1>9, <3>1, <3>2 DEF CreateEntry
  <2> QED BY <2>5, <2>7 DEF Typed
<1>10. CASE Record(r)
  <2>1. TypeOK'
    BY <1>10, ProxyAssumption DEF Record, Typed, TypeOK, tableVars, reloadVars
  <2>2. Creators' = Creators /\ made' = made
    BY <1>10 DEF Record, Typed, TypeOK, Creators
  <2> QED BY <2>1, <2>2 DEF Typed
<1> QED
  BY <1>2, <1>3, <1>4, <1>5, <1>6, <1>7, <1>8, <1>9, <1>10 DEF Serve

LEMMA TypedStep ==
  ASSUME Typed, [Next]_vars
  PROVE  Typed'
<1>1. CASE Stop \/ UNCHANGED vars
  BY <1>1
  DEF Stop, vars, tableVars, metricsVars, reloadVars, requestVars, Typed, TypeOK, Creators
<1> QED BY <1>1, ReloadTyped, ServeTyped DEF Next

-----------------------------------------------------------------------------
(* The counts. *)

\* OnReload keeps the entry of a site that stays.
LEMMA PruneKeeps ==
  ASSUME TypeOK, Lists, NEW p \in Reloaders, step[p] # "idle", NEW d \in Names, Stays(d)
  PROVE  d \in Keep(list[p])
<1>1. PICK l \in Loads : \A f \in Pinned : list[p][f] = l[f]
  BY DEF Lists, FromLoad
<1>2. PICK f \in Pinned : f \in Active(l) /\ l[f].domain = d
  BY DEF Stays
<1>3. f \in Active(list[p]) /\ d \in AllDomains(list[p][f])
  BY <1>1, <1>2 DEF Active, AllDomains
<1> QED BY <1>3 DEF Keep

LEMMA AnswerableStep ==
  ASSUME TypeOK, Answerable, [Next]_vars
  PROVE  Answerable'
<1>1. CASE UNCHANGED requestVars
  BY <1>1 DEF requestVars, Answerable
<1>2. ASSUME NEW r \in Requests, Serve(r) PROVE Answerable'
  <2> SUFFICES ASSUME NEW q \in Requests, pc'[q] \in {"find", "create", "record"}
               PROVE  status'[q] \in {"429", "101", "200", "502"}
    BY DEF Answerable
  <2>1. CASE q # r
    <3>1. pc'[q] = pc[q] /\ status'[q] = status[q]
      BY <1>2, <2>1
      DEF Serve, Refuse, FindSite, AnswerEarly, Route, Limit, Forward, Upgrade, FindEntry,
          CreateEntry, Record, Advance, Finish, TypeOK
    <3> QED BY <3>1 DEF Answerable
  <2>2. CASE q = r
    <3>1. CASE Refuse(r) \/ FindSite(r) \/ AnswerEarly(r) \/ Route(r) \/ Record(r)
      BY <2>2, <3>1 DEF Refuse, FindSite, AnswerEarly, Route, Record, Advance, Finish, TypeOK
    <3>2. CASE Limit(r) \/ Forward(r) \/ Upgrade(r)
      BY <2>2, <3>2 DEF Limit, Forward, Upgrade, Advance, Finish, TypeOK
    <3>3. CASE FindEntry(r) \/ CreateEntry(r)
      BY <2>2, <3>3 DEF FindEntry, CreateEntry, Advance, Answerable
    <3> QED BY <1>2, <3>1, <3>2, <3>3 DEF Serve
  <2> QED BY <2>1, <2>2
<1> QED
  BY <1>1, <1>2 DEF Next, Load, Replace, RouterReload, Prune, Toggle, Stop, vars

\* A step after which the same requests are answered and in the same place.
SameAnswers ==
  \A q \in Requests :
    /\ Accountable(q)' <=> Accountable(q)
    /\ Accountable(q) => site'[q] = site[q]

\* A step that lets nobody into Record.
SameRecorders ==
  \A q \in Requests : pc'[q] = "record" =>
    pc[q] = "record" /\ stat'[q] = stat[q] /\ site'[q] = site[q]

LEMMA QuietCounts ==
  ASSUME Owned, Counted, UNCHANGED metricsVars, SameAnswers, SameRecorders
  PROVE  Owned' /\ Counted'
<1>1. \A d \in Names : Answered(d)' = Answered(d)
  BY DEF Answered, SameAnswers
<1>2. Counted'
  BY <1>1 DEF Counted, metricsVars
<1>3. Owned'
  BY DEF Owned, metricsVars, SameRecorders
<1> QED BY <1>2, <1>3

LEMMA ReloadCounts ==
  ASSUME TypeOK, Lists, Owned, Counted, NEW p \in Reloaders,
         Load(p) \/ Replace(p) \/ RouterReload(p) \/ Prune(p) \/ Toggle(p)
  PROVE  Owned' /\ Counted'
<1>1. UNCHANGED requestVars
  BY DEF Load, Replace, RouterReload, Prune, Toggle
<1>2. SameAnswers /\ SameRecorders
  BY <1>1 DEF requestVars, SameAnswers, SameRecorders, Accountable
<1>3. CASE ~Prune(p)
  <2>1. UNCHANGED metricsVars
    BY <1>3 DEF Load, Replace, RouterReload, Toggle
  <2> QED BY <1>2, <2>1, QuietCounts
<1>4. CASE Prune(p)
  <2>1. /\ \A n \in Names : entries'[n] = entries[n] \/ entries'[n] = NoEntry
        /\ \A n \in Names : Stays(n) => entries'[n] = entries[n]
        /\ UNCHANGED <<made, counts>>
    BY <1>4, PruneKeeps DEF Prune, TypeOK
  <2>2. \A d \in Names : Answered(d)' = Answered(d)
    BY <1>2 DEF Answered, SameAnswers
  <2>3. Counted'
    BY <2>1, <2>2 DEF Counted
  <2>4. \A r \in Requests : pc[r] = "record" => stat[r] # NoEntry /\ site[r].domain \in Names
    BY FoundSite DEF TypeOK
  <2>5. Owned'
    BY <1>1, <2>1, <2>4 DEF requestVars, Owned
  <2> QED BY <2>3, <2>5
<1> QED BY <1>3, <1>4

\* A request that takes the entry it finds, or the one it makes, into Record.
LEMMA EntryCounts ==
  ASSUME Typed, Owned, Counted, NEW r \in Requests, FindEntry(r) \/ CreateEntry(r)
  PROVE  Owned' /\ Counted'
<1> DEFINE d == site[r].domain
<1>1. d \in Names
  BY FoundSite DEF FindEntry, CreateEntry, Typed
<1>2. /\ pc[r] \in {"find", "create"} /\ UNCHANGED <<site, status, counts>>
      /\ \A q \in Requests \ {r} : pc'[q] = pc[q] /\ stat'[q] = stat[q]
      /\ pc'[r] \in {"create", "record"}
  <2>1. CASE FindEntry(r)
    BY <2>1 DEF FindEntry, Advance, metricsVars, Typed, TypeOK
  <2>2. CASE CreateEntry(r)
    <3>1. \E e : stat' = [stat EXCEPT ![r] = e]
      BY <2>2 DEF CreateEntry
    <3> QED BY <2>2, <3>1 DEF CreateEntry, Advance, Typed, TypeOK
  <2> QED BY <2>1, <2>2
<1>3. SameAnswers
  BY <1>2 DEF SameAnswers, Accountable
<1>4. \A n \in Names : Answered(n)' = Answered(n)
  BY <1>3 DEF SameAnswers, Answered
<1>5. \A q \in Requests : pc[q] = "record" =>
        stat[q] \in Entries /\ stat[q] # NoEntry /\ site[q].domain \in Names
  BY FoundSite DEF Typed, TypeOK
<1>6. made \in Nat
  BY DEF Typed, TypeOK
<1>7. CASE pc'[r] = "create"
  <2>1. UNCHANGED metricsVars /\ SameRecorders
    BY <1>2, <1>7 DEF FindEntry, CreateEntry, Advance, Typed, TypeOK, SameRecorders
  <2> QED BY <1>3, <2>1, QuietCounts
<1>8. CASE pc'[r] = "record" /\ entries[d] # NoEntry
  <2>1. UNCHANGED <<entries, made>> /\ stat'[r] = entries[d]
    BY <1>8 DEF FindEntry, CreateEntry, Advance, metricsVars, Typed, TypeOK
  <2>2. Counted'
    BY <1>2, <1>4, <2>1 DEF Counted
  <2>3. Owned'
    BY <1>1, <1>2, <1>8, <2>1 DEF Owned
  <2> QED BY <2>2, <2>3
<1>9. CASE pc'[r] = "record" /\ entries[d] = NoEntry
  <2>1. /\ made' = made + 1 /\ entries' = [entries EXCEPT ![d] = made + 1]
        /\ stat'[r] = made + 1 /\ pc[r] = "create"
    BY <1>9 DEF FindEntry, CreateEntry, Advance, Typed, TypeOK
  <2>2. made + 1 \in Entries /\ made + 1 # NoEntry
    BY <2>1, EntryIsLeft, ProxyAssumption
  <2>3. /\ entries'[d] = made + 1 /\ \A n \in Names \ {d} : entries'[n] = entries[n]
        /\ \A n \in Names : entries[n] # NoEntry => entries[n] \in Nat /\ entries[n] <= made
    BY <1>1, <2>1 DEF Typed, TypeOK, Entries, Owned
  <2>4. counts[made + 1] = 0
    BY <1>6, <2>2 DEF Owned
  <2>5. Counted'
    <3> SUFFICES ASSUME NEW n \in Names, Stays(n)
                 PROVE  Cardinality(Answered(n)') =
                          IF entries'[n] = NoEntry THEN 0 ELSE counts'[entries'[n]]
      BY DEF Counted
    <3>1. Cardinality(Answered(n)) = IF entries[n] = NoEntry THEN 0 ELSE counts[entries[n]]
      BY DEF Counted
    <3> QED BY <1>2, <1>4, <1>9, <2>2, <2>3, <2>4, <3>1
  <2>6. ASSUME NEW q \in Requests, pc'[q] = "record"
        PROVE  /\ stat'[q] <= made'
               /\ \A n \in Names : entries'[n] = stat'[q] => site'[q].domain = n
               /\ Stays(site'[q].domain) => entries'[site'[q].domain] = stat'[q]
    <3>1. CASE q = r
      BY <1>2, <1>6, <2>1, <2>2, <2>3, <3>1
    <3>2. CASE q # r
      <4>1. pc[q] = "record" /\ stat'[q] = stat[q] /\ stat[q] <= made /\ stat[q] \in Nat
        BY <1>2, <1>5, <2>6, <3>2 DEF Owned, Entries
      <4> QED BY <1>1, <1>2, <1>5, <1>6, <1>9, <2>1, <2>3, <4>1 DEF Owned
    <3> QED BY <3>1, <3>2
  <2>7. Owned'
    <3>1. \A n \in Names : entries'[n] # NoEntry => entries'[n] <= made'
      BY <1>6, <2>1, <2>3
    <3>2. \A m, n \in Names : entries'[m] # NoEntry /\ entries'[m] = entries'[n] => m = n
      BY <1>6, <2>2, <2>3 DEF Owned
    <3>3. \A e \in Entries : e > made' => counts'[e] = 0
      BY <1>2, <1>6, <2>1 DEF Owned, Entries
    <3> QED BY <2>6, <3>1, <3>2, <3>3 DEF Owned
  <2> QED BY <2>5, <2>7
<1> QED BY <1>2, <1>7, <1>8, <1>9

LEMMA RecordCounts ==
  ASSUME Typed, Answerable, Owned, Counted, NEW r \in Requests, Record(r)
  PROVE  Owned' /\ Counted'
<1> DEFINE d == site[r].domain
<1>1. /\ pc[r] = "record" /\ d \in Names /\ stat[r] \in Entries /\ stat[r] # NoEntry
      /\ stat[r] <= made
  BY FoundSite DEF Record, Typed, TypeOK, Owned
<1>2. /\ pc' = [pc EXCEPT ![r] = "done"] /\ counts' = [counts EXCEPT ![stat[r]] = @ + 1]
      /\ UNCHANGED <<entries, made, site, stat, status>>
  BY DEF Record, Advance
<1>3. Owned'
  <2>1. \A e \in Entries : e > made => counts'[e] = counts[e]
    BY <1>1, <1>2 DEF Typed, TypeOK, Entries
  <2> QED BY <1>2, <2>1 DEF Owned, Typed, TypeOK
<1>4. Counted'
  <2> SUFFICES ASSUME NEW n \in Names, Stays(n)
               PROVE  Cardinality(Answered(n)') =
                        IF entries'[n] = NoEntry THEN 0 ELSE counts'[entries'[n]]
    BY DEF Counted
  <2>1. Cardinality(Answered(n)) = IF entries[n] = NoEntry THEN 0 ELSE counts[entries[n]]
    BY DEF Counted
  <2>2. Accountable(r)' /\ ~Accountable(r) /\ \A q \in Requests \ {r} : Accountable(q)' <=> Accountable(q)
    BY <1>1, <1>2 DEF Accountable, Answerable, Typed, TypeOK
  <2>3. CASE n = d
    <3>1. entries[n] = stat[r]
      BY <1>1, <2>3 DEF Owned
    <3>2. Answered(n)' = Answered(n) \cup {r} /\ r \notin Answered(n)
      BY <1>2, <2>2, <2>3 DEF Answered
    <3>3. IsFiniteSet(Answered(n)) /\ Cardinality(Answered(n)') = Cardinality(Answered(n)) + 1
      BY <3>2, ProxyAssumption, FS_Subset, FS_AddElement DEF Answered
    <3>4. counts'[stat[r]] = counts[stat[r]] + 1
      BY <1>1, <1>2 DEF Typed, TypeOK
    <3> QED BY <1>1, <1>2, <2>1, <3>1, <3>3, <3>4
  <2>4. CASE n # d
    <3>1. entries[n] # stat[r]
      BY <1>1, <2>4 DEF Owned
    <3>2. Answered(n)' = Answered(n)
      BY <1>2, <2>2, <2>4 DEF Answered
    <3>3. entries[n] # NoEntry => counts'[entries[n]] = counts[entries[n]]
      BY <1>2, <3>1 DEF Typed, TypeOK
    <3> QED BY <1>2, <2>1, <3>2, <3>3
  <2> QED BY <2>3, <2>4
<1> QED BY <1>3, <1>4

LEMMA CountsStep ==
  ASSUME Typed, Lists, Answerable, Owned, Counted, [Next]_vars
  PROVE  Owned' /\ Counted'
<1>1. CASE Stop \/ UNCHANGED vars
  <2>1. UNCHANGED <<metricsVars, requestVars>>
    BY <1>1 DEF Stop, vars
  <2>2. SameAnswers /\ SameRecorders
    BY <2>1 DEF requestVars, SameAnswers, SameRecorders, Accountable
  <2> QED BY <2>1, <2>2, QuietCounts
<1>2. ASSUME NEW r \in Requests,
             \/ Refuse(r) \/ FindSite(r) \/ AnswerEarly(r) \/ Route(r)
             \/ Limit(r) \/ Forward(r) \/ Upgrade(r)
      PROVE  Owned' /\ Counted'
  <2>1. UNCHANGED metricsVars
    BY <1>2 DEF Refuse, FindSite, AnswerEarly, Route, Limit, Forward, Upgrade
  <2>2. /\ pc[r] \notin {"done", "record"} /\ pc'[r] # "record"
        /\ \A q \in Requests \ {r} :
             pc'[q] = pc[q] /\ stat'[q] = stat[q] /\ site'[q] = site[q] /\ status'[q] = status[q]
    BY <1>2
    DEF Refuse, FindSite, AnswerEarly, Route, Limit, Forward, Upgrade, Advance, Finish,
        Typed, TypeOK
  <2>3. ~Accountable(r)'
    BY <1>2
    DEF Refuse, FindSite, AnswerEarly, Route, Limit, Forward, Upgrade, Advance, Finish,
        Accountable, Typed, TypeOK
  <2>4. SameAnswers /\ SameRecorders
    BY <2>2, <2>3 DEF SameAnswers, SameRecorders, Accountable
  <2> QED BY <2>1, <2>4, QuietCounts
<1> QED
  BY <1>1, <1>2, ReloadCounts, EntryCounts, RecordCounts DEF Next, Serve, Typed

-----------------------------------------------------------------------------

LEMMA CInvInit == Init => CInv
<1> SUFFICES ASSUME Init PROVE Lists /\ Answerable /\ Owned /\ Counted
  BY InitTyped DEF CInv
<1>1. Lists /\ Answerable /\ Owned
  BY DEF Init, Lists, Answerable, Owned
<1>2. \A d : Answered(d) = {}
  BY DEF Init, Answered, Accountable
<1>3. \A n \in Names : entries[n] = NoEntry
  BY DEF Init
<1> QED BY <1>1, <1>2, <1>3, FS_EmptySet DEF Counted

LEMMA CInvStep == CInv /\ [Next]_vars => CInv'
BY TypedStep, ListsStep, AnswerableStep, CountsStep DEF CInv, Typed

\* Type correctness, the number of metrics entries included.
THEOREM TypeCorrect == Spec => []TypeOK
<1>1. CInv => TypeOK
  BY DEF CInv, Typed
<1> QED BY <1>1, CInvInit, CInvStep, PTL DEF Spec

\* No count of a site that stays is lost or split over two entries, however many
\* requests race for the entry and whatever reloads prune meanwhile.
THEOREM CountsKept == Spec => []CountsExact
<1>1. CInv => CountsExact
  <2> SUFFICES ASSUME CInv, NEW f \in Pinned, NEW l \in Loads, f \in Active(l)
               PROVE  Cardinality(Answered(l[f].domain)) =
                        IF entries[l[f].domain] = NoEntry THEN 0
                        ELSE counts[entries[l[f].domain]]
    BY DEF CountsExact, Answered
  <2>1. \A k \in Loads : k[f] = l[f]
    BY ProxyAssumption
  <2>2. Stays(l[f].domain)
    BY <2>1 DEF Stays, Active
  <2>3. l[f].domain \in Names
    BY ProxyAssumption, SitesAssumption DEF Active, Site
  <2> QED BY <2>2, <2>3 DEF CInv, Counted
<1> QED BY <1>1, CInvInit, CInvStep, PTL DEF Spec

-----------------------------------------------------------------------------
(* The untouched sites. *)

LEMMA SoleIsLast ==
  ASSUME NEW sites, NEW f
  PROVE  LastOf(sites, {f}) = f
BY DEF LastOf

\* Whatever list a reload works on, its tables give an own host the own site.
LEMMA OwnTables ==
  ASSUME NEW r \in Requests, NEW f \in Pinned, OwnHost(r, f), NEW l \in Loads,
         NEW sites \in Loaded, FromLoad(sites)
  PROVE  /\ Holding(sites, ByDomain(sites))[Lower[HostOf[r]]] = l[f]
         /\ RuntimesOf(sites)[l[f].domain] = l[f]
         /\ l[f] \in Sites /\ l[f].domain \in Names
<1> DEFINE h == Lower[HostOf[r]]
           s == l[f]
<1>1. PICK k \in Loads :
        /\ \A g \in Pinned : sites[g] = k[g]
        /\ \A g \in Files : sites[g] # NoSite =>
             k[g] # NoSite /\ AllDomains(sites[g]) = AllDomains(k[g])
  BY DEF FromLoad
<1>2. f \in Files /\ f # NoFile /\ sites[f] = s /\ k[f] = s
  BY <1>1, ProxyAssumption, FilesAssumption
<1>3. f \in Pooled(k) /\ \E d \in AllDomains(s) : Lower[d] = h
  BY <1>2 DEF OwnHost
<1>4. \A g \in Files \ {f} : k[g] # NoSite =>
        \A d \in AllDomains(s), e \in AllDomains(k[g]) : Lower[d] # Lower[e]
  BY <1>2 DEF OwnHost
<1>5. s \in Sites /\ s.domain \in Names /\ h \in Names
  BY <1>2, <1>3, ProxyAssumption, SitesAssumption, NamesAssumption DEF Pooled, Active, Site
<1>6. f \in Pooled(sites) /\ f \in Active(sites)
  BY <1>2, <1>3 DEF Pooled, Active
<1>7. \A g \in Files \ {f} : sites[g] # NoSite =>
        \A d \in AllDomains(s), e \in AllDomains(sites[g]) : Lower[d] # Lower[e]
  BY <1>1, <1>4
<1>8. {g \in Active(sites) : \E d \in AllDomains(sites[g]) : Lower[d] = h} = {f}
  BY <1>2, <1>3, <1>6, <1>7 DEF Active
<1>9. {g \in Pooled(sites) : s.domain \in AllDomains(sites[g])} = {f}
  <2>1. s.domain \in AllDomains(s)
    BY DEF AllDomains
  <2> QED BY <1>2, <1>6, <1>7, <2>1 DEF Pooled, Active
<1>10. ByDomain(sites)[h] = f
  BY <1>5, <1>8, SoleIsLast DEF ByDomain
<1>11. Runtimes(sites)[s.domain] = f
  BY <1>5, <1>9, SoleIsLast DEF Runtimes
<1> HIDE DEF h, s
<1>12. Holding(sites, ByDomain(sites))[h] = sites[f]
  BY <1>2, <1>5, <1>10 DEF Holding
<1>13. RuntimesOf(sites)[s.domain] = sites[f]
  BY <1>2, <1>5, <1>11 DEF RuntimesOf, Holding
<1> QED BY <1>2, <1>5, <1>12, <1>13 DEF h, s

\* A step of a reload: the tables it fills hold the own site.
LEMMA ReloadServes ==
  ASSUME SInv, NEW p \in Reloaders,
         Load(p) \/ Replace(p) \/ RouterReload(p) \/ Prune(p) \/ Toggle(p),
         NEW r \in Requests, NEW f \in Pinned, OwnHost(r, f), NEW l \in Loads
  PROVE  ServedBy(HostOf[r], l[f])'
<1>1. UNCHANGED requestVars
  BY DEF Load, Replace, RouterReload, Prune, Toggle
<1>2. ServedBy(HostOf[r], l[f])
  BY DEF SInv, Served
<1>3. /\ \A q \in Reloaders \ {p} : step'[q] = step[q]
      /\ list[p] \in Loaded
  BY DEF Load, Replace, RouterReload, Prune, Toggle, SInv, TypeOK, Loaded
<1>4. step[p] # "idle" => FromLoad(list[p])
  BY DEF SInv, Lists
<1>5. CASE Load(p) \/ Prune(p) \/ Toggle(p)
  BY <1>1, <1>2, <1>3, <1>5
  DEF Load, Prune, Toggle, tableVars, requestVars, ServedBy, SInv, TypeOK
<1>6. CASE Replace(p)
  <2>1. index'[Lower[HostOf[r]]] = l[f] /\ UNCHANGED <<runtimes, ready>>
    BY <1>3, <1>4, <1>6, OwnTables DEF Replace
  <2> QED BY <1>1, <1>2, <2>1 DEF requestVars, ServedBy
<1>7. CASE RouterReload(p)
  <2>1. runtimes'[l[f].domain] = l[f] /\ index' = index /\ step[p] = "router"
    BY <1>3, <1>4, <1>7, OwnTables DEF RouterReload
  <2>2. index[Lower[HostOf[r]]] = l[f]
    BY <1>2, <2>1 DEF ServedBy
  <2> QED BY <1>1, <1>2, <2>1, <2>2 DEF requestVars, ServedBy
<1> QED BY <1>5, <1>6, <1>7

\* A step of a request to an own host, or of another request.
LEMMA RequestServes ==
  ASSUME SInv, NEW q \in Requests, Serve(q),
         NEW r \in Requests, NEW f \in Pinned, OwnHost(r, f), NEW l \in Loads
  PROVE  ServedBy(HostOf[r], l[f])'
<1>1. ServedBy(HostOf[r], l[f])
  BY DEF SInv, Served
<1>2. UNCHANGED <<tableVars, step>>
  BY DEF Serve, Refuse, FindSite, AnswerEarly, Route, Limit, Forward, Upgrade, FindEntry,
         CreateEntry, Record, reloadVars
<1>3. CASE UNCHANGED <<site, rt>>
  BY <1>1, <1>2, <1>3 DEF ServedBy, tableVars
<1>4. CASE FindSite(q)
  <2>1. rt' = rt /\ site' = [site EXCEPT ![q] = index[Lower[HostOf[q]]]]
    BY <1>4 DEF FindSite, Lookup
  <2> QED BY <1>1, <1>2, <2>1 DEF ServedBy, tableVars, SInv, TypeOK
<1>5. CASE Route(q)
  <2>1. site' = site /\ rt' = [rt EXCEPT ![q] = runtimes[site[q].domain]] /\ site[q] # NoSite
    BY <1>5 DEF Route, SInv, TypeOK
  <2>2. ASSUME NEW t \in Requests, HostOf[t] = HostOf[r] PROVE rt'[t] \in {NoSite, l[f]}
    <3>1. site[t] \in {NoSite, l[f]} /\ rt[t] \in {NoSite, l[f]}
      BY <1>1, <2>2 DEF ServedBy
    <3> QED BY <1>1, <2>1, <3>1 DEF ServedBy, SInv, TypeOK
  <2> QED BY <1>1, <1>2, <2>1, <2>2 DEF ServedBy, tableVars
<1> QED
  BY <1>3, <1>4, <1>5
  DEF Serve, Refuse, AnswerEarly, Limit, Forward, Upgrade, FindEntry, CreateEntry, Record

LEMMA SInvInit == Init => SInv
<1> SUFFICES ASSUME Init PROVE Lists /\ Filled /\ Served
  BY InitTyped DEF SInv, Typed
<1>1. Lists /\ Filled
  BY DEF Init, Lists, Filled
<1>2. Served
  <2> SUFFICES ASSUME NEW r \in Requests, NEW f \in Pinned, OwnHost(r, f), NEW l \in Loads
               PROVE  ServedBy(HostOf[r], l[f])
    BY DEF Served
  <2>1. HostOf[r] \in Names /\ Lower[HostOf[r]] \in Names
    BY ProxyAssumption, NamesAssumption
  <2>2. l[f].domain \in Names
    BY ProxyAssumption, SitesAssumption DEF OwnHost, Pooled, Active, Site
  <2> QED BY <2>1, <2>2 DEF Init, ServedBy
<1> QED BY <1>1, <1>2

LEMMA FilledStep ==
  ASSUME Lists, Filled, [Next]_vars
  PROVE  Filled'
<1>1. ASSUME NEW p \in Reloaders, RouterReload(p) PROVE Filled'
  BY <1>1 DEF RouterReload, Lists, FromLoad, Filled
<1>2. CASE ready' = ready
  BY <1>2 DEF Filled
<1>3. ready' = ready \/ \E p \in Reloaders : RouterReload(p)
  BY DEF Next, Load, Replace, Prune, Toggle, Stop, Serve, Refuse, FindSite, AnswerEarly, Route,
         Limit, Forward, Upgrade, FindEntry, CreateEntry, Record, tableVars, vars
<1> QED BY <1>1, <1>2, <1>3

LEMMA SInvStep == Typed /\ SInv /\ [Next]_vars => SInv'
<1> SUFFICES ASSUME Typed, SInv, [Next]_vars PROVE Served'
  BY TypedStep, ListsStep, FilledStep DEF SInv, Typed
<1> SUFFICES ASSUME NEW r \in Requests, NEW f \in Pinned, OwnHost(r, f), NEW l \in Loads
             PROVE  ServedBy(HostOf[r], l[f])'
  BY DEF Served, OwnHost
<1>1. CASE Stop \/ UNCHANGED vars
  <2>1. UNCHANGED <<tableVars, reloadVars, requestVars>>
    BY <1>1 DEF Stop, vars
  <2> QED BY <2>1 DEF SInv, Served, ServedBy, tableVars, reloadVars, requestVars
<1> QED BY <1>1, ReloadServes, RequestServes DEF Next

\* What a step may answer a request to an own host, and by which runtime.
LEMMA ServedStep ==
  ASSUME SInv, SInv', [Next]_vars, NEW r \in Requests, NEW f \in Pinned, OwnHost(r, f)
  PROVE  /\ ready /\ status'[r] # status[r] => status'[r] \notin {"404", "503"}
         /\ rt'[r] # NoSite => \A l \in Loads : rt'[r] = l[f]
<1>1. rt'[r] # NoSite => \A l \in Loads : rt'[r] = l[f]
  BY DEF SInv, Served, ServedBy, OwnHost
<1>2. ASSUME ready, status'[r] # status[r] PROVE status'[r] \notin {"404", "503"}
  <2>1. PICK l \in Loads : TRUE
    BY <1>2 DEF SInv, Filled
  <2>2. /\ index[Lower[HostOf[r]]] = l[f] /\ runtimes[l[f].domain] = l[f]
        /\ site[r] \in {NoSite, l[f]}
    BY <1>2 DEF SInv, Served, ServedBy
  <2>3. l[f] # NoSite
    BY DEF OwnHost, Pooled, Active
  <2>4. Serve(r)
    <3>1. ASSUME NEW q \in Requests \ {r}, Serve(q) PROVE status'[r] = status[r]
      BY <3>1
      DEF Serve, Refuse, FindSite, AnswerEarly, Route, Limit, Forward, Upgrade, FindEntry,
          CreateEntry, Record, Finish, SInv, TypeOK
    <3>2. ASSUME UNCHANGED requestVars PROVE status'[r] = status[r]
      BY <3>2 DEF requestVars
    <3> QED
      BY <1>2, <3>1, <3>2
      DEF Next, Load, Replace, RouterReload, Prune, Toggle, Stop, vars
  <2>5. CASE FindSite(r)
    BY <1>2, <2>2, <2>3, <2>5 DEF FindSite, Lookup
  <2>6. CASE Route(r)
    BY <1>2, <2>2, <2>3, <2>6 DEF Route, SInv, TypeOK
  <2>7. CASE ~FindSite(r) /\ ~Route(r)
    BY <1>2, <2>4, <2>7
    DEF Serve, Refuse, AnswerEarly, Limit, Forward, Upgrade, FindEntry, CreateEntry, Record,
        Finish, SInv, TypeOK
  <2> QED BY <2>5, <2>6, <2>7
<1> QED BY <1>1, <1>2

\* The hosts of a site that nobody touches are served by that site alone, and
\* never answered 404 or 503 once both tables were filled, while any number of
\* reloads swap the tables.
THEOREM UntouchedServed == Spec => UntouchedIsServed
<1> DEFINE A == \A r \in Requests, f \in Pinned :
                  OwnHost(r, f) =>
                    /\ ready /\ status'[r] # status[r] => status'[r] \notin {"404", "503"}
                    /\ rt'[r] # NoSite => \A l \in Loads : rt'[r] = l[f]
<1>1. Init => CInv /\ SInv
  BY CInvInit, SInvInit
<1>2. CInv /\ SInv /\ [Next]_vars => CInv' /\ SInv'
  BY CInvStep, SInvStep DEF CInv
<1>3. SInv /\ SInv' /\ [Next]_vars => [A]_vars
  BY ServedStep
<1> QED BY <1>1, <1>2, <1>3, PTL DEF Spec, UntouchedIsServed

-----------------------------------------------------------------------------
(* The runtime of a request. *)

\* No name is the domain of one site and a name of another one, in any loads.
Unshared ==
  \A k, l \in Loads, f, g \in Files :
    k[f] # NoSite /\ l[g] # NoSite /\ k[f].domain \in AllDomains(l[g]) =>
      l[g].domain = k[f].domain

\* The domain of a site of some load.
IsDomain(n) == \E l \in Loads, f \in Files : l[f] # NoSite /\ l[f].domain = n

\* What is found or filed is a site of some load, and a runtime is filed under
\* the names of its site.
Filed ==
  /\ \A n \in Names : index[n] # NoSite => IsDomain(index[n].domain)
  /\ \A n \in Names : runtimes[n] # NoSite =>
       \E l \in Loads, f \in Files :
         /\ l[f] # NoSite /\ l[f].domain = runtimes[n].domain
         /\ n \in AllDomains(l[f])
  /\ \A r \in Requests : site[r] # NoSite => IsDomain(site[r].domain)

\* A new request has no runtime.
Unrouted == \A r \in Requests : pc[r] = "new" => rt[r] = NoSite

FInv == Filed /\ Unrouted /\ LimitedByOwnSite

\* The tables of a list are of sites of its load.
LEMMA FiledTables ==
  ASSUME NEW sites \in Loaded, FromLoad(sites), NEW n \in Names
  PROVE  LET found == Holding(sites, ByDomain(sites))[n]
             filed == RuntimesOf(sites)[n]
         IN  /\ found # NoSite => IsDomain(found.domain)
             /\ filed # NoSite =>
                  \E l \in Loads, f \in Files :
                    l[f] # NoSite /\ l[f].domain = filed.domain /\ n \in AllDomains(l[f])
<1> DEFINE f == ByDomain(sites)[n]
           g == Runtimes(sites)[n]
           found == Holding(sites, ByDomain(sites))[n]
           filed == RuntimesOf(sites)[n]
<1>1. PICK l \in Loads :
        \A e \in Files : sites[e] # NoSite =>
          /\ l[e] # NoSite /\ sites[e].domain = l[e].domain
          /\ AllDomains(sites[e]) = AllDomains(l[e])
  BY DEF FromLoad
<1>2. /\ found = IF f = NoFile THEN NoSite ELSE sites[f]
      /\ filed = IF g = NoFile THEN NoSite ELSE sites[g]
  BY DEF Holding, RuntimesOf
<1>3. /\ f # NoFile => f \in Active(sites)
      /\ g # NoFile => g \in Active(sites) /\ n \in AllDomains(sites[g])
  BY EntryIsClaimant
<1> HIDE DEF f, g, found, filed
<1>4. found # NoSite => IsDomain(found.domain)
  BY <1>1, <1>2, <1>3 DEF Active, IsDomain
<1>5. filed # NoSite =>
        \E k \in Loads, e \in Files :
          k[e] # NoSite /\ k[e].domain = filed.domain /\ n \in AllDomains(k[e])
  <2> SUFFICES ASSUME filed # NoSite
               PROVE  \E k \in Loads, e \in Files :
                        k[e] # NoSite /\ k[e].domain = filed.domain /\ n \in AllDomains(k[e])
    OBVIOUS
  <2>1. g \in Files /\ filed = sites[g] /\ sites[g] # NoSite /\ n \in AllDomains(sites[g])
    BY <1>2, <1>3 DEF Active
  <2> QED  BY <1>1, <2>1
<1> QED  BY <1>4, <1>5 DEF found, filed

\* Only a replaced index, a reloaded router and a found site change what is filed.
LEMMA FiledStep ==
  ASSUME TypeOK, Lists, Filed, [Next]_vars
  PROVE  Filed'
<1>0. \A n : IsDomain(n)' = IsDomain(n)
  BY DEF IsDomain
<1>1. ASSUME UNCHANGED <<index, runtimes, site>> PROVE Filed'
  BY <1>0, <1>1 DEF Filed
<1>2. ASSUME NEW p \in Reloaders, Replace(p) PROVE Filed'
  <2>1. list[p] \in Loaded /\ FromLoad(list[p])
    BY <1>2 DEF Replace, TypeOK, Lists, Loaded
  <2>2. /\ index' = Holding(list[p], ByDomain(list[p]))
        /\ runtimes' = runtimes /\ site' = site
    BY <1>2 DEF Replace, requestVars
  <2>3. \A n \in Names : index'[n] # NoSite => IsDomain(index'[n].domain)
    BY <2>1, <2>2, FiledTables
  <2> QED  BY <1>0, <2>2, <2>3 DEF Filed
<1>3. ASSUME NEW p \in Reloaders, RouterReload(p) PROVE Filed'
  <2>1. list[p] \in Loaded /\ FromLoad(list[p])
    BY <1>3 DEF RouterReload, TypeOK, Lists, Loaded
  <2>2. runtimes' = RuntimesOf(list[p]) /\ index' = index /\ site' = site
    BY <1>3 DEF RouterReload, requestVars
  <2>3. \A n \in Names : runtimes'[n] # NoSite =>
          \E l \in Loads, f \in Files :
            /\ l[f] # NoSite /\ l[f].domain = runtimes'[n].domain
            /\ n \in AllDomains(l[f])
    BY <2>1, <2>2, FiledTables
  <2> QED  BY <1>0, <2>2, <2>3 DEF Filed
<1>4. ASSUME NEW r \in Requests, FindSite(r) PROVE Filed'
  <2>1. /\ site' = [site EXCEPT ![r] = index[Lower[HostOf[r]]]]
        /\ index' = index /\ runtimes' = runtimes
    BY <1>4 DEF FindSite, Lookup, tableVars
  <2>2. Lower[HostOf[r]] \in Names
    BY ProxyAssumption, NamesAssumption
  <2>3. ASSUME NEW q \in Requests, site'[q] # NoSite PROVE IsDomain(site'[q].domain)
    BY <2>1, <2>2, <2>3 DEF Filed, TypeOK
  <2> QED  BY <1>0, <2>1, <2>3 DEF Filed
<1>5. ASSUME NEW p \in Reloaders, Load(p) \/ Prune(p) \/ Toggle(p) PROVE Filed'
  BY <1>1, <1>5 DEF Load, Prune, Toggle, tableVars, requestVars
<1>6. CASE Stop \/ UNCHANGED vars
  BY <1>1, <1>6 DEF Stop, vars, tableVars, requestVars
<1>7. ASSUME NEW r \in Requests, Serve(r), ~ FindSite(r) PROVE Filed'
  BY <1>1, <1>7
  DEF Serve, Refuse, AnswerEarly, Route, Limit, Forward, Upgrade, FindEntry, CreateEntry,
      Record, tableVars
<1> QED  BY <1>2, <1>3, <1>4, <1>5, <1>6, <1>7 DEF Next

\* A request is new once.
LEMMA UnroutedStep ==
  ASSUME TypeOK, Unrouted, [Next]_vars
  PROVE  Unrouted'
<1>1. ASSUME UNCHANGED <<pc, rt>> PROVE Unrouted'
  BY <1>1 DEF Unrouted
<1>2. ASSUME NEW r \in Requests, Serve(r) PROVE Unrouted'
  <2>1. pc'[r] # "new" /\ \A q \in Requests \ {r} : pc'[q] = pc[q] /\ rt'[q] = rt[q]
    BY <1>2
    DEF Serve, Refuse, FindSite, AnswerEarly, Route, Limit, Forward, Upgrade, FindEntry,
        CreateEntry, Record, Advance, Finish, TypeOK
  <2> QED  BY <2>1 DEF Unrouted
<1>3. ASSUME NEW p \in Reloaders,
             Load(p) \/ Replace(p) \/ RouterReload(p) \/ Prune(p) \/ Toggle(p)
      PROVE  Unrouted'
  BY <1>1, <1>3 DEF Load, Replace, RouterReload, Prune, Toggle, requestVars
<1>4. CASE Stop \/ UNCHANGED vars
  BY <1>1, <1>4 DEF Stop, vars, requestVars
<1> QED  BY <1>2, <1>3, <1>4 DEF Next

\* The runtime filed under the domain of the found site is of a site of that domain,
\* even when another reload has filed it since.
LEMMA OwnSiteStep ==
  ASSUME Unshared, TypeOK, Filed, Unrouted, LimitedByOwnSite, [Next]_vars
  PROVE  LimitedByOwnSite'
<1>1. ASSUME UNCHANGED <<site, rt>> PROVE LimitedByOwnSite'
  BY <1>1 DEF LimitedByOwnSite
<1>2. ASSUME NEW r \in Requests, FindSite(r) PROVE LimitedByOwnSite'
  <2>1. pc[r] = "new" /\ rt' = rt /\ \A q \in Requests \ {r} : site'[q] = site[q]
    BY <1>2 DEF FindSite, TypeOK
  <2>2. rt[r] = NoSite
    BY <2>1 DEF Unrouted
  <2> QED  BY <2>1, <2>2 DEF LimitedByOwnSite
<1>3. ASSUME NEW r \in Requests, Route(r) PROVE LimitedByOwnSite'
  <2> DEFINE d == site[r].domain
  <2>1. /\ rt' = [rt EXCEPT ![r] = runtimes[d]] /\ site' = site
        /\ site[r] # NoSite
    BY <1>3 DEF Route, TypeOK
  <2>2. site[r] \in Sites /\ d \in Names
    BY <2>1, SitesAssumption DEF TypeOK, Site
  <2>3. PICK k \in Loads, f \in Files : k[f] # NoSite /\ k[f].domain = d
    BY <2>1 DEF Filed, IsDomain
  <2>4. runtimes[d] # NoSite => runtimes[d].domain = d
    <3> SUFFICES ASSUME runtimes[d] # NoSite PROVE runtimes[d].domain = d
      OBVIOUS
    <3>1. PICK l \in Loads, g \in Files :
            l[g] # NoSite /\ l[g].domain = runtimes[d].domain /\ d \in AllDomains(l[g])
      BY <2>2 DEF Filed
    <3>2. l[g].domain = d
      BY <2>3, <3>1 DEF Unshared
    <3> QED  BY <3>1, <3>2
  <2>5. ASSUME NEW q \in Requests, rt'[q] # NoSite PROVE rt'[q].domain = site'[q].domain
    BY <2>1, <2>4, <2>5 DEF LimitedByOwnSite, TypeOK
  <2> QED  BY <2>5 DEF LimitedByOwnSite
<1>4. ASSUME NEW r \in Requests, Serve(r), ~ FindSite(r), ~ Route(r) PROVE LimitedByOwnSite'
  BY <1>1, <1>4
  DEF Serve, Refuse, AnswerEarly, Limit, Forward, Upgrade, FindEntry, CreateEntry, Record
<1>5. ASSUME NEW p \in Reloaders,
             Load(p) \/ Replace(p) \/ RouterReload(p) \/ Prune(p) \/ Toggle(p)
      PROVE  LimitedByOwnSite'
  BY <1>1, <1>5 DEF Load, Replace, RouterReload, Prune, Toggle, requestVars
<1>6. CASE Stop \/ UNCHANGED vars
  BY <1>1, <1>6 DEF Stop, vars, requestVars
<1> QED  BY <1>2, <1>3, <1>4, <1>5, <1>6 DEF Next

\* ratelimit.go, one Limiter per Site: when no site has another one's domain among
\* its names, each request is limited and forwarded by the runtime of the site that
\* its host was found to belong to, whatever the reloads in between.
THEOREM OwnLimiter == Unshared => (Spec => []LimitedByOwnSite)
<1> SUFFICES ASSUME Unshared PROVE Spec => []LimitedByOwnSite
  OBVIOUS
<1>1. Init => CInv /\ FInv
  <2>1. Init => Filed /\ Unrouted /\ LimitedByOwnSite
    BY DEF Init, Filed, Unrouted, LimitedByOwnSite
  <2> QED  BY <2>1, CInvInit DEF CInv, Typed, FInv
<1>2. CInv /\ FInv /\ [Next]_vars => CInv' /\ FInv'
  BY CInvStep, FiledStep, UnroutedStep, OwnSiteStep DEF CInv, Typed, FInv
<1> QED  BY <1>1, <1>2, PTL DEF Spec, FInv
=============================================================================
