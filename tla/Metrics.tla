------------------------------ MODULE Metrics -------------------------------
(***************************************************************************)
(* The accounting of requests (internal/metrics/metrics.go) and what the   *)
(* dashboard makes of it (internal/ui/ui.go): a ring of one-second buckets *)
(* indexed by the second modulo its length, a ring of the latest           *)
(* latencies, and the counters.                                            *)
(*                                                                         *)
(* Record reads the clock and only then takes the lock: a bucket can be    *)
(* written after the next second has begun, and after requests that        *)
(* finished later.  The dashboard takes the lock of each domain in turn,   *)
(* and reads the clock anew under each.  Bytes are added up as errors are, *)
(* and are left out.                                                       *)
(***************************************************************************)
EXTENDS Integers, Sequences, FiniteSets, Functions

CONSTANTS
  Requests,  \* answered requests
  DomainOf,  \* the domain that each is recorded under
  StatusOf,  \* its status
  TookOf,    \* its latency, in units of 1/Milli milliseconds
  Milli,
  Sites,     \* the sites that the store lists: their domains, and if enabled
  N,         \* bucketCount
  RingSize,  \* latRingSize
  MaxClock,  \* bound: the last second
  MaxPages,  \* bound: dashboards that are asked for
  MaxDelay   \* bound: seconds between the clock and the lock

Domains == {DomainOf[r] : r \in Requests} \cup {s.domain : s \in Sites}

ASSUME MetricsAssumption ==
  /\ StatusOf \in [Requests -> Nat] /\ TookOf \in [Requests -> Nat]
  /\ {Milli, N, RingSize} \subseteq Nat \ {0} /\ {MaxClock, MaxDelay, MaxPages} \subseteq Nat
  /\ N <= MaxClock /\ IsFiniteSet(Requests) /\ IsFiniteSet(Sites)
  /\ \A s \in Sites : s.enabled \in BOOLEAN

VARIABLES
  clock,     \* time.Now().Unix()
  pc,        \* where each request is in Record
  stamp,     \* the second that Record read for it
  requests,  \* TotalRequests of each domain
  errors,    \* TotalErrors
  buckets,   \* the ring of seconds; tsUnix 0 is an empty bucket
  latency,   \* the ring of latencies
  next,      \* latencyIdx
  filled,    \* latencyN
  statuses,  \* statusCounts
  log,       \* history: the requests of each domain, in the order of recording
  unread,    \* the domains that the dashboard has still to take a snapshot of
  row,       \* ReqsLast1m and ErrsLast1m in the snapshots that it has taken
  opened,    \* history: the second in which it was begun, and what was recorded
  pages

siteVars == <<requests, errors, buckets, latency, next, filled, statuses>>
pageVars == <<unread, row, opened, pages>>
vars == <<clock, pc, stamp, siteVars, log, pageVars>>

Codes == {StatusOf[r] : r \in Requests}
Empty == [ts |-> 0, reqs |-> 0, errs |-> 0]

IsError(r) == StatusOf[r] >= 500 \/ StatusOf[r] = 0

\* Milliseconds, cut off; but what took any time took one.
Millis(r) ==
  LET ms == TookOf[r] \div Milli IN IF ms = 0 /\ TookOf[r] > 0 THEN 1 ELSE ms

TypeOK ==
  /\ clock \in N..MaxClock
  /\ pc \in [Requests -> {"new", "counted", "stamped", "done"}]
  /\ stamp \in [Requests -> 0..MaxClock]
  /\ requests \in [Domains -> Nat] /\ errors \in [Domains -> Nat]
  /\ \A d \in Domains : errors[d] <= requests[d]
  /\ buckets \in [Domains -> [0..(N - 1) -> [ts : 0..MaxClock, reqs : Nat, errs : Nat]]]
  /\ latency \in [Domains -> [0..(RingSize - 1) -> Nat]]
  /\ next \in [Domains -> 0..(RingSize - 1)] /\ filled \in [Domains -> 0..RingSize]
  /\ statuses \in [Domains -> [Codes -> Nat]]
  /\ log \in [Domains -> Seq(Requests)]
  /\ unread \subseteq Domains /\ row \in [Domains -> [reqs : Nat, errs : Nat]]
  /\ opened \in [at : N..MaxClock, past : SUBSET Requests] /\ pages \in 0..MaxPages

Init ==
  /\ clock = N
  /\ pc = [r \in Requests |-> "new"] /\ stamp = [r \in Requests |-> 0]
  /\ requests = [d \in Domains |-> 0] /\ errors = [d \in Domains |-> 0]
  /\ buckets = [d \in Domains |-> [i \in 0..(N - 1) |-> Empty]]
  /\ latency = [d \in Domains |-> [i \in 0..(RingSize - 1) |-> 0]]
  /\ next = [d \in Domains |-> 0] /\ filled = [d \in Domains |-> 0]
  /\ statuses = [d \in Domains |-> [c \in Codes |-> 0]]
  /\ log = [d \in Domains |-> <<>>]
  /\ unread = {} /\ row = [d \in Domains |-> [reqs |-> 0, errs |-> 0]]
  /\ opened = [at |-> N, past |-> {}] /\ pages = 0

-----------------------------------------------------------------------------
(* Record. *)

Goto(r, step) == pc' = [pc EXCEPT ![r] = step]

\* The counters are atomic and come before the lock.
Count(r) ==
  /\ pc[r] = "new" /\ Goto(r, "counted")
  /\ requests' = [requests EXCEPT ![DomainOf[r]] = @ + 1]
  /\ errors' = [errors EXCEPT ![DomainOf[r]] = IF IsError(r) THEN @ + 1 ELSE @]
  /\ UNCHANGED <<clock, stamp, buckets, latency, next, filled, statuses, log, pageVars>>

\* nowSec := time.Now().Unix()
Stamp(r) ==
  /\ pc[r] = "counted" /\ Goto(r, "stamped")
  /\ stamp' = [stamp EXCEPT ![r] = clock]
  /\ UNCHANGED <<clock, siteVars, log, pageVars>>

\* Mutant of Fresh: what the slot held a turn of the ring ago stays in it.
FreshNever(b, now) == [b EXCEPT !.ts = now]

\* The bucket of a second, reset when its slot holds another one.
Fresh(b, now) == IF b.ts # now THEN [Empty EXCEPT !.ts = now] ELSE b

\* Mutant of Advance: the ring is one shorter than its array.
AdvanceShort(i) == (i + 1) % (IF RingSize = 1 THEN 1 ELSE RingSize - 1)

\* Mutant of Advance: it does not wrap.
AdvanceOn(i) == i + 1

Advance(i) == (i + 1) % RingSize

\* Under the lock.
Record(r) ==
  LET d == DomainOf[r] IN
  /\ pc[r] = "stamped" /\ Goto(r, "done")
  /\ buckets' = [buckets EXCEPT ![d][stamp[r] % N] =
       LET b == Fresh(@, stamp[r]) IN
       [b EXCEPT !.reqs = @ + 1, !.errs = IF IsError(r) THEN @ + 1 ELSE @]]
  /\ latency' = [latency EXCEPT ![d][next[d]] = Millis(r)]
  /\ next' = [next EXCEPT ![d] = Advance(@)]
  /\ filled' = [filled EXCEPT ![d] = IF @ < RingSize THEN @ + 1 ELSE @]
  /\ statuses' = [statuses EXCEPT ![d][StatusOf[r]] = @ + 1]
  /\ log' = [log EXCEPT ![d] = Append(@, r)]
  /\ UNCHANGED <<clock, stamp, requests, errors, pageVars>>

\* A request does not wait for the lock longer than MaxDelay.
Tick ==
  /\ clock < MaxClock /\ clock' = clock + 1
  /\ \A r \in Requests : pc[r] = "stamped" => clock - stamp[r] < MaxDelay
  /\ UNCHANGED <<pc, stamp, siteVars, log, pageVars>>

-----------------------------------------------------------------------------
(* Snapshot: the lock is held, and the clock is read, for all of it. *)

\* Mutant of InWindow: the second that has just left the window is in it.
InWindowLong(b) == b.ts # 0 /\ clock - b.ts <= N

InWindow(b) == b.ts # 0 /\ clock - b.ts < N

\* Mutant of PerSec: the seconds are counted from the wrong end.
PerSecShifted(d) ==
  [offset \in 0..(N - 1) |->
     LET ts == clock - (N - offset)  b == buckets[d][ts % N] IN
     IF b.ts = ts THEN b.reqs ELSE 0]

\* The series of the last N seconds, oldest first.
PerSec(d) ==
  [offset \in 0..(N - 1) |->
     LET ts == clock - (N - 1 - offset)  b == buckets[d][ts % N] IN
     IF b.ts = ts THEN b.reqs ELSE 0]

Window(d) == {i \in 0..(N - 1) : InWindow(buckets[d][i])}
ReqsLast(d) == SumFunction([i \in Window(d) |-> buckets[d][i].reqs])
ErrsLast(d) == SumFunction([i \in Window(d) |-> buckets[d][i].errs])

\* pct, on a sorted sample.
Pct(s, p) ==
  LET i == (Len(s) * p) \div 100 IN s[IF i >= Len(s) THEN Len(s) ELSE i + 1]

\* sort.Slice, on a sequence of numbers.
Ascending(s) ==
  LET order == CHOOSE p \in Bijection(DOMAIN s, DOMAIN s) :
                 \A i, j \in DOMAIN s : i < j => s[p[i]] <= s[p[j]]
  IN [i \in DOMAIN s |-> s[order[i]]]

\* The sample: the filled part of the ring, in order.
Sample(d) == Ascending([i \in 1..filled[d] |-> latency[d][i - 1]])

-----------------------------------------------------------------------------
(* The dashboard. *)

Recorded(d) == {r \in Requests : pc[r] = "done" /\ DomainOf[r] = d}

\* SnapshotAll begins: it holds the registry's lock, so no domain comes or goes.
OpenDashboard ==
  /\ unread = {} /\ pages < MaxPages /\ pages' = pages + 1
  /\ unread' = Domains
  /\ opened' = [at |-> clock, past |-> UNION {Recorded(d) : d \in Domains}]
  /\ UNCHANGED <<clock, pc, stamp, siteVars, log, row>>

\* One domain's snapshot, in the order of a Go map: any.
SnapshotSite(d) ==
  /\ unread' = unread \ {d}
  /\ row' = [row EXCEPT ![d] = [reqs |-> ReqsLast(d), errs |-> ErrsLast(d)]]
  /\ UNCHANGED <<clock, pc, stamp, siteVars, log, opened, pages>>

\* The page: a row for each site listed, and the totals.
Shown == pages > 0 /\ unread = {}
DashboardReqs == SumFunction([s \in Sites |-> row[s.domain].reqs])
DashboardErrs == SumFunction([s \in Sites |-> row[s.domain].errs])
ErrorRate ==
  IF DashboardReqs = 0 THEN 0 ELSE (100 * DashboardErrs) \div DashboardReqs

Next ==
  \/ Tick \/ \E r \in Requests : Count(r) \/ Stamp(r) \/ Record(r)
  \/ OpenDashboard \/ \E d \in unread : SnapshotSite(d)

Spec == Init /\ [][Next]_vars

-----------------------------------------------------------------------------
(* Properties. *)

Recent(d) == {r \in Recorded(d) : clock - stamp[r] < N}

\* The requests and the errors of the last minute in the snapshot of a domain are
\* those, whenever it is taken: however the ring wraps and in whatever order late
\* requests win the lock, none is counted in another second, wiped out by a slot's
\* reset, or counted after its minute, as long as none waits for the lock for a
\* whole minute.
MinuteIsExact ==
  MaxDelay < N => \A d \in Domains :
    /\ ReqsLast(d) = Cardinality(Recent(d))
    /\ ErrsLast(d) = Cardinality({r \in Recent(d) : StatusOf[r] \notin 1..499})

\* What the dashboard must count of a domain (recorded before the page was begun,
\* and still of the last minute), and what it may (of the last minute when the page
\* was begun, or recorded since).
Due(d)     == {r \in opened.past : DomainOf[r] = d /\ clock - stamp[r] < N}
Allowed(d) == {r \in Recorded(d) : opened.at - stamp[r] < N}

\* n requests and e errors among them: what is due, and nothing that is not allowed.
Accounts(due, allowed, n, e) ==
  \E counted \in SUBSET allowed :
    /\ due \subseteq counted
    /\ n = Cardinality(counted)
    /\ e = Cardinality({r \in counted : StatusOf[r] \notin 1..499})

\* The totals of the dashboard, which are read site by site while requests are
\* recorded and seconds pass: there are requests that they are the numbers of,
\* among them every one that was in the window from the first site to the last and
\* none that never was, and the error rate is one; as long as no request waits for
\* the lock for a whole minute and no two sites listed share a domain.
TotalsAccounted ==
  (Shown /\ MaxDelay < N /\ \A s, t \in Sites : s.domain = t.domain => s = t) =>
    /\ Accounts(UNION {Due(s.domain) : s \in Sites}, UNION {Allowed(s.domain) : s \in Sites},
                DashboardReqs, DashboardErrs)
    /\ ErrorRate \in 0..100

\* The chart and the number beside it agree, late requests or not: both are
\* read from one ring under one lock and at one time.
ChartAddsUp == \A d \in Domains : SumFunction(PerSec(d)) = ReqsLast(d)

\* The latencies of the latest requests, in the order of recording.
Latest(d) ==
  LET all == log[d]
      k   == IF Len(all) > RingSize THEN RingSize ELSE Len(all)
  IN [i \in 1..k |-> Millis(all[Len(all) - k + i])]

\* p50, p95 and p99 are percentiles of the latest RingSize requests: more than p
\* in a hundred took no longer, and no more than p in a hundred were faster.
PercentilesOfLatest ==
  \A d \in Domains, p \in {50, 95, 99} : filled[d] > 0 =>
    LET v    == Pct(Sample(d), p)
        took == Latest(d)
        few(S) == 100 * Cardinality(S) <= Len(took) * p
    IN /\ ~few({i \in DOMAIN took : took[i] <= v})
       /\ few({i \in DOMAIN took : took[i] < v})
=============================================================================
