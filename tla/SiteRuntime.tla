---------------------------- MODULE SiteRuntime -----------------------------
(***************************************************************************)
(* A site's runtime (siteRuntime of internal/proxy/router.go): its rate    *)
(* limiter and its pool of upstreams (internal/proxy/upstream.go), made    *)
(* anew by every reload while requests that were routed to an earlier one  *)
(* still ask the earlier limiter and the earlier pool.                     *)
(*                                                                         *)
(* The client has one address; a key of RateLimiter is the client's bucket *)
(* in one of the runtimes, which are numbered as they are made.  KeyOf     *)
(* says which of them each request is going to find.                       *)
(***************************************************************************)
EXTENDS RateLimiter, Functions

CONSTANTS
  Pool,  \* the number of upstreams
  Wrap   \* the counter of the round robin is an integer modulo Wrap (2^64)

ASSUME RuntimeAssumption ==
  /\ IsFiniteSet(Keys) /\ Keys # {} /\ Keys = 1..Cardinality(Keys)
  /\ Pool \in Nat \ {0} /\ Wrap \in Nat \ {0}

VARIABLES
  gen,     \* the runtime that the router's table holds
  since,   \* history: when each was made
  routed,  \* the requests that have fetched theirs
  next,    \* the counter of each pool
  turns,   \* history: how often it was asked
  target   \* the upstream that each request was sent to; Pool is none

runtimeVars == <<gen, since, routed, next, turns, target>>

RuntimeInit ==
  /\ Init /\ gen = 1 /\ since = [k \in Keys |-> 0] /\ routed = {}
  /\ next = [k \in Keys |-> 0] /\ turns = [k \in Keys |-> 0]
  /\ target = [r \in Requests |-> Pool]

\* Router.Reload makes a runtime with a full limiter and a new pool.
Reload ==
  /\ gen + 1 \in Keys /\ gen' = gen + 1
  /\ since' = [since EXCEPT ![gen + 1] = clock]
  /\ UNCHANGED <<vars, routed, next, turns, target>>

\* ServeHTTP fetches the runtime under the read lock, and keeps it.
Route(r) ==
  /\ r \notin routed /\ KeyOf[r] = gen /\ routed' = routed \cup {r}
  /\ UNCHANGED <<vars, gen, since, next, turns, target>>

\* It asks that runtime's limiter.
Ask(r) ==
  /\ r \in routed
  /\ Stamp(r) \/ FirstVisit(r) \/ Visit(r)
  /\ UNCHANGED runtimeVars

\* p.upstreams[n % len], by the value before the increment.
Chosen(n) == n % Pool

\* Mutant of Forward: read and write of the counter can be torn apart, so that
\* an increment is lost.
ForwardTorn(r) ==
  LET k == KeyOf[r] IN
  /\ pc[r] = "allowed" /\ target[r] = Pool
  /\ target' = [target EXCEPT ![r] = Chosen(next[k])]
  /\ next' \in {next, [next EXCEPT ![k] = (@ + 1) % Wrap]}
  /\ turns' = [turns EXCEPT ![k] = @ + 1]
  /\ UNCHANGED <<vars, gen, since, routed>>

\* The proxy's director takes the pool's next upstream, atomically.
Forward(r) ==
  LET k == KeyOf[r] IN
  /\ pc[r] = "allowed" /\ target[r] = Pool
  /\ target' = [target EXCEPT ![r] = Chosen(next[k])]
  /\ next' = [next EXCEPT ![k] = (@ + 1) % Wrap]
  /\ turns' = [turns EXCEPT ![k] = @ + 1]
  /\ UNCHANGED <<vars, gen, since, routed>>

RuntimeNext ==
  \/ Tick /\ UNCHANGED runtimeVars
  \/ Reload
  \/ \E r \in Requests : Route(r) \/ Ask(r) \/ Forward(r)

RuntimeSpec == RuntimeInit /\ [][RuntimeNext]_<<vars, runtimeVars>>

-----------------------------------------------------------------------------

\* What a client gets in any window of time when sites/ is edited meanwhile: a
\* burst for each runtime that was there, and the rate from when each was made.
\* (Every reload, of any file, makes new limiters.)
ClientBudget ==
  \A from, to \in 0..MaxClock : from <= to =>
    LET there == {k \in Keys : k <= gen /\ since[k] <= to}
        start(k) == IF since[k] > from THEN since[k] ELSE from
        budget == [k \in there |-> Cap + RPS * (to - start(k))]
        granted(k) == Cardinality({i \in 1..Len(log[k]) : log[k][i] \in from..to})
    IN Q * SumFunction([k \in Keys |-> granted(k)]) <= SumFunction(budget)

\* The rotation is fair to within one request, and one more for each time that
\* the counter has wrapped: whatever the order of the requests.
RotationFair ==
  \A k \in Keys : \A u, v \in 0..(Pool - 1) :
    LET sent(w) == Cardinality({r \in Requests : KeyOf[r] = k /\ target[r] = w})
    IN sent(u) - sent(v) <= 1 + turns[k] \div Wrap
=============================================================================
