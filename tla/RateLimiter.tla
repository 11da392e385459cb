---------------------------- MODULE RateLimiter -----------------------------
(***************************************************************************)
(* The token bucket of internal/proxy/ratelimit.go: one Limiter of one     *)
(* site, asked by concurrent requests.                                     *)
(*                                                                         *)
(* Allow reads the clock and only then takes the lock, so the buckets see  *)
(* timestamps in the order in which requests win the lock, which is not    *)
(* the order of the clock: the elapsed time of a refill can be negative.   *)
(*                                                                         *)
(* Time is counted in ticks of 1/Q second and tokens in parts of 1/Q, so   *)
(* that a tick refills RPS parts and a request costs Q: the arithmetic of  *)
(* the float64 fields, exact on multiples of 1/Q and without rounding.     *)
(***************************************************************************)
EXTENDS Integers, Sequences, FiniteSets

CONSTANTS
  Requests,  \* requests that reach the limiter
  Keys,      \* source addresses
  KeyOf,     \* the address of each request
  RPS,       \* rate_limit.rps; NewLimiter returns nil unless it is positive
  Burst,     \* rate_limit.burst
  Q,         \* ticks per second
  MaxClock,  \* bound: the last tick
  NoBucket   \* the map has no entry

ASSUME LimiterAssumption ==
  /\ KeyOf \in [Requests -> Keys]
  /\ RPS \in Nat \ {0} /\ Burst \in Int
  /\ Q \in Nat \ {0} /\ MaxClock \in Nat

Bucket == [tokens : Int, last : Nat]

ASSUME NoBucketAssumption == NoBucket \notin Bucket

VARIABLES
  clock,  \* time.Now()
  pc,     \* where each request is
  stamp,  \* the time that Allow read for a request
  bs,     \* the bucket of each key
  log,    \* history: per key, the stamps of its allowed requests, as processed
  seen    \* history: per key, when its latest request was processed

vars == <<clock, pc, stamp, bs, log, seen>>

\* NewLimiter: the capacity is rps + burst, a negative burst being none.
Cap == Q * (RPS + (IF Burst < 0 THEN 0 ELSE Burst))

TypeOK ==
  /\ clock \in 0..MaxClock
  /\ pc \in [Requests -> {"idle", "stamped", "allowed", "denied"}]
  /\ stamp \in [Requests -> 0..MaxClock]
  /\ bs \in [Keys -> Bucket \cup {NoBucket}]
  /\ \A k \in Keys : bs[k] # NoBucket => bs[k].tokens <= Cap
  /\ log \in [Keys -> Seq(0..MaxClock)]
  /\ seen \in [Keys -> 0..MaxClock]

Init ==
  /\ clock = 0
  /\ pc = [r \in Requests |-> "idle"]
  /\ stamp = [r \in Requests |-> 0]
  /\ bs = [k \in Keys |-> NoBucket]
  /\ log = [k \in Keys |-> <<>>]
  /\ seen = [k \in Keys |-> 0]

Tick ==
  /\ clock < MaxClock /\ clock' = clock + 1
  /\ UNCHANGED <<pc, stamp, bs, log, seen>>

\* now := time.Now(), before l.mu.Lock().
Stamp(r) ==
  /\ pc[r] = "idle"
  /\ pc' = [pc EXCEPT ![r] = "stamped"]
  /\ stamp' = [stamp EXCEPT ![r] = clock]
  /\ UNCHANGED <<clock, bs, log, seen>>

\* Mutant of Refilled: the refill is not capped.
RefilledUncapped(b, now) == b.tokens + RPS * (now - b.last)

\* Mutant of Refilled: a negative elapsed time refills nothing.
RefilledForward(b, now) ==
  IF now < b.last THEN b.tokens
  ELSE IF b.tokens + RPS * (now - b.last) > Cap THEN Cap
  ELSE b.tokens + RPS * (now - b.last)

\* The tokens of a bucket after the refill since its last visit.
Refilled(b, now) ==
  IF b.tokens + RPS * (now - b.last) > Cap THEN Cap
  ELSE b.tokens + RPS * (now - b.last)

\* Mutant of Charge: a refused request is charged too.
ChargeAll(b, now) == [tokens |-> Refilled(b, now) - Q, last |-> now]

\* The bucket after a request at now, which is allowed when a token is there.
Charge(b, now) ==
  [tokens |-> IF Refilled(b, now) < Q THEN Refilled(b, now) ELSE Refilled(b, now) - Q,
   last |-> now]

\* The answer to a request, with its history.
Answer(r, allowed) ==
  LET k == KeyOf[r] IN
  /\ pc' = [pc EXCEPT ![r] = IF allowed THEN "allowed" ELSE "denied"]
  /\ log' = IF allowed THEN [log EXCEPT ![k] = Append(@, stamp[r])] ELSE log
  /\ seen' = [seen EXCEPT ![k] = clock]
  /\ UNCHANGED <<clock, stamp>>

\* Mutant of FirstVisit: a new bucket is refilled since the beginning of time.
FirstVisitOld(r) ==
  /\ pc[r] = "stamped" /\ bs[KeyOf[r]] = NoBucket
  /\ bs' = [bs EXCEPT ![KeyOf[r]] =
              [tokens |-> Cap + RPS * stamp[r] - Q, last |-> stamp[r]]]
  /\ Answer(r, TRUE)

\* The first request from this address starts with a full budget.
FirstVisit(r) ==
  /\ pc[r] = "stamped" /\ bs[KeyOf[r]] = NoBucket
  /\ bs' = [bs EXCEPT ![KeyOf[r]] = [tokens |-> Cap - Q, last |-> stamp[r]]]
  /\ Answer(r, TRUE)

\* Refill since the last visit, then take a token or refuse.
Visit(r) ==
  LET k == KeyOf[r] IN
  /\ pc[r] = "stamped" /\ bs[k] # NoBucket
  /\ bs' = [bs EXCEPT ![k] = Charge(bs[k], stamp[r])]
  /\ Answer(r, Refilled(bs[k], stamp[r]) >= Q)

Next == Tick \/ \E r \in Requests : Stamp(r) \/ FirstVisit(r) \/ Visit(r)

Spec == Init /\ [][Next]_vars

-----------------------------------------------------------------------------
(* Properties. *)

\* The contract of a token bucket, in the order of processing: between any two
\* allowed requests of an address, at most the burst and what the rate gives in
\* between was let through, even when their stamps are out of order.
SlidingBound ==
  \A k \in Keys : \A i, j \in 1..Len(log[k]) :
    i <= j => (j - i + 1) * Q <= Cap + RPS * (log[k][j] - log[k][i])

\* The same by the clock: in no window of time does an address get more.
WindowBound ==
  \A k \in Keys : \A from, to \in 0..MaxClock :
    from <= to =>
      Q * Cardinality({i \in 1..Len(log[k]) : log[k][i] \in from..to})
        <= Cap + RPS * (to - from)

\* Stale stamps leave no debt: a client that waits 1/rps after its latest answer
\* is not refused, whatever was refused or reordered before.
SpacedClientAllowed ==
  [][\A r \in Requests : pc[r] = "stamped" /\ pc'[r] = "denied"
       => RPS * (stamp[r] - seen[KeyOf[r]]) < Q]_vars
=============================================================================
