------------------------- MODULE SiteRuntimeProofs --------------------------
(***************************************************************************)
(* Proofs about RateLimiter and SiteRuntime, for every set of requests and *)
(* addresses, rate, burst, pool and number of reloads.                     *)
(*                                                                         *)
(* The contract of the token bucket holds although the stamps are out of   *)
(* order, and a client that keeps its pace is not refused; both hold of    *)
(* every runtime, whatever is reloaded; what a client gets from all of     *)
(* them is bounded; and the pool's rotation is fair.                       *)
(***************************************************************************)
EXTENDS SiteRuntime, FiniteSetTheorems, WellFoundedInduction, ArithmeticProofs, TLAPS

(***************************************************************************)
(* The arithmetic is linear but for two products, which are named: what    *)
(* the rate gives until a time, and what a number of requests costs.       *)
(***************************************************************************)
R(t) == RPS * t

Cost(n) == n * Q

\* A bucket pays for what its log holds from any entry on: what it has now is
\* at most its capacity, plus what the rate gave since that entry, minus what
\* that entry and the later ones cost.  A new bucket starts with an empty log.
Paid ==
  \A k \in Keys :
    /\ bs[k] = NoBucket => log[k] = <<>>
    /\ bs[k] # NoBucket =>
         \A i \in 1..Len(log[k]) :
           bs[k].tokens - R(bs[k].last)
             <= Cap - R(log[k][i]) - Cost(Len(log[k]) - i + 1)

\* No debt: a bucket visited with a stale stamp is behind by what the rate gives
\* until the time of its last answer, and no more.
NoDebt ==
  \A k \in Keys : bs[k] # NoBucket =>
    bs[k].tokens + R(seen[k]) - R(bs[k].last) >= 0

\* A stamp is a time of the past.
StampsPast ==
  /\ \A r \in Requests : stamp[r] <= clock
  /\ \A k \in Keys : seen[k] <= clock /\ (bs[k] # NoBucket => bs[k].last <= clock)

\* SlidingBound with the products named.
Sliding ==
  \A k \in Keys : \A i, j \in 1..Len(log[k]) :
    i <= j => Cost(j - i + 1) <= Cap + R(log[k][j]) - R(log[k][i])

IInv == TypeOK /\ Paid /\ Sliding /\ NoDebt /\ StampsPast

-----------------------------------------------------------------------------
(* Arithmetic. *)

\* The rate distributes over differences and is monotone in time.
LEMMA RateLinear ==
  \A a, b \in Int : /\ R(a) \in Int
                    /\ RPS * (b - a) = R(b) - R(a)
                    /\ a <= b => R(a) <= R(b)
<1> SUFFICES ASSUME NEW a \in Int, NEW b \in Int
             PROVE  /\ R(a) \in Int
                    /\ RPS * (b - a) = R(b) - R(a)
                    /\ a <= b => R(a) <= R(b)
  OBVIOUS
<1>1. RPS \in Int /\ RPS > 0  BY LimiterAssumption
<1>2. R(a) \in Int  BY <1>1 DEF R
<1>3. RPS * (b - a) = R(b) - R(a)  BY <1>1 DEF R
<1>4. a <= b => R(a) <= R(b)  BY <1>1 DEF R
<1> QED  BY <1>2, <1>3, <1>4

\* A request costs Q, and one more costs Q more.
LEMMA CostLinear ==
  /\ Cost(0) = 0 /\ Cost(1) = Q
  /\ \A n \in Int : Cost(n) \in Int /\ Cost(n + 1) = Cost(n) + Q
  /\ \A m, n \in Int : m <= n => Cost(m) <= Cost(n)
<1>1. Q \in Int /\ Q > 0  BY LimiterAssumption
<1>2. Cost(0) = 0 /\ Cost(1) = Q  BY <1>1 DEF Cost
<1>3. \A n \in Int : Cost(n) \in Int /\ Cost(n + 1) = Cost(n) + Q
  BY <1>1 DEF Cost
<1>4. \A m, n \in Int : m <= n => Cost(m) <= Cost(n)  BY <1>1 DEF Cost
<1> QED  BY <1>2, <1>3, <1>4

\* A full bucket pays for a request: NewLimiter refuses a rate below one.
LEMMA CapPays == Cap \in Int /\ Cap >= Q /\ Q \in Int /\ Q > 0
<1> DEFINE c == RPS + (IF Burst < 0 THEN 0 ELSE Burst)
<1>1. c \in Int /\ c >= 1 /\ Q \in Int /\ Q > 0  BY LimiterAssumption
<1>2. Cap = Q * c  BY DEF Cap
<1> HIDE DEF c
<1>3. Q * c \in Int /\ Q * c >= Q  BY <1>1
<1> QED  BY <1>1, <1>2, <1>3

\* What a refill returns: the capacity, or the tokens and what the rate gave
\* since the last visit, whichever is less.
LEMMA RefilledIs ==
  ASSUME NEW b \in Bucket, NEW now \in Nat
  PROVE  /\ Refilled(b, now) \in Int /\ Refilled(b, now) <= Cap
         /\ Refilled(b, now) <= b.tokens + R(now) - R(b.last)
         /\ \/ Refilled(b, now) = Cap
            \/ Refilled(b, now) = b.tokens + R(now) - R(b.last)
<1>1. b.tokens \in Int /\ b.last \in Nat  BY DEF Bucket
<1>2. \A a, c \in Int : RPS * (c - a) = R(c) - R(a) /\ R(a) \in Int
  BY RateLinear
<1>3. R(now) \in Int /\ R(b.last) \in Int
      /\ RPS * (now - b.last) = R(now) - R(b.last)
  <2>1. b.last \in Int /\ now \in Int  BY <1>1
  <2> QED  BY <1>2, <2>1
<1>4. Refilled(b, now) = IF b.tokens + (R(now) - R(b.last)) > Cap THEN Cap
                         ELSE b.tokens + (R(now) - R(b.last))
  BY <1>3 DEF Refilled
<1> QED  BY <1>1, <1>3, <1>4, CapPays

\* What a visit leaves in the bucket.
LEMMA ChargeIs ==
  ASSUME NEW b \in Bucket, NEW now \in Nat
  PROVE  /\ Charge(b, now) \in Bucket /\ Charge(b, now).last = now
         /\ Refilled(b, now) >= Q => Charge(b, now).tokens = Refilled(b, now) - Q
         /\ ~(Refilled(b, now) >= Q) => Charge(b, now).tokens = Refilled(b, now)
  BY RefilledIs, CapPays DEF Charge, Bucket

-----------------------------------------------------------------------------
(* One request answered: what FirstVisit and Visit have in common. *)

\* Request r is answered with a bucket of t tokens stamped by r, and is in the
\* log when it was allowed.
Answered(r, t, allowed) ==
  /\ pc[r] = "stamped"
  /\ bs' = [bs EXCEPT ![KeyOf[r]] = [tokens |-> t, last |-> stamp[r]]]
  /\ Answer(r, allowed)

\* A first visit pays for one request out of a full bucket.
LEMMA FirstVisitIs ==
  ASSUME TypeOK, NEW r \in Requests, FirstVisit(r)
  PROVE  Answered(r, Cap - Q, TRUE) /\ bs[KeyOf[r]] = NoBucket
  BY DEF FirstVisit, Answered

\* A later visit pays for at most one request out of a refilled bucket.
LEMMA VisitIs ==
  ASSUME TypeOK, NEW r \in Requests, Visit(r)
  PROVE  LET b == bs[KeyOf[r]]
             v == Refilled(b, stamp[r])
         IN  /\ b \in Bucket
             /\ b # NoBucket
             /\ \/ v >= Q /\ Answered(r, v - Q, TRUE)
                \/ v < Q /\ Answered(r, v, FALSE)
<1> DEFINE b == bs[KeyOf[r]]
           v == Refilled(b, stamp[r])
<1>1. b \in Bucket /\ stamp[r] \in Nat /\ b # NoBucket
  BY LimiterAssumption, NoBucketAssumption DEF TypeOK, Visit
<1>2. v \in Int  BY <1>1, RefilledIs
<1>3. /\ pc[r] = "stamped"
      /\ bs' = [bs EXCEPT ![KeyOf[r]] = Charge(b, stamp[r])]
      /\ Answer(r, v >= Q)
  BY DEF Visit
<1>4. CASE v >= Q
  <2>1. Charge(b, stamp[r]) = [tokens |-> v - Q, last |-> stamp[r]]
    BY <1>2, <1>4, CapPays DEF Charge
  <2>2. Answer(r, TRUE)
    <3>1. (v >= Q) = TRUE  BY <1>2, <1>4, CapPays
    <3> QED  BY <1>3, <3>1
  <2> QED  BY <1>1, <1>3, <1>4, <2>1, <2>2 DEF Answered
<1>5. CASE ~(v >= Q)
  <2>1. v < Q /\ Charge(b, stamp[r]) = [tokens |-> v, last |-> stamp[r]]
    BY <1>2, <1>5, CapPays DEF Charge
  <2>2. Answer(r, FALSE)
    <3>1. (v >= Q) = FALSE  BY <1>2, <1>5, CapPays
    <3> QED  BY <1>3, <3>1
  <2> QED  BY <1>1, <1>3, <2>1, <2>2 DEF Answered
<1> QED  BY <1>4, <1>5

\* What an answer does to the state of each address.
LEMMA AnsweredIs ==
  ASSUME TypeOK, NEW r \in Requests, NEW t \in Int, NEW allowed \in BOOLEAN,
         Answered(r, t, allowed)
  PROVE  LET k == KeyOf[r] IN
         /\ k \in Keys /\ stamp[r] \in 0..MaxClock
         /\ bs'[k] = [tokens |-> t, last |-> stamp[r]] /\ bs'[k] \in Bucket
         /\ log'[k] = IF allowed THEN Append(log[k], stamp[r]) ELSE log[k]
         /\ seen'[k] = clock
         /\ \A m \in Keys \ {k} :
              bs'[m] = bs[m] /\ log'[m] = log[m] /\ seen'[m] = seen[m]
         /\ UNCHANGED <<clock, stamp>>
<1> DEFINE k == KeyOf[r]
<1>1. k \in Keys /\ stamp[r] \in 0..MaxClock
  BY LimiterAssumption DEF TypeOK
<1>2. stamp[r] \in Nat  BY <1>1
<1>3. [tokens |-> t, last |-> stamp[r]] \in Bucket  BY <1>2 DEF Bucket
<1>4. bs'[k] = [tokens |-> t, last |-> stamp[r]]
      /\ \A m \in Keys \ {k} : bs'[m] = bs[m]
  BY <1>1 DEF Answered, TypeOK
<1>5. log'[k] = (IF allowed THEN Append(log[k], stamp[r]) ELSE log[k])
      /\ \A m \in Keys \ {k} : log'[m] = log[m]
  BY <1>1 DEF Answered, Answer, TypeOK
<1>6. seen'[k] = clock /\ \A m \in Keys \ {k} : seen'[m] = seen[m]
  BY <1>1 DEF Answered, Answer, TypeOK
<1>7. UNCHANGED <<clock, stamp>>  BY DEF Answered, Answer
<1> QED  BY <1>1, <1>3, <1>4, <1>5, <1>6, <1>7

\* Types are kept by an answer that does not overfill the bucket.
LEMMA AnsweredType ==
  ASSUME TypeOK, NEW r \in Requests, NEW t \in Int, NEW allowed \in BOOLEAN,
         Answered(r, t, allowed), t <= Cap
  PROVE  TypeOK'
<1> DEFINE k == KeyOf[r]
<1>0. /\ k \in Keys /\ stamp[r] \in 0..MaxClock
      /\ bs'[k] = [tokens |-> t, last |-> stamp[r]] /\ bs'[k] \in Bucket
      /\ \A m \in Keys \ {k} : bs'[m] = bs[m]
      /\ UNCHANGED <<clock, stamp>>
  BY AnsweredIs
<1>1. clock' \in 0..MaxClock /\ stamp' \in [Requests -> 0..MaxClock]
  BY <1>0 DEF TypeOK
<1>2. pc' \in [Requests -> {"idle", "stamped", "allowed", "denied"}]
  BY DEF TypeOK, Answered, Answer
<1>3. bs' \in [Keys -> Bucket \cup {NoBucket}]
  BY <1>0 DEF TypeOK, Answered
<1>4. ASSUME NEW m \in Keys, bs'[m] # NoBucket PROVE bs'[m].tokens <= Cap
  <2>1. CASE m = k
    <3>1. bs'[m].tokens = t  BY <1>0, <2>1
    <3> QED  BY <3>1
  <2>2. CASE m # k
    <3>1. bs'[m] = bs[m]  BY <1>0, <2>2
    <3> QED  BY <1>4, <3>1 DEF TypeOK
  <2> QED  BY <2>1, <2>2
<1>5. log' \in [Keys -> Seq(0..MaxClock)]
  <2>1. Append(log[k], stamp[r]) \in Seq(0..MaxClock)
    BY <1>0 DEF TypeOK
  <2> QED  BY <1>0, <2>1 DEF TypeOK, Answered, Answer
<1>6. seen' \in [Keys -> 0..MaxClock]
  BY <1>0 DEF TypeOK, Answered, Answer
<1> QED  BY <1>1, <1>2, <1>3, <1>4, <1>5, <1>6 DEF TypeOK

\* Every step keeps the types.
LEMMA TypeStep ==
  ASSUME TypeOK, [Next]_vars
  PROVE  TypeOK'
<1>1. CASE Tick
  BY <1>1, LimiterAssumption DEF Tick, TypeOK
<1>2. ASSUME NEW r \in Requests, Stamp(r) PROVE TypeOK'
  BY <1>2 DEF Stamp, TypeOK
<1>3. ASSUME NEW r \in Requests, FirstVisit(r) PROVE TypeOK'
  <2>1. Answered(r, Cap - Q, TRUE)  BY <1>3, FirstVisitIs
  <2>2. Cap - Q \in Int /\ Cap - Q <= Cap  BY CapPays
  <2> QED  BY <2>1, <2>2, AnsweredType
<1>4. ASSUME NEW r \in Requests, Visit(r) PROVE TypeOK'
  <2> DEFINE b == bs[KeyOf[r]]
             v == Refilled(b, stamp[r])
  <2>1. b \in Bucket /\ (Answered(r, v - Q, TRUE) \/ Answered(r, v, FALSE))
    BY <1>4, VisitIs
  <2>2. stamp[r] \in Nat  BY DEF TypeOK
  <2>3. v \in Int /\ v <= Cap  BY <2>1, <2>2, RefilledIs
  <2>4. v - Q \in Int /\ v - Q <= Cap  BY <2>3, CapPays
  <2> HIDE DEF v
  <2> QED  BY <2>1, <2>3, <2>4, AnsweredType
<1>5. CASE UNCHANGED vars
  BY <1>5 DEF vars, TypeOK
<1> QED  BY <1>1, <1>2, <1>3, <1>4, <1>5 DEF Next

\* The initial state is well typed.
LEMMA TypeInit == Init => TypeOK
<1> SUFFICES ASSUME Init PROVE TypeOK  OBVIOUS
<1>1. 0 \in 0..MaxClock  BY LimiterAssumption
<1>2. <<>> \in Seq(0..MaxClock)  OBVIOUS
<1> QED  BY <1>1, <1>2 DEF Init, TypeOK

\* THEOREM TypeCorrect.  Every bucket is well formed and never above rps + burst,
\* whatever the order of the stamps (Limiter.Allow).
THEOREM TypeCorrect == Spec => []TypeOK
<1>1. TypeOK /\ [Next]_vars => TypeOK'
  BY TypeStep
<1> QED  BY TypeInit, <1>1, PTL DEF Spec

-----------------------------------------------------------------------------
(* The ledger. *)

\* What one answer must satisfy for the ledger to stay in balance: it never
\* overfills the bucket, an allowed one is paid for, a visit finds no more than
\* the rate gave, and a refused one finds exactly that.
Balanced(r, t, allowed) ==
  LET k == KeyOf[r] IN
  /\ t <= Cap
  /\ bs[k] = NoBucket => allowed
  /\ allowed => t <= Cap - Q /\ t >= 0
  /\ bs[k] # NoBucket =>
       t <= bs[k].tokens + R(stamp[r]) - R(bs[k].last) - (IF allowed THEN Q ELSE 0)
  /\ ~allowed => t = bs[k].tokens + R(stamp[r]) - R(bs[k].last)

\* The two kinds of visit are balanced answers.
LEMMA VisitsBalance ==
  ASSUME TypeOK, NEW r \in Requests, FirstVisit(r) \/ Visit(r)
  PROVE  \E t \in Int, allowed \in BOOLEAN :
           Answered(r, t, allowed) /\ Balanced(r, t, allowed)
<1> DEFINE b == bs[KeyOf[r]]
           v == Refilled(b, stamp[r])
<1>1. CASE FirstVisit(r)
  <2>1. Answered(r, Cap - Q, TRUE) /\ b = NoBucket  BY <1>1, FirstVisitIs
  <2>2. Cap - Q \in Int /\ Cap - Q >= 0 /\ Cap - Q <= Cap  BY CapPays
  <2>3. Balanced(r, Cap - Q, TRUE)  BY <2>1, <2>2, CapPays DEF Balanced
  <2> QED  BY <2>1, <2>2, <2>3
<1>2. CASE Visit(r)
  <2>1. /\ b \in Bucket /\ b # NoBucket
        /\ \/ v >= Q /\ Answered(r, v - Q, TRUE)
           \/ v < Q /\ Answered(r, v, FALSE)
    BY <1>2, VisitIs
  <2>2. stamp[r] \in Nat  BY DEF TypeOK
  <2>3. /\ v \in Int /\ v <= Cap
        /\ v <= b.tokens + R(stamp[r]) - R(b.last)
        /\ v = Cap \/ v = b.tokens + R(stamp[r]) - R(b.last)
    BY <2>1, <2>2, RefilledIs
  <2>4. b.tokens \in Int /\ b.last \in Int /\ stamp[r] \in Int
    BY <2>1, <2>2 DEF Bucket
  <2>5. R(stamp[r]) \in Int /\ R(b.last) \in Int  BY <2>4, RateLinear
  <2> HIDE DEF v
  <2>6. CASE v >= Q /\ Answered(r, v - Q, TRUE)
    <3>1. Balanced(r, v - Q, TRUE)
      BY <2>1, <2>3, <2>4, <2>5, <2>6, CapPays DEF Balanced
    <3>2. v - Q \in Int  BY <2>3, CapPays
    <3> QED  BY <2>6, <3>1, <3>2
  <2>7. CASE v < Q /\ Answered(r, v, FALSE)
    <3>1. v = b.tokens + R(stamp[r]) - R(b.last)  BY <2>3, <2>7, CapPays
    <3>2. v <= b.tokens + R(stamp[r]) - R(b.last) - 0
      BY <2>3, <2>4, <2>5
    <3>3. Balanced(r, v, FALSE)
      BY <2>1, <2>3, <3>1, <3>2 DEF Balanced
    <3> QED  BY <2>3, <2>7, <3>3
  <2> QED  BY <2>1, <2>6, <2>7
<1> QED  BY <1>1, <1>2

\* An entry of a log is a tick.
LEMMA EntryIsTick ==
  ASSUME NEW s \in Seq(0..MaxClock), NEW i \in 1..Len(s)
  PROVE  s[i] \in 0..MaxClock /\ s[i] \in Int
<1> DEFINE T == 0..MaxClock
<1>1. \A x \in T : x \in Int  BY LimiterAssumption
<1>2. s \in Seq(T) /\ i \in 1..Len(s)  OBVIOUS
<1> HIDE DEF T
<1>3. s[i] \in T  BY <1>2
<1> QED  BY <1>1, <1>3 DEF T

\* A balanced answer keeps every entry of its log paid for.
LEMMA AnswerPaid ==
  ASSUME TypeOK, Paid, NEW r \in Requests, NEW t \in Int, NEW allowed \in BOOLEAN,
         Answered(r, t, allowed), Balanced(r, t, allowed)
  PROVE  Paid'
<1> DEFINE k == KeyOf[r]
           now == stamp[r]
<1>0. /\ k \in Keys /\ now \in 0..MaxClock
      /\ bs'[k] = [tokens |-> t, last |-> now] /\ bs'[k] \in Bucket
      /\ log'[k] = IF allowed THEN Append(log[k], now) ELSE log[k]
      /\ \A m \in Keys \ {k} : bs'[m] = bs[m] /\ log'[m] = log[m]
  BY AnsweredIs
<1>1. log[k] \in Seq(0..MaxClock) /\ bs[k] \in Bucket \cup {NoBucket}
  BY <1>0 DEF TypeOK
<1>2. bs'[k] # NoBucket  BY <1>0, NoBucketAssumption
<1>3. ASSUME NEW i \in 1..Len(log'[k])
      PROVE  t - R(now) <= Cap - R(log'[k][i]) - Cost(Len(log'[k]) - i + 1)
  <2> DEFINE n == Len(log[k])
             old == R(log[k][i])
             cost == Cost(n - i + 1)
  <2>1. n \in Nat /\ i \in Int /\ now \in Int  BY <1>0, <1>1
  <2>2. R(now) \in Int  BY <2>1, RateLinear
  <2>3. CASE i \in 1..n
    <3>1. log'[k][i] = log[k][i] /\ log[k][i] \in Int /\ bs[k] # NoBucket
      <4>1. log[k][i] \in Int  BY <1>1, <2>3, EntryIsTick
      <4>2. log'[k][i] = log[k][i]
        <5>1. CASE allowed
          <6>1. log'[k] = Append(log[k], now)  BY <1>0, <5>1
          <6> QED  BY <1>1, <2>3, <6>1
        <5>2. CASE ~allowed
          BY <1>0, <5>2
        <5> QED  BY <5>1, <5>2
      <4>3. bs[k] # NoBucket
        <5>1. log[k] # <<>>  BY <1>1, <2>3
        <5> QED  BY <1>0, <5>1 DEF Paid
      <4> QED  BY <4>1, <4>2, <4>3
    <3>2. bs[k].tokens \in Int /\ bs[k].last \in Int
      BY <1>1, <3>1 DEF Bucket
    <3>3. old \in Int /\ R(bs[k].last) \in Int  BY <3>1, <3>2, RateLinear
    <3>4. cost \in Int /\ Cost((n - i + 1) + 1) = cost + Q
      <4>1. \A x \in Int : Cost(x) \in Int /\ Cost(x + 1) = Cost(x) + Q
        BY CostLinear
      <4>2. n - i + 1 \in Int  BY <2>1
      <4> QED  BY <4>1, <4>2
    <3>5. bs[k].tokens - R(bs[k].last) <= Cap - old - cost
      BY <1>0, <2>3, <3>1 DEF Paid
    <3>6. t <= bs[k].tokens + R(now) - R(bs[k].last) - (IF allowed THEN Q ELSE 0)
      BY <3>1 DEF Balanced
    <3> HIDE DEF old, cost, n
    <3>7. t - R(now) <= Cap - old - cost - (IF allowed THEN Q ELSE 0)
      <4>1. CASE allowed
        <5>1. t <= bs[k].tokens + R(now) - R(bs[k].last) - Q  BY <3>6, <4>1
        <5>2. t - R(now) <= Cap - old - cost - Q
          BY <2>2, <3>2, <3>3, <3>4, <3>5, <5>1, CapPays
        <5> QED  BY <4>1, <5>2
      <4>2. CASE ~allowed
        <5>1. t <= bs[k].tokens + R(now) - R(bs[k].last) - 0  BY <3>6, <4>2
        <5>2. t - R(now) <= Cap - old - cost - 0
          BY <2>2, <3>2, <3>3, <3>4, <3>5, <5>1, CapPays
        <5> QED  BY <4>2, <5>2
      <4> QED  BY <4>1, <4>2
    <3> USE DEF n, cost
    <3>8. Cost(Len(log'[k]) - i + 1) = cost + (IF allowed THEN Q ELSE 0)
      <4>1. CASE allowed
        <5>1. Len(log'[k]) - i + 1 = (n - i + 1) + 1  BY <1>0, <1>1, <2>1, <4>1
        <5> QED  BY <3>4, <4>1, <5>1
      <4>2. CASE ~allowed
        <5>1. Len(log'[k]) - i + 1 = n - i + 1  BY <1>0, <4>2
        <5> QED  BY <3>4, <4>2, <5>1
      <4> QED  BY <4>1, <4>2
    <3> HIDE DEF old, cost, n
    <3>9. R(log'[k][i]) = old  BY <3>1 DEF old
    <3> QED  BY <2>2, <3>2, <3>3, <3>4, <3>7, <3>8, <3>9, CapPays
  <2>4. CASE i \notin 1..n
    <3>1. allowed /\ i = n + 1 /\ Len(log'[k]) = n + 1
      BY <1>0, <1>1, <1>3, <2>1, <2>4
    <3>2. log'[k][i] = now  BY <1>0, <1>1, <3>1
    <3>3. Len(log'[k]) - i + 1 = 1  BY <2>1, <3>1
    <3>4. Cost(Len(log'[k]) - i + 1) = Q  BY <3>3, CostLinear
    <3>5. t <= Cap - Q  BY <3>1 DEF Balanced
    <3>6. R(log'[k][i]) = R(now)  BY <3>2
    <3> QED  BY <2>2, <3>4, <3>5, <3>6, CapPays
  <2> QED  BY <2>3, <2>4
<1>4. ASSUME NEW m \in Keys
      PROVE  /\ bs'[m] = NoBucket => log'[m] = <<>>
             /\ bs'[m] # NoBucket =>
                  \A i \in 1..Len(log'[m]) :
                    bs'[m].tokens - R(bs'[m].last)
                      <= Cap - R(log'[m][i]) - Cost(Len(log'[m]) - i + 1)
  <2>1. CASE m = k
    <3>1. bs'[k].tokens = t /\ bs'[k].last = now  BY <1>0
    <3> QED  BY <1>2, <1>3, <2>1, <3>1
  <2>2. CASE m # k
    <3>1. bs'[m] = bs[m] /\ log'[m] = log[m]  BY <1>0, <2>2
    <3> QED  BY <3>1 DEF Paid
  <2> QED  BY <2>1, <2>2
<1> QED  BY <1>4 DEF Paid

\* A balanced answer keeps the bound on the log: the new entry is paid for, and
\* the bucket is not overdrawn.
LEMMA AnswerSliding ==
  ASSUME TypeOK, Sliding, Paid',
         NEW r \in Requests, NEW t \in Int, NEW allowed \in BOOLEAN,
         Answered(r, t, allowed), Balanced(r, t, allowed)
  PROVE  Sliding'
<1> DEFINE k == KeyOf[r]
           now == stamp[r]
<1>0. /\ k \in Keys /\ now \in 0..MaxClock
      /\ bs'[k] = [tokens |-> t, last |-> now] /\ bs'[k] \in Bucket
      /\ log'[k] = IF allowed THEN Append(log[k], now) ELSE log[k]
      /\ \A m \in Keys \ {k} : log'[m] = log[m]
  BY AnsweredIs
<1>1. log[k] \in Seq(0..MaxClock)  BY <1>0 DEF TypeOK
<1>2. bs'[k] # NoBucket  BY <1>0, NoBucketAssumption
<1>3. ASSUME NEW m \in Keys, NEW i \in 1..Len(log'[m]), NEW j \in 1..Len(log'[m]),
             i <= j
      PROVE  Cost(j - i + 1) <= Cap + R(log'[m][j]) - R(log'[m][i])
  <2>1. CASE m # k
    <3>1. log'[m] = log[m]  BY <1>0, <2>1
    <3> QED  BY <1>3, <3>1 DEF Sliding
  <2>2. CASE m = k /\ j \in 1..Len(log[k])
    <3>1. i \in 1..Len(log[k])  BY <1>1, <1>3, <2>2
    <3>2. log'[k][i] = log[k][i] /\ log'[k][j] = log[k][j]
      BY <1>0, <1>1, <2>2, <3>1
    <3>3. Cost(j - i + 1) <= Cap + R(log[k][j]) - R(log[k][i])
      BY <1>0, <1>3, <2>2, <3>1 DEF Sliding
    <3> QED  BY <2>2, <3>2, <3>3
  <2>3. CASE m = k /\ j \notin 1..Len(log[k])
    <3>1. allowed /\ j = Len(log[k]) + 1 /\ Len(log'[k]) = j
      <4>1. allowed
        <5>1. ~allowed => log'[k] = log[k]  BY <1>0
        <5>2. log'[k] # log[k]  BY <1>3, <2>3
        <5> QED  BY <5>1, <5>2
      <4>2. log'[k] = Append(log[k], now)  BY <1>0, <4>1
      <4>3. j \in 1..Len(Append(log[k], now))  BY <1>3, <2>3, <4>2
      <4>4. Len(Append(log[k], now)) = Len(log[k]) + 1  BY <1>1
      <4>5. Len(log[k]) \in Nat  BY <1>1
      <4>6. j = Len(log[k]) + 1  BY <2>3, <4>3, <4>4, <4>5
      <4> QED  BY <4>1, <4>2, <4>4, <4>6
    <3>2. log'[k][j] = now  BY <1>0, <1>1, <3>1
    <3>3. log'[k][i] \in Int /\ now \in Int
      <4>1. log'[k] = Append(log[k], now) /\ now \in 0..MaxClock
        BY <1>0, <3>1
      <4>2. log'[k] \in Seq(0..MaxClock)  BY <1>1, <4>1
      <4>3. i \in 1..Len(log'[k])  BY <1>3, <2>3
      <4>4. log'[k][i] \in Int  BY <4>2, <4>3, EntryIsTick
      <4>5. now \in Int  BY <4>1, LimiterAssumption
      <4> QED  BY <4>4, <4>5
    <3>4. R(now) \in Int /\ R(log'[k][i]) \in Int
      <4>1. \A x \in Int : R(x) \in Int  BY RateLinear
      <4> QED  BY <3>3, <4>1
    <3>5. Cost(j - i + 1) \in Int
      <4>1. \A x \in Int : Cost(x) \in Int  BY CostLinear
      <4>2. j - i + 1 \in Int  BY <1>3
      <4> QED  BY <4>1, <4>2
    <3>6. bs'[k].tokens = t /\ bs'[k].last = now  BY <1>0
    <3>7. t - R(now) <= Cap - R(log'[k][i]) - Cost(j - i + 1)
      <4>1. bs'[k].tokens - R(bs'[k].last)
              <= Cap - R(log'[k][i]) - Cost(Len(log'[k]) - i + 1)
        BY <1>0, <1>2, <1>3, <2>3 DEF Paid
      <4> QED  BY <3>1, <3>6, <4>1
    <3>8. t >= 0  BY <3>1 DEF Balanced
    <3>9. Cost(j - i + 1) <= Cap + R(now) - R(log'[k][i])
      BY <3>4, <3>5, <3>7, <3>8, CapPays
    <3> QED  BY <2>3, <3>2, <3>9
  <2> QED  BY <2>1, <2>2, <2>3
<1> QED  BY <1>3 DEF Sliding

\* An answer leaves no debt at the time it is given: the stamp is not later.
LEMMA AnswerNoDebt ==
  ASSUME TypeOK, NoDebt, StampsPast,
         NEW r \in Requests, NEW t \in Int, NEW allowed \in BOOLEAN,
         Answered(r, t, allowed), Balanced(r, t, allowed)
  PROVE  NoDebt' /\ StampsPast'
<1> DEFINE k == KeyOf[r]
           now == stamp[r]
<1>0. /\ k \in Keys /\ now \in 0..MaxClock
      /\ bs'[k] = [tokens |-> t, last |-> now] /\ bs'[k] \in Bucket
      /\ seen'[k] = clock
      /\ \A m \in Keys \ {k} : bs'[m] = bs[m] /\ seen'[m] = seen[m]
      /\ clock' = clock /\ stamp' = stamp
  BY AnsweredIs
<1>1. clock \in Int /\ now \in Int /\ seen[k] \in Int /\ now <= clock /\ seen[k] <= clock
  BY <1>0, LimiterAssumption DEF TypeOK, StampsPast
<1>2. /\ \A x \in Int : R(x) \in Int
      /\ \A x, y \in Int : x <= y => R(x) <= R(y)
  BY RateLinear
<1>3. /\ R(clock) \in Int /\ R(now) \in Int /\ R(seen[k]) \in Int
      /\ R(now) <= R(clock) /\ R(seen[k]) <= R(clock)
  BY <1>1, <1>2
<1>4. t + R(clock) - R(now) >= 0
  <2>1. CASE allowed
    <3>1. t >= 0  BY <2>1 DEF Balanced
    <3> QED  BY <1>3, <3>1
  <2>2. CASE ~allowed
    <3>1. bs[k] # NoBucket /\ t = bs[k].tokens + R(now) - R(bs[k].last)
      BY <2>2 DEF Balanced
    <3>2. bs[k].tokens \in Int /\ bs[k].last \in Int
      BY <1>0, <3>1 DEF TypeOK, Bucket
    <3>3. R(bs[k].last) \in Int  BY <1>2, <3>2
    <3>4. bs[k].tokens + R(seen[k]) - R(bs[k].last) >= 0
      BY <1>0, <3>1 DEF NoDebt
    <3> QED  BY <1>3, <3>1, <3>2, <3>3, <3>4
  <2> QED  BY <2>1, <2>2
<1>5. ASSUME NEW m \in Keys
      PROVE  /\ bs'[m] # NoBucket => bs'[m].tokens + R(seen'[m]) - R(bs'[m].last) >= 0
             /\ seen'[m] <= clock'
             /\ bs'[m] # NoBucket => bs'[m].last <= clock'
  <2>1. CASE m = k
    <3>1. bs'[m].tokens = t /\ bs'[m].last = now /\ seen'[m] = clock  BY <1>0, <2>1
    <3> QED  BY <1>0, <1>1, <1>4, <3>1
  <2>2. CASE m # k
    <3>1. bs'[m] = bs[m] /\ seen'[m] = seen[m]  BY <1>0, <2>2
    <3>2. bs[m] # NoBucket => bs[m].tokens + R(seen[m]) - R(bs[m].last) >= 0
      BY DEF NoDebt
    <3>3. seen[m] <= clock /\ (bs[m] # NoBucket => bs[m].last <= clock)
      BY DEF StampsPast
    <3> QED  BY <1>0, <3>1, <3>2, <3>3
  <2> QED  BY <2>1, <2>2
<1>6. \A q \in Requests : stamp'[q] <= clock'
  BY <1>0 DEF StampsPast
<1> QED  BY <1>5, <1>6 DEF NoDebt, StampsPast

\* Every step keeps the ledger in balance.
LEMMA LedgerStep ==
  ASSUME IInv, [Next]_vars
  PROVE  IInv'
<1> USE DEF IInv
<1>0. TypeOK'  BY TypeStep
<1>1. CASE Tick
  <2>1. clock' = clock + 1 /\ UNCHANGED <<pc, stamp, bs, log, seen>>
    BY <1>1 DEF Tick
  <2>2. Paid' /\ Sliding' /\ NoDebt'  BY <2>1 DEF Paid, Sliding, NoDebt
  <2>3. StampsPast'
    <3>1. clock \in Int /\ stamp \in [Requests -> Int] /\ seen \in [Keys -> Int]
      BY LimiterAssumption DEF TypeOK
    <3>2. \A k \in Keys : bs[k] # NoBucket => bs[k].last \in Int
      BY DEF TypeOK, Bucket
    <3> QED  BY <2>1, <3>1, <3>2 DEF StampsPast
  <2> QED  BY <1>0, <2>2, <2>3
<1>2. ASSUME NEW r \in Requests, Stamp(r) PROVE IInv'
  <2>1. /\ stamp' = [stamp EXCEPT ![r] = clock]
        /\ UNCHANGED <<clock, bs, log, seen>>
    BY <1>2 DEF Stamp
  <2>2. Paid' /\ Sliding' /\ NoDebt'  BY <2>1 DEF Paid, Sliding, NoDebt
  <2>3. StampsPast'
    <3>1. clock \in Int  BY LimiterAssumption DEF TypeOK
    <3>2. \A q \in Requests : stamp'[q] <= clock
      BY <2>1, <3>1 DEF TypeOK, StampsPast
    <3> QED  BY <2>1, <3>2 DEF StampsPast
  <2> QED  BY <1>0, <2>2, <2>3
<1>3. ASSUME NEW r \in Requests, FirstVisit(r) \/ Visit(r) PROVE IInv'
  <2>1. PICK t \in Int, allowed \in BOOLEAN :
          Answered(r, t, allowed) /\ Balanced(r, t, allowed)
    BY <1>3, VisitsBalance
  <2>2. Paid'  BY <2>1, AnswerPaid
  <2>3. Sliding'  BY <2>1, <2>2, AnswerSliding
  <2>4. NoDebt' /\ StampsPast'  BY <2>1, AnswerNoDebt
  <2> QED  BY <1>0, <2>2, <2>3, <2>4
<1>4. CASE UNCHANGED vars
  BY <1>0, <1>4 DEF vars, Paid, Sliding, NoDebt, StampsPast
<1> QED  BY <1>1, <1>2, <1>3, <1>4 DEF Next

\* The ledger is in balance before the first request.
LEMMA LedgerInit == Init => IInv
<1> SUFFICES ASSUME Init PROVE IInv  OBVIOUS
<1>1. TypeOK  BY TypeInit
<1>2. Paid /\ NoDebt /\ StampsPast
  BY DEF Init, Paid, NoDebt, StampsPast
<1>3. Sliding
  <2>1. \A k \in Keys : Len(log[k]) = 0  BY DEF Init
  <2> QED  BY <2>1 DEF Sliding
<1> QED  BY <1>1, <1>2, <1>3 DEF IInv

\* The bound with its products named is the bound as stated.
LEMMA SlidingIs == ASSUME TypeOK, Sliding PROVE SlidingBound
<1> SUFFICES ASSUME NEW k \in Keys, NEW i \in 1..Len(log[k]), NEW j \in 1..Len(log[k]),
                    i <= j
             PROVE  (j - i + 1) * Q <= Cap + RPS * (log[k][j] - log[k][i])
  BY DEF SlidingBound
<1>1. log[k] \in Seq(0..MaxClock)  BY DEF TypeOK
<1>2. log[k][i] \in Int /\ log[k][j] \in Int  BY <1>1, EntryIsTick
<1>3. \A a, c \in Int : RPS * (c - a) = R(c) - R(a) /\ R(a) \in Int
  BY RateLinear
<1>4. /\ RPS * (log[k][j] - log[k][i]) = R(log[k][j]) - R(log[k][i])
      /\ R(log[k][j]) \in Int /\ R(log[k][i]) \in Int
  BY <1>2, <1>3
<1>5. Cost(j - i + 1) <= Cap + R(log[k][j]) - R(log[k][i])
  BY DEF Sliding
<1>6. Cost(j - i + 1) = (j - i + 1) * Q  BY DEF Cost
<1>7. Cap + R(log[k][j]) - R(log[k][i])
        = Cap + RPS * (log[k][j] - log[k][i])
  BY <1>4, CapPays
<1> QED  BY <1>5, <1>6, <1>7

\* The ledger is in balance in every reachable state.
LEMMA Ledger == Spec => []IInv
<1>1. IInv /\ [Next]_vars => IInv'  BY LedgerStep
<1> QED  BY LedgerInit, <1>1, PTL DEF Spec

\* THEOREM RateIsKept.  Between any two allowed requests of an address, the
\* limiter lets through no more than its capacity and what the rate gives
\* between their stamps, in whatever order the requests win the lock.
THEOREM RateIsKept == Spec => []SlidingBound
<1>1. IInv => SlidingBound  BY SlidingIs DEF IInv
<1> QED  BY Ledger, <1>1, PTL

\* THEOREM PaceIsAllowed.  A request whose stamp is 1/rps or more after the last
\* answer to its address is not refused: stale stamps and refusals cost nothing.
THEOREM PaceIsAllowed == Spec => SpacedClientAllowed
<1>1. ASSUME IInv, Next, NEW r \in Requests, pc[r] = "stamped", pc'[r] = "denied"
      PROVE  RPS * (stamp[r] - seen[KeyOf[r]]) < Q
  <2> DEFINE k == KeyOf[r]
             now == stamp[r]
             v == Refilled(bs[k], now)
  <2>1. k \in Keys /\ now \in Nat /\ seen[k] \in Nat
    BY <1>1, LimiterAssumption DEF IInv, TypeOK
  <2>2. Visit(r) /\ ~(v >= Q)
    <3>1. ~Tick  BY <1>1 DEF Tick
    <3>2. ASSUME NEW q \in Requests, Stamp(q) PROVE FALSE
      BY <1>1, <3>2 DEF Stamp, IInv, TypeOK
    <3>3. ASSUME NEW q \in Requests, FirstVisit(q) PROVE FALSE
      BY <1>1, <3>3 DEF FirstVisit, Answer, IInv, TypeOK
    <3>4. ASSUME NEW q \in Requests, Visit(q) PROVE q = r
      BY <1>1, <3>4 DEF Visit, Answer, IInv, TypeOK
    <3>5. Visit(r)  BY <1>1, <3>1, <3>2, <3>3, <3>4 DEF Next
    <3>6. pc' = [pc EXCEPT ![r] = IF v >= Q THEN "allowed" ELSE "denied"]
      BY <3>5 DEF Visit, Answer
    <3>7. v >= Q => pc'[r] = "allowed"  BY <1>1, <3>6 DEF IInv, TypeOK
    <3> QED  BY <1>1, <3>5, <3>7
  <2>3. bs[k] \in Bucket /\ bs[k] # NoBucket
    BY <1>1, <2>1, <2>2 DEF IInv, TypeOK, Visit
  <2>4. v \in Int /\ (v = Cap \/ v = bs[k].tokens + R(now) - R(bs[k].last))
    BY <2>1, <2>3, RefilledIs
  <2>5. bs[k].tokens + R(seen[k]) - R(bs[k].last) >= 0
    BY <1>1, <2>1, <2>3 DEF IInv, NoDebt
  <2>6. bs[k].tokens \in Int /\ bs[k].last \in Int /\ now \in Int /\ seen[k] \in Int
    BY <2>1, <2>3 DEF Bucket
  <2>7. \A a, c \in Int : RPS * (c - a) = R(c) - R(a) /\ R(a) \in Int
    BY RateLinear
  <2>8. /\ RPS * (now - seen[k]) = R(now) - R(seen[k])
        /\ R(now) \in Int /\ R(seen[k]) \in Int /\ R(bs[k].last) \in Int
    BY <2>6, <2>7
  <2> HIDE DEF v
  <2>9. R(now) - R(seen[k]) < Q
    BY <2>2, <2>4, <2>5, <2>6, <2>8, CapPays
  <2> QED  BY <2>8, <2>9
<1>2. IInv /\ [Next]_vars
        => [\A r \in Requests : pc[r] = "stamped" /\ pc'[r] = "denied"
              => RPS * (stamp[r] - seen[KeyOf[r]]) < Q]_vars
  BY <1>1
<1> QED  BY Ledger, <1>2, PTL DEF Spec, SpacedClientAllowed

-----------------------------------------------------------------------------
(* From the order of processing to windows of time. *)

\* A non-empty set of positions of a log has a first and a last one.
LEMMA Ends ==
  ASSUME NEW n \in Nat, NEW S \in SUBSET (1..n), S # {}
  PROVE  \E lo, hi \in S : S \subseteq lo..hi
<1>1. \E lo \in S : \A i \in S : lo <= i
  <2>1. S \subseteq Nat  OBVIOUS
  <2>2. PICK lo \in S : \A i \in S : ~(<<i, lo>> \in OpToRel(<, Nat))
    BY <2>1, NatLessThanWellFounded, WFMin
  <2>3. \A i \in S : ~(i < lo)
    BY <2>1, <2>2 DEF OpToRel
  <2> QED  BY <2>1, <2>3
<1>2. \E hi \in S : \A i \in S : i <= hi
  <2> DEFINE T == {n - i : i \in S}
  <2>1. T \subseteq Nat /\ T # {}
    <3>1. T \subseteq Nat  OBVIOUS
    <3>2. PICK i \in S : TRUE  OBVIOUS
    <3>3. n - i \in T  BY <3>2
    <3> QED  BY <3>1, <3>3
  <2>2. PICK d \in T : \A e \in T : ~(<<e, d>> \in OpToRel(<, Nat))
    BY <2>1, NatLessThanWellFounded, WFMin
  <2>3. \A e \in T : ~(e < d)
    BY <2>1, <2>2 DEF OpToRel
  <2>4. PICK hi \in S : d = n - hi  OBVIOUS
  <2>5. \A i \in S : ~(n - i < n - hi)  BY <2>3, <2>4
  <2> QED  BY <2>5
<1> QED  BY <1>1, <1>2

\* THEOREM WindowIsKept.  In no window of time does an address get more than the
\* capacity and what the rate gives in the window, stale stamps or not.
THEOREM WindowIsKept == Spec => []WindowBound
<1>1. ASSUME TypeOK, SlidingBound PROVE WindowBound
  <2> SUFFICES ASSUME NEW k \in Keys, NEW from \in 0..MaxClock,
                      NEW to \in 0..MaxClock, from <= to
               PROVE  Q * Cardinality({i \in 1..Len(log[k]) : log[k][i] \in from..to})
                        <= Cap + RPS * (to - from)
    BY DEF WindowBound
  <2> DEFINE S == {i \in 1..Len(log[k]) : log[k][i] \in from..to}
  <2>1. log[k] \in Seq(0..MaxClock) /\ Len(log[k]) \in Nat
    BY <1>1 DEF TypeOK
  <2>2. from \in Int /\ to \in Int  BY LimiterAssumption
  <2>3. \A a, c \in Int : /\ RPS * (c - a) = R(c) - R(a) /\ R(a) \in Int
                          /\ a <= c => R(a) <= R(c)
    BY RateLinear
  <2>4. /\ RPS * (to - from) = R(to) - R(from)
        /\ R(to) \in Int /\ R(from) \in Int /\ R(from) <= R(to)
    BY <2>2, <2>3
  <2>5. CASE S = {}
    <3>1. Cardinality(S) = 0  BY <2>5, FS_EmptySet
    <3>2. Q * Cardinality(S) = 0  BY <3>1, CapPays
    <3> QED  BY <2>4, <3>2, CapPays
  <2>6. CASE S # {}
    <3>1. PICK lo \in S, hi \in S : S \subseteq lo..hi
      <4>1. S \in SUBSET (1..Len(log[k]))  OBVIOUS
      <4> HIDE DEF S
      <4> QED  BY <2>1, <2>6, <4>1, Ends
    <3>2. lo \in 1..Len(log[k]) /\ hi \in 1..Len(log[k]) /\ lo <= hi
      BY <3>1
    <3>3. /\ log[k][lo] \in from..to /\ log[k][hi] \in from..to
          /\ log[k][lo] \in Int /\ log[k][hi] \in Int
      BY <2>2, <3>1
    <3>4. IsFiniteSet(lo..hi) /\ Cardinality(lo..hi) = hi - lo + 1
      BY <3>2, FS_Interval
    <3>5. IsFiniteSet(S) /\ Cardinality(S) <= hi - lo + 1 /\ Cardinality(S) \in Nat
      BY <3>1, <3>4, FS_Subset, FS_CardinalityType
    <3>6. (hi - lo + 1) * Q <= Cap + RPS * (log[k][hi] - log[k][lo])
      BY <1>1, <3>2 DEF SlidingBound
    <3>7. /\ RPS * (log[k][hi] - log[k][lo]) = R(log[k][hi]) - R(log[k][lo])
          /\ R(log[k][hi]) \in Int /\ R(log[k][lo]) \in Int
          /\ R(log[k][hi]) <= R(to) /\ R(from) <= R(log[k][lo])
      <4> DEFINE x == log[k][lo]
                 y == log[k][hi]
      <4>1. x \in Int /\ y \in Int /\ from <= x /\ y <= to  BY <2>2, <3>3
      <4> HIDE DEF x, y
      <4>2. /\ RPS * (y - x) = R(y) - R(x) /\ R(y) \in Int /\ R(x) \in Int
            /\ R(y) <= R(to) /\ R(from) <= R(x)
        BY <2>2, <2>3, <4>1
      <4> QED  BY <4>2 DEF x, y
    <3>8. Q * Cardinality(S) <= (hi - lo + 1) * Q
      <4> DEFINE c == Cardinality(S)
                 m == hi - lo + 1
      <4>1. c \in Int /\ m \in Int /\ c <= m /\ Q \in Int /\ Q > 0
        BY <3>2, <3>5, CapPays
      <4> HIDE DEF c, m
      <4>2. Q * c <= m * Q  BY <4>1
      <4> QED  BY <4>2 DEF c, m
    <3>9. Q * Cardinality(S) \in Int /\ (hi - lo + 1) * Q \in Int
      BY <3>2, <3>5, CapPays
    <3>10. Q * Cardinality(S) <= Cap + R(log[k][hi]) - R(log[k][lo])
      BY <3>6, <3>7, <3>8, <3>9, CapPays
    <3>11. Q * Cardinality(S) <= Cap + (R(to) - R(from))
      <4> HIDE DEF S
      <4> QED  BY <2>4, <3>7, <3>9, <3>10, CapPays
    <3> QED  BY <2>4, <3>11
  <2> QED  BY <2>5, <2>6
<1>2. IInv => TypeOK /\ SlidingBound  BY SlidingIs DEF IInv
<1> QED  BY Ledger, <1>1, <1>2, PTL

-----------------------------------------------------------------------------
(* A site's limiter through reloads. *)

\* Reloads, routing and forwarding leave every limiter alone.
LEMMA RuntimeStep == RuntimeNext => [Next]_vars
<1>1. ASSUME RuntimeNext PROVE Next \/ UNCHANGED vars
  <2>1. CASE Tick /\ UNCHANGED runtimeVars
    BY <2>1 DEF Next
  <2>2. CASE Reload
    BY <2>2 DEF Reload
  <2>3. ASSUME NEW r \in Requests, Route(r) \/ Ask(r) \/ Forward(r)
        PROVE  Next \/ UNCHANGED vars
    <3>1. CASE Route(r)
      BY <3>1 DEF Route
    <3>2. CASE Ask(r)
      BY <3>2 DEF Ask, Next
    <3>3. CASE Forward(r)
      BY <3>3 DEF Forward
    <3>. QED  BY <2>3, <3>1, <3>2, <3>3
  <2>. QED  BY <1>1, <2>1, <2>2, <2>3 DEF RuntimeNext
<1>. QED  BY <1>1

\* The limiters of the runtimes are RateLimiter's, which follows from how the
\* actions are written: it carries the facts about RateLimiter over.
LEMMA LimiterSpec == RuntimeSpec => Spec
<1>1. RuntimeInit => Init
  BY DEF RuntimeInit
<1>2. [RuntimeNext]_<<vars, runtimeVars>> => [Next]_vars
  BY RuntimeStep
<1>. QED  BY <1>1, <1>2, PTL DEF RuntimeSpec, Spec

\* In no window of time does one runtime let more through than its capacity and
\* what the rate gives, whatever is reloaded meanwhile (ratelimit.go, Allow).
THEOREM RuntimeWindow == RuntimeSpec => []WindowBound
BY LimiterSpec, WindowIsKept, PTL

-----------------------------------------------------------------------------
(* The rotation: what each upstream of a pool has been sent. *)

\* A counter that stands at n owes an upstream one more since the last full round.
Extra(n, u) == IF u < n % Pool THEN 1 ELSE 0

\* The requests that pool k sent to upstream w.
Sent(k, w) == {r \in Requests : KeyOf[r] = k /\ target[r] = w}

\* The types of what SiteRuntime adds to RateLimiter.
RuntimeTypes ==
  /\ gen \in Keys
  /\ since \in [Keys -> 0..MaxClock]
  /\ next \in [Keys -> 0..(Wrap - 1)]
  /\ turns \in [Keys -> Nat]
  /\ target \in [Requests -> 0..Pool]

\* The counter is the number of turns modulo its width.
Counted == \A k \in Keys : next[k] = turns[k] % Wrap

\* The sets that are counted are finite.
Finite == \A k \in Keys : \A w \in 0..(Pool - 1) : IsFiniteSet(Sent(k, w))

\* No upstream is ahead of another by more than what the counter owes it since
\* the last full round, and one for each time that the counter has wrapped.
Even ==
  \A k \in Keys : \A u, v \in 0..(Pool - 1) :
    Cardinality(Sent(k, u)) - Cardinality(Sent(k, v))
      <= turns[k] \div Wrap + Extra(next[k], u) - Extra(next[k], v)

Rot == RuntimeTypes /\ Counted /\ Finite /\ Even

\* What is chosen is an upstream.
LEMMA ChosenIsUpstream ==
  ASSUME NEW n \in Nat
  PROVE  Chosen(n) \in 0..(Pool - 1) /\ Chosen(n) # Pool
BY RuntimeAssumption DEF Chosen

\* One turn moves what an upstream has been owed by one, to the chosen one.
LEMMA ExtraTurns ==
  ASSUME NEW n \in Nat, NEW u \in 0..(Pool - 1), NEW v \in 0..(Pool - 1)
  PROVE  /\ Extra(n, u) \in {0, 1}
         /\ Extra(0, u) = 0
         /\ Extra(n, Chosen(n)) = 0
         /\ Extra(n + 1, u) - Extra(n + 1, v)
              = Extra(n, u) - Extra(n, v)
                  + (IF u = Chosen(n) THEN 1 ELSE 0) - (IF v = Chosen(n) THEN 1 ELSE 0)
<1> DEFINE c == n % Pool
           d == (n + 1) % Pool
<1>1. c \in 0..(Pool - 1) /\ Pool \in Nat \ {0} /\ 0 % Pool = 0
  BY RuntimeAssumption
<1>2. /\ c + 1 < Pool => d = c + 1
      /\ c + 1 = Pool => d = 0
  BY RuntimeAssumption, NextDiv
<1>3. /\ Chosen(n) = c
      /\ \A w \in 0..(Pool - 1) : /\ Extra(n, w) = IF w < c THEN 1 ELSE 0
                                  /\ Extra(n + 1, w) = IF w < d THEN 1 ELSE 0
      /\ Extra(0, u) = IF u < 0 THEN 1 ELSE 0
  BY <1>1 DEF Chosen, Extra
<1> HIDE DEF c, d
<1>4. Extra(n, u) \in {0, 1} /\ Extra(0, u) = 0 /\ Extra(n, Chosen(n)) = 0
  BY <1>1, <1>3
<1>5. CASE c + 1 < Pool
  BY <1>1, <1>2, <1>3, <1>5
<1>6. CASE c + 1 = Pool
  BY <1>1, <1>2, <1>3, <1>6
<1> QED  BY <1>1, <1>4, <1>5, <1>6

\* What a forwarded request changes.
LEMMA ForwardIs ==
  ASSUME RuntimeTypes, NEW r \in Requests, Forward(r)
  PROVE  LET k == KeyOf[r]
             c == Chosen(next[k])
         IN  /\ k \in Keys /\ next[k] \in Nat /\ c \in 0..(Pool - 1)
             /\ \A j \in Keys, w \in 0..(Pool - 1) :
                  /\ j = k /\ w = c => Sent(j, w)' = Sent(j, w) \cup {r}
                  /\ ~ (j = k /\ w = c) => Sent(j, w)' = Sent(j, w)
                  /\ r \notin Sent(j, w)
             /\ next'[k] = (next[k] + 1) % Wrap /\ turns'[k] = turns[k] + 1
             /\ \A j \in Keys \ {k} : next'[j] = next[j] /\ turns'[j] = turns[j]
<1> DEFINE k == KeyOf[r]
           c == Chosen(next[k])
<1>1. k \in Keys
  BY LimiterAssumption
<1>2. next[k] \in Nat
  BY <1>1, RuntimeAssumption DEF RuntimeTypes
<1>3. c \in 0..(Pool - 1) /\ c # Pool
  BY <1>2, ChosenIsUpstream
<1>4. /\ target[r] = Pool
      /\ target' = [target EXCEPT ![r] = c]
      /\ next' = [next EXCEPT ![k] = (@ + 1) % Wrap]
      /\ turns' = [turns EXCEPT ![k] = @ + 1]
  BY DEF Forward
<1> HIDE DEF c
<1>5. target'[r] = c /\ \A q \in Requests \ {r} : target'[q] = target[q]
  BY <1>4 DEF RuntimeTypes
<1>6. ASSUME NEW j \in Keys, NEW w \in 0..(Pool - 1)
      PROVE  /\ j = k /\ w = c => Sent(j, w)' = Sent(j, w) \cup {r}
             /\ ~ (j = k /\ w = c) => Sent(j, w)' = Sent(j, w)
             /\ r \notin Sent(j, w)
  <2>1. w # Pool
    BY RuntimeAssumption
  <2>2. r \notin Sent(j, w)
    BY <1>4, <2>1 DEF Sent
  <2>3. \A q : q \in Sent(j, w)' <=> q \in Sent(j, w) \/ (q = r /\ j = k /\ w = c)
    BY <1>4, <1>5, <2>1 DEF Sent
  <2>4. /\ j = k /\ w = c => Sent(j, w)' = Sent(j, w) \cup {r}
        /\ ~ (j = k /\ w = c) => Sent(j, w)' = Sent(j, w)
    BY <2>3
  <2> QED  BY <2>2, <2>4
<1>8. /\ next'[k] = (next[k] + 1) % Wrap /\ turns'[k] = turns[k] + 1
      /\ \A j \in Keys \ {k} : next'[j] = next[j] /\ turns'[j] = turns[j]
  BY <1>1, <1>4 DEF RuntimeTypes
<1> QED  BY <1>1, <1>2, <1>3, <1>6, <1>8 DEF c

\* A forwarded request keeps the types.
LEMMA ForwardTypes ==
  ASSUME RuntimeTypes, NEW r \in Requests, Forward(r)
  PROVE  RuntimeTypes'
<1> DEFINE k == KeyOf[r]
           c == Chosen(next[k])
<1>1. /\ k \in Keys /\ next[k] \in Nat /\ c \in 0..(Pool - 1)
  BY ForwardIs
<1>2. /\ target' = [target EXCEPT ![r] = c]
      /\ next' = [next EXCEPT ![k] = (next[k] + 1) % Wrap]
      /\ turns' = [turns EXCEPT ![k] = turns[k] + 1]
      /\ gen' = gen /\ since' = since
  BY DEF Forward
<1> HIDE DEF c
<1>3. target' \in [Requests -> 0..Pool]
  <2>1. c \in 0..Pool
    BY <1>1, RuntimeAssumption
  <2> QED  BY <1>2, <2>1 DEF RuntimeTypes
<1>4. next' \in [Keys -> 0..(Wrap - 1)]
  <2>1. (next[k] + 1) % Wrap \in 0..(Wrap - 1)
    BY <1>1, RuntimeAssumption
  <2> QED  BY <1>2, <2>1 DEF RuntimeTypes
<1>5. turns' \in [Keys -> Nat]
  BY <1>1, <1>2 DEF RuntimeTypes
<1> QED  BY <1>2, <1>3, <1>4, <1>5 DEF RuntimeTypes

\* The counter and the history of its turns agree after a forwarded request.
LEMMA ForwardCounted ==
  ASSUME RuntimeTypes, Counted, NEW r \in Requests, Forward(r)
  PROVE  /\ Counted'
         /\ LET k == KeyOf[r]
            IN  \/ next[k] + 1 < Wrap /\ next'[k] = next[k] + 1
                     /\ turns'[k] \div Wrap = turns[k] \div Wrap
                \/ next'[k] = 0 /\ turns'[k] \div Wrap = turns[k] \div Wrap + 1
<1> DEFINE k == KeyOf[r]
           t == turns[k]
<1>1. /\ k \in Keys /\ next'[k] = (next[k] + 1) % Wrap /\ turns'[k] = t + 1
      /\ \A j \in Keys \ {k} : next'[j] = next[j] /\ turns'[j] = turns[j]
  BY ForwardIs
<1>2. t \in Nat /\ next[k] = t % Wrap /\ t % Wrap \in 0..(Wrap - 1)
  <2>1. t \in Nat /\ next[k] = t % Wrap /\ next[k] \in 0..(Wrap - 1)
    BY <1>1 DEF RuntimeTypes, Counted
  <2> QED  BY <2>1
<1>3. /\ (t + 1) % Wrap = ((t % Wrap) + 1) % Wrap
      /\ (t % Wrap) + 1 < Wrap => (t + 1) % Wrap = (t % Wrap) + 1
                                /\ (t + 1) \div Wrap = t \div Wrap
      /\ (t % Wrap) + 1 = Wrap => (t + 1) % Wrap = 0
                                /\ (t + 1) \div Wrap = t \div Wrap + 1
  BY <1>2, RuntimeAssumption, NextDiv
<1> HIDE DEF t
<1>4. next'[k] = turns'[k] % Wrap
  BY <1>1, <1>2, <1>3
<1>5. Counted'
  BY <1>1, <1>4 DEF Counted
<1>6. CASE (t % Wrap) + 1 < Wrap
  BY <1>1, <1>2, <1>3, <1>5, <1>6 DEF t
<1>7. CASE (t % Wrap) + 1 = Wrap
  BY <1>1, <1>2, <1>3, <1>5, <1>7 DEF t
<1> QED  BY <1>2, <1>6, <1>7, RuntimeAssumption

\* A forwarded request keeps the upstreams even.
LEMMA ForwardEven ==
  ASSUME Rot, NEW r \in Requests, Forward(r)
  PROVE  Finite' /\ Even'
<1> DEFINE k == KeyOf[r]
           n == next[k]
           c == Chosen(n)
<1>1. /\ k \in Keys /\ n \in Nat /\ c \in 0..(Pool - 1)
      /\ \A j \in Keys, w \in 0..(Pool - 1) :
           /\ j = k /\ w = c => Sent(j, w)' = Sent(j, w) \cup {r}
           /\ ~ (j = k /\ w = c) => Sent(j, w)' = Sent(j, w)
           /\ r \notin Sent(j, w)
      /\ \A j \in Keys \ {k} : next'[j] = next[j] /\ turns'[j] = turns[j]
  BY ForwardIs DEF Rot
<1>2. ASSUME NEW j \in Keys, NEW w \in 0..(Pool - 1)
      PROVE  /\ Cardinality(Sent(j, w)) \in Int
             /\ IsFiniteSet(Sent(j, w)')
             /\ Cardinality(Sent(j, w)')
                  = Cardinality(Sent(j, w)) + (IF j = k /\ w = c THEN 1 ELSE 0)
  <2>1. IsFiniteSet(Sent(j, w)) /\ Cardinality(Sent(j, w)) \in Int
    BY FS_CardinalityType DEF Rot, Finite
  <2>2. CASE j = k /\ w = c
    <3>1. Sent(j, w)' = Sent(j, w) \cup {r} /\ r \notin Sent(j, w)
      BY <1>1, <2>2
    <3>2. /\ IsFiniteSet(Sent(j, w) \cup {r})
          /\ Cardinality(Sent(j, w) \cup {r}) = Cardinality(Sent(j, w)) + 1
      BY <2>1, <3>1, FS_AddElement
    <3>3. (IF j = k /\ w = c THEN 1 ELSE 0) = 1
      BY <2>2
    <3> QED  BY <2>1, <3>1, <3>2, <3>3
  <2>3. CASE ~ (j = k /\ w = c)
    <3>1. Sent(j, w)' = Sent(j, w)
      BY <1>1, <2>3
    <3> QED  BY <2>1, <2>3, <3>1
  <2> QED  BY <2>2, <2>3
<1>4. Finite'
  BY <1>2 DEF Finite
<1>5. \A w \in 0..(Pool - 1) :
        /\ Cardinality(Sent(k, w)) \in Int
        /\ Cardinality(Sent(k, w)') = Cardinality(Sent(k, w)) + (IF w = c THEN 1 ELSE 0)
  BY <1>1, <1>2
<1>6. ASSUME NEW u \in 0..(Pool - 1), NEW v \in 0..(Pool - 1)
      PROVE  Cardinality(Sent(k, u)') - Cardinality(Sent(k, v)')
               <= turns'[k] \div Wrap + Extra(next'[k], u) - Extra(next'[k], v)
  <2> DEFINE su == Cardinality(Sent(k, u))
             sv == Cardinality(Sent(k, v))
             tu == Cardinality(Sent(k, u)')
             tv == Cardinality(Sent(k, v)')
             q  == turns[k] \div Wrap
             p  == turns'[k] \div Wrap
             iu == IF u = c THEN 1 ELSE 0
             iv == IF v = c THEN 1 ELSE 0
  <2>1. su - sv <= q + Extra(n, u) - Extra(n, v)
    BY <1>1 DEF Rot, Even
  <2>2. su \in Int /\ sv \in Int /\ tu = su + iu /\ tv = sv + iv
    BY <1>5
  <2>3. \/ next'[k] = n + 1 /\ p = q
        \/ next'[k] = 0 /\ p = q + 1
    BY ForwardCounted DEF Rot
  <2>4. q \in Int
    BY <1>1, RuntimeAssumption DEF Rot, RuntimeTypes
  <2>5. /\ Extra(n, u) \in {0, 1} /\ Extra(n, v) \in {0, 1}
        /\ Extra(0, u) = 0 /\ Extra(0, v) = 0
        /\ u = c => Extra(n, u) = 0
        /\ v = c => Extra(n, v) = 0
        /\ Extra(n + 1, u) - Extra(n + 1, v) = Extra(n, u) - Extra(n, v) + iu - iv
        /\ Extra(n + 1, u) \in {0, 1} /\ Extra(n + 1, v) \in {0, 1}
    <3>1. n + 1 \in Nat
      BY <1>1
    <3> HIDE DEF n
    <3> QED  BY <1>1, <3>1, ExtraTurns
  <2>6. iu \in {0, 1} /\ iv \in {0, 1} /\ (iu = 1 => u = c) /\ (iv = 1 => v = c)
    OBVIOUS
  <2> HIDE DEF su, sv, tu, tv, q, p, iu, iv, c, n
  <2>7. CASE next'[k] = n + 1 /\ p = q
    BY <2>1, <2>2, <2>4, <2>5, <2>6, <2>7 DEF tu, tv, p
  <2>8. CASE next'[k] = 0 /\ p = q + 1
    BY <2>1, <2>2, <2>4, <2>5, <2>6, <2>8 DEF tu, tv, p
  <2> QED  BY <2>3, <2>7, <2>8
<1>7. ASSUME NEW j \in Keys, NEW u \in 0..(Pool - 1), NEW v \in 0..(Pool - 1)
      PROVE  Cardinality(Sent(j, u)') - Cardinality(Sent(j, v)')
               <= turns'[j] \div Wrap + Extra(next'[j], u) - Extra(next'[j], v)
  <2>1. CASE j = k
    BY <1>6, <2>1
  <2>2. CASE j # k
    <3>1. /\ Sent(j, u)' = Sent(j, u) /\ Sent(j, v)' = Sent(j, v)
          /\ next'[j] = next[j] /\ turns'[j] = turns[j]
      BY <1>1, <2>2
    <3>2. Cardinality(Sent(j, u)) - Cardinality(Sent(j, v))
            <= turns[j] \div Wrap + Extra(next[j], u) - Extra(next[j], v)
      BY DEF Rot, Even
    <3> QED  BY <3>1, <3>2
  <2> QED  BY <2>1, <2>2
<1>8. Even'
  BY <1>7 DEF Even, Extra
<1> QED  BY <1>4, <1>8

\* Every step keeps the rotation.
LEMMA RotStep ==
  ASSUME Rot, TypeOK, [RuntimeNext]_<<vars, runtimeVars>>
  PROVE  Rot'
<1>1. ASSUME UNCHANGED <<next, turns, target>>, RuntimeTypes'
      PROVE  Rot'
  BY <1>1 DEF Rot, Counted, Finite, Even, Sent
<1>2. CASE Tick /\ UNCHANGED runtimeVars
  BY <1>1, <1>2 DEF runtimeVars, Rot, RuntimeTypes
<1>3. CASE Reload
  <2>1. clock \in 0..MaxClock
    BY DEF TypeOK
  <2>2. RuntimeTypes'
    BY <1>3, <2>1 DEF Reload, Rot, RuntimeTypes
  <2> QED  BY <1>1, <1>3, <2>2 DEF Reload
<1>4. ASSUME NEW r \in Requests, Route(r) PROVE Rot'
  <2>1. RuntimeTypes'
    BY <1>4 DEF Route, Rot, RuntimeTypes
  <2> QED  BY <1>1, <1>4, <2>1 DEF Route
<1>5. ASSUME NEW r \in Requests, Ask(r) PROVE Rot'
  <2>1. RuntimeTypes'
    BY <1>5 DEF Ask, runtimeVars, Rot, RuntimeTypes
  <2> QED  BY <1>1, <1>5, <2>1 DEF Ask, runtimeVars
<1>6. ASSUME NEW r \in Requests, Forward(r) PROVE Rot'
  <2>1. RuntimeTypes' /\ Counted'
    BY <1>6, ForwardTypes, ForwardCounted DEF Rot
  <2>2. Finite' /\ Even'
    BY <1>6, ForwardEven
  <2> QED  BY <2>1, <2>2 DEF Rot
<1>7. CASE UNCHANGED <<vars, runtimeVars>>
  <2>1. RuntimeTypes'
    BY <1>7 DEF runtimeVars, Rot, RuntimeTypes
  <2> QED  BY <1>1, <1>7, <2>1 DEF runtimeVars
<1> QED  BY <1>2, <1>3, <1>4, <1>5, <1>6, <1>7 DEF RuntimeNext

\* No upstream has been sent to before the first request.
LEMMA RotInit == RuntimeInit => Rot
<1> SUFFICES ASSUME RuntimeInit PROVE Rot
  OBVIOUS
<1>1. RuntimeTypes
  <2>1. 1 \in Keys
    <3>1. Cardinality(Keys) \in Nat /\ Keys # {} /\ Keys = 1..Cardinality(Keys)
      BY RuntimeAssumption, FS_CardinalityType
    <3> DEFINE n == Cardinality(Keys)
    <3>2. n >= 1
      <4> HIDE DEF n
      <4>1. n \in Nat /\ Keys # {} /\ Keys = 1..n
        BY <3>1 DEF n
      <4> QED  BY <4>1
    <3> QED  BY <3>1, <3>2
  <2> QED  BY <2>1, RuntimeAssumption, LimiterAssumption DEF RuntimeInit, RuntimeTypes
<1>2. Counted
  BY RuntimeAssumption DEF RuntimeInit, Counted
<1>3. \A k \in Keys : \A w \in 0..(Pool - 1) : Sent(k, w) = {}
  BY RuntimeAssumption DEF RuntimeInit, Sent
<1>4. Finite /\ Even
  <2>1. IsFiniteSet({}) /\ Cardinality({}) = 0
    BY FS_EmptySet
  <2>2. 0 \div Wrap = 0
    BY RuntimeAssumption
  <2>3. \A w \in 0..(Pool - 1) : Extra(0, w) = 0
    BY RuntimeAssumption DEF Extra
  <2>4. \A k \in Keys : next[k] = 0 /\ turns[k] = 0
    BY DEF RuntimeInit
  <2>5. Finite
    BY <1>3, <2>1 DEF Finite
  <2>6. ASSUME NEW k \in Keys, NEW u \in 0..(Pool - 1), NEW v \in 0..(Pool - 1)
        PROVE  Cardinality(Sent(k, u)) - Cardinality(Sent(k, v))
                 <= turns[k] \div Wrap + Extra(next[k], u) - Extra(next[k], v)
    <3>1. Cardinality(Sent(k, u)) = 0 /\ Cardinality(Sent(k, v)) = 0
      BY <1>3, <2>1
    <3>2. turns[k] \div Wrap = 0 /\ Extra(next[k], u) = 0 /\ Extra(next[k], v) = 0
      BY <2>2, <2>3, <2>4
    <3> QED  BY <3>1, <3>2
  <2> QED  BY <2>5, <2>6 DEF Even
<1> QED  BY <1>1, <1>2, <1>4 DEF Rot

\* The rotation is even in every reachable state.
LEMMA Rotation == RuntimeSpec => []Rot
<1>1. RuntimeSpec => []TypeOK
  BY LimiterSpec, TypeCorrect, PTL
<1>2. Rot /\ TypeOK /\ [RuntimeNext]_<<vars, runtimeVars>> => Rot'
  BY RotStep
<1> QED  BY RotInit, <1>1, <1>2, PTL DEF RuntimeSpec

\* upstream.go, Next: in every pool, for every number of upstreams, requests and
\* width of the counter, no upstream gets more than one request more than another,
\* and one more for each time that the counter has wrapped.
THEOREM RotationIsFair == RuntimeSpec => []RotationFair
<1>1. ASSUME Rot PROVE RotationFair
  <2> SUFFICES ASSUME NEW k \in Keys, NEW u \in 0..(Pool - 1), NEW v \in 0..(Pool - 1)
               PROVE  Cardinality(Sent(k, u)) - Cardinality(Sent(k, v))
                        <= 1 + turns[k] \div Wrap
    BY DEF RotationFair, Sent
  <2>1. /\ IsFiniteSet(Sent(k, u)) /\ IsFiniteSet(Sent(k, v))
        /\ next[k] \in Nat /\ turns[k] \in Nat
    BY <1>1, RuntimeAssumption DEF Rot, Finite, RuntimeTypes
  <2>2. Cardinality(Sent(k, u)) \in Int /\ Cardinality(Sent(k, v)) \in Int
    BY <2>1, FS_CardinalityType
  <2>3. Cardinality(Sent(k, u)) - Cardinality(Sent(k, v))
          <= turns[k] \div Wrap + Extra(next[k], u) - Extra(next[k], v)
    BY <1>1 DEF Rot, Even
  <2>4. Extra(next[k], u) \in {0, 1} /\ Extra(next[k], v) \in {0, 1}
    BY <2>1, ExtraTurns
  <2>5. turns[k] \div Wrap \in Int
    BY <2>1, RuntimeAssumption
  <2> QED  BY <2>2, <2>3, <2>4, <2>5
<1> QED  BY Rotation, <1>1, PTL

-----------------------------------------------------------------------------
(* The budget of a client. *)

\* A runtime is asked only by requests that fetched it: what is in its log was
\* stamped after it was made.
Heard ==
  /\ \A r \in Requests : r \notin routed => pc[r] = "idle"
  /\ \A r \in routed : r \in Requests /\ KeyOf[r] <= gen
  /\ \A k \in Keys : since[k] <= clock
  /\ \A r \in Requests : pc[r] # "idle" => since[KeyOf[r]] <= stamp[r]
  /\ \A k \in Keys : k > gen => log[k] = <<>>
  /\ \A k \in Keys : \A i \in 1..Len(log[k]) : since[k] <= log[k][i]

\* A reload makes a runtime that nobody has asked.
LEMMA ReloadHeard ==
  ASSUME TypeOK, RuntimeTypes, Heard, Reload
  PROVE  Heard'
<1> DEFINE g == gen + 1
<1>1. /\ g \in Keys /\ gen' = g /\ since' = [since EXCEPT ![g] = clock]
      /\ UNCHANGED <<clock, pc, stamp, log, routed>>
  BY DEF Reload, vars
<1>2. gen \in Int /\ \A k \in Keys : k \in Int
  <2>1. Cardinality(Keys) \in Nat
    BY RuntimeAssumption, FS_CardinalityType
  <2>2. \A k \in 1..Cardinality(Keys) : k \in Int
    BY <2>1
  <2>3. \A k \in Keys : k \in Int
    BY <2>2, RuntimeAssumption
  <2> QED  BY <2>3 DEF RuntimeTypes
<1>3. since'[g] = clock /\ \A k \in Keys \ {g} : since'[k] = since[k]
  BY <1>1 DEF RuntimeTypes
<1>4. log[g] = <<>> /\ ~ (g <= gen)
  BY <1>1, <1>2 DEF Heard
<1>5. \A r \in Requests : r \notin routed' => pc'[r] = "idle"
  BY <1>1 DEF Heard
<1>6. \A r \in routed' : r \in Requests /\ KeyOf[r] <= gen'
  <2>1. \A r \in routed : r \in Requests /\ KeyOf[r] <= gen /\ KeyOf[r] \in Int
    BY <1>2, LimiterAssumption DEF Heard
  <2> QED  BY <1>1, <1>2, <2>1
<1>7. \A k \in Keys : since'[k] <= clock'
  <2>1. clock <= clock
    BY LimiterAssumption DEF TypeOK
  <2> QED  BY <1>1, <1>3, <2>1 DEF Heard
<1>8. \A r \in Requests : pc'[r] # "idle" => since'[KeyOf[r]] <= stamp'[r]
  <2> SUFFICES ASSUME NEW r \in Requests, pc[r] # "idle"
               PROVE  since'[KeyOf[r]] <= stamp[r]
    BY <1>1
  <2>1. KeyOf[r] <= gen /\ KeyOf[r] \in Keys
    BY LimiterAssumption DEF Heard
  <2>2. KeyOf[r] # g
    BY <1>4, <2>1
  <2>3. since[KeyOf[r]] <= stamp[r]
    BY DEF Heard
  <2> QED  BY <1>3, <2>1, <2>2, <2>3
<1>9. \A k \in Keys : k > gen' => log'[k] = <<>>
  BY <1>1, <1>2 DEF Heard
<1>10. \A k \in Keys : \A i \in 1..Len(log'[k]) : since'[k] <= log'[k][i]
  <2> SUFFICES ASSUME NEW k \in Keys, NEW i \in 1..Len(log[k])
               PROVE  since'[k] <= log[k][i]
    BY <1>1
  <2>1. k # g
    <3>1. 1..Len(<<>>) = {}
      OBVIOUS
    <3> QED  BY <1>4, <3>1
  <2> QED  BY <1>3, <2>1 DEF Heard
<1> QED  BY <1>5, <1>6, <1>7, <1>8, <1>9, <1>10 DEF Heard

\* A request that asks its runtime's limiter was stamped after that was made.
LEMMA AskHeard ==
  ASSUME TypeOK, RuntimeTypes, Heard, NEW r \in Requests, Ask(r)
  PROVE  Heard'
<1>1. r \in routed /\ UNCHANGED <<gen, since, routed>>
  BY DEF Ask, runtimeVars
<1>2. KeyOf[r] \in Keys /\ KeyOf[r] <= gen /\ since[KeyOf[r]] <= clock
  BY <1>1, LimiterAssumption DEF Heard
<1>3. CASE Stamp(r)
  <2>1. /\ pc' = [pc EXCEPT ![r] = "stamped"]
        /\ stamp' = [stamp EXCEPT ![r] = clock]
        /\ UNCHANGED <<clock, log>>
    BY <1>3 DEF Stamp
  <2>2. /\ stamp'[r] = clock
        /\ \A q \in Requests \ {r} : pc'[q] = pc[q] /\ stamp'[q] = stamp[q]
    BY <2>1 DEF TypeOK
  <2>3. \A q \in Requests : q \notin routed' => pc'[q] = "idle"
    BY <1>1, <2>2 DEF Heard
  <2>4. \A q \in Requests : pc'[q] # "idle" => since'[KeyOf[q]] <= stamp'[q]
    BY <1>1, <1>2, <2>2 DEF Heard
  <2> QED  BY <1>1, <2>1, <2>3, <2>4 DEF Heard
<1>4. CASE FirstVisit(r) \/ Visit(r)
  <2>1. PICK t \in Int, allowed \in BOOLEAN : Answered(r, t, allowed)
    BY <1>4, VisitsBalance
  <2> DEFINE k == KeyOf[r]
  <2>2. /\ log'[k] = IF allowed THEN Append(log[k], stamp[r]) ELSE log[k]
        /\ \A m \in Keys \ {k} : log'[m] = log[m]
        /\ UNCHANGED <<clock, stamp>>
        /\ stamp[r] \in 0..MaxClock
    BY <2>1, AnsweredIs, ZenonT(60)
  <2>3. pc[r] = "stamped" /\ \A q \in Requests \ {r} : pc'[q] = pc[q]
    BY <2>1 DEF Answered, Answer, TypeOK
  <2>4. since[k] <= stamp[r]
    BY <2>3 DEF Heard
  <2>5. log[k] \in Seq(0..MaxClock)
    BY <1>2 DEF TypeOK
  <2>6. \A i \in 1..Len(log'[k]) : since[k] <= log'[k][i]
    <3>1. CASE ~allowed
      BY <1>2, <2>2, <3>1 DEF Heard
    <3>2. CASE allowed
      <4>1. log'[k] = Append(log[k], stamp[r])
        BY <2>2, <3>2
      <4>2. /\ Len(Append(log[k], stamp[r])) = Len(log[k]) + 1 /\ Len(log[k]) \in Nat
            /\ \A i \in 1..Len(log[k]) : Append(log[k], stamp[r])[i] = log[k][i]
            /\ Append(log[k], stamp[r])[Len(log[k]) + 1] = stamp[r]
        BY <2>2, <2>5
      <4>3. \A i \in 1..Len(log[k]) : since[k] <= log[k][i]
        BY <1>2 DEF Heard
      <4>4. ASSUME NEW i \in 1..Len(log'[k]) PROVE since[k] <= log'[k][i]
        <5>1. i \in 1..Len(log[k]) \/ i = Len(log[k]) + 1
          BY <4>1, <4>2
        <5> QED  BY <2>4, <4>1, <4>2, <4>3, <5>1
      <4> QED  BY <4>4
    <3> QED  BY <3>1, <3>2
  <2>7. \A j \in Keys : \A i \in 1..Len(log'[j]) : since'[j] <= log'[j][i]
    <3>1. \A j \in Keys \ {k} : \A i \in 1..Len(log'[j]) : since[j] <= log'[j][i]
      BY <2>2 DEF Heard
    <3> QED  BY <1>1, <2>6, <3>1
  <2>8. \A j \in Keys : j > gen' => log'[j] = <<>>
    <3>1. gen \in Int /\ k \in Int
      <4>1. Cardinality(Keys) \in Nat
        BY RuntimeAssumption, FS_CardinalityType
      <4>2. \A j \in 1..Cardinality(Keys) : j \in Int
        BY <4>1
      <4>3. \A j \in Keys : j \in Int
        BY <4>2, RuntimeAssumption
      <4> QED  BY <1>2, <4>3 DEF RuntimeTypes
    <3>2. ~ (k > gen)
      BY <1>2, <3>1
    <3> QED  BY <1>1, <2>2, <3>2 DEF Heard
  <2>9. \A q \in Requests : q \notin routed' => pc'[q] = "idle"
    BY <1>1, <2>3 DEF Heard
  <2>10. \A q \in Requests : pc'[q] # "idle" => since'[KeyOf[q]] <= stamp'[q]
    BY <1>1, <2>2, <2>3, <2>4 DEF Heard
  <2> QED  BY <1>1, <2>2, <2>7, <2>8, <2>9, <2>10 DEF Heard
<1> QED  BY <1>3, <1>4 DEF Ask

\* Every step keeps it.
LEMMA HeardStep ==
  ASSUME TypeOK, RuntimeTypes, Heard, [RuntimeNext]_<<vars, runtimeVars>>
  PROVE  Heard'
<1>1. CASE Tick /\ UNCHANGED runtimeVars
  <2>1. clock' = clock + 1 /\ UNCHANGED <<pc, stamp, log, gen, since, routed>>
    BY <1>1 DEF Tick, runtimeVars
  <2>2. \A k \in Keys : since[k] <= clock + 1
    <3>1. clock \in Int /\ \A k \in Keys : since[k] \in Int /\ since[k] <= clock
      BY LimiterAssumption DEF TypeOK, RuntimeTypes, Heard
    <3> QED  BY <3>1
  <2> QED  BY <2>1, <2>2 DEF Heard
<1>2. CASE Reload
  BY <1>2, ReloadHeard
<1>3. ASSUME NEW r \in Requests, Route(r) PROVE Heard'
  <2>1. /\ r \notin routed /\ KeyOf[r] = gen /\ routed' = routed \cup {r}
        /\ UNCHANGED <<clock, pc, stamp, log, gen, since>>
    BY <1>3 DEF Route, vars
  <2>2. gen <= gen
    <3>1. Cardinality(Keys) \in Nat /\ Keys = 1..Cardinality(Keys) /\ gen \in Keys
      BY RuntimeAssumption, FS_CardinalityType DEF RuntimeTypes
    <3>2. gen \in Int
      BY <3>1
    <3> QED  BY <3>2
  <2> QED  BY <2>1, <2>2 DEF Heard
<1>4. ASSUME NEW r \in Requests, Ask(r) PROVE Heard'
  BY <1>4, AskHeard
<1>5. ASSUME NEW r \in Requests, Forward(r) PROVE Heard'
  BY <1>5 DEF Forward, vars, Heard
<1>6. CASE UNCHANGED <<vars, runtimeVars>>
  BY <1>6 DEF vars, runtimeVars, Heard
<1> QED  BY <1>1, <1>2, <1>3, <1>4, <1>5, <1>6 DEF RuntimeNext

\* It holds in every reachable state.
LEMMA HeardAlways == RuntimeSpec => []Heard
<1>1. RuntimeInit => Heard
  <2> SUFFICES ASSUME RuntimeInit PROVE Heard
    OBVIOUS
  <2>1. /\ clock = 0 /\ gen = 1 /\ routed = {}
        /\ \A k \in Keys : since[k] = 0 /\ log[k] = <<>>
        /\ \A r \in Requests : pc[r] = "idle"
    BY DEF RuntimeInit, Init
  <2>2. 1..Len(<<>>) = {}
    OBVIOUS
  <2> QED  BY <2>1, <2>2 DEF Heard
<1>2. RuntimeSpec => []TypeOK
  BY LimiterSpec, TypeCorrect, PTL
<1>3. Heard /\ TypeOK /\ Rot /\ [RuntimeNext]_<<vars, runtimeVars>> => Heard'
  BY HeardStep DEF Rot
<1> QED  BY <1>1, <1>2, <1>3, Rotation, PTL DEF RuntimeSpec

\* What a client gets in a window of time through any number of reloads: a burst
\* for each runtime that was there, and the rate from when each was made
\* (router.go, Reload, builds every limiter anew; ratelimit.go, Allow).
THEOREM BudgetIsKept == RuntimeSpec => []ClientBudget
<1>1. ASSUME RuntimeTypes, Heard, TypeOK, WindowBound PROVE ClientBudget
  <2> SUFFICES ASSUME NEW from \in 0..MaxClock, NEW to \in 0..MaxClock, from <= to
               PROVE  LET there == {k \in Keys : k <= gen /\ since[k] <= to}
                          start(k) == IF since[k] > from THEN since[k] ELSE from
                          budget == [k \in there |-> Cap + RPS * (to - start(k))]
                          granted(k) == Cardinality({i \in 1..Len(log[k]) : log[k][i] \in from..to})
                      IN  Q * SumFunction([k \in Keys |-> granted(k)]) <= SumFunction(budget)
    BY DEF ClientBudget
  <2> DEFINE there == {k \in Keys : k <= gen /\ since[k] <= to}
             start(k) == IF since[k] > from THEN since[k] ELSE from
             budget == [k \in there |-> Cap + RPS * (to - start(k))]
             hits(k) == {i \in 1..Len(log[k]) : log[k][i] \in from..to}
             granted == [k \in Keys |-> Cardinality(hits(k))]
             cost == [k \in Keys |-> Q * granted[k]]
  <2>1. from \in Int /\ to \in Int /\ MaxClock \in Int /\ Q \in Int /\ Cap \in Int
    BY LimiterAssumption, CapPays
  <2>2. \A k \in Keys : IsFiniteSet(hits(k)) /\ Cardinality(hits(k)) \in Nat
    <3> SUFFICES ASSUME NEW k \in Keys
                 PROVE  IsFiniteSet(hits(k)) /\ Cardinality(hits(k)) \in Nat
      OBVIOUS
    <3>1. Len(log[k]) \in Nat
      BY <1>1 DEF TypeOK
    <3>2. IsFiniteSet(1..Len(log[k]))
      BY <3>1, FS_Interval
    <3>3. hits(k) \subseteq 1..Len(log[k])
      OBVIOUS
    <3> HIDE DEF hits
    <3> QED  BY <3>2, <3>3, FS_Subset, FS_CardinalityType
  <2>3. \A k \in Keys : \A i \in 1..Len(log[k]) : log[k][i] \in Int /\ since[k] <= log[k][i]
    <3> SUFFICES ASSUME NEW k \in Keys, NEW i \in 1..Len(log[k])
                 PROVE  log[k][i] \in Int /\ since[k] <= log[k][i]
      OBVIOUS
    <3>1. log[k] \in Seq(0..MaxClock)
      BY <1>1 DEF TypeOK
    <3> QED  BY <1>1, <3>1, EntryIsTick DEF Heard
  <2>4. \A k \in Keys : since[k] \in 0..MaxClock /\ start(k) \in Int
    BY <1>1, <2>1 DEF RuntimeTypes
  <2>5. ASSUME NEW k \in Keys \ there PROVE granted[k] = 0
    <3>1. hits(k) = {}
      <4>1. CASE k <= gen
        <5>1. ~ (since[k] <= to) /\ since[k] \in Int
          BY <2>4, <2>5, <4>1
        <5>2. \A i \in 1..Len(log[k]) : ~ (log[k][i] \in from..to)
          BY <2>1, <2>3, <5>1
        <5> QED  BY <5>2
      <4>2. CASE ~ (k <= gen)
        <5>1. Cardinality(Keys) \in Nat /\ Keys = 1..Cardinality(Keys) /\ gen \in Keys
          BY <1>1, RuntimeAssumption, FS_CardinalityType DEF RuntimeTypes
        <5>2. k > gen
          BY <4>2, <5>1
        <5>3. log[k] = <<>>
          BY <1>1, <5>2 DEF Heard
        <5>4. 1..Len(<<>>) = {}
          OBVIOUS
        <5> QED  BY <5>3, <5>4
      <4> QED  BY <4>1, <4>2
    <3> HIDE DEF hits
    <3> QED  BY <3>1, FS_EmptySet
  <2>6. ASSUME NEW k \in there
        PROVE  Q * Cardinality(hits(k)) <= Cap + RPS * (to - start(k))
    <3> DEFINE s == start(k)
    <3>1. s \in 0..MaxClock /\ s <= to
      BY <1>1, <2>1, <2>4
    <3>2. Q * Cardinality({i \in 1..Len(log[k]) : log[k][i] \in s..to})
            <= Cap + RPS * (to - s)
      <4> HIDE DEF s
      <4> QED  BY <1>1, <3>1 DEF WindowBound
    <3>3. {i \in 1..Len(log[k]) : log[k][i] \in s..to} = hits(k)
      <4>1. \A i \in 1..Len(log[k]) : log[k][i] \in s..to <=> log[k][i] \in from..to
        BY <2>1, <2>3, <2>4
      <4> QED  BY <4>1
    <3> HIDE DEF hits, s
    <3>4. Q * Cardinality(hits(k)) <= Cap + RPS * (to - s)
      BY <3>2, <3>3
    <3> QED  BY <3>4 DEF s
  <2>7. IsFiniteSet(Keys) /\ IsFiniteSet(there) /\ there \in SUBSET Keys
    BY RuntimeAssumption, FS_Subset
  <2>8. \A k \in Keys : granted[k] \in Int /\ cost[k] = Q * granted[k] /\ cost[k] \in Int
    <3>1. \A k \in Keys : granted[k] \in Int
      BY <2>2
    <3>2. \A k \in Keys : cost[k] = Q * granted[k]
      OBVIOUS
    <3> HIDE DEF granted, cost
    <3> QED  BY <2>1, <3>1, <3>2
  <2>9. \A k \in Keys \ there : cost[k] = 0
    <3> HIDE DEF granted, there
    <3> QED  BY <2>1, <2>5, <2>8
  <2>10. \A k \in there : cost[k] \in Int /\ budget[k] \in Int /\ cost[k] <= budget[k]
    <3> SUFFICES ASSUME NEW k \in there
                 PROVE  cost[k] \in Int /\ budget[k] \in Int /\ cost[k] <= budget[k]
      OBVIOUS
    <3>1. budget[k] = Cap + RPS * (to - start(k)) /\ k \in Keys
      OBVIOUS
    <3>2. RPS * (to - start(k)) \in Int
      <4> DEFINE d == to - start(k)
      <4>1. d \in Int
        BY <2>1, <2>4
      <4> HIDE DEF d
      <4>2. RPS * d \in Int
        BY <4>1, LimiterAssumption
      <4> QED  BY <4>2 DEF d
    <3>3. cost[k] = Q * Cardinality(hits(k)) /\ cost[k] \in Int
      BY <2>8
    <3> HIDE DEF cost, budget, hits, start, there
    <3> QED  BY <2>1, <2>6, <3>1, <3>2, <3>3
  <2>11. DOMAIN granted = Keys /\ DOMAIN budget = there
    OBVIOUS
  <2>12. SumFunction(granted) = SumFunctionOnSet(granted, Keys)
         /\ SumFunction(budget) = SumFunctionOnSet(budget, there)
    <3> HIDE DEF granted, budget, there
    <3> QED  BY <2>11, SumOfDomain
  <2> HIDE DEF granted, budget, cost, there
  <2>13. SumFunctionOnSet(cost, Keys) = Q * SumFunctionOnSet(granted, Keys)
    BY <2>1, <2>7, <2>8, SumScaled
  <2>14. SumFunctionOnSet(cost, Keys) = SumFunctionOnSet(cost, there)
    BY <2>7, <2>8, <2>9, SumRestricted
  <2>15. SumFunctionOnSet(cost, there) <= SumFunctionOnSet(budget, there)
    BY <2>7, <2>10, SumMonotone
  <2>16. Q * SumFunction(granted) <= SumFunction(budget)
    BY <2>12, <2>13, <2>14, <2>15
  <2> QED  BY <2>16 DEF granted, budget, there
<1>2. RuntimeSpec => []TypeOK
  BY LimiterSpec, TypeCorrect, PTL
<1>3. Rot => RuntimeTypes
  BY DEF Rot
<1> QED  BY <1>1, <1>2, <1>3, Rotation, HeardAlways, RuntimeWindow, PTL
=============================================================================
