---------------------------- MODULE MetricsProofs ----------------------------
(***************************************************************************)
(* Proofs about Metrics, for every set of requests and sites, length of    *)
(* the rings and delay: the numbers of the last minute are those of the    *)
(* requests of the last minute, the totals of the dashboard account for    *)
(* them, the chart adds up to them, and the percentiles are those of the   *)
(* latest requests.                                                        *)
(***************************************************************************)
EXTENDS Metrics, ArithmeticProofs

\* The requests of a domain that were recorded in a second, and the errors.
At(d, t)   == {r \in Recorded(d) : stamp[r] = t}
ErrAt(d, t) == {r \in At(d, t) : IsError(r)}

\* A stamp is a time since the start, and not older than the lock lets it be.
Stamps ==
  /\ \A r \in Requests : pc[r] \in {"stamped", "done"} => N <= stamp[r] /\ stamp[r] <= clock
  /\ \A r \in Requests : pc[r] = "stamped" => clock - stamp[r] <= MaxDelay

\* A bucket is in the slot of its second, which has begun.
Slots ==
  \A d \in Domains : \A i \in 0..(N - 1) :
    buckets[d][i].ts # 0 =>
      buckets[d][i].ts % N = i /\ buckets[d][i].ts <= clock

\* The bucket of each of the last N seconds counts the requests of that second,
\* or it has had none and its slot still holds another one.
Kept ==
  MaxDelay < N =>
    \A d \in Domains : \A t \in (clock - N + 1)..clock :
      /\ buckets[d][t % N].ts = t =>
           /\ buckets[d][t % N].reqs = Cardinality(At(d, t))
           /\ buckets[d][t % N].errs = Cardinality(ErrAt(d, t))
      /\ buckets[d][t % N].ts # t => At(d, t) = {}

\* The inductive invariant.
MInv == TypeOK /\ Stamps /\ Slots /\ Kept

-----------------------------------------------------------------------------
(* Types. *)

\* What the assumptions say of the constants.
LEMMA ConstantsAre ==
  /\ N \in Nat \ {0} /\ RingSize \in Nat \ {0} /\ Milli \in Nat \ {0}
  /\ MaxClock \in Nat /\ MaxDelay \in Nat /\ N <= MaxClock
  /\ \A r \in Requests : DomainOf[r] \in Domains /\ StatusOf[r] \in Codes
                         /\ StatusOf[r] \in Nat /\ TookOf[r] \in Nat
  /\ \A s \in Sites : s.domain \in Domains
BY MetricsAssumption DEF Domains, Codes

\* A latency in milliseconds is a natural number.
LEMMA MillisNat == \A r \in Requests : Millis(r) \in Nat
<1> SUFFICES ASSUME NEW r \in Requests PROVE Millis(r) \in Nat
  OBVIOUS
<1> DEFINE ms == TookOf[r] \div Milli
<1>1. ms \in Nat
  BY ConstantsAre, DivMod
<1>2. Millis(r) = IF ms = 0 /\ TookOf[r] > 0 THEN 1 ELSE ms
  BY DEF Millis
<1> HIDE DEF ms
<1> QED  BY <1>1, <1>2

\* What Record leaves in the bucket of its second.
Counted(b, r) ==
  LET f == Fresh(b, stamp[r]) IN
  [f EXCEPT !.reqs = f.reqs + 1, !.errs = IF IsError(r) THEN f.errs + 1 ELSE f.errs]

\* What Record changes in the buckets.
LEMMA RecordIs ==
  ASSUME TypeOK, NEW r \in Requests, Record(r)
  PROVE  LET d == DomainOf[r]
             i == stamp[r] % N
         IN  /\ d \in Domains /\ i \in 0..(N - 1) /\ stamp[r] \in Nat
             /\ buckets'[d][i] = Counted(buckets[d][i], r)
             /\ \A e \in Domains, j \in 0..(N - 1) :
                  e # d \/ j # i => buckets'[e][j] = buckets[e][j]
             /\ buckets' = [buckets EXCEPT ![d] = [buckets[d] EXCEPT ![i] = Counted(buckets[d][i], r)]]
             /\ pc[r] = "stamped" /\ pc' = [pc EXCEPT ![r] = "done"]
             /\ stamp' = stamp /\ clock' = clock
<1> DEFINE d == DomainOf[r]
           i == stamp[r] % N
           c == Counted(buckets[d][i], r)
<1>1. d \in Domains
  BY ConstantsAre
<1>2. stamp[r] \in Nat
  BY ConstantsAre DEF TypeOK
<1>3. i \in 0..(N - 1)
  BY <1>2, ConstantsAre, DivMod
<1>4. buckets' = [buckets EXCEPT ![d] = [buckets[d] EXCEPT ![i] = c]]
  BY DEF Record, Counted
<1>5. buckets \in [Domains -> [0..(N - 1) -> [ts : 0..MaxClock, reqs : Nat, errs : Nat]]]
  BY DEF TypeOK
<1>6. pc[r] = "stamped" /\ pc' = [pc EXCEPT ![r] = "done"] /\ stamp' = stamp /\ clock' = clock
  BY DEF Record, Goto
<1> HIDE DEF i, c
<1>7. buckets'[d][i] = c
  BY <1>1, <1>3, <1>4, <1>5
<1>8. \A e \in Domains, j \in 0..(N - 1) :
        e # d \/ j # i => buckets'[e][j] = buckets[e][j]
  BY <1>1, <1>3, <1>4, <1>5
<1> QED  BY <1>1, <1>2, <1>3, <1>4, <1>6, <1>7, <1>8 DEF i, c

\* A bucket that Record writes is a bucket of its second.
LEMMA CountedIs ==
  ASSUME NEW b \in [ts : 0..MaxClock, reqs : Nat, errs : Nat],
         NEW r \in Requests, stamp[r] \in 0..MaxClock
  PROVE  /\ Counted(b, r) \in [ts : 0..MaxClock, reqs : Nat, errs : Nat]
         /\ Counted(b, r).ts = stamp[r]
         /\ b.ts = stamp[r] => /\ Counted(b, r).reqs = b.reqs + 1
                               /\ IsError(r) => Counted(b, r).errs = b.errs + 1
                               /\ ~ IsError(r) => Counted(b, r).errs = b.errs
         /\ b.ts # stamp[r] => /\ Counted(b, r).reqs = 1
                               /\ IsError(r) => Counted(b, r).errs = 1
                               /\ ~ IsError(r) => Counted(b, r).errs = 0
<1> DEFINE f == Fresh(b, stamp[r])
           e == IF IsError(r) THEN f.errs + 1 ELSE f.errs
<1>1. f \in [ts : 0..MaxClock, reqs : Nat, errs : Nat] /\ f.ts = stamp[r]
  BY DEF Fresh, Empty
<1>2. /\ b.ts = stamp[r] => f = b
      /\ b.ts # stamp[r] => f.reqs = 0 /\ f.errs = 0
  BY DEF Fresh, Empty
<1>3. Counted(b, r) = [f EXCEPT !.reqs = f.reqs + 1, !.errs = e]
  BY DEF Counted
<1> HIDE DEF f
<1>4. f.reqs \in Nat /\ f.errs \in Nat
  BY <1>1
<1>5. /\ IsError(r) => e = f.errs + 1
      /\ ~ IsError(r) => e = f.errs
      /\ e \in Nat
  BY <1>4
<1> HIDE DEF e
<1>6. /\ Counted(b, r).reqs = f.reqs + 1 /\ Counted(b, r).errs = e
      /\ Counted(b, r).ts = stamp[r]
      /\ Counted(b, r) \in [ts : 0..MaxClock, reqs : Nat, errs : Nat]
  <2> DEFINE n == f.reqs + 1
  <2>1. n \in Nat
    BY <1>4
  <2>2. Counted(b, r) = [f EXCEPT !.reqs = n, !.errs = e]
    BY <1>3
  <2> HIDE DEF n
  <2>3. /\ Counted(b, r) \in [ts : 0..MaxClock, reqs : Nat, errs : Nat]
        /\ Counted(b, r).reqs = n /\ Counted(b, r).errs = e /\ Counted(b, r).ts = f.ts
    BY <1>1, <1>5, <2>1, <2>2
  <2> QED  BY <1>1, <2>3 DEF n
<1> QED  BY <1>2, <1>4, <1>5, <1>6

\* The sums of the last minute are natural numbers.
LEMMA LastNat == ASSUME TypeOK, NEW d \in Domains PROVE ReqsLast(d) \in Nat /\ ErrsLast(d) \in Nat
<1> DEFINE W == Window(d)
           f == [i \in W |-> buckets[d][i].reqs]
           g == [i \in W |-> buckets[d][i].errs]
<1>1. IsFiniteSet(W)
  <2>1. IsFiniteSet(0..(N - 1)) /\ W \subseteq 0..(N - 1)
    BY ConstantsAre, FS_Interval DEF Window
  <2> QED  BY <2>1, FS_Subset
<1>2. \A i \in W : buckets[d][i] \in [ts : 0..MaxClock, reqs : Nat, errs : Nat]
  <2>1. buckets \in [Domains -> [0..(N - 1) -> [ts : 0..MaxClock, reqs : Nat, errs : Nat]]]
    BY DEF TypeOK
  <2>2. W \subseteq 0..(N - 1)
    BY DEF Window
  <2> HIDE DEF W
  <2> QED  BY <2>1, <2>2
<1>3. \A i \in W : f[i] \in Nat /\ g[i] \in Nat
  BY <1>2
<1>4. ReqsLast(d) = SumFunction(f) /\ ErrsLast(d) = SumFunction(g)
  BY DEF ReqsLast, ErrsLast
<1>5. DOMAIN f = W /\ DOMAIN g = W
  OBVIOUS
<1> HIDE DEF W, f, g
<1>6. ReqsLast(d) = SumFunctionOnSet(f, W) /\ ErrsLast(d) = SumFunctionOnSet(g, W)
  BY <1>4, <1>5, SumOfDomain
<1> QED  BY <1>1, <1>3, <1>6, SumNat

\* Nothing is asked, recorded or timed: the dashboard is read, or nothing happens.
Quiet == UNCHANGED <<clock, pc, stamp, siteVars, log>>

\* The steps.
LEMMA Steps ==
  ASSUME [Next]_vars
  PROVE  Tick \/ (\E r \in Requests : Count(r) \/ Stamp(r) \/ Record(r)) \/ Quiet
BY DEF Next, OpenDashboard, SnapshotSite, Quiet, vars

\* What the dashboard has of a page keeps its type.
LEMMA PageTypes ==
  ASSUME TypeOK, [Next]_vars
  PROVE  /\ unread' \subseteq Domains /\ row' \in [Domains -> [reqs : Nat, errs : Nat]]
         /\ opened' \in [at : N..MaxClock, past : SUBSET Requests] /\ pages' \in 0..MaxPages
<1>1. CASE UNCHANGED pageVars
  BY <1>1 DEF pageVars, TypeOK
<1>2. CASE OpenDashboard
  <2>1. UNION {Recorded(d) : d \in Domains} \in SUBSET Requests
    <3>1. \A d \in Domains : Recorded(d) \subseteq Requests
      BY DEF Recorded
    <3> QED  BY <3>1
  <2>2. pages' \in 0..MaxPages
    <3>1. pages \in 0..MaxPages /\ MaxPages \in Nat
      BY MetricsAssumption DEF TypeOK
    <3> QED  BY <1>2, <3>1 DEF OpenDashboard
  <2> QED  BY <1>2, <2>1, <2>2 DEF OpenDashboard, TypeOK
<1>3. ASSUME NEW d \in unread, SnapshotSite(d)
      PROVE  /\ unread' \subseteq Domains /\ row' \in [Domains -> [reqs : Nat, errs : Nat]]
             /\ opened' = opened /\ pages' = pages
  <2>1. [reqs |-> ReqsLast(d), errs |-> ErrsLast(d)] \in [reqs : Nat, errs : Nat]
    BY LastNat DEF TypeOK
  <2> QED  BY <1>3, <2>1 DEF SnapshotSite, TypeOK
<1> QED
  BY <1>1, <1>2, <1>3
     DEF Next, Tick, Count, Stamp, Record, vars, pageVars, TypeOK

\* Every step keeps the types.
LEMMA TypeStep == TypeOK /\ [Next]_vars => TypeOK'
<1> SUFFICES ASSUME TypeOK, [Next]_vars PROVE TypeOK'
  OBVIOUS
<1>p. /\ unread' \subseteq Domains /\ row' \in [Domains -> [reqs : Nat, errs : Nat]]
      /\ opened' \in [at : N..MaxClock, past : SUBSET Requests] /\ pages' \in 0..MaxPages
  BY PageTypes
<1>1. CASE Tick
  <2>1. clock' \in N..MaxClock
    BY <1>1, ConstantsAre DEF Tick, TypeOK
  <2> QED  BY <1>1, <1>p, <2>1 DEF Tick, siteVars, TypeOK
<1>2. ASSUME NEW r \in Requests, Count(r) PROVE TypeOK'
  <2> DEFINE d == DomainOf[r]
             e == IF IsError(r) THEN errors[d] + 1 ELSE errors[d]
  <2>1. d \in Domains
    BY ConstantsAre
  <2>2. /\ requests' = [requests EXCEPT ![d] = requests[d] + 1]
        /\ errors' = [errors EXCEPT ![d] = e]
    BY <1>2 DEF Count
  <2>3. requests[d] \in Nat /\ errors[d] \in Nat /\ errors[d] <= requests[d]
    BY <2>1 DEF TypeOK
  <2>4. e \in Nat /\ e <= requests[d] + 1
    BY <2>3
  <2> HIDE DEF e
  <2>5. requests' \in [Domains -> Nat] /\ errors' \in [Domains -> Nat]
    <3>1. requests' \in [Domains -> Nat]
      <4> DEFINE n == requests[d] + 1
      <4>1. n \in Nat /\ requests' = [requests EXCEPT ![d] = n]
        BY <2>2, <2>3
      <4> HIDE DEF n
      <4> QED  BY <4>1 DEF TypeOK
    <3>2. errors' \in [Domains -> Nat]
      BY <2>2, <2>4 DEF TypeOK
    <3> QED  BY <3>1, <3>2
  <2>6. \A x \in Domains : errors'[x] <= requests'[x]
    <3> SUFFICES ASSUME NEW x \in Domains PROVE errors'[x] <= requests'[x]
      OBVIOUS
    <3>1. CASE x = d
      BY <2>1, <2>2, <2>4, <3>1 DEF TypeOK
    <3>2. CASE x # d
      BY <2>2, <3>2 DEF TypeOK
    <3> QED  BY <3>1, <3>2
  <2>7. pc' \in [Requests -> {"new", "counted", "stamped", "done"}]
    BY <1>2 DEF Count, Goto, TypeOK
  <2> QED  BY <1>2, <1>p, <2>5, <2>6, <2>7 DEF Count, TypeOK
<1>3. ASSUME NEW r \in Requests, Stamp(r) PROVE TypeOK'
  <2>1. clock \in 0..MaxClock
    BY ConstantsAre DEF TypeOK
  <2>2. stamp' \in [Requests -> 0..MaxClock]
    BY <1>3, <2>1 DEF Stamp, TypeOK
  <2>3. pc' \in [Requests -> {"new", "counted", "stamped", "done"}]
    BY <1>3 DEF Stamp, Goto, TypeOK
  <2> QED  BY <1>3, <1>p, <2>2, <2>3 DEF Stamp, siteVars, TypeOK
<1>4. ASSUME NEW r \in Requests, Record(r) PROVE TypeOK'
  <2> DEFINE d == DomainOf[r]
             i == stamp[r] % N
  <2>1. d \in Domains /\ StatusOf[r] \in Codes /\ Millis(r) \in Nat
    BY ConstantsAre, MillisNat
  <2>2. buckets' \in [Domains -> [0..(N - 1) -> [ts : 0..MaxClock, reqs : Nat, errs : Nat]]]
    <3>1. /\ i \in 0..(N - 1)
          /\ buckets' = [buckets EXCEPT ![d] =
                           [buckets[d] EXCEPT ![i] = Counted(buckets[d][i], r)]]
      BY <1>4, RecordIs
    <3>2. stamp[r] \in 0..MaxClock
      BY DEF TypeOK
    <3>3. buckets[d][i] \in [ts : 0..MaxClock, reqs : Nat, errs : Nat]
      <4>1. buckets \in [Domains -> [0..(N - 1) -> [ts : 0..MaxClock, reqs : Nat, errs : Nat]]]
        BY DEF TypeOK
      <4> HIDE DEF i
      <4> QED  BY <2>1, <3>1, <4>1
    <3>4. Counted(buckets[d][i], r) \in [ts : 0..MaxClock, reqs : Nat, errs : Nat]
      <4> HIDE DEF i
      <4> QED  BY <3>2, <3>3, CountedIs
    <3> HIDE DEF i
    <3> QED  BY <2>1, <3>1, <3>4 DEF TypeOK
  <2>3. next[d] \in 0..(RingSize - 1) /\ filled[d] \in 0..RingSize
    BY <2>1 DEF TypeOK
  <2>4. latency' \in [Domains -> [0..(RingSize - 1) -> Nat]]
    <3>1. latency' = [latency EXCEPT ![d] = [latency[d] EXCEPT ![next[d]] = Millis(r)]]
      BY <1>4 DEF Record
    <3>2. [latency[d] EXCEPT ![next[d]] = Millis(r)] \in [0..(RingSize - 1) -> Nat]
      BY <2>1, <2>3 DEF TypeOK
    <3> QED  BY <2>1, <3>1, <3>2 DEF TypeOK
  <2>5. next' \in [Domains -> 0..(RingSize - 1)]
    <3>1. next[d] + 1 \in Nat
      BY <2>3, ConstantsAre
    <3>2. (next[d] + 1) % RingSize \in 0..(RingSize - 1)
      BY <3>1, ConstantsAre, DivMod
    <3>3. next' = [next EXCEPT ![d] = (next[d] + 1) % RingSize]
      BY <1>4 DEF Record, Advance
    <3> DEFINE a == (next[d] + 1) % RingSize
    <3> HIDE DEF a
    <3>4. next' = [next EXCEPT ![d] = a] /\ a \in 0..(RingSize - 1)
      BY <3>2, <3>3 DEF a
    <3> QED  BY <3>4 DEF TypeOK
  <2>6. filled' \in [Domains -> 0..RingSize]
    <3> DEFINE a == IF filled[d] < RingSize THEN filled[d] + 1 ELSE filled[d]
    <3>1. a \in 0..RingSize
      BY <2>3, ConstantsAre
    <3>2. filled' = [filled EXCEPT ![d] = a]
      BY <1>4 DEF Record
    <3> HIDE DEF a
    <3> QED  BY <3>1, <3>2 DEF TypeOK
  <2>7. statuses' \in [Domains -> [Codes -> Nat]]
    <3> DEFINE c == StatusOf[r]
    <3>1. statuses' = [statuses EXCEPT ![d] = [statuses[d] EXCEPT ![c] = statuses[d][c] + 1]]
      BY <1>4 DEF Record
    <3>2. [statuses[d] EXCEPT ![c] = statuses[d][c] + 1] \in [Codes -> Nat]
      BY <2>1 DEF TypeOK
    <3> QED  BY <2>1, <3>1, <3>2 DEF TypeOK
  <2>8. log' \in [Domains -> Seq(Requests)]
    <3> DEFINE l == Append(log[d], r)
    <3>1. l \in Seq(Requests)
      BY <2>1 DEF TypeOK
    <3>2. log' = [log EXCEPT ![d] = l]
      BY <1>4 DEF Record
    <3> HIDE DEF l
    <3> QED  BY <3>1, <3>2 DEF TypeOK
  <2>9. pc' \in [Requests -> {"new", "counted", "stamped", "done"}]
    BY <1>4 DEF Record, Goto, TypeOK
  <2>10. UNCHANGED <<clock, stamp, requests, errors>>
    BY <1>4 DEF Record
  <2> QED
    BY <1>p, <2>2, <2>4, <2>5, <2>6, <2>7, <2>8, <2>9, <2>10 DEF TypeOK
<1>5. CASE Quiet
  BY <1>5, <1>p DEF Quiet, siteVars, TypeOK
<1> QED  BY <1>1, <1>2, <1>3, <1>4, <1>5, Steps

\* Nothing is recorded at the start.
LEMMA TypeInit == Init => TypeOK
<1> SUFFICES ASSUME Init PROVE TypeOK
  OBVIOUS
<1>1. N \in N..MaxClock /\ 0 \in 0..MaxClock /\ 0 \in 0..(RingSize - 1) /\ 0 \in 0..RingSize
  BY ConstantsAre
<1>2. Empty \in [ts : 0..MaxClock, reqs : Nat, errs : Nat]
  BY <1>1 DEF Empty
<1>3. <<>> \in Seq(Requests)
  OBVIOUS
<1>4. buckets \in [Domains -> [0..(N - 1) -> [ts : 0..MaxClock, reqs : Nat, errs : Nat]]]
  BY <1>2 DEF Init
<1>5. latency \in [Domains -> [0..(RingSize - 1) -> Nat]]
  BY DEF Init
<1>6. statuses \in [Domains -> [Codes -> Nat]]
  BY DEF Init
<1>7. /\ unread \subseteq Domains /\ row \in [Domains -> [reqs : Nat, errs : Nat]]
      /\ opened \in [at : N..MaxClock, past : SUBSET Requests] /\ pages \in 0..MaxPages
  BY <1>1, ConstantsAre, MetricsAssumption DEF Init
<1> QED  BY <1>1, <1>3, <1>4, <1>5, <1>6, <1>7 DEF Init, TypeOK

\* metrics.go, Record: indices stay in their rings, buckets hold seconds that have
\* begun, and no more errors than requests are counted.
THEOREM TypeCorrect == Spec => []TypeOK
BY TypeInit, TypeStep, PTL DEF Spec

-----------------------------------------------------------------------------
(* The ring of seconds. *)

\* The requests of a second are finitely many.
LEMMA AtFinite ==
  \A d, t : IsFiniteSet(At(d, t)) /\ IsFiniteSet(ErrAt(d, t))
<1> SUFFICES ASSUME NEW d, NEW t PROVE IsFiniteSet(At(d, t)) /\ IsFiniteSet(ErrAt(d, t))
  OBVIOUS
<1>1. IsFiniteSet(Requests) /\ At(d, t) \subseteq Requests /\ ErrAt(d, t) \subseteq Requests
  BY MetricsAssumption DEF At, ErrAt, Recorded
<1> QED  BY <1>1, FS_Subset

\* Record adds its request to those of its domain and second.
LEMMA AtRecord ==
  ASSUME TypeOK, NEW r \in Requests, Record(r), NEW d, NEW t
  PROVE  /\ d = DomainOf[r] /\ t = stamp[r] =>
              /\ At(d, t)' = At(d, t) \cup {r} /\ r \notin At(d, t)
              /\ ErrAt(d, t)' = IF IsError(r) THEN ErrAt(d, t) \cup {r} ELSE ErrAt(d, t)
              /\ r \notin ErrAt(d, t)
         /\ d # DomainOf[r] \/ t # stamp[r] =>
              At(d, t)' = At(d, t) /\ ErrAt(d, t)' = ErrAt(d, t)
<1>1. pc[r] = "stamped" /\ pc' = [pc EXCEPT ![r] = "done"] /\ stamp' = stamp
  BY RecordIs
<1>2. pc'[r] = "done" /\ \A q \in Requests \ {r} : pc'[q] = pc[q]
  BY <1>1 DEF TypeOK
<1>3. \A q \in Requests :
        q \in At(d, t)' <=> q \in At(d, t) \/ (q = r /\ d = DomainOf[r] /\ t = stamp[r])
  BY <1>1, <1>2 DEF At, Recorded
<1>4. r \notin At(d, t) /\ r \notin ErrAt(d, t)
  BY <1>1 DEF At, ErrAt, Recorded
<1>5. At(d, t)' \subseteq Requests /\ At(d, t) \subseteq Requests
  BY DEF At, Recorded
<1>6. CASE d = DomainOf[r] /\ t = stamp[r]
  <2>1. At(d, t)' = At(d, t) \cup {r}
    BY <1>3, <1>5, <1>6
  <2>2. ErrAt(d, t)' = {q \in At(d, t)' : IsError(q)}
    BY DEF ErrAt, IsError
  <2>3. CASE IsError(r)
    <3>1. ErrAt(d, t)' = ErrAt(d, t) \cup {r}
      BY <2>1, <2>2, <2>3 DEF ErrAt
    <3> QED  BY <1>4, <1>6, <2>1, <2>3, <3>1
  <2>4. CASE ~ IsError(r)
    <3>1. ErrAt(d, t)' = ErrAt(d, t)
      BY <2>1, <2>2, <2>4 DEF ErrAt
    <3> QED  BY <1>4, <1>6, <2>1, <2>4, <3>1
  <2> QED  BY <2>3, <2>4
<1>7. CASE d # DomainOf[r] \/ t # stamp[r]
  <2>1. At(d, t)' = At(d, t)
    BY <1>3, <1>5, <1>7
  <2>2. ErrAt(d, t)' = ErrAt(d, t)
    BY <2>1 DEF ErrAt, IsError
  <2> QED  BY <1>7, <2>1, <2>2
<1> QED  BY <1>6, <1>7

\* Nothing else does.
LEMMA AtQuiet ==
  ASSUME TypeOK, NEW d, NEW t,
         \/ Tick
         \/ \E r \in Requests : Count(r) \/ Stamp(r)
         \/ Quiet
  PROVE  At(d, t)' = At(d, t) /\ ErrAt(d, t)' = ErrAt(d, t)
<1>1. \A q \in Requests :
        /\ pc'[q] = "done" <=> pc[q] = "done"
        /\ pc[q] = "done" => stamp'[q] = stamp[q]
  <2>1. CASE Tick
    BY <2>1 DEF Tick
  <2>2. ASSUME NEW r \in Requests, Count(r)
        PROVE  \A q \in Requests : /\ pc'[q] = "done" <=> pc[q] = "done"
                                   /\ pc[q] = "done" => stamp'[q] = stamp[q]
    BY <2>2 DEF Count, Goto, TypeOK
  <2>3. ASSUME NEW r \in Requests, Stamp(r)
        PROVE  \A q \in Requests : /\ pc'[q] = "done" <=> pc[q] = "done"
                                   /\ pc[q] = "done" => stamp'[q] = stamp[q]
    BY <2>3 DEF Stamp, Goto, TypeOK
  <2>4. CASE Quiet
    BY <2>4 DEF Quiet
  <2> QED  BY <2>1, <2>2, <2>3, <2>4
<1>2. \A q \in Requests : q \in At(d, t)' <=> q \in At(d, t)
  BY <1>1 DEF At, Recorded
<1>3. At(d, t)' \subseteq Requests /\ At(d, t) \subseteq Requests
  BY DEF At, Recorded
<1>4. At(d, t)' = At(d, t)
  BY <1>2, <1>3
<1>5. ErrAt(d, t)' = ErrAt(d, t)
  BY <1>4 DEF ErrAt, IsError
<1> QED  BY <1>4, <1>5

\* The stamps stay behind the clock and not too far.
LEMMA StampsStep ==
  ASSUME TypeOK, Stamps, [Next]_vars
  PROVE  Stamps'
<1>0. clock \in Int /\ N <= clock /\ \A r \in Requests : stamp[r] \in Int
  BY ConstantsAre DEF TypeOK
<1>1. CASE Tick
  <2>1. /\ clock' = clock + 1 /\ pc' = pc /\ stamp' = stamp
        /\ \A r \in Requests : pc[r] = "stamped" => clock - stamp[r] < MaxDelay
    BY <1>1 DEF Tick
  <2>2. \A r \in Requests : pc[r] \in {"stamped", "done"} => N <= stamp[r] /\ stamp[r] <= clock + 1
    BY <1>0 DEF Stamps
  <2>3. \A r \in Requests : pc[r] = "stamped" => (clock + 1) - stamp[r] <= MaxDelay
    BY <1>0, <2>1, ConstantsAre
  <2> QED  BY <2>1, <2>2, <2>3 DEF Stamps
<1>2. ASSUME NEW r \in Requests, Count(r) PROVE Stamps'
  <2>1. /\ clock' = clock /\ stamp' = stamp
        /\ \A q \in Requests : pc'[q] \in {"stamped", "done"} => pc'[q] = pc[q]
    BY <1>2 DEF Count, Goto, TypeOK
  <2> QED  BY <2>1 DEF Stamps
<1>3. ASSUME NEW r \in Requests, Stamp(r) PROVE Stamps'
  <2>1. /\ clock' = clock /\ stamp'[r] = clock
        /\ \A q \in Requests \ {r} : pc'[q] = pc[q] /\ stamp'[q] = stamp[q]
    BY <1>3 DEF Stamp, Goto, TypeOK
  <2>2. N <= clock /\ clock <= clock /\ clock - clock <= MaxDelay
    BY <1>0, ConstantsAre
  <2>3. ASSUME NEW q \in Requests
        PROVE  /\ pc'[q] \in {"stamped", "done"} => N <= stamp'[q] /\ stamp'[q] <= clock'
               /\ pc'[q] = "stamped" => clock' - stamp'[q] <= MaxDelay
    <3>1. CASE q = r
      BY <2>1, <2>2, <3>1
    <3>2. CASE q # r
      BY <2>1, <3>2 DEF Stamps
    <3> QED  BY <3>1, <3>2
  <2> QED  BY <2>3 DEF Stamps
<1>4. ASSUME NEW r \in Requests, Record(r) PROVE Stamps'
  <2>1. /\ clock' = clock /\ stamp' = stamp
        /\ pc[r] = "stamped" /\ pc'[r] = "done"
        /\ \A q \in Requests \ {r} : pc'[q] = pc[q]
    <3>1. /\ clock' = clock /\ stamp' = stamp
          /\ pc[r] = "stamped" /\ pc' = [pc EXCEPT ![r] = "done"]
      BY <1>4, RecordIs
    <3> QED  BY <3>1 DEF TypeOK
  <2>2. ASSUME NEW q \in Requests
        PROVE  /\ pc'[q] \in {"stamped", "done"} => N <= stamp'[q] /\ stamp'[q] <= clock'
               /\ pc'[q] = "stamped" => clock' - stamp'[q] <= MaxDelay
    <3>1. CASE q = r
      BY <2>1, <3>1 DEF Stamps
    <3>2. CASE q # r
      BY <2>1, <3>2 DEF Stamps
    <3> QED  BY <3>1, <3>2
  <2> QED  BY <2>2 DEF Stamps
<1>5. CASE Quiet
  BY <1>5 DEF Quiet, Stamps
<1> QED  BY <1>1, <1>2, <1>3, <1>4, <1>5, Steps

\* A request is recorded in the slot of its second.
LEMMA SlotsStep ==
  ASSUME TypeOK, Stamps, Slots, [Next]_vars
  PROVE  Slots'
<1>1. ASSUME UNCHANGED buckets, clock' \in {clock, clock + 1} PROVE Slots'
  <2> SUFFICES ASSUME NEW d \in Domains, NEW i \in 0..(N - 1), buckets[d][i].ts # 0
               PROVE  buckets[d][i].ts % N = i /\ buckets[d][i].ts <= clock'
    BY <1>1 DEF Slots
  <2>1. buckets[d][i].ts % N = i /\ buckets[d][i].ts <= clock
    BY DEF Slots
  <2>2. clock \in Int
    BY ConstantsAre DEF TypeOK
  <2>3. buckets[d][i].ts \in Int
    <3>1. buckets \in [Domains -> [0..(N - 1) -> [ts : 0..MaxClock, reqs : Nat, errs : Nat]]]
      BY DEF TypeOK
    <3>2. buckets[d][i] \in [ts : 0..MaxClock, reqs : Nat, errs : Nat]
      BY <3>1
    <3> QED  BY <3>2
  <2> QED  BY <1>1, <2>1, <2>2, <2>3
<1>2. CASE Tick
  BY <1>1, <1>2 DEF Tick, siteVars
<1>3. ASSUME NEW r \in Requests, Count(r) \/ Stamp(r) PROVE Slots'
  BY <1>1, <1>3 DEF Count, Stamp, siteVars
<1>4. ASSUME NEW r \in Requests, Record(r) PROVE Slots'
  <2> DEFINE d0 == DomainOf[r]
             i0 == stamp[r] % N
  <2>1. /\ d0 \in Domains /\ i0 \in 0..(N - 1)
        /\ buckets'[d0][i0] = Counted(buckets[d0][i0], r)
        /\ \A e \in Domains, j \in 0..(N - 1) :
             e # d0 \/ j # i0 => buckets'[e][j] = buckets[e][j]
        /\ pc[r] = "stamped" /\ clock' = clock
    BY <1>4, RecordIs
  <2>2. stamp[r] \in 0..MaxClock /\ stamp[r] <= clock
    BY <2>1 DEF TypeOK, Stamps
  <2>3. buckets[d0][i0] \in [ts : 0..MaxClock, reqs : Nat, errs : Nat]
    <3>1. buckets \in [Domains -> [0..(N - 1) -> [ts : 0..MaxClock, reqs : Nat, errs : Nat]]]
      BY DEF TypeOK
    <3> HIDE DEF i0
    <3> QED  BY <2>1, <3>1
  <2>4. buckets'[d0][i0].ts = stamp[r]
    <3> HIDE DEF i0
    <3> QED  BY <2>1, <2>2, <2>3, CountedIs
  <2>5. stamp[r] % N = i0
    OBVIOUS
  <2> HIDE DEF i0
  <2>6. ASSUME NEW e \in Domains, NEW j \in 0..(N - 1), buckets'[e][j].ts # 0
        PROVE  buckets'[e][j].ts % N = j /\ buckets'[e][j].ts <= clock'
    <3>1. CASE e = d0 /\ j = i0
      BY <2>1, <2>2, <2>4, <2>5, <3>1
    <3>2. CASE e # d0 \/ j # i0
      BY <2>1, <2>6, <3>2 DEF Slots
    <3> QED  BY <3>1, <3>2
  <2> QED  BY <2>6 DEF Slots
<1>5. CASE Quiet
  BY <1>1, <1>5 DEF Quiet, siteVars
<1> QED  BY <1>2, <1>3, <1>4, <1>5, Steps

\* What Kept says of one second of one domain.
Keeps(d, t) ==
  /\ buckets[d][t % N].ts = t =>
       /\ buckets[d][t % N].reqs = Cardinality(At(d, t))
       /\ buckets[d][t % N].errs = Cardinality(ErrAt(d, t))
  /\ buckets[d][t % N].ts # t => At(d, t) = {}

\* A late request finds its bucket as the earlier ones of its second left it:
\* the slot has not been taken by a later second, since none is N ahead.
LEMMA KeptRecord ==
  ASSUME TypeOK, Stamps, Kept, MaxDelay < N, NEW r \in Requests, Record(r)
  PROVE  Kept'
<1> DEFINE d0 == DomainOf[r]
           t0 == stamp[r]
           i0 == t0 % N
           b0 == buckets[d0][i0]
<1>1. /\ d0 \in Domains /\ i0 \in 0..(N - 1) /\ t0 \in Nat
      /\ buckets'[d0][i0] = Counted(b0, r)
      /\ \A e \in Domains, j \in 0..(N - 1) :
           e # d0 \/ j # i0 => buckets'[e][j] = buckets[e][j]
      /\ pc[r] = "stamped" /\ clock' = clock
  BY RecordIs
<1>2. t0 \in 0..MaxClock /\ t0 <= clock /\ clock - t0 <= MaxDelay
  BY <1>1 DEF TypeOK, Stamps
<1>3. clock \in Int /\ N <= clock /\ N \in Nat \ {0} /\ MaxDelay \in Nat
  BY ConstantsAre DEF TypeOK
<1>4. t0 \in (clock - N + 1)..clock
  BY <1>1, <1>2, <1>3
<1>5. b0 \in [ts : 0..MaxClock, reqs : Nat, errs : Nat]
  <2>1. buckets \in [Domains -> [0..(N - 1) -> [ts : 0..MaxClock, reqs : Nat, errs : Nat]]]
    BY DEF TypeOK
  <2> HIDE DEF i0
  <2> QED  BY <1>1, <2>1
<1>6. /\ Counted(b0, r).ts = t0
      /\ b0.ts = t0 => /\ Counted(b0, r).reqs = b0.reqs + 1
                       /\ IsError(r) => Counted(b0, r).errs = b0.errs + 1
                       /\ ~ IsError(r) => Counted(b0, r).errs = b0.errs
      /\ b0.ts # t0 => /\ Counted(b0, r).reqs = 1
                       /\ IsError(r) => Counted(b0, r).errs = 1
                       /\ ~ IsError(r) => Counted(b0, r).errs = 0
  <2> HIDE DEF b0
  <2> QED  BY <1>2, <1>5, CountedIs
<1>7. ASSUME NEW d \in Domains, NEW t \in (clock - N + 1)..clock, d = d0, t = t0
      PROVE  Keeps(d, t)'
  <2>1. Keeps(d, t)
    BY DEF Kept, Keeps
  <2>2. /\ At(d, t)' = At(d, t) \cup {r} /\ r \notin At(d, t)
        /\ ErrAt(d, t)' = IF IsError(r) THEN ErrAt(d, t) \cup {r} ELSE ErrAt(d, t)
        /\ r \notin ErrAt(d, t)
    BY <1>7, AtRecord
  <2>3. /\ IsFiniteSet(At(d, t)) /\ Cardinality(At(d, t)) \in Nat
        /\ IsFiniteSet(ErrAt(d, t)) /\ Cardinality(ErrAt(d, t)) \in Nat
    BY AtFinite, FS_CardinalityType
  <2>4. Cardinality(At(d, t)') = Cardinality(At(d, t)) + 1
    BY <2>2, <2>3, FS_AddElement
  <2>5. /\ IsError(r) => Cardinality(ErrAt(d, t)') = Cardinality(ErrAt(d, t)) + 1
        /\ ~ IsError(r) => Cardinality(ErrAt(d, t)') = Cardinality(ErrAt(d, t))
    <3>1. CASE IsError(r)
      <4>1. ErrAt(d, t)' = ErrAt(d, t) \cup {r}
        BY <2>2, <3>1
      <4>2. Cardinality(ErrAt(d, t) \cup {r}) = Cardinality(ErrAt(d, t)) + 1
        BY <2>2, <2>3, FS_AddElement
      <4> QED  BY <3>1, <4>1, <4>2
    <3>2. CASE ~ IsError(r)
      <4>1. ErrAt(d, t)' = ErrAt(d, t)
        BY <2>2, <3>2
      <4> QED  BY <3>2, <4>1
    <3> QED  BY <3>1, <3>2
  <2>6. buckets'[d][t % N] = Counted(b0, r) /\ buckets[d][t % N] = b0
    BY <1>1, <1>7
  <2>7. /\ buckets'[d][t % N].ts = t
        /\ b0.ts = t => /\ buckets'[d][t % N].reqs = b0.reqs + 1
                        /\ IsError(r) => buckets'[d][t % N].errs = b0.errs + 1
                        /\ ~ IsError(r) => buckets'[d][t % N].errs = b0.errs
        /\ b0.ts # t => /\ buckets'[d][t % N].reqs = 1
                        /\ IsError(r) => buckets'[d][t % N].errs = 1
                        /\ ~ IsError(r) => buckets'[d][t % N].errs = 0
    <3> HIDE DEF b0
    <3> QED  BY <1>6, <1>7, <2>6
  <2>8. /\ b0.ts = t => b0.reqs = Cardinality(At(d, t)) /\ b0.errs = Cardinality(ErrAt(d, t))
        /\ b0.ts # t => Cardinality(At(d, t)) = 0 /\ Cardinality(ErrAt(d, t)) = 0
    <3>1. b0.ts # t => At(d, t) = {} /\ ErrAt(d, t) = {}
      BY <2>1, <2>6 DEF Keeps, ErrAt
    <3>2. b0.ts = t => b0.reqs = Cardinality(At(d, t)) /\ b0.errs = Cardinality(ErrAt(d, t))
      BY <2>1, <2>6 DEF Keeps
    <3> HIDE DEF b0
    <3> QED  BY <3>1, <3>2, FS_EmptySet
  <2>9. /\ buckets'[d][t % N].reqs = Cardinality(At(d, t)')
        /\ buckets'[d][t % N].errs = Cardinality(ErrAt(d, t)')
    <3> HIDE DEF b0
    <3>1. CASE IsError(r)
      BY <2>3, <2>4, <2>5, <2>7, <2>8, <3>1
    <3>2. CASE ~ IsError(r)
      BY <2>3, <2>4, <2>5, <2>7, <2>8, <3>2
    <3> QED  BY <3>1, <3>2
  <2> QED  BY <2>7, <2>9 DEF Keeps
<1>8. ASSUME NEW d \in Domains, NEW t \in (clock - N + 1)..clock, d # d0 \/ t # t0
      PROVE  Keeps(d, t)'
  <2>1. Keeps(d, t)
    BY DEF Kept, Keeps
  <2>2. At(d, t)' = At(d, t) /\ ErrAt(d, t)' = ErrAt(d, t)
    BY <1>8, AtRecord
  <2>3. t \in Nat
    BY <1>3
  <2>4. t % N \in 0..(N - 1)
    BY <1>3, <2>3, DivMod
  <2>5. d # d0 \/ t % N # i0
    <3>1. ASSUME d = d0, t % N = i0 PROVE FALSE
      <4>1. t - t0 < N /\ t0 - t < N
        BY <1>1, <1>3, <1>4
      <4>2. t = t0
        BY <1>1, <1>3, <2>3, <3>1, <4>1, SameSlot
      <4> QED  BY <1>8, <3>1, <4>2
    <3> QED  BY <3>1
  <2>6. buckets'[d][t % N] = buckets[d][t % N]
    BY <1>1, <2>4, <2>5
  <2> QED  BY <2>1, <2>2, <2>6 DEF Keeps
<1>9. \A d \in Domains : \A t \in (clock - N + 1)..clock : Keeps(d, t)'
  BY <1>7, <1>8
<1> QED  BY <1>1, <1>9 DEF Kept, Keeps

\* A second begins with no request.
LEMMA KeptTick ==
  ASSUME TypeOK, Stamps, Slots, Kept, MaxDelay < N, Tick
  PROVE  Kept'
<1>1. clock' = clock + 1 /\ UNCHANGED buckets
  BY DEF Tick, siteVars
<1>2. clock \in Int /\ N <= clock /\ N \in Nat \ {0}
  BY ConstantsAre DEF TypeOK
<1>3. ASSUME NEW d \in Domains, NEW t \in (clock + 1 - N + 1)..(clock + 1)
      PROVE  Keeps(d, t)'
  <2>1. At(d, t)' = At(d, t) /\ ErrAt(d, t)' = ErrAt(d, t)
    BY AtQuiet
  <2>2. CASE t \in (clock - N + 1)..clock
    <3>1. Keeps(d, t)
      BY <2>2 DEF Kept, Keeps
    <3> QED  BY <1>1, <2>1, <3>1 DEF Keeps
  <2>3. CASE t = clock + 1
    <3>1. At(d, t) = {}
      <4>1. \A r \in Requests : pc[r] = "done" => stamp[r] <= clock /\ stamp[r] \in Int
        BY ConstantsAre DEF Stamps, TypeOK
      <4> QED  BY <1>2, <2>3, <4>1 DEF At, Recorded
    <3>2. t \in Nat \ {0}
      BY <1>2, <2>3
    <3>3. t % N \in 0..(N - 1)
      BY <1>2, <3>2, DivMod
    <3>4. buckets[d][t % N].ts # t
      <4>1. ASSUME buckets[d][t % N].ts = t PROVE FALSE
        <5>1. buckets[d][t % N].ts <= clock
          BY <3>2, <3>3, <4>1 DEF Slots
        <5> QED  BY <1>2, <2>3, <4>1, <5>1
      <4> QED  BY <4>1
    <3> QED  BY <1>1, <2>1, <3>1, <3>4 DEF Keeps
  <2>4. t \in (clock - N + 1)..clock \/ t = clock + 1
    BY <1>2
  <2> QED  BY <2>2, <2>3, <2>4
<1>4. ASSUME NEW d \in Domains, NEW t \in (clock' - N + 1)..clock'
      PROVE  Keeps(d, t)'
  <2>1. t \in (clock + 1 - N + 1)..(clock + 1)
    BY <1>1, <1>2
  <2> QED  BY <1>3, <2>1
<1> QED  BY <1>4 DEF Kept, Keeps

\* Every step keeps the ring.
LEMMA RingStep == MInv /\ [Next]_vars => MInv'
<1> SUFFICES ASSUME MInv, [Next]_vars PROVE MInv'
  OBVIOUS
<1>1. TypeOK' /\ Stamps' /\ Slots'
  BY TypeStep, StampsStep, SlotsStep DEF MInv
<1>2. ASSUME MaxDelay < N PROVE Kept'
  <2>1. CASE Tick
    BY <1>2, <2>1, KeptTick DEF MInv
  <2>2. ASSUME NEW r \in Requests, Record(r) PROVE Kept'
    BY <1>2, <2>2, KeptRecord DEF MInv
  <2>3. ASSUME (\E r \in Requests : Count(r) \/ Stamp(r)) \/ Quiet PROVE Kept'
    <3>1. \A d, t : At(d, t)' = At(d, t) /\ ErrAt(d, t)' = ErrAt(d, t)
      BY <2>3, AtQuiet DEF MInv
    <3>2. UNCHANGED <<clock, buckets>>
      BY <2>3 DEF Count, Stamp, siteVars, Quiet
    <3>3. \A d \in Domains : \A t \in (clock - N + 1)..clock : Keeps(d, t)'
      BY <1>2, <3>1, <3>2 DEF MInv, Kept, Keeps
    <3> QED  BY <3>2, <3>3 DEF Kept, Keeps
  <2> QED  BY <2>1, <2>2, <2>3, Steps
<1>3. Kept'
  BY <1>2 DEF Kept
<1> QED  BY <1>1, <1>3 DEF MInv

\* Nothing is in the ring at the start.
LEMMA RingInit == Init => MInv
<1> SUFFICES ASSUME Init PROVE MInv
  OBVIOUS
<1>1. TypeOK
  BY TypeInit
<1>2. clock = N /\ N \in Nat \ {0}
  BY ConstantsAre DEF Init
<1>3. \A r \in Requests : pc[r] = "new"
  BY DEF Init
<1>4. \A d \in Domains : \A i \in 0..(N - 1) : buckets[d][i].ts = 0
  BY DEF Init, Empty
<1>5. Stamps
  BY <1>3 DEF Stamps
<1>6. Slots
  BY <1>4 DEF Slots
<1>7. ASSUME NEW d \in Domains, NEW t \in (clock - N + 1)..clock PROVE Keeps(d, t)
  <2>1. t \in Nat \ {0}
    BY <1>2
  <2>2. t % N \in 0..(N - 1)
    BY <1>2, <2>1, DivMod
  <2>3. buckets[d][t % N].ts # t
    BY <1>4, <2>1, <2>2
  <2>4. At(d, t) = {}
    BY <1>3 DEF At, Recorded
  <2> QED  BY <2>3, <2>4 DEF Keeps
<1>8. Kept
  BY <1>7 DEF Kept, Keeps
<1> QED  BY <1>1, <1>5, <1>6, <1>8 DEF MInv

\* The invariant holds in every reachable state.
LEMMA Ring == Spec => []MInv
BY RingInit, RingStep, PTL DEF Spec

-----------------------------------------------------------------------------
(* The ring of latencies. *)

\* The ring holds the latencies of the latest requests, each in the slot of its
\* number modulo the length of the ring.
Rings ==
  \A d \in Domains :
    /\ filled[d] = IF Len(log[d]) > RingSize THEN RingSize ELSE Len(log[d])
    /\ next[d] = Len(log[d]) % RingSize
    /\ \A m \in 1..Len(log[d]) :
         Len(log[d]) - m < RingSize =>
           latency[d][(m - 1) % RingSize] = Millis(log[d][m])

-----------------------------------------------------------------------------
(* The numbers of the last minute. *)

\* The bucket of a slot of the window is one of the last N seconds, in its slot.
LEMMA WindowIs ==
  ASSUME TypeOK, Slots, NEW d \in Domains, NEW i \in Window(d)
  PROVE  LET t == buckets[d][i].ts IN
         i \in 0..(N - 1) /\ t # 0 /\ t % N = i /\ t \in (clock - N + 1)..clock
<1>1. i \in 0..(N - 1) /\ buckets[d][i].ts # 0 /\ clock - buckets[d][i].ts < N
  BY DEF Window, InWindow
<1>2. buckets[d][i].ts % N = i /\ buckets[d][i].ts <= clock
  BY <1>1 DEF Slots
<1>3. buckets[d][i].ts \in Int /\ clock \in Int /\ N \in Int
  <2>1. clock \in Int /\ N \in Int
    BY ConstantsAre DEF TypeOK
  <2>2. buckets[d][i] \in [ts : 0..MaxClock, reqs : Nat, errs : Nat]
    <3>1. buckets \in [Domains -> [0..(N - 1) -> [ts : 0..MaxClock, reqs : Nat, errs : Nat]]]
      BY DEF TypeOK
    <3> QED  BY <1>1, <3>1
  <2> QED  BY <2>1, <2>2
<1>4. buckets[d][i].ts \in (clock - N + 1)..clock
  BY <1>1, <1>2, <1>3
<1> QED  BY <1>1, <1>2, <1>4

\* The slots of the window hold the recent requests, each one once.
LEMMA WindowCovers ==
  ASSUME MInv, MaxDelay < N, NEW d \in Domains
  PROVE  /\ \A i \in Window(d) :
              /\ buckets[d][i].reqs = Cardinality(At(d, buckets[d][i].ts))
              /\ buckets[d][i].errs = Cardinality(ErrAt(d, buckets[d][i].ts))
         /\ Recent(d) = UNION {At(d, buckets[d][i].ts) : i \in Window(d)}
         /\ \A i, j \in Window(d) :
              i # j => At(d, buckets[d][i].ts) \cap At(d, buckets[d][j].ts) = {}
         /\ IsFiniteSet(Window(d))
<1>1. TypeOK /\ Stamps /\ Slots /\ Kept
  BY DEF MInv
<1>2. \A i \in Window(d) :
        /\ i \in 0..(N - 1) /\ buckets[d][i].ts # 0 /\ buckets[d][i].ts % N = i
        /\ buckets[d][i].ts \in (clock - N + 1)..clock
  BY <1>1, WindowIs
<1>3. clock \in Int /\ N <= clock /\ N \in Nat \ {0}
  BY <1>1, ConstantsAre DEF TypeOK
<1>4. \A t \in (clock - N + 1)..clock : Keeps(d, t)
  BY <1>1 DEF Kept, Keeps
<1>5. ASSUME NEW i \in Window(d)
      PROVE  /\ buckets[d][i].reqs = Cardinality(At(d, buckets[d][i].ts))
             /\ buckets[d][i].errs = Cardinality(ErrAt(d, buckets[d][i].ts))
  BY <1>2, <1>4 DEF Keeps
<1>6. ASSUME NEW r \in Recent(d)
      PROVE  \E i \in Window(d) : r \in At(d, buckets[d][i].ts)
  <2> DEFINE t == stamp[r]
             k == t % N
  <2>1. /\ r \in Requests /\ pc[r] = "done" /\ DomainOf[r] = d
        /\ clock - stamp[r] < N
    BY DEF Recent, Recorded
  <2>2. t \in Int /\ N <= t /\ t <= clock
    BY <1>1, <2>1, ConstantsAre DEF TypeOK, Stamps
  <2>3. t \in (clock - N + 1)..clock /\ t \in Nat /\ t # 0
    BY <1>3, <2>1, <2>2
  <2>4. r \in At(d, t)
    BY <2>1 DEF At, Recorded
  <2>5. buckets[d][t % N].ts = t
    BY <1>4, <2>3, <2>4 DEF Keeps
  <2>6. k \in 0..(N - 1)
    BY <1>3, <2>3, DivMod
  <2>7. buckets[d][k].ts = t
    BY <2>5
  <2> HIDE DEF k
  <2>8. k \in Window(d)
    BY <2>1, <2>3, <2>6, <2>7 DEF Window, InWindow
  <2> QED  BY <2>4, <2>7, <2>8
<1>7. ASSUME NEW i \in Window(d), NEW r \in At(d, buckets[d][i].ts)
      PROVE  r \in Recent(d)
  <2>1. r \in Recorded(d) /\ stamp[r] = buckets[d][i].ts
    BY DEF At
  <2>2. clock - stamp[r] < N
    BY <2>1 DEF Window, InWindow
  <2> QED  BY <2>1, <2>2 DEF Recent
<1>8. Recent(d) = UNION {At(d, buckets[d][i].ts) : i \in Window(d)}
  BY <1>6, <1>7
<1>9. ASSUME NEW i \in Window(d), NEW j \in Window(d), i # j
      PROVE  At(d, buckets[d][i].ts) \cap At(d, buckets[d][j].ts) = {}
  <2>1. buckets[d][i].ts # buckets[d][j].ts
    BY <1>2, <1>9
  <2> QED  BY <2>1 DEF At
<1>10. IsFiniteSet(Window(d))
  <2>1. IsFiniteSet(0..(N - 1)) /\ Window(d) \subseteq 0..(N - 1)
    BY <1>3, FS_Interval DEF Window
  <2> QED  BY <2>1, FS_Subset
<1> QED  BY <1>5, <1>8, <1>9, <1>10

\* The numbers in a site's row.
LEMMA RowIsExact ==
  ASSUME MInv, MaxDelay < N, NEW d \in Domains
  PROVE  /\ IsFiniteSet(Recent(d))
         /\ ReqsLast(d) = Cardinality(Recent(d))
         /\ ErrsLast(d) = Cardinality({r \in Recent(d) : IsError(r)})
<1> DEFINE W == Window(d)
           A == [i \in W |-> At(d, buckets[d][i].ts)]
           E == [i \in W |-> ErrAt(d, buckets[d][i].ts)]
           f == [i \in W |-> buckets[d][i].reqs]
           g == [i \in W |-> buckets[d][i].errs]
<1>1. /\ \A i \in W : /\ buckets[d][i].reqs = Cardinality(At(d, buckets[d][i].ts))
                      /\ buckets[d][i].errs = Cardinality(ErrAt(d, buckets[d][i].ts))
      /\ Recent(d) = UNION {At(d, buckets[d][i].ts) : i \in W}
      /\ \A i, j \in W : i # j => At(d, buckets[d][i].ts) \cap At(d, buckets[d][j].ts) = {}
      /\ IsFiniteSet(W)
  BY WindowCovers
<1>2. ReqsLast(d) = SumFunctionOnSet(f, W) /\ ErrsLast(d) = SumFunctionOnSet(g, W)
  <2>1. ReqsLast(d) = SumFunction(f) /\ ErrsLast(d) = SumFunction(g)
    BY DEF ReqsLast, ErrsLast
  <2>2. DOMAIN f = W /\ DOMAIN g = W
    OBVIOUS
  <2> HIDE DEF f, g, W
  <2> QED  BY <2>1, <2>2, SumOfDomain
<1>3. \A i \in W : /\ A[i] = At(d, buckets[d][i].ts) /\ E[i] = ErrAt(d, buckets[d][i].ts)
                   /\ f[i] = buckets[d][i].reqs /\ g[i] = buckets[d][i].errs
  OBVIOUS
<1> HIDE DEF W, A, E, f, g
<1>4. \A i \in W : IsFiniteSet(A[i]) /\ f[i] = Cardinality(A[i])
                   /\ IsFiniteSet(E[i]) /\ g[i] = Cardinality(E[i])
  BY <1>1, <1>3, AtFinite
<1>5. \A i, j \in W : i # j => A[i] \cap A[j] = {}
  BY <1>1, <1>3
<1>6. \A i, j \in W : i # j => E[i] \cap E[j] = {}
  BY <1>1, <1>3 DEF ErrAt
<1>7. Recent(d) = UNION {A[i] : i \in W}
  BY <1>1, <1>3
<1>8. {r \in Recent(d) : IsError(r)} = UNION {E[i] : i \in W}
  BY <1>3, <1>7 DEF ErrAt
<1>9. /\ IsFiniteSet(UNION {A[i] : i \in W})
      /\ Cardinality(UNION {A[i] : i \in W}) = SumFunctionOnSet(f, W)
  <2>1. IsFiniteSet(W) /\ \A i \in W : IsFiniteSet(A[i]) /\ f[i] = Cardinality(A[i])
    BY <1>1, <1>4
  <2>2. PICK S, B, F : S = W /\ B = A /\ F = f
    OBVIOUS
  <2>3. /\ IsFiniteSet(S)
        /\ \A i \in S : IsFiniteSet(B[i]) /\ F[i] = Cardinality(B[i])
        /\ \A i, j \in S : i # j => B[i] \cap B[j] = {}
    BY <1>5, <2>1, <2>2
  <2>4. /\ IsFiniteSet(UNION {B[i] : i \in S})
        /\ Cardinality(UNION {B[i] : i \in S}) = SumFunctionOnSet(F, S)
    BY <2>3, SumOfSizes, SMTT(30)
  <2> QED  BY <2>2, <2>4
<1>10. Cardinality(UNION {E[i] : i \in W}) = SumFunctionOnSet(g, W)
  <2>1. IsFiniteSet(W) /\ \A i \in W : IsFiniteSet(E[i]) /\ g[i] = Cardinality(E[i])
    BY <1>1, <1>4
  <2>2. PICK S, B, F : S = W /\ B = E /\ F = g
    OBVIOUS
  <2>3. /\ IsFiniteSet(S)
        /\ \A i \in S : IsFiniteSet(B[i]) /\ F[i] = Cardinality(B[i])
        /\ \A i, j \in S : i # j => B[i] \cap B[j] = {}
    BY <1>6, <2>1, <2>2
  <2>4. Cardinality(UNION {B[i] : i \in S}) = SumFunctionOnSet(F, S)
    BY <2>3, SumOfSizes, SMTT(30)
  <2> QED  BY <2>2, <2>4
<1> QED  BY <1>2, <1>7, <1>8, <1>9, <1>10

\* The errors are the statuses that are not those of an answer.
LEMMA ErrorsAre ==
  \A d : {r \in Recent(d) : IsError(r)} = {r \in Recent(d) : StatusOf[r] \notin 1..499}
<1> SUFFICES ASSUME NEW d
             PROVE  {r \in Recent(d) : IsError(r)} = {r \in Recent(d) : StatusOf[r] \notin 1..499}
  OBVIOUS
<1>1. \A r \in Recent(d) : StatusOf[r] \in Nat
  BY ConstantsAre DEF Recent, Recorded
<1>2. \A r \in Recent(d) : IsError(r) <=> StatusOf[r] \notin 1..499
  BY <1>1 DEF IsError
<1> QED  BY <1>2

\* metrics.go, Record and Snapshot: the sums of the last N seconds are those of the
\* requests of these seconds, however the ring wraps and in whatever order late
\* requests win the lock.
THEOREM TheMinuteIsExact == Spec => []MinuteIsExact
<1>1. ASSUME MInv PROVE MinuteIsExact
  BY <1>1, RowIsExact, ErrorsAre DEF MinuteIsExact
<1> QED  BY Ring, <1>1, PTL

-----------------------------------------------------------------------------
(* The totals of the dashboard. *)

\* A row of the page is of requests that a snapshot may have seen, and of those
\* that each one must.
Pages ==
  /\ \A r \in opened.past : pc[r] = "done"
  /\ opened.at <= clock
  /\ MaxDelay < N =>
       \A d \in Domains \ unread : Accounts(Due(d), Allowed(d), row[d].reqs, row[d].errs)

\* Less may be due and more be allowed.
LEMMA AccountsStill ==
  ASSUME NEW due, NEW allowed, NEW n, NEW e, Accounts(due, allowed, n, e),
         NEW due2 \in SUBSET due, NEW allowed2, allowed \subseteq allowed2
  PROVE  Accounts(due2, allowed2, n, e)
<1>1. PICK counted \in SUBSET allowed :
        /\ due \subseteq counted /\ n = Cardinality(counted)
        /\ e = Cardinality({r \in counted : StatusOf[r] \notin 1..499})
  BY DEF Accounts
<1>2. counted \in SUBSET allowed2 /\ due2 \subseteq counted
  BY <1>1
<1> QED  BY <1>1, <1>2 DEF Accounts

\* What a step does to the times and the requests.
LEMMA Onward ==
  ASSUME TypeOK, [Next]_vars
  PROVE  /\ clock <= clock' /\ clock \in Int /\ clock' \in Int
         /\ \A r \in Requests : /\ pc[r] = "done" => pc'[r] = "done" /\ stamp'[r] = stamp[r]
                                /\ stamp[r] \in Int
<1>1. clock \in Int /\ \A r \in Requests : stamp[r] \in Int
  BY ConstantsAre DEF TypeOK
<1>2. CASE Tick
  BY <1>1, <1>2 DEF Tick
<1>3. CASE Quiet
  BY <1>1, <1>3 DEF Quiet
<1>4. ASSUME NEW q \in Requests, Count(q) \/ Stamp(q) \/ Record(q)
      PROVE  /\ clock' = clock
             /\ \A r \in Requests : pc[r] = "done" => pc'[r] = "done" /\ stamp'[r] = stamp[r]
  BY <1>4 DEF Count, Stamp, Record, Goto, TypeOK
<1> QED  BY <1>1, <1>2, <1>3, <1>4, Steps

\* A page that is not touched stays accounted for, while requests are recorded and
\* seconds pass.
LEMMA RowStays ==
  ASSUME TypeOK, Pages, [Next]_vars, opened' = opened, NEW d \in Domains, row'[d] = row[d],
         Accounts(Due(d), Allowed(d), row[d].reqs, row[d].errs)
  PROVE  Accounts(Due(d), Allowed(d), row[d].reqs, row[d].errs)'
<1>1. /\ clock <= clock' /\ clock \in Int /\ clock' \in Int /\ N \in Int
      /\ opened.past \subseteq Requests
      /\ \A r \in Requests : /\ pc[r] = "done" => pc'[r] = "done" /\ stamp'[r] = stamp[r]
                             /\ stamp[r] \in Int
  <2>1. opened.past \subseteq Requests
    BY DEF TypeOK
  <2> QED  BY <2>1, Onward, ConstantsAre
<1>2. Due(d)' \subseteq Due(d)
  <2> SUFFICES ASSUME NEW r \in Due(d)' PROVE r \in Due(d)
    OBVIOUS
  <2>1. r \in opened.past /\ DomainOf[r] = d /\ clock' - stamp'[r] < N
    BY DEF Due
  <2>2. r \in Requests /\ pc[r] = "done"
    BY <1>1, <2>1 DEF Pages
  <2>3. clock - stamp[r] < N
    BY <1>1, <2>1, <2>2
  <2> QED  BY <2>1, <2>3 DEF Due
<1>3. Allowed(d) \subseteq Allowed(d)'
  BY <1>1 DEF Allowed, Recorded
<1> DEFINE due == Due(d)
           allowed == Allowed(d)
           due2 == Due(d)'
           allowed2 == Allowed(d)'
           n == row[d].reqs
           e == row[d].errs
<1>4. Accounts(due, allowed, n, e) /\ due2 \in SUBSET due /\ allowed \subseteq allowed2
  BY <1>2, <1>3
<1> HIDE DEF due, allowed, due2, allowed2, n, e
<1>5. Accounts(due2, allowed2, n, e)
  BY <1>4, AccountsStill
<1> QED  BY <1>5 DEF Accounts, due2, allowed2, n, e

\* A snapshot of a domain counts its requests of the last minute.
LEMMA SnapshotAccounts ==
  ASSUME MInv, Pages, MaxDelay < N, NEW d \in Domains
  PROVE  Accounts(Due(d), Allowed(d), ReqsLast(d), ErrsLast(d))
<1>1. /\ ReqsLast(d) = Cardinality(Recent(d))
      /\ ErrsLast(d) = Cardinality({r \in Recent(d) : StatusOf[r] \notin 1..499})
  BY RowIsExact, ErrorsAre
<1>2. /\ clock \in Int /\ opened.at \in Int /\ N \in Int /\ \A r \in Requests : stamp[r] \in Int
      /\ opened.past \subseteq Requests /\ opened.at <= clock
      /\ \A r \in opened.past : pc[r] = "done"
  <2>1. clock \in N..MaxClock /\ opened \in [at : N..MaxClock, past : SUBSET Requests]
        /\ stamp \in [Requests -> 0..MaxClock]
    BY DEF MInv, TypeOK
  <2>2. opened.at <= clock /\ \A r \in opened.past : pc[r] = "done"
    BY DEF Pages
  <2> QED  BY <2>1, <2>2, ConstantsAre
<1>3. Due(d) \subseteq Recent(d)
  BY <1>2 DEF Due, Recent, Recorded
<1>4. Recent(d) \subseteq Allowed(d)
  BY <1>2 DEF Allowed, Recent, Recorded
<1> QED  BY <1>1, <1>3, <1>4 DEF Accounts

\* Every step keeps the page.
LEMMA PagesStep == MInv /\ Pages /\ [Next]_vars => Pages'
<1> SUFFICES ASSUME MInv, Pages, [Next]_vars PROVE Pages'
  OBVIOUS
<1>0. TypeOK
  BY DEF MInv
<1>1. CASE UNCHANGED pageVars
  <2>1. UNCHANGED <<unread, row, opened>>
    BY <1>1 DEF pageVars
  <2>2. opened.past \subseteq Requests /\ opened.at \in Int
    BY <1>0, ConstantsAre DEF TypeOK
  <2>3. /\ \A r \in opened'.past : pc'[r] = "done"
        /\ opened'.at <= clock'
    BY <1>0, <2>1, <2>2, Onward DEF Pages
  <2>4. ASSUME MaxDelay < N, NEW d \in Domains \ unread
        PROVE  Accounts(Due(d), Allowed(d), row[d].reqs, row[d].errs)'
    BY <1>0, <2>1, <2>4, RowStays DEF Pages
  <2> QED  BY <2>1, <2>3, <2>4 DEF Pages
<1>2. CASE OpenDashboard
  <2>1. /\ unread' = Domains /\ clock' = clock /\ pc' = pc
        /\ opened' = [at |-> clock, past |-> UNION {Recorded(d) : d \in Domains}]
    BY <1>2 DEF OpenDashboard
  <2>2. clock <= clock
    BY <1>0, ConstantsAre DEF TypeOK
  <2> QED  BY <2>1, <2>2 DEF Pages, Recorded
<1>3. ASSUME NEW d \in unread, SnapshotSite(d) PROVE Pages'
  <2>1. /\ d \in Domains /\ unread' = unread \ {d} /\ opened' = opened
        /\ clock' = clock /\ pc' = pc /\ stamp' = stamp
        /\ row' = [row EXCEPT ![d] = [reqs |-> ReqsLast(d), errs |-> ErrsLast(d)]]
        /\ row \in [Domains -> [reqs : Nat, errs : Nat]]
    BY <1>0, <1>3 DEF SnapshotSite, TypeOK
  <2>2. ASSUME MaxDelay < N, NEW e \in Domains \ unread'
        PROVE  Accounts(Due(e), Allowed(e), row[e].reqs, row[e].errs)'
    <3>1. CASE e = d
      <4>1. Accounts(Due(d), Allowed(d), ReqsLast(d), ErrsLast(d))
        BY <2>1, <2>2, SnapshotAccounts
      <4>2. row'[d].reqs = ReqsLast(d) /\ row'[d].errs = ErrsLast(d)
        BY <2>1
      <4>3. Due(d)' = Due(d) /\ Allowed(d)' = Allowed(d)
        BY <2>1 DEF Due, Allowed, Recorded
      <4> QED  BY <3>1, <4>1, <4>2, <4>3 DEF Accounts
    <3>2. CASE e # d
      <4>1. e \in Domains \ unread /\ row'[e] = row[e]
        BY <2>1, <2>2, <3>2
      <4> QED  BY <1>0, <2>1, <2>2, <4>1, RowStays DEF Pages
    <3> QED  BY <3>1, <3>2
  <2>3. /\ \A r \in opened'.past : pc'[r] = "done"
        /\ opened'.at <= clock'
    BY <2>1 DEF Pages
  <2> QED  BY <2>2, <2>3 DEF Pages
<1> QED
  BY <1>1, <1>2, <1>3 DEF Next, Tick, Count, Stamp, Record, vars

\* At the start nothing is due, and nothing on the page.
LEMMA PagesInit == Init => Pages
<1> SUFFICES ASSUME Init PROVE Pages
  OBVIOUS
<1>1. opened.past = {} /\ opened.at <= clock
  BY ConstantsAre DEF Init
<1>2. ASSUME NEW d \in Domains
      PROVE  Accounts(Due(d), Allowed(d), row[d].reqs, row[d].errs)
  <2>1. Due(d) = {} /\ row[d].reqs = 0 /\ row[d].errs = 0
    BY <1>1 DEF Init, Due
  <2>2. {} \in SUBSET Allowed(d) /\ {r \in {} : StatusOf[r] \notin 1..499} = {}
        /\ Cardinality({}) = 0
    BY FS_EmptySet
  <2> QED  BY <2>1, <2>2 DEF Accounts
<1> QED  BY <1>1, <1>2 DEF Pages

\* The totals are of the requests that the rows are of.
LEMMA TotalsAre ==
  ASSUME MInv, Pages, MaxDelay < N, unread = {},
         \A s, t \in Sites : s.domain = t.domain => s = t
  PROVE  /\ Accounts(UNION {Due(s.domain) : s \in Sites}, UNION {Allowed(s.domain) : s \in Sites},
                     DashboardReqs, DashboardErrs)
         /\ ErrorRate \in 0..100
<1> DEFINE Is(s, c) ==
             /\ c \in SUBSET Allowed(s.domain) /\ Due(s.domain) \subseteq c
             /\ row[s.domain].reqs = Cardinality(c)
             /\ row[s.domain].errs = Cardinality({r \in c : StatusOf[r] \notin 1..499})
           A == [s \in Sites |-> CHOOSE c \in SUBSET Allowed(s.domain) : Is(s, c)]
           E == [s \in Sites |-> {r \in A[s] : StatusOf[r] \notin 1..499}]
           f == [s \in Sites |-> row[s.domain].reqs]
           g == [s \in Sites |-> row[s.domain].errs]
           C == UNION {A[s] : s \in Sites}
<1>1. IsFiniteSet(Sites) /\ IsFiniteSet(Requests) /\ \A s \in Sites : s.domain \in Domains
  BY MetricsAssumption, ConstantsAre
<1>2. ASSUME NEW s \in Sites PROVE Is(s, A[s])
  <2>1. \E c \in SUBSET Allowed(s.domain) : Is(s, c)
    BY <1>1 DEF Pages, Accounts
  <2> DEFINE c == CHOOSE c \in SUBSET Allowed(s.domain) : Is(s, c)
  <2>2. Is(s, c)
    <3> HIDE DEF Is
    <3> QED  BY <2>1
  <2>3. A[s] = c
    OBVIOUS
  <2> HIDE DEF A, c, Is
  <2> QED  BY <2>2, <2>3
<1>3. \A s \in Sites : f[s] = row[s.domain].reqs /\ g[s] = row[s.domain].errs
  OBVIOUS
<1>4. ASSUME NEW s \in Sites
      PROVE  /\ A[s] \subseteq Allowed(s.domain) /\ Due(s.domain) \subseteq A[s]
             /\ f[s] = Cardinality(A[s]) /\ g[s] = Cardinality(E[s])
             /\ E[s] = {r \in A[s] : StatusOf[r] \notin 1..499}
             /\ E[s] \subseteq A[s] /\ IsFiniteSet(A[s]) /\ IsFiniteSet(E[s])
  <2>1. E[s] = {r \in A[s] : StatusOf[r] \notin 1..499}
    OBVIOUS
  <2>2. Is(s, A[s])
    BY <1>2
  <2> HIDE DEF A, E, f, g
  <2>3. /\ A[s] \subseteq Allowed(s.domain) /\ Due(s.domain) \subseteq A[s]
        /\ f[s] = Cardinality(A[s]) /\ g[s] = Cardinality(E[s])
    BY <1>3, <2>1, <2>2
  <2>4. A[s] \subseteq Requests /\ E[s] \subseteq A[s]
    BY <2>1, <2>3 DEF Allowed, Recorded
  <2>5. IsFiniteSet(A[s]) /\ IsFiniteSet(E[s])
    BY <1>1, <2>4, FS_Subset
  <2> QED  BY <2>1, <2>3, <2>4, <2>5
<1>5. DashboardReqs = SumFunctionOnSet(f, Sites) /\ DashboardErrs = SumFunctionOnSet(g, Sites)
  <2>1. DashboardReqs = SumFunction(f) /\ DashboardErrs = SumFunction(g)
    BY DEF DashboardReqs, DashboardErrs
  <2>2. DOMAIN f = Sites /\ DOMAIN g = Sites
    OBVIOUS
  <2> HIDE DEF f, g
  <2> QED  BY <2>1, <2>2, SumOfDomain
<1> HIDE DEF Is, A, E, f, g
<1>6. \A s, t \in Sites : s # t => A[s] \cap A[t] = {} /\ E[s] \cap E[t] = {}
  <2> SUFFICES ASSUME NEW s \in Sites, NEW t \in Sites, s # t PROVE A[s] \cap A[t] = {}
    BY <1>4
  <2>1. Allowed(s.domain) \cap Allowed(t.domain) = {}
    BY DEF Allowed, Recorded
  <2> QED  BY <1>4, <2>1
<1>7. /\ IsFiniteSet(C) /\ Cardinality(C) = SumFunctionOnSet(f, Sites)
  <2>1. \A s \in Sites : IsFiniteSet(A[s]) /\ f[s] = Cardinality(A[s])
    BY <1>4
  <2>2. \A s, t \in Sites : s # t => A[s] \cap A[t] = {}
    BY <1>6
  <2> HIDE DEF C
  <2>3. IsFiniteSet(UNION {A[s] : s \in Sites})
    <3>1. \A s \in Sites : A[s] \subseteq Requests
      BY <1>4 DEF Allowed, Recorded
    <3>2. UNION {A[s] : s \in Sites} \subseteq Requests
      BY <3>1
    <3> QED  BY <1>1, <3>2, FS_Subset
  <2>4. PICK S, B, F : S = Sites /\ B = A /\ F = f
    OBVIOUS
  <2>5. /\ IsFiniteSet(S)
        /\ \A i \in S : IsFiniteSet(B[i]) /\ F[i] = Cardinality(B[i])
        /\ \A i, j \in S : i # j => B[i] \cap B[j] = {}
    BY <1>1, <2>1, <2>2, <2>4
  <2>6. Cardinality(UNION {B[i] : i \in S}) = SumFunctionOnSet(F, S)
    BY ONLY <2>5, SumOfSizes, SMTT(30)
  <2>7. Cardinality(UNION {A[s] : s \in Sites}) = SumFunctionOnSet(f, Sites)
    BY <2>4, <2>6
  <2> QED  BY <2>3, <2>7 DEF C
<1>8. Cardinality({r \in C : StatusOf[r] \notin 1..499}) = SumFunctionOnSet(g, Sites)
  <2>1. {r \in C : StatusOf[r] \notin 1..499} = UNION {E[s] : s \in Sites}
    BY <1>4
  <2>2. \A s \in Sites : IsFiniteSet(E[s]) /\ g[s] = Cardinality(E[s])
    BY <1>4
  <2>3. \A s, t \in Sites : s # t => E[s] \cap E[t] = {}
    BY <1>6
  <2>4. PICK S, B, F : S = Sites /\ B = E /\ F = g
    OBVIOUS
  <2>5. /\ IsFiniteSet(S)
        /\ \A i \in S : IsFiniteSet(B[i]) /\ F[i] = Cardinality(B[i])
        /\ \A i, j \in S : i # j => B[i] \cap B[j] = {}
    BY <1>1, <2>2, <2>3, <2>4
  <2>6. Cardinality(UNION {B[i] : i \in S}) = SumFunctionOnSet(F, S)
    BY ONLY <2>5, SumOfSizes, SMTT(30)
  <2>7. Cardinality(UNION {E[s] : s \in Sites}) = SumFunctionOnSet(g, Sites)
    BY <2>4, <2>6
  <2> QED  BY <2>1, <2>7
<1>9. Accounts(UNION {Due(s.domain) : s \in Sites}, UNION {Allowed(s.domain) : s \in Sites},
               DashboardReqs, DashboardErrs)
  <2>1. C \in SUBSET UNION {Allowed(s.domain) : s \in Sites}
    BY <1>4
  <2>2. UNION {Due(s.domain) : s \in Sites} \subseteq C
    BY <1>4
  <2> HIDE DEF C
  <2> QED  BY <1>5, <1>7, <1>8, <2>1, <2>2 DEF Accounts
<1>10. ErrorRate \in 0..100
  <2> DEFINE n == DashboardReqs
             e == DashboardErrs
  <2>1. ErrorRate = IF n = 0 THEN 0 ELSE (100 * e) \div n
    BY DEF ErrorRate
  <2>2. n \in Nat /\ e \in Nat /\ e <= n
    <3>1. n = Cardinality(C) /\ e = Cardinality({r \in C : StatusOf[r] \notin 1..499})
      BY <1>5, <1>7, <1>8
    <3>2. {r \in C : StatusOf[r] \notin 1..499} \subseteq C
      OBVIOUS
    <3> HIDE DEF C, n, e
    <3> QED  BY <1>7, <3>1, <3>2, FS_Subset, FS_CardinalityType
  <2> HIDE DEF n, e
  <2>3. CASE n = 0
    BY <2>1, <2>3
  <2>4. CASE n # 0
    <3>1. (100 * e) \div n \in 0..100
      BY <2>2, <2>4, Percentage
    <3> QED  BY <2>1, <2>4, <3>1
  <2> QED  BY <2>3, <2>4
<1> QED  BY <1>9, <1>10

\* metrics.go, SnapshotAll, and ui.go, buildSiteRows: the totals of a page whose
\* sites are read one by one are the numbers of requests among which are all that
\* were in the window for the whole of it, and none that never was.
THEOREM TheTotalsAccount == Spec => []TotalsAccounted
<1>1. Init => MInv /\ Pages
  BY RingInit, PagesInit
<1>2. MInv /\ Pages /\ [Next]_vars => (MInv /\ Pages)'
  BY RingStep, PagesStep
<1>3. MInv /\ Pages => TotalsAccounted
  BY TotalsAre DEF TotalsAccounted, Shown
<1> QED  BY <1>1, <1>2, <1>3, PTL DEF Spec

-----------------------------------------------------------------------------
(* The chart. *)

\* metrics.go, Snapshot: the series of the last N seconds, which looks a second up
\* by its slot, adds up to the number beside it, which sums the slots in the window.
THEOREM TheChartAddsUp == Spec => []ChartAddsUp
<1>1. ASSUME MInv, NEW d \in Domains PROVE SumFunction(PerSec(d)) = ReqsLast(d)
  <2> DEFINE S == 0..(N - 1)
             sec(o) == clock - (N - 1 - o)
             h == [o \in S |-> sec(o) % N]
             f == PerSec(d)
             g == [i \in Window(d) |-> buckets[d][i].reqs]
             T == {o \in S : buckets[d][h[o]].ts = sec(o)}
  <2>1. clock \in Int /\ N <= clock /\ N \in Nat \ {0} /\ TypeOK /\ Slots
    <3>1. TypeOK /\ Slots
      BY <1>1 DEF MInv
    <3>2. clock \in N..MaxClock /\ N \in Nat \ {0}
      BY <3>1, ConstantsAre DEF TypeOK
    <3> QED  BY <3>1, <3>2
  <2>2. \A o \in S : /\ sec(o) \in Nat \ {0} /\ sec(o) \in (clock - N + 1)..clock
                     /\ h[o] = sec(o) % N /\ h[o] \in 0..(N - 1)
    <3> SUFFICES ASSUME NEW o \in S
                 PROVE  /\ sec(o) \in Nat \ {0} /\ sec(o) \in (clock - N + 1)..clock
                        /\ h[o] = sec(o) % N /\ h[o] \in 0..(N - 1)
      OBVIOUS
    <3>1. sec(o) \in Nat \ {0} /\ sec(o) \in (clock - N + 1)..clock
      BY <2>1
    <3>2. h[o] = sec(o) % N
      OBVIOUS
    <3> HIDE DEF sec, h
    <3>3. sec(o) % N \in 0..(N - 1)
      BY <2>1, <3>1, DivMod
    <3> QED  BY <3>1, <3>2, <3>3
  <2>3. \A x, y \in S : h[x] = h[y] => x = y
    <3> SUFFICES ASSUME NEW x \in S, NEW y \in S, h[x] = h[y] PROVE x = y
      OBVIOUS
    <3>1. sec(x) % N = sec(y) % N
      BY <2>2
    <3>2. sec(x) \in Nat /\ sec(y) \in Nat /\ sec(x) - sec(y) < N /\ sec(y) - sec(x) < N
      BY <2>1
    <3>3. sec(x) = sec(y)
      <4> HIDE DEF sec
      <4> QED  BY <2>1, <3>1, <3>2, SameSlot
    <3> QED  BY <2>1, <3>3
  <2>4. \A o \in S : f[o] = IF o \in T THEN buckets[d][h[o]].reqs ELSE 0
    BY DEF PerSec
  <2>5. \A i \in 0..(N - 1) : buckets[d][i].reqs \in Int /\ buckets[d][i].ts \in Int
    <3>1. buckets \in [Domains -> [0..(N - 1) -> [ts : 0..MaxClock, reqs : Nat, errs : Nat]]]
      BY <2>1 DEF TypeOK
    <3>2. \A i \in 0..(N - 1) : buckets[d][i] \in [ts : 0..MaxClock, reqs : Nat, errs : Nat]
      BY <3>1
    <3> QED  BY <3>2, ConstantsAre
  <2>6. IsFiniteSet(S) /\ IsFiniteSet(T) /\ T \in SUBSET S
    <3>1. IsFiniteSet(S)
      BY <2>1, FS_Interval
    <3>2. T \subseteq S
      OBVIOUS
    <3> HIDE DEF S, T
    <3> QED  BY <3>1, <3>2, FS_Subset
  <2>7. {h[o] : o \in T} = Window(d)
    <3>1. ASSUME NEW o \in T PROVE h[o] \in Window(d)
      <4>1. buckets[d][h[o]].ts = sec(o) /\ o \in S
        OBVIOUS
      <4>2. clock - sec(o) < N
        BY <2>1
      <4>3. sec(o) # 0 /\ h[o] \in 0..(N - 1)
        BY <2>2, <4>1
      <4> HIDE DEF h, sec
      <4> QED  BY <4>1, <4>2, <4>3 DEF Window, InWindow
    <3>2. ASSUME NEW i \in Window(d) PROVE \E o \in T : h[o] = i
      <4> DEFINE t == buckets[d][i].ts
                 o == t - clock + (N - 1)
      <4>1. i \in 0..(N - 1) /\ t # 0 /\ t % N = i /\ t \in (clock - N + 1)..clock
        BY <2>1, WindowIs
      <4>2. o \in S /\ sec(o) = t
        BY <2>1, <4>1
      <4>3. h[o] = i
        BY <2>2, <4>1, <4>2
      <4>4. o \in T
        BY <4>2, <4>3
      <4> HIDE DEF o, T, h
      <4> QED  BY <4>3, <4>4
    <3> HIDE DEF T, h
    <3> QED  BY <3>1, <3>2
  <2>8. \A o \in T : f[o] = g[h[o]]
    <3> SUFFICES ASSUME NEW o \in T PROVE f[o] = g[h[o]]
      OBVIOUS
    <3>1. f[o] = buckets[d][h[o]].reqs /\ h[o] \in Window(d)
      <4>1. o \in S /\ h[o] \in {h[x] : x \in T}
        OBVIOUS
      <4> HIDE DEF f, h, T
      <4> QED  BY <2>4, <2>7, <4>1
    <3> HIDE DEF f, h, T
    <3> QED  BY <3>1
  <2>9. \A o \in S : f[o] \in Int /\ (o \notin T => f[o] = 0)
    <3> HIDE DEF f, h, T, S
    <3> QED  BY <2>2, <2>4, <2>5
  <2>10. DOMAIN f = S /\ DOMAIN g = Window(d) /\ ReqsLast(d) = SumFunction(g)
    BY DEF PerSec, ReqsLast
  <2> HIDE DEF f, g, h, T, S
  <2>11. SumFunction(f) = SumFunctionOnSet(f, S) /\ ReqsLast(d) = SumFunctionOnSet(g, Window(d))
    BY <2>10, SumOfDomain
  <2>12. SumFunctionOnSet(f, S) = SumFunctionOnSet(f, T)
    BY <2>6, <2>9, SumRestricted
  <2>13. SumFunctionOnSet(f, T) = SumFunctionOnSet(g, {h[o] : o \in T})
    <3>1. \A x, y \in T : h[x] = h[y] => x = y
      BY <2>3, <2>6
    <3>2. \A x \in T : f[x] \in Int /\ f[x] = g[h[x]]
      BY <2>6, <2>8, <2>9
    <3> QED  BY <2>6, <3>1, <3>2, SumReindexed
  <2> QED  BY <2>7, <2>11, <2>12, <2>13 DEF f
<1>2. MInv => ChartAddsUp
  BY <1>1 DEF ChartAddsUp
<1> QED  BY Ring, <1>2, PTL

\* Record writes the slot of its request's number, which no other of the latest
\* requests has.
LEMMA RingsStep ==
  ASSUME TypeOK, Rings, [Next]_vars
  PROVE  Rings'
<1>1. ASSUME UNCHANGED <<latency, next, filled, log>> PROVE Rings'
  BY <1>1 DEF Rings
<1>2. CASE Tick
  BY <1>1, <1>2 DEF Tick, siteVars
<1>3. ASSUME NEW r \in Requests, Count(r) \/ Stamp(r) PROVE Rings'
  BY <1>1, <1>3 DEF Count, Stamp, siteVars
<1>4. CASE Quiet
  BY <1>1, <1>4 DEF Quiet, siteVars
<1>5. ASSUME NEW r \in Requests, Record(r) PROVE Rings'
  <2> DEFINE d == DomainOf[r]
             l == log[d]
             n == Len(l)
             R == RingSize
  <2>1. d \in Domains /\ R \in Nat \ {0} /\ Millis(r) \in Nat
    BY ConstantsAre, MillisNat
  <2>2. /\ log \in [Domains -> Seq(Requests)] /\ l \in Seq(Requests)
        /\ latency \in [Domains -> [0..(R - 1) -> Nat]]
        /\ next \in [Domains -> 0..(R - 1)] /\ filled \in [Domains -> 0..R]
    BY <2>1 DEF TypeOK
  <2>3. n \in Nat
    BY <2>2
  <2>4. /\ filled[d] = IF n > R THEN R ELSE n
        /\ next[d] = n % R
        /\ \A m \in 1..n : n - m < R => latency[d][(m - 1) % R] = Millis(l[m])
    BY <2>1 DEF Rings
  <2>5. /\ latency' = [latency EXCEPT ![d] = [latency[d] EXCEPT ![next[d]] = Millis(r)]]
        /\ next' = [next EXCEPT ![d] = (next[d] + 1) % R]
        /\ filled' = [filled EXCEPT ![d] = IF filled[d] < R THEN filled[d] + 1 ELSE filled[d]]
        /\ log' = [log EXCEPT ![d] = Append(l, r)]
    BY <1>5 DEF Record, Advance
  <2>6. /\ latency'[d] = [latency[d] EXCEPT ![next[d]] = Millis(r)]
        /\ next'[d] = (next[d] + 1) % R
        /\ filled'[d] = IF filled[d] < R THEN filled[d] + 1 ELSE filled[d]
        /\ log'[d] = Append(l, r)
    BY <2>1, <2>2, <2>5
  <2>7. /\ Len(log'[d]) = n + 1 /\ log'[d][n + 1] = r
        /\ \A m \in 1..n : log'[d][m] = l[m]
    BY <2>2, <2>6
  <2>8. next[d] = n % R /\ n % R \in 0..(R - 1) /\ next'[d] = (n + 1) % R
    <3>1. n % R \in 0..(R - 1)
      BY <2>1, <2>3, DivMod
    <3>2. (n + 1) % R = ((n % R) + 1) % R
      BY <2>1, <2>3, NextDiv
    <3> QED  BY <2>4, <2>6, <3>1, <3>2
  <2>9. filled'[d] = IF n + 1 > R THEN R ELSE n + 1
    BY <2>1, <2>3, <2>4, <2>6
  <2>10. ASSUME NEW m \in 1..(n + 1), (n + 1) - m < R
         PROVE  latency'[d][(m - 1) % R] = Millis(log'[d][m])
    <3>1. CASE m = n + 1
      <4>1. m - 1 = n
        BY <2>3, <3>1
      <4>2. latency'[d][n % R] = Millis(r)
        <5>1. latency[d] \in [0..(R - 1) -> Nat]
          BY <2>1, <2>2
        <5> QED  BY <2>6, <2>8, <5>1
      <4> QED  BY <2>7, <3>1, <4>1, <4>2
    <3>2. CASE m # n + 1
      <4>1. m \in 1..n /\ m - 1 \in Nat /\ n - m < R
        BY <2>1, <2>3, <2>10, <3>2
      <4>2. (m - 1) % R # n % R
        <5> DEFINE u == m - 1
        <5> HIDE DEF n, R
        <5>1. u \in Nat /\ u - n < R /\ n - u < R /\ u # n
          BY ONLY <2>1, <2>3, <2>10, <4>1, m \in 1..(n + 1)
        <5> HIDE DEF u
        <5>2. ASSUME u % R = n % R PROVE FALSE
          BY <2>1, <2>3, <5>1, <5>2, SameSlot
        <5> QED  BY <5>2 DEF u
      <4>3. (m - 1) % R \in 0..(R - 1)
        BY <2>1, <4>1, DivMod
      <4>4. latency'[d][(m - 1) % R] = latency[d][(m - 1) % R]
        <5> DEFINE i == (m - 1) % R
                   j == n % R
        <5>1. i \in 0..(R - 1) /\ i # j /\ next[d] = j
          BY <2>8, <4>2, <4>3
        <5>2. latency[d] \in [0..(R - 1) -> Nat]
          BY <2>1, <2>2
        <5> HIDE DEF i, j
        <5>3. latency'[d][i] = latency[d][i]
          BY <2>6, <5>1, <5>2
        <5> QED  BY <5>3 DEF i
      <4> QED  BY <2>4, <2>7, <4>1, <4>4
    <3> QED  BY <3>1, <3>2
  <2>11. ASSUME NEW e \in Domains
         PROVE  /\ filled'[e] = IF Len(log'[e]) > R THEN R ELSE Len(log'[e])
                /\ next'[e] = Len(log'[e]) % R
                /\ \A m \in 1..Len(log'[e]) :
                     Len(log'[e]) - m < R => latency'[e][(m - 1) % R] = Millis(log'[e][m])
    <3>1. CASE e = d
      BY <2>7, <2>8, <2>9, <2>10, <3>1
    <3>2. CASE e # d
      <4>1. /\ latency'[e] = latency[e] /\ next'[e] = next[e]
            /\ filled'[e] = filled[e] /\ log'[e] = log[e]
        BY <2>2, <2>5, <3>2
      <4> QED  BY <4>1 DEF Rings
    <3> QED  BY <3>1, <3>2
  <2>12. \A q : Millis(q)' = Millis(q)
    BY DEF Millis
  <2> QED  BY <2>11, <2>12 DEF Rings
<1> QED  BY <1>2, <1>3, <1>4, <1>5, Steps

\* The ring is empty at the start.
LEMMA RingsInit == Init => Rings
<1> SUFFICES ASSUME Init, NEW d \in Domains
             PROVE  /\ filled[d] = IF Len(log[d]) > RingSize THEN RingSize ELSE Len(log[d])
                    /\ next[d] = Len(log[d]) % RingSize
                    /\ \A m \in 1..Len(log[d]) :
                         Len(log[d]) - m < RingSize =>
                           latency[d][(m - 1) % RingSize] = Millis(log[d][m])
  BY DEF Rings
<1>1. log[d] = <<>> /\ filled[d] = 0 /\ next[d] = 0
  BY DEF Init
<1>2. Len(log[d]) = 0 /\ 1..Len(log[d]) = {}
  BY <1>1
<1>3. 0 % RingSize = 0 /\ ~ (0 > RingSize)
  BY ConstantsAre
<1> QED  BY <1>1, <1>2, <1>3

\* The invariant holds in every reachable state.
LEMMA LatencyRing == Spec => [](TypeOK /\ Rings)
<1>1. Init => TypeOK /\ Rings
  BY TypeInit, RingsInit
<1>2. TypeOK /\ Rings /\ [Next]_vars => (TypeOK /\ Rings)'
  BY TypeStep, RingsStep
<1> QED  BY <1>1, <1>2, PTL DEF Spec

-----------------------------------------------------------------------------
(* The percentiles. *)

\* Ascending moves the numbers of a sequence, to places in order.
LEMMA AscendingMoves ==
  ASSUME NEW n \in Nat, NEW s \in [1..n -> Nat]
  PROVE  \E p \in Bijection(1..n, 1..n) :
           /\ \A i, j \in 1..n : i < j => s[p[i]] <= s[p[j]]
           /\ Ascending(s) = [i \in 1..n |-> s[p[i]]]
<1> DEFINE Sorts(p) == \A i, j \in 1..n : i < j => s[p[i]] <= s[p[j]]
           order == CHOOSE p \in Bijection(1..n, 1..n) : Sorts(p)
<1>1. s \in [1..n -> Int]
  OBVIOUS
<1>2. \E p \in Bijection(1..n, 1..n) : Sorts(p)
  BY <1>1, SortingOrder
<1>3. order \in Bijection(1..n, 1..n) /\ Sorts(order)
  <2> HIDE DEF Sorts
  <2> QED  BY <1>2
<1>4. DOMAIN s = 1..n
  OBVIOUS
<1>5. Ascending(s) = [i \in 1..n |-> s[order[i]]]
  BY <1>4 DEF Ascending
<1> HIDE DEF order
<1> QED  BY <1>3, <1>5

\* The latencies of the ring are those of the latest requests, in another order.
LEMMA RingHoldsLatest ==
  ASSUME TypeOK, Rings, NEW d \in Domains
  PROVE  LET k == filled[d]  took == Latest(d) IN
         /\ k \in Nat /\ took \in [1..k -> Nat]
         /\ \E g \in Bijection(1..k, 1..k) :
              \A i \in 1..k : took[i] = latency[d][g[i] - 1]
<1> DEFINE all == log[d]
           L   == Len(all)
           k   == filled[d]
           R   == RingSize
           took == Latest(d)
           slot == [i \in 1..k |-> (L - k + i - 1) % R]
           g   == [i \in 1..k |-> slot[i] + 1]
<1>1. R \in Nat \ {0} /\ all \in Seq(Requests)
  BY ConstantsAre DEF TypeOK
<1>2. L \in Nat /\ \A i \in 1..L : all[i] \in Requests
  BY <1>1
<1>3. /\ k = IF L > R THEN R ELSE L
      /\ \A m \in 1..L : L - m < R => latency[d][(m - 1) % R] = Millis(all[m])
  BY DEF Rings
<1>4. took = [i \in 1..k |-> Millis(all[L - k + i])]
  BY <1>3 DEF Latest
<1> HIDE DEF all, L, k, R, took, slot, g
<1>5. k \in Nat /\ k <= L /\ k <= R
  BY <1>1, <1>2, <1>3
<1>6. \A i \in 1..k : /\ L - k + i \in 1..L /\ L - (L - k + i) < R
                      /\ L - k + i - 1 \in Nat
  BY <1>1, <1>2, <1>5
<1>7. took \in [1..k -> Nat]
  <2>1. \A i \in 1..k : Millis(all[L - k + i]) \in Nat
    BY <1>2, <1>6, MillisNat
  <2> QED  BY <1>4, <2>1
<1>8. \A i \in 1..k : slot[i] = (L - k + i - 1) % R
  BY DEF slot
<1>9. \A i \in 1..k : slot[i] \in 0..(k - 1)
  <2> SUFFICES ASSUME NEW i \in 1..k PROVE slot[i] \in 0..(k - 1)
    OBVIOUS
  <2> DEFINE m == L - k + i - 1
  <2>1. m \in Nat /\ m < L
    BY <1>2, <1>5, <1>6
  <2>0. slot[i] = (m % R)
    BY <1>8
  <2> HIDE DEF m
  <2>2. CASE L > R
    <3>1. k = R
      BY <1>3, <2>2
    <3>2. (m % R) \in 0..(R - 1)
      BY <1>1, <2>1, DivMod
    <3> QED  BY <2>0, <3>1, <3>2
  <2>3. CASE ~ (L > R)
    <3>1. k = L /\ m \in 0..(R - 1)
      BY <1>1, <1>2, <1>3, <2>1, <2>3
    <3>2. (m % R) = m
      BY <1>1, <3>1
    <3>3. m \in 0..(k - 1)
      BY <1>2, <2>1, <3>1
    <3> QED  BY <2>0, <3>2, <3>3
  <2> QED  BY <2>2, <2>3
<1>10. g \in [1..k -> 1..k]
  <2>1. \A i \in 1..k : slot[i] + 1 \in 1..k
    BY <1>5, <1>9
  <2> QED  BY <2>1 DEF g
<1>11. ASSUME NEW i \in 1..k, NEW j \in 1..k, g[i] = g[j] PROVE i = j
  <2> DEFINE m == L - k + i - 1
             q == L - k + j - 1
  <2>1. m \in Nat /\ q \in Nat /\ m - q < R /\ q - m < R /\ (m = q => i = j)
    BY <1>1, <1>2, <1>5, <1>6
  <2>2. m % R = q % R
    <3>1. slot[i] \in Int /\ slot[j] \in Int /\ slot[i] + 1 = slot[j] + 1
      BY <1>9, <1>11 DEF g
    <3>2. slot[i] = slot[j]
      BY <3>1
    <3> QED  BY <1>8, <3>2
  <2> HIDE DEF m, q
  <2>3. m = q
    BY <1>1, <2>1, <2>2, SameSlot
  <2> QED  BY <2>1, <2>3
<1>12. g \in Bijection(1..k, 1..k)
  BY <1>5, <1>10, <1>11, InjectionIsBijection DEF Injection, IsInjective
<1>13. ASSUME NEW i \in 1..k PROVE took[i] = latency[d][g[i] - 1]
  <2> DEFINE m == L - k + i
  <2>1. m \in 1..L /\ L - m < R
    BY <1>6
  <2>2. took[i] = Millis(all[m])
    BY <1>4
  <2>3. latency[d][(m - 1) % R] = Millis(all[m])
    BY <1>3, <2>1
  <2>4. g[i] - 1 = (m - 1) % R
    <3>1. slot[i] \in Int /\ g[i] = slot[i] + 1
      BY <1>9 DEF g
    <3>2. g[i] - 1 = slot[i]
      BY <3>1
    <3>3. m - 1 = L - k + i - 1
      BY <1>2, <1>5
    <3>4. slot[i] = ((L - k + i - 1) % R)
      BY <1>8
    <3> HIDE DEF m
    <3> QED  BY <3>2, <3>3, <3>4
  <2> QED  BY <2>2, <2>3, <2>4
<1>14. \E h \in Bijection(1..k, 1..k) : \A i \in 1..k : took[i] = latency[d][h[i] - 1]
  BY <1>12, <1>13
<1> QED  BY <1>5, <1>7, <1>14 DEF k, took

\* metrics.go, Snapshot and pct: the percentiles are those of the latest requests,
\* however the ring has wrapped.
THEOREM PercentilesAreOfLatest == Spec => []PercentilesOfLatest
<1>1. ASSUME TypeOK, Rings PROVE PercentilesOfLatest
  <2> SUFFICES ASSUME NEW d \in Domains, NEW p \in {50, 95, 99}, filled[d] > 0
               PROVE  LET v    == Pct(Sample(d), p)
                          took == Latest(d)
                          few(S) == 100 * Cardinality(S) <= Len(took) * p
                      IN /\ ~few({i \in DOMAIN took : took[i] <= v})
                         /\ few({i \in DOMAIN took : took[i] < v})
    BY DEF PercentilesOfLatest
  <2> DEFINE k    == filled[d]
             took == Latest(d)
             raw  == [i \in 1..k |-> latency[d][i - 1]]
             a    == Ascending(raw)
             y    == k * p
             x    == y \div 100
             v    == Pct(a, p)
  <2>1. k \in Nat /\ k > 0 /\ k <= RingSize /\ RingSize \in Nat /\ p \in Nat /\ p < 100
    <3>1. filled \in [Domains -> 0..RingSize]
      BY <1>1 DEF TypeOK
    <3> QED  BY <3>1, ConstantsAre
  <2>2. raw \in [1..k -> Nat]
    <3>1. latency[d] \in [0..(RingSize - 1) -> Nat]
      BY <1>1 DEF TypeOK
    <3>2. \A i \in 1..k : i - 1 \in 0..(RingSize - 1)
      BY <2>1
    <3>3. \A i \in 1..k : latency[d][i - 1] \in Nat
      BY <3>1, <3>2, ZenonT(60)
    <3> QED  BY <3>3
  <2>3. took \in [1..k -> Nat]
    BY <1>1, RingHoldsLatest
  <2>4. PICK g \in Bijection(1..k, 1..k) : \A i \in 1..k : took[i] = latency[d][g[i] - 1]
    BY <1>1, RingHoldsLatest
  <2> HIDE DEF k, took
  <2>5. \A i \in 1..k : g[i] \in 1..k /\ took[i] = raw[g[i]]
    BY <2>4 DEF Bijection, Injection
  <2>6. Sample(d) = a
    BY DEF Sample, k
  <2> HIDE DEF raw
  <2>7. \E h \in Bijection(1..k, 1..k) :
          /\ \A i, j \in 1..k : i < j => raw[h[i]] <= raw[h[j]]
          /\ a = [i \in 1..k |-> raw[h[i]]]
    BY <2>1, <2>2, AscendingMoves
  <2> HIDE DEF a
  <2>8. PICK h \in Bijection(1..k, 1..k) :
          /\ \A i, j \in 1..k : i < j => raw[h[i]] <= raw[h[j]]
          /\ a = [i \in 1..k |-> raw[h[i]]]
    BY <2>7
  <2>9. \A i \in 1..k : h[i] \in 1..k /\ a[i] = raw[h[i]]
    BY <2>8 DEF Bijection, Injection
  <2>10. /\ a \in [1..k -> Nat]
         /\ \A i, j \in 1..k : i < j => a[i] <= a[j]
    BY <2>2, <2>8, <2>9
  <2>11. Len(a) = k /\ Len(took) = k /\ DOMAIN took = 1..k
    <3>1. ASSUME NEW s \in [1..k -> Nat] PROVE Len(s) = k
      <4>1. s \in Seq(Nat) /\ DOMAIN s = 1..k
        BY <2>1
      <4> QED  BY <2>1, <4>1
    <3> QED  BY <2>3, <2>10, <3>1
  <2>12. /\ x \in Nat /\ x < k
         /\ 100 * Cardinality({i \in 1..k : a[i] <= a[x + 1]}) > y
         /\ 100 * Cardinality({i \in 1..k : a[i] < a[x + 1]}) <= y
    <3> DEFINE z == x + 1
               A == {i \in 1..k : a[i] <= a[z]}
               B == {i \in 1..k : a[i] < a[z]}
    <3>1. k \in Nat /\ a \in [1..k -> Int]
      BY <2>1, <2>10
    <3>2. y \in Nat /\ y < 100 * k
      <4>1. p = 50 \/ p = 95 \/ p = 99
        OBVIOUS
      <4> QED  BY <2>1, <4>1
    <3>3. Ordered(a, k)
      BY <2>10 DEF Ordered
    <3>4. x \in Nat /\ 100 * x <= y /\ y < 100 * (x + 1)
      <4> HIDE DEF y
      <4>1. /\ y \div 100 \in Nat /\ (y % 100) \in 0..(100 - 1)
            /\ y = 100 * (y \div 100) + (y % 100)
        BY ONLY <3>2, DivMod
      <4> QED  BY ONLY <3>2, <4>1 DEF x
    <3> HIDE DEF x, y
    <3>5. x < k
      BY <3>1, <3>2, <3>4
    <3>6. Cardinality(A) >= x + 1 /\ Cardinality(B) < x + 1
      <4>1. z \in 1..k
        BY <3>1, <3>4, <3>5
      <4> HIDE DEF z
      <4>2. Cardinality(A) >= z /\ Cardinality(B) < z
        BY ONLY <3>1, <3>3, <4>1, PlaceInOrder, ZenonT(60)
      <4> QED  BY <4>2 DEF z
    <3>7. Cardinality(A) \in Nat /\ Cardinality(B) \in Nat
      <4>1. IsFiniteSet(1..k) /\ A \in SUBSET (1..k) /\ B \in SUBSET (1..k)
        BY <3>1, FS_Interval
      <4> HIDE DEF A, B
      <4> QED  BY <4>1, FS_Subset, FS_CardinalityType
    <3> HIDE DEF A, B
    <3>8. 100 * Cardinality(A) > y /\ 100 * Cardinality(B) <= y
      BY <3>2, <3>4, <3>6, <3>7
    <3> QED  BY <3>4, <3>5, <3>8 DEF A, B
  <2>13. v = a[x + 1]
    <3>1. v = a[IF x >= k THEN k ELSE x + 1]
      BY <2>11 DEF Pct
    <3> HIDE DEF v, x, y
    <3> QED  BY <2>1, <2>12, <3>1
  <2> HIDE DEF v, x, y
  <2>14. ASSUME NEW T \in SUBSET (1..k)
         PROVE  Cardinality({i \in 1..k : g[i] \in T}) = Cardinality({i \in 1..k : h[i] \in T})
    <3>1. Cardinality({i \in 1..k : g[i] \in T}) = Cardinality(T)
      BY <2>1, SameCounts
    <3>2. Cardinality({i \in 1..k : h[i] \in T}) = Cardinality(T)
      BY <2>1, SameCounts
    <3> QED  BY <3>1, <3>2
  <2>15. Cardinality({i \in 1..k : took[i] <= v}) = Cardinality({i \in 1..k : a[i] <= v})
    <3> DEFINE T == {i \in 1..k : raw[i] <= v}
    <3>1. Cardinality({i \in 1..k : g[i] \in T}) = Cardinality({i \in 1..k : h[i] \in T})
      BY <2>14
    <3>2. {i \in 1..k : g[i] \in T} = {i \in 1..k : took[i] <= v}
      BY <2>5
    <3>3. {i \in 1..k : h[i] \in T} = {i \in 1..k : a[i] <= v}
      BY <2>9
    <3> QED  BY <3>1, <3>2, <3>3
  <2>16. Cardinality({i \in 1..k : took[i] < v}) = Cardinality({i \in 1..k : a[i] < v})
    <3> DEFINE T == {i \in 1..k : raw[i] < v}
    <3>1. Cardinality({i \in 1..k : g[i] \in T}) = Cardinality({i \in 1..k : h[i] \in T})
      BY <2>14
    <3>2. {i \in 1..k : g[i] \in T} = {i \in 1..k : took[i] < v}
      BY <2>5
    <3>3. {i \in 1..k : h[i] \in T} = {i \in 1..k : a[i] < v}
      BY <2>9
    <3> QED  BY <3>1, <3>2, <3>3
  <2>17. /\ 100 * Cardinality({i \in 1..k : took[i] <= v}) > y
         /\ 100 * Cardinality({i \in 1..k : took[i] < v}) <= y
    BY <2>12, <2>13, <2>15, <2>16
  <2>18. ~ (100 * Cardinality({i \in 1..k : took[i] <= v}) <= y)
    <3> DEFINE c == Cardinality({i \in 1..k : took[i] <= v})
    <3>1. c \in Nat /\ y \in Nat
      <4>1. IsFiniteSet(1..k) /\ {i \in 1..k : took[i] <= v} \in SUBSET (1..k)
        BY <2>1, FS_Interval
      <4>2. c \in Nat
        BY <4>1, FS_Subset, FS_CardinalityType
      <4>3. y \in Nat
        BY <2>1 DEF y
      <4> QED  BY <4>2, <4>3
    <3>2. 100 * c > y
      BY <2>17
    <3> HIDE DEF c
    <3>3. ~ (100 * c <= y)
      BY <3>1, <3>2
    <3> QED  BY <3>3 DEF c
  <2> QED  BY <2>6, <2>11, <2>17, <2>18 DEF v, took, y
<1> QED  BY <1>1, LatencyRing, PTL
=============================================================================
