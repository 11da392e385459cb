-------------------------- MODULE ArithmeticProofs --------------------------
(***************************************************************************)
(* Facts of arithmetic that the proofs share: division and remainders, and *)
(* SumFunction and SumFunctionOnSet of the community modules, for every    *)
(* function to the integers and every finite set of indices.               *)
(*                                                                         *)
(* A sum is a recursive function over the subsets of the index set.        *)
(* Induction over those is stated for a set of good subsets, so that no    *)
(* lemma takes an operator for a parameter.                                *)
(***************************************************************************)
EXTENDS Integers, FiniteSets, Functions, FiniteSetTheorems, WellFoundedInduction, TLAPS

-----------------------------------------------------------------------------
(* Division. *)

\* What a division and its remainder are.
LEMMA DivMod ==
  ASSUME NEW t \in Nat, NEW w \in Nat \ {0}
  PROVE /\ t % w \in 0..(w - 1) /\ t \div w \in Nat /\ t = w * (t \div w) + (t % w)
<1>1. t % w \in 0..(w - 1)
  OBVIOUS
<1>2. t \div w \in Nat
  OBVIOUS
<1>3. t = w * (t \div w) + (t % w)
  OBVIOUS
<1> QED BY <1>1, <1>2, <1>3

\* They are the only ones.
LEMMA DivUnique ==
  ASSUME NEW w \in Nat \ {0}, NEW a \in Nat, NEW b \in Nat,
         NEW m \in 0..(w - 1), NEW n \in 0..(w - 1),
         w * a + m = w * b + n
  PROVE  a = b /\ m = n
<1>1. ASSUME a > b PROVE FALSE
  <2>1. PICK d \in Nat : a = b + d /\ d >= 1
    <3>1. a - b \in Nat /\ a = b + (a - b) /\ a - b >= 1
      BY <1>1
    <3> QED BY <3>1
  <2>2. w * a = w * b + w * d
    BY <2>1
  <2>3. w * d >= w
    BY <2>1
  <2> DEFINE x == w * a
     y == w * b
     z == w * d
  <2>4. x \in Int /\ y \in Int /\ z \in Int
    BY <2>1
  <2> HIDE DEF x, y, z
  <2>5. x = y + z /\ z >= w /\ x + m = y + n
    BY <2>2, <2>3 DEF x, y, z
  <2> QED BY <2>4, <2>5
<1>2. ASSUME b > a PROVE FALSE
  <2>1. PICK d \in Nat : b = a + d /\ d >= 1
    <3>1. b - a \in Nat /\ b = a + (b - a) /\ b - a >= 1
      BY <1>2
    <3> QED BY <3>1
  <2>2. w * b = w * a + w * d
    BY <2>1
  <2>3. w * d >= w
    BY <2>1
  <2> DEFINE x == w * b
     y == w * a
     z == w * d
  <2>4. x \in Int /\ y \in Int /\ z \in Int
    BY <2>1
  <2> HIDE DEF x, y, z
  <2>5. x = y + z /\ z >= w /\ x + n = y + m
    BY <2>2, <2>3 DEF x, y, z
  <2> QED BY <2>4, <2>5
<1>3. a = b
  BY <1>1, <1>2
<1>4. w * a \in Int
  OBVIOUS
<1> QED
  BY <1>3, <1>4

\* The division of the next number: a counter modulo w, and its turns.
LEMMA NextDiv ==
  ASSUME NEW t \in Nat, NEW w \in Nat \ {0}
  PROVE  /\ (t + 1) % w = ((t % w) + 1) % w
         /\ (t % w) + 1 < w => (t + 1) % w = (t % w) + 1 /\ (t + 1) \div w = t \div w
         /\ (t % w) + 1 = w => (t + 1) % w = 0 /\ (t + 1) \div w = t \div w + 1
<1> DEFINE q == t \div w
           n == t % w
           p == (t + 1) \div w
           m == (t + 1) % w
<1>1. n \in 0..(w - 1) /\ q \in Nat /\ t = w * q + n
  BY DivMod
<1>2. m \in 0..(w - 1) /\ p \in Nat /\ t + 1 = w * p + m
  <2>1. t + 1 \in Nat
    OBVIOUS
  <2> QED BY <2>1, DivMod
<1> HIDE DEF q, n, p, m
<1>3. CASE n + 1 < w
  <2>1. n + 1 \in 0..(w - 1)
    BY <1>1, <1>3
  <2>2. w * p + m = w * q + (n + 1)
    BY <1>1, <1>2
  <2>3. p = q /\ m = n + 1
    BY <1>1, <1>2, <2>1, <2>2, DivUnique
  <2>4. (n + 1) % w = n + 1
    BY <1>1, <1>3
  <2> QED BY <1>3, <2>3, <2>4, <1>1 DEF q, n, p, m
<1>4. CASE n + 1 = w
  <2>1. w * (q + 1) = w * q + w
    BY <1>1
  <2>2. w * p + m = w * (q + 1) + 0
    <3> DEFINE x == w * q
    <3>1. x \in Int
      BY <1>1
    <3> HIDE DEF x
    <3>2. t = x + n /\ w * (q + 1) = x + w
      BY <1>1, <2>1 DEF x
    <3> QED BY <1>1, <1>2, <1>4, <3>1, <3>2
  <2>3. q + 1 \in Nat /\ 0 \in 0..(w - 1)
    BY <1>1
  <2>4. p = q + 1 /\ m = 0
    BY <1>1, <1>2, <2>2, <2>3, DivUnique
  <2>5. (n + 1) % w = 0
    BY <1>4
  <2> QED BY <1>4, <2>4, <2>5, <1>1 DEF q, n, p, m
<1> QED BY <1>1, <1>3, <1>4 DEF n, m, q, p

\* Two numbers of the same remainder are w apart or more.
LEMMA Apart ==
  ASSUME NEW w \in Nat \ {0}, NEW a \in Nat, NEW b \in Nat, NEW m \in 0..(w - 1),
         NEW d \in Nat, d > 0, d < w, w * b + m = w * a + m + d
  PROVE  FALSE
<1>1. CASE m + d < w
  <2>1. m + d \in 0..(w - 1) /\ w * b + m = w * a + (m + d)
    BY <1>1
  <2>2. m = m + d
    BY <2>1, DivUnique
  <2> QED  BY <2>2
<1>2. CASE m + d >= w
  <2>1. m + d - w \in 0..(w - 1) /\ a + 1 \in Nat
    BY <1>2
  <2>2. w * b + m = w * (a + 1) + (m + d - w)
    <3> DEFINE p == w * a
               q == w * b
    <3>1. p \in Int /\ q \in Int /\ w * (a + 1) = p + w
      OBVIOUS
    <3>2. q + m = p + m + d
      OBVIOUS
    <3> HIDE DEF p, q
    <3>3. q + m = (p + w) + (m + d - w)
      BY <3>1, <3>2
    <3> QED  BY <3>1, <3>3 DEF q
  <2>3. m = m + d - w
    BY <2>1, <2>2, DivUnique
  <2> QED  BY <2>3
<1> QED  BY <1>1, <1>2

\* Numbers closer than w with the same remainder are equal.
LEMMA SameSlot ==
  ASSUME NEW w \in Nat \ {0}, NEW t \in Nat, NEW u \in Nat,
         t % w = u % w, t - u < w, u - t < w
  PROVE  t = u
<1>1. ASSUME NEW x \in Nat, NEW y \in Nat, x % w = y % w, x < y, y - x < w
      PROVE  FALSE
  <2> DEFINE a == x \div w
             b == y \div w
             m == x % w
             d == y - x
  <2>1. /\ m \in 0..(w - 1) /\ a \in Nat /\ x = w * a + m
        /\ b \in Nat /\ y = w * b + m
    BY <1>1, DivMod
  <2>2. d \in Nat /\ d > 0 /\ d < w
    BY <1>1
  <2>3. w * b + m = w * a + m + d
    BY <1>1, <2>1
  <2> HIDE DEF a, b, m, d
  <2> QED  BY <2>1, <2>2, <2>3, Apart
<1>2. ~ (t < u) /\ ~ (u < t)
  BY <1>1
<1> QED  BY <1>2

\* A percentage is at most a hundred.
LEMMA Percentage ==
  ASSUME NEW e \in Nat, NEW r \in Nat \ {0}, e <= r
  PROVE  (100 * e) \div r \in 0..100
<1> DEFINE q == (100 * e) \div r
           m == (100 * e) % r
<1>1. q \in Nat /\ m \in 0..(r - 1) /\ 100 * e = r * q + m
  <2>1. 100 * e \in Nat
    OBVIOUS
  <2> QED  BY <2>1, DivMod
<1> HIDE DEF q, m
<1>2. ASSUME q > 100 PROVE FALSE
  <2>1. r * q >= r * 101
    <3>1. PICK k \in Nat : q = 101 + k
      <4>1. q - 101 \in Nat /\ q = 101 + (q - 101)
        BY <1>1, <1>2
      <4> QED  BY <4>1
    <3>2. r * q = r * 101 + r * k /\ r * k \in Nat
      BY <3>1
    <3> QED  BY <3>2
  <2>2. r * q \in Int /\ r * 101 = 101 * r
    BY <1>1
  <2> DEFINE x == r * q
  <2> HIDE DEF x
  <2>3. x \in Int /\ x >= 101 * r /\ 100 * e = x + m
    BY <1>1, <2>1, <2>2 DEF x
  <2> QED  BY <1>1, <2>3
<1> QED  BY <1>1, <1>2 DEF q

-----------------------------------------------------------------------------
(* Induction over finite sets. *)

\* What holds of the empty set, and of a set when it holds of that set less one
\* of its elements, holds of every finite set.
LEMMA FiniteInduction ==
  ASSUME NEW S, IsFiniteSet(S), NEW Good, {} \in Good,
         \A T \in SUBSET S : T # {} /\ (\A x \in T : T \ {x} \in Good) => T \in Good
  PROVE  S \in Good
<1> DEFINE Bad == (SUBSET S) \ Good
<1>1. IsWellFoundedOn(StrictSubsetOrdering(S), SUBSET S)
  BY FS_FiniteSubsetsOfFinite, FS_StrictSubsetOrderingWellFounded
<1>2. ASSUME Bad # {} PROVE FALSE
  <2>1. Bad \subseteq SUBSET S
    OBVIOUS
  <2>2. PICK T \in Bad : \A U \in Bad : ~ (<<U, T>> \in StrictSubsetOrdering(S))
    <3> HIDE DEF Bad
    <3> QED BY <1>1, <1>2, <2>1, WFMin
  <2>3. \A x \in T : <<T \ {x}, T>> \in StrictSubsetOrdering(S)
    BY DEF StrictSubsetOrdering
  <2>4. \A x \in T : T \ {x} \in Good
    BY <2>2, <2>3
  <2>5. T \in SUBSET S /\ T \notin Good
    OBVIOUS
  <2>6. T # {} => T \in Good
    BY <2>4, <2>5
  <2> QED BY <2>5, <2>6
<1> QED
  <2>1. S \notin Bad
    BY <1>2
  <2> QED BY <2>1

-----------------------------------------------------------------------------
(* The recursion. *)

\* The element that the recursion takes out of a set.
Taken(s) == CHOOSE x \in s : TRUE

\* The function that MapThenFoldSet recurs through.
IsIter(fun, S, it) ==
  it = [s \in SUBSET S |-> IF s = {} THEN 0 ELSE fun[Taken(s)] + it[s \ {Taken(s)}]]

\* Such a function, if there is one.
Iter(fun, S) == CHOOSE it : IsIter(fun, S, it)

\* The fold is what it computes.
LEMMA SumIsIter ==
  ASSUME NEW fun, NEW S
  PROVE  SumFunctionOnSet(fun, S) = Iter(fun, S)[S]
BY DEF SumFunctionOnSet, FoldFunctionOnSet, MapThenFoldSet, Iter, IsIter, Taken

\* One step of the recursion.
LEMMA IterAt ==
  ASSUME NEW fun, NEW S, NEW it, IsIter(fun, S, it), NEW s \in SUBSET S
  PROVE  it[s] = IF s = {} THEN 0 ELSE fun[Taken(s)] + it[s \ {Taken(s)}]
BY DEF IsIter

\* What is taken is in the set.
LEMMA TakenIsElement == \A s : s # {} => Taken(s) \in s
BY DEF Taken

\* Two such functions agree on the finite sets that both are defined on.
LEMMA IterUnique ==
  ASSUME NEW fun, NEW S, NEW T, NEW a, NEW b, IsIter(fun, S, a), IsIter(fun, T, b),
         NEW s, IsFiniteSet(s), s \subseteq S, s \subseteq T
  PROVE  a[s] = b[s]
<1> DEFINE Good == {u \in SUBSET s : a[u] = b[u]}
<1>1. {} \in Good
  BY IterAt
<1>2. ASSUME NEW u \in SUBSET s, u # {}, \A x \in u : u \ {x} \in Good
      PROVE  u \in Good
  <2>1. a[u \ {Taken(u)}] = b[u \ {Taken(u)}]
    BY <1>2, TakenIsElement
  <2>2. a[u] = fun[Taken(u)] + a[u \ {Taken(u)}]
    BY <1>2, IterAt
  <2>3. b[u] = fun[Taken(u)] + b[u \ {Taken(u)}]
    BY <1>2, IterAt
  <2> QED BY <2>1, <2>2, <2>3
<1> HIDE DEF Good
<1>3. s \in Good
  BY <1>1, <1>2, FiniteInduction
<1> QED BY <1>3 DEF Good

\* There is one for each finite set.
LEMMA IterExists ==
  ASSUME NEW fun, NEW S, IsFiniteSet(S)
  PROVE  \E it : IsIter(fun, S, it)
<1> DEFINE Good == {u \in SUBSET S : \A t \in SUBSET u : IsIter(fun, t, Iter(fun, t))}
<1>1. \A t : (\E it : IsIter(fun, t, it)) => IsIter(fun, t, Iter(fun, t))
  BY DEF Iter
<1>2. ASSUME NEW u \in SUBSET S, \A t \in SUBSET u : t # u => IsIter(fun, t, Iter(fun, t))
      PROVE  u \in Good
  <2> DEFINE step(s) == IF s = {} THEN 0
                        ELSE fun[Taken(s)] + Iter(fun, s \ {Taken(s)})[s \ {Taken(s)}]
             it == [s \in SUBSET u |-> step(s)]
  <2>1. \A s \in SUBSET u : IsFiniteSet(s)
    BY FS_Subset
  <2>2. ASSUME NEW s \in SUBSET u, s # u PROVE it[s] = Iter(fun, s)[s]
    <3>1. IsIter(fun, s, Iter(fun, s))
      BY <1>2, <2>2
    <3>2. Iter(fun, s)[s] =
            IF s = {} THEN 0 ELSE fun[Taken(s)] + Iter(fun, s)[s \ {Taken(s)}]
      BY <3>1, IterAt
    <3>3. s # {} => Iter(fun, s)[s \ {Taken(s)}]
                      = Iter(fun, s \ {Taken(s)})[s \ {Taken(s)}]
      <4> SUFFICES ASSUME s # {}
                   PROVE Iter(fun, s)[s \ {Taken(s)}]
                           = Iter(fun, s \ {Taken(s)})[s \ {Taken(s)}]
        OBVIOUS
      <4>1. s \ {Taken(s)} \in SUBSET u /\ s \ {Taken(s)} # u
        BY TakenIsElement
      <4>2. IsIter(fun, s \ {Taken(s)}, Iter(fun, s \ {Taken(s)}))
        BY <1>2, <4>1
      <4>3. IsFiniteSet(s \ {Taken(s)})
        BY <2>1, <4>1
      <4> QED BY <3>1, <4>2, <4>3, IterUnique
    <3>4. it[s] = step(s)
      OBVIOUS
    <3> QED BY <3>2, <3>3, <3>4
  <2>3. ASSUME NEW s \in SUBSET u, s # {}
        PROVE  it[s \ {Taken(s)}] = Iter(fun, s \ {Taken(s)})[s \ {Taken(s)}]
    <3>1. s \ {Taken(s)} \in SUBSET u /\ s \ {Taken(s)} # u
      BY <2>3, TakenIsElement
    <3> HIDE DEF it
    <3> QED BY <2>2, <3>1
  <2>4. \A s \in SUBSET u :
          step(s) = IF s = {} THEN 0 ELSE fun[Taken(s)] + it[s \ {Taken(s)}]
    <3> HIDE DEF it
    <3> QED BY <2>3
  <2>5. it = [s \in SUBSET u |-> IF s = {} THEN 0 ELSE fun[Taken(s)] + it[s \ {Taken(s)}]]
    BY <2>4, Zenon
  <2>6. IsIter(fun, u, it)
    BY <2>5, Zenon DEF IsIter
  <2>7. IsIter(fun, u, Iter(fun, u))
    BY <1>1, <2>6, Zenon
  <2> QED BY <1>2, <2>7
<1>3. {} \in Good
  BY <1>2
<1>4. ASSUME NEW u \in SUBSET S, u # {}, \A x \in u : u \ {x} \in Good
      PROVE  u \in Good
  <2>1. ASSUME NEW t \in SUBSET u, t # u PROVE IsIter(fun, t, Iter(fun, t))
    <3>1. PICK x \in u : t \subseteq u \ {x}
      BY <2>1
    <3> QED BY <1>4, <3>1
  <2> HIDE DEF Good
  <2> QED BY <1>2, <2>1
<1> HIDE DEF Good
<1>5. S \in Good
  BY <1>3, <1>4, FiniteInduction
<1> QED BY <1>5 DEF Good

-----------------------------------------------------------------------------
(* Sums. *)

\* A function's sum is that over its domain.
LEMMA SumOfDomain == \A fun : SumFunction(fun) = SumFunctionOnSet(fun, DOMAIN fun)
BY DEF SumFunction

\* Nothing adds up to nothing.
LEMMA SumEmpty == \A fun : SumFunctionOnSet(fun, {}) = 0
<1> SUFFICES ASSUME NEW fun PROVE SumFunctionOnSet(fun, {}) = 0
  OBVIOUS
<1>1. IsIter(fun, {}, Iter(fun, {}))
  BY FS_EmptySet, IterExists DEF Iter
<1> QED BY <1>1, IterAt, SumIsIter

\* A sum is the value of the element that is taken, and the sum of the rest.
LEMMA SumTaken ==
  ASSUME NEW fun, NEW S, IsFiniteSet(S), S # {}
  PROVE  SumFunctionOnSet(fun, S) = fun[Taken(S)] + SumFunctionOnSet(fun, S \ {Taken(S)})
<1>1. S \ {Taken(S)} \subseteq S /\ IsFiniteSet(S \ {Taken(S)})
  BY FS_Subset
<1>2. IsIter(fun, S, Iter(fun, S))
  BY IterExists DEF Iter
<1>3. IsIter(fun, S \ {Taken(S)}, Iter(fun, S \ {Taken(S)}))
  BY <1>1, IterExists DEF Iter
<1>4. Iter(fun, S)[S] = fun[Taken(S)] + Iter(fun, S)[S \ {Taken(S)}]
  BY <1>2, IterAt
<1>5. Iter(fun, S)[S \ {Taken(S)}] = Iter(fun, S \ {Taken(S)})[S \ {Taken(S)}]
  BY <1>1, <1>2, <1>3, IterUnique
<1> QED BY <1>4, <1>5, SumIsIter

\* A sum of integers is one.
LEMMA SumInt ==
  ASSUME NEW fun, NEW S, IsFiniteSet(S), \A x \in S : fun[x] \in Int
  PROVE  SumFunctionOnSet(fun, S) \in Int
<1> DEFINE Good == {u \in SUBSET S : SumFunctionOnSet(fun, u) \in Int}
<1>1. {} \in Good
  BY SumEmpty
<1>2. ASSUME NEW u \in SUBSET S, u # {}, \A x \in u : u \ {x} \in Good
      PROVE  u \in Good
  <2>1. IsFiniteSet(u) /\ Taken(u) \in u
    BY <1>2, FS_Subset, TakenIsElement
  <2>2. SumFunctionOnSet(fun, u) = fun[Taken(u)] + SumFunctionOnSet(fun, u \ {Taken(u)})
    BY <1>2, <2>1, SumTaken
  <2>3. SumFunctionOnSet(fun, u \ {Taken(u)}) \in Int /\ fun[Taken(u)] \in Int
    BY <1>2, <2>1
  <2> QED BY <2>2, <2>3
<1> HIDE DEF Good
<1>3. S \in Good
  BY <1>1, <1>2, FiniteInduction
<1> QED BY <1>3 DEF Good

\* The order in which the elements are taken does not matter.
LEMMA SumRemove ==
  ASSUME NEW fun, NEW S, IsFiniteSet(S), \A x \in S : fun[x] \in Int, NEW x \in S
  PROVE  SumFunctionOnSet(fun, S) = fun[x] + SumFunctionOnSet(fun, S \ {x})
<1> DEFINE Good ==
      {u \in SUBSET S :
         \A y \in u : SumFunctionOnSet(fun, u) = fun[y] + SumFunctionOnSet(fun, u \ {y})}
<1>1. {} \in Good
  OBVIOUS
<1>2. ASSUME NEW u \in SUBSET S, u # {}, \A y \in u : u \ {y} \in Good
      PROVE  u \in Good
  <2> SUFFICES ASSUME NEW y \in u
               PROVE  SumFunctionOnSet(fun, u) = fun[y] + SumFunctionOnSet(fun, u \ {y})
    OBVIOUS
  <2> DEFINE t == Taken(u)
  <2>1. IsFiniteSet(u) /\ t \in u
    BY <1>2, FS_Subset, TakenIsElement
  <2>2. SumFunctionOnSet(fun, u) = fun[t] + SumFunctionOnSet(fun, u \ {t})
    BY <1>2, <2>1, SumTaken
  <2> HIDE DEF t
  <2>3. CASE y = t
    BY <2>2, <2>3
  <2>4. CASE y # t
    <3> DEFINE rest == SumFunctionOnSet(fun, (u \ {t}) \ {y})
    <3>1. SumFunctionOnSet(fun, u \ {t}) = fun[y] + rest
      BY <1>2, <2>1, <2>4
    <3>2. (u \ {t}) \ {y} = (u \ {y}) \ {t}
      OBVIOUS
    <3>3. SumFunctionOnSet(fun, u \ {y}) = fun[t] + SumFunctionOnSet(fun, (u \ {y}) \ {t})
      BY <1>2, <2>1, <2>4
    <3>4. SumFunctionOnSet(fun, u \ {y}) = fun[t] + rest
      BY <3>2, <3>3
    <3>5. IsFiniteSet((u \ {t}) \ {y}) /\ \A z \in (u \ {t}) \ {y} : fun[z] \in Int
      BY <2>1, FS_Subset
    <3>6. rest \in Int
      BY <3>5, SumInt
    <3>7. fun[t] \in Int /\ fun[y] \in Int
      BY <2>1
    <3> HIDE DEF rest
    <3> QED BY <2>2, <3>1, <3>4, <3>6, <3>7
  <2> QED BY <2>3, <2>4
<1> HIDE DEF Good
<1>3. S \in Good
  BY <1>1, <1>2, FiniteInduction
<1> QED BY <1>3 DEF Good

\* Larger values, larger sum.
LEMMA SumMonotone ==
  ASSUME NEW f, NEW g, NEW S, IsFiniteSet(S),
         \A x \in S : f[x] \in Int /\ g[x] \in Int /\ f[x] <= g[x]
  PROVE  SumFunctionOnSet(f, S) <= SumFunctionOnSet(g, S)
<1> DEFINE Good == {u \in SUBSET S : SumFunctionOnSet(f, u) <= SumFunctionOnSet(g, u)}
<1>1. {} \in Good
  BY SumEmpty
<1>2. ASSUME NEW u \in SUBSET S, u # {}, \A x \in u : u \ {x} \in Good
      PROVE  u \in Good
  <2> DEFINE t == Taken(u)
  <2>1. IsFiniteSet(u) /\ IsFiniteSet(u \ {t}) /\ t \in u
    BY <1>2, FS_Subset, TakenIsElement
  <2>2. /\ SumFunctionOnSet(f, u) = f[t] + SumFunctionOnSet(f, u \ {t})
        /\ SumFunctionOnSet(g, u) = g[t] + SumFunctionOnSet(g, u \ {t})
    BY <1>2, <2>1, SumTaken
  <2> HIDE DEF t
  <2>3. SumFunctionOnSet(f, u \ {t}) <= SumFunctionOnSet(g, u \ {t})
    BY <1>2, <2>1
  <2>4. SumFunctionOnSet(f, u \ {t}) \in Int /\ SumFunctionOnSet(g, u \ {t}) \in Int
    BY <2>1, SumInt
  <2>5. f[t] \in Int /\ g[t] \in Int /\ f[t] <= g[t]
    BY <2>1
  <2>6. SumFunctionOnSet(f, u) <= SumFunctionOnSet(g, u)
    BY <2>2, <2>3, <2>4, <2>5
  <2> QED BY <2>6
<1> HIDE DEF Good
<1>3. S \in Good
  BY <1>1, <1>2, FiniteInduction
<1> QED BY <1>3 DEF Good

\* The same values under other indices, the same sum.
LEMMA SumReindexed ==
  ASSUME NEW f, NEW g, NEW S, IsFiniteSet(S), NEW h,
         \A x, y \in S : h[x] = h[y] => x = y,
         \A x \in S : f[x] \in Int /\ f[x] = g[h[x]]
  PROVE  SumFunctionOnSet(f, S) = SumFunctionOnSet(g, {h[x] : x \in S})
<1> DEFINE Image(u) == {h[x] : x \in u}
           Good == {u \in SUBSET S :
                      IsFiniteSet(Image(u)) /\ SumFunctionOnSet(f, u) = SumFunctionOnSet(g, Image(u))}
<1>1. {} \in Good
  <2>1. Image({}) = {}
    OBVIOUS
  <2> QED BY <2>1, SumEmpty, FS_EmptySet
<1>2. ASSUME NEW u \in SUBSET S, u # {}, \A x \in u : u \ {x} \in Good
      PROVE  u \in Good
  <2> DEFINE t == Taken(u)
  <2>1. IsFiniteSet(u) /\ t \in u
    BY <1>2, FS_Subset, TakenIsElement
  <2>2. SumFunctionOnSet(f, u) = f[t] + SumFunctionOnSet(f, u \ {t})
    BY <1>2, <2>1, SumTaken
  <2> HIDE DEF t
  <2>3. u \ {t} \in Good
    BY <1>2, <2>1
  <2>4. Image(u \ {t}) = Image(u) \ {h[t]} /\ h[t] \in Image(u)
    BY <2>1
  <2>5. IsFiniteSet(Image(u))
    <3>1. Image(u) = Image(u \ {t}) \cup {h[t]}
      BY <2>4
    <3>2. IsFiniteSet(Image(u \ {t}))
      BY <2>3
    <3> HIDE DEF Image
    <3>3. IsFiniteSet(Image(u \ {t}) \cup {h[t]})
      BY <3>2, FS_AddElement
    <3> QED BY <3>1, <3>3
  <2>6. \A i \in Image(u) : g[i] \in Int
    OBVIOUS
  <2>7. SumFunctionOnSet(g, Image(u)) = g[h[t]] + SumFunctionOnSet(g, Image(u) \ {h[t]})
    BY <2>4, <2>5, <2>6, SumRemove
  <2>8. f[t] = g[h[t]]
    BY <2>1
  <2>9. SumFunctionOnSet(f, u \ {t}) = SumFunctionOnSet(g, Image(u \ {t}))
    BY <2>3
  <2>10. SumFunctionOnSet(f, u) = SumFunctionOnSet(g, Image(u))
    BY <2>2, <2>4, <2>7, <2>8, <2>9
  <2> QED BY <2>5, <2>10
<1> HIDE DEF Good
<1>3. S \in Good
  BY <1>1, <1>2, FiniteInduction
<1> QED BY <1>3 DEF Good

\* Functions that agree on the indices have the same sum.
LEMMA SumEqual ==
  ASSUME NEW f, NEW g, NEW S, IsFiniteSet(S), \A x \in S : f[x] \in Int /\ f[x] = g[x]
  PROVE  SumFunctionOnSet(f, S) = SumFunctionOnSet(g, S)
<1>1. SumFunctionOnSet(f, S) <= SumFunctionOnSet(g, S)
  BY SumMonotone
<1>2. SumFunctionOnSet(g, S) <= SumFunctionOnSet(f, S)
  BY SumMonotone
<1>3. SumFunctionOnSet(f, S) \in Int /\ SumFunctionOnSet(g, S) \in Int
  BY SumInt
<1> QED  BY <1>1, <1>2, <1>3

\* Indices of value zero add nothing.
LEMMA SumRestricted ==
  ASSUME NEW f, NEW S, IsFiniteSet(S), \A x \in S : f[x] \in Int,
         NEW T \in SUBSET S, \A x \in S \ T : f[x] = 0
  PROVE  SumFunctionOnSet(f, S) = SumFunctionOnSet(f, T)
<1> DEFINE Good ==
      {u \in SUBSET S : SumFunctionOnSet(f, u) = SumFunctionOnSet(f, u \cap T)}
<1>1. {} \in Good
  OBVIOUS
<1>2. ASSUME NEW u \in SUBSET S, u # {}, \A x \in u : u \ {x} \in Good
      PROVE  u \in Good
  <2>1. PICK x \in u : TRUE
    BY <1>2
  <2>2. IsFiniteSet(u) /\ IsFiniteSet(u \cap T)
    BY FS_Subset
  <2>3. SumFunctionOnSet(f, u) = f[x] + SumFunctionOnSet(f, u \ {x})
    BY <2>2, SumRemove
  <2>4. SumFunctionOnSet(f, u \ {x}) = SumFunctionOnSet(f, (u \ {x}) \cap T)
    BY <1>2
  <2>5. CASE x \in T
    <3>1. (u \ {x}) \cap T = (u \cap T) \ {x} /\ x \in u \cap T
      BY <2>5
    <3>2. SumFunctionOnSet(f, u \cap T) = f[x] + SumFunctionOnSet(f, (u \cap T) \ {x})
      BY <2>2, <3>1, SumRemove
    <3>3. SumFunctionOnSet(f, u) = SumFunctionOnSet(f, u \cap T)
      BY <2>3, <2>4, <3>1, <3>2
    <3> QED  BY <3>3
  <2>6. CASE x \notin T
    <3>1. (u \ {x}) \cap T = u \cap T /\ f[x] = 0
      BY <2>6
    <3>2. SumFunctionOnSet(f, u \ {x}) \in Int
      <4>1. IsFiniteSet(u \ {x})
        BY <2>2, FS_Subset
      <4> QED  BY <4>1, SumInt
    <3>3. SumFunctionOnSet(f, u) = SumFunctionOnSet(f, u \ {x})
      BY <2>3, <3>1, <3>2
    <3>4. SumFunctionOnSet(f, u \ {x}) = SumFunctionOnSet(f, u \cap T)
      BY <2>4, <3>1, Zenon
    <3> QED  BY <3>3, <3>4
  <2> QED  BY <2>5, <2>6
<1>3. S \in Good
  <2>1. \A u \in SUBSET S : u # {} /\ (\A x \in u : u \ {x} \in Good) => u \in Good
    BY <1>2
  <2> HIDE DEF Good
  <2> QED  BY <1>1, <2>1, FiniteInduction
<1>4. S \cap T = T
  OBVIOUS
<1> QED  BY <1>3, <1>4

\* A factor can be taken out.
LEMMA SumScaled ==
  ASSUME NEW f, NEW g, NEW c \in Int, NEW S, IsFiniteSet(S),
         \A x \in S : f[x] \in Int /\ g[x] = c * f[x]
  PROVE  SumFunctionOnSet(g, S) = c * SumFunctionOnSet(f, S)
<1> DEFINE Good ==
      {u \in SUBSET S : SumFunctionOnSet(g, u) = c * SumFunctionOnSet(f, u)}
<1>1. {} \in Good
  BY SumEmpty
<1>2. ASSUME NEW u \in SUBSET S, u # {}, \A x \in u : u \ {x} \in Good
      PROVE  u \in Good
  <2>1. PICK x \in u : TRUE
    BY <1>2
  <2>2. IsFiniteSet(u) /\ IsFiniteSet(u \ {x})
    BY FS_Subset
  <2> DEFINE a == f[x]
             b == SumFunctionOnSet(f, u \ {x})
  <2>3. SumFunctionOnSet(f, u) = a + b
    BY <2>2, SumRemove
  <2>4. SumFunctionOnSet(g, u) = g[x] + SumFunctionOnSet(g, u \ {x})
    BY <2>2, SumRemove
  <2>5. SumFunctionOnSet(g, u \ {x}) = c * b /\ g[x] = c * a
    BY <1>2
  <2>6. a \in Int /\ b \in Int
    BY <2>2, SumInt
  <2> HIDE DEF a, b
  <2>7. c * (a + b) = c * a + c * b
    BY <2>6
  <2>8. SumFunctionOnSet(g, u) = c * SumFunctionOnSet(f, u)
    BY <2>3, <2>4, <2>5, <2>7
  <2> QED  BY <2>8
<1>3. \A u \in SUBSET S : u # {} /\ (\A x \in u : u \ {x} \in Good) => u \in Good
  BY <1>2
<1>4. S \in Good
  <2> HIDE DEF Good
  <2> QED  BY <1>1, <1>3, FiniteInduction
<1> QED  BY <1>4

\* The size of a union of disjoint finite sets is the sum of their sizes.
LEMMA SumOfSizes ==
  ASSUME NEW f, NEW A, NEW S, IsFiniteSet(S),
         \A x \in S : IsFiniteSet(A[x]) /\ f[x] = Cardinality(A[x]),
         \A x, y \in S : x # y => A[x] \cap A[y] = {}
  PROVE  /\ IsFiniteSet(UNION {A[x] : x \in S})
         /\ Cardinality(UNION {A[x] : x \in S}) = SumFunctionOnSet(f, S)
<1> DEFINE U(u) == UNION {A[x] : x \in u}
           Good == {u \in SUBSET S :
                      IsFiniteSet(U(u)) /\ Cardinality(U(u)) = SumFunctionOnSet(f, u)}
<1>1. {} \in Good
  <2>1. U({}) = {}
    OBVIOUS
  <2>2. IsFiniteSet(U({})) /\ Cardinality(U({})) = 0
    BY <2>1, FS_EmptySet
  <2> QED  BY <2>2, SumEmpty
<1>2. ASSUME NEW u \in SUBSET S, u # {}, \A x \in u : u \ {x} \in Good
      PROVE  u \in Good
  <2>1. PICK x \in u : TRUE
    BY <1>2
  <2> DEFINE v == u \ {x}
  <2>2. IsFiniteSet(u)
    BY FS_Subset
  <2>3. \A y \in S : f[y] \in Int
    BY FS_CardinalityType
  <2>4. SumFunctionOnSet(f, u) = f[x] + SumFunctionOnSet(f, v)
    BY <2>2, <2>3, SumRemove
  <2>5. IsFiniteSet(U(v)) /\ Cardinality(U(v)) = SumFunctionOnSet(f, v)
    BY <1>2
  <2>6. IsFiniteSet(A[x]) /\ f[x] = Cardinality(A[x])
    OBVIOUS
  <2>7. U(u) = A[x] \cup U(v) /\ A[x] \cap U(v) = {}
    <3>1. U(u) = A[x] \cup U(v)
      OBVIOUS
    <3>2. \A y \in v : A[x] \cap A[y] = {}
      OBVIOUS
    <3> QED  BY <3>1, <3>2
  <2> HIDE DEF U, v
  <2>8. IsFiniteSet(U(u)) /\ Cardinality(U(u)) = f[x] + Cardinality(U(v))
    <3>1. /\ IsFiniteSet(A[x] \cup U(v))
          /\ Cardinality(A[x] \cup U(v))
               = Cardinality(A[x]) + Cardinality(U(v)) - Cardinality(A[x] \cap U(v))
      BY <2>5, <2>6, FS_Union
    <3>2. Cardinality(A[x] \cap U(v)) = 0
      BY <2>7, FS_EmptySet
    <3>3. Cardinality(A[x]) \in Int /\ Cardinality(U(v)) \in Int
      BY <2>5, <2>6, FS_CardinalityType
    <3> QED  BY <2>6, <2>7, <3>1, <3>2, <3>3
  <2> QED  BY <2>4, <2>5, <2>8
<1>3. \A u \in SUBSET S : u # {} /\ (\A x \in u : u \ {x} \in Good) => u \in Good
  BY <1>2
<1>4. S \in Good
  <2> HIDE DEF Good
  <2> QED  BY <1>1, <1>3, FiniteInduction
<1> QED  BY <1>4

\* A sum of natural numbers is one.
LEMMA SumNat ==
  ASSUME NEW f, NEW S, IsFiniteSet(S), \A x \in S : f[x] \in Nat
  PROVE  SumFunctionOnSet(f, S) \in Nat
<1> DEFINE z == [x \in S |-> 0]
<1>1. SumFunctionOnSet(z, S) = 0
  <2>1. SumFunctionOnSet(z, S) = SumFunctionOnSet(z, {})
    BY SumRestricted
  <2> QED  BY <2>1, SumEmpty
<1>2. \A x \in S : z[x] \in Int /\ f[x] \in Int /\ z[x] <= f[x]
  OBVIOUS
<1> HIDE DEF z
<1>3. SumFunctionOnSet(z, S) <= SumFunctionOnSet(f, S)
  BY <1>2, SumMonotone
<1>4. SumFunctionOnSet(f, S) \in Int
  BY <1>2, SumInt
<1> QED  BY <1>1, <1>3, <1>4

-----------------------------------------------------------------------------
(* Sorting. *)

\* An injection of a finite set into one of its size is a bijection.
LEMMA InjectionIsBijection ==
  ASSUME NEW n \in Nat, NEW f \in Injection(1..n, 1..n)
  PROVE  f \in Bijection(1..n, 1..n)
<1>1. IsFiniteSet(1..n)
  BY FS_Interval
<1>2. f \in Surjection(1..n, 1..n)
  BY <1>1, FS_Injection
<1> QED  BY <1>2 DEF Bijection

\* As many indices are mapped into a set as the set has elements.
LEMMA SameCounts ==
  ASSUME NEW n \in Nat, NEW f \in Bijection(1..n, 1..n), NEW T \in SUBSET (1..n)
  PROVE  Cardinality({i \in 1..n : f[i] \in T}) = Cardinality(T)
<1> DEFINE A == {i \in 1..n : f[i] \in T}
           g == [i \in A |-> f[i]]
<1>1. /\ f \in [1..n -> 1..n]
      /\ \A i, j \in 1..n : f[i] = f[j] => i = j
      /\ \A t \in 1..n : \E i \in 1..n : f[i] = t
  BY DEF Bijection, Injection, Surjection, IsInjective
<1>2. IsFiniteSet(1..n)
  BY FS_Interval
<1>3. IsFiniteSet(A)
  BY <1>2, FS_Subset
<1>4. g \in [A -> T]
  OBVIOUS
<1>5. \A i, j \in A : g[i] = g[j] => i = j
  BY <1>1
<1>6. \A t \in T : \E i \in A : g[i] = t
  BY <1>1
<1> HIDE DEF A, g
<1>7. g \in Bijection(A, T)
  BY <1>4, <1>5, <1>6 DEF Bijection, Injection, Surjection, IsInjective
<1>8. Cardinality(T) = Cardinality(A)
  BY <1>3, <1>7, FS_Bijection DEF ExistsBijection
<1> QED  BY <1>8 DEF A

\* Numbers can be sorted: each goes to the place of its rank, which is how many
\* come before it, those equal to it being taken in their order.
LEMMA SortingOrder ==
  ASSUME NEW n \in Nat, NEW s \in [1..n -> Int]
  PROVE  \E p \in Bijection(1..n, 1..n) :
           \A i, j \in 1..n : i < j => s[p[i]] <= s[p[j]]
<1> DEFINE Before(j, i) == s[j] < s[i] \/ (s[j] = s[i] /\ j <= i)
           Upto(i) == {j \in 1..n : Before(j, i)}
           rank == [i \in 1..n |-> Cardinality(Upto(i))]
<1>0. IsFiniteSet(1..n) /\ Cardinality(1..n) = n
  BY FS_Interval
<1>1. \A i \in 1..n : s[i] \in Int
  OBVIOUS
<1>2. \A i, j \in 1..n : i # j => (Before(i, j) <=> ~ Before(j, i))
  BY <1>1
<1>3. \A i, j, k \in 1..n : Before(i, j) /\ Before(j, k) => Before(i, k)
  BY <1>1
<1>4. \A i \in 1..n : Before(i, i)
  OBVIOUS
<1> HIDE DEF Before
<1>5. \A i \in 1..n : Upto(i) \in SUBSET (1..n) /\ i \in Upto(i)
  BY <1>4
<1>6. \A i \in 1..n : /\ IsFiniteSet(Upto(i)) /\ Cardinality(Upto(i)) \in Nat
                      /\ Cardinality(Upto(i)) <= n /\ Cardinality(Upto(i)) # 0
  <2> SUFFICES ASSUME NEW i \in 1..n
               PROVE  /\ IsFiniteSet(Upto(i)) /\ Cardinality(Upto(i)) \in Nat
                      /\ Cardinality(Upto(i)) <= n /\ Cardinality(Upto(i)) # 0
    OBVIOUS
  <2> DEFINE U == Upto(i)
  <2>1. U \in SUBSET (1..n) /\ i \in U
    BY <1>5
  <2> HIDE DEF U
  <2>2. IsFiniteSet(U) /\ Cardinality(U) <= n
    <3>1. IsFiniteSet(U) /\ Cardinality(U) <= Cardinality(1..n)
      BY ONLY <1>0, <2>1, FS_Subset
    <3> QED  BY <1>0, <3>1
  <2>3. Cardinality(U) \in Nat /\ Cardinality(U) # 0
    <3>1. Cardinality(U) \in Nat
      BY <2>2, FS_CardinalityType
    <3>2. Cardinality(U) = 0 <=> U = {}
      BY <2>2, FS_EmptySet
    <3> QED  BY <2>1, <3>1, <3>2
  <2> QED  BY <2>2, <2>3 DEF U
<1>7. \A i, j \in 1..n : i # j /\ Before(i, j) => rank[i] < rank[j]
  <2> SUFFICES ASSUME NEW i \in 1..n, NEW j \in 1..n, i # j, Before(i, j)
               PROVE  Cardinality(Upto(i)) < Cardinality(Upto(j))
    OBVIOUS
  <2>1. Upto(i) \in SUBSET Upto(j)
    BY <1>3
  <2>2. j \notin Upto(i)
    BY <1>2
  <2>3. j \in Upto(j)
    BY <1>5
  <2>4. Cardinality(Upto(i)) \in Nat /\ Cardinality(Upto(j)) \in Nat /\ IsFiniteSet(Upto(j))
    BY <1>6
  <2> HIDE DEF Upto
  <2>5. Cardinality(Upto(i)) <= Cardinality(Upto(j))
    BY <2>1, <2>4, FS_Subset
  <2>6. Cardinality(Upto(i)) # Cardinality(Upto(j))
    BY <2>1, <2>2, <2>3, <2>4, FS_Subset
  <2> QED  BY <2>4, <2>5, <2>6
<1>8. rank \in [1..n -> 1..n]
  <2>1. \A i \in 1..n : Cardinality(Upto(i)) \in 1..n
    BY <1>6
  <2> HIDE DEF Upto
  <2> QED  BY <2>1
<1> HIDE DEF Upto, rank
<1>9. \A i, j \in 1..n : rank[i] = rank[j] => i = j
  <2> SUFFICES ASSUME NEW i \in 1..n, NEW j \in 1..n, i # j, rank[i] = rank[j] PROVE FALSE
    OBVIOUS
  <2>1. rank[i] \in Int /\ rank[j] \in Int
    BY <1>8
  <2>2. rank[i] < rank[j] \/ rank[j] < rank[i]
    BY <1>2, <1>7
  <2> QED  BY <2>1, <2>2
<1>10. rank \in Injection(1..n, 1..n)
  BY <1>8, <1>9 DEF Injection, IsInjective
<1>11. \A k \in 1..n : \E i \in 1..n : rank[i] = k
  BY <1>10, InjectionIsBijection DEF Bijection, Surjection
<1> DEFINE p == [k \in 1..n |-> CHOOSE i \in 1..n : rank[i] = k]
<1>12. \A k \in 1..n : p[k] \in 1..n /\ rank[p[k]] = k
  BY <1>11
<1>13. p \in [1..n -> 1..n]
  BY <1>12
<1> HIDE DEF p
<1>14. \A i, j \in 1..n : p[i] = p[j] => i = j
  BY <1>12
<1>15. p \in Bijection(1..n, 1..n)
  BY <1>13, <1>14, InjectionIsBijection DEF Injection, IsInjective
<1>16. ASSUME NEW i \in 1..n, NEW j \in 1..n, i < j PROVE s[p[i]] <= s[p[j]]
  <2>1. /\ p[i] \in 1..n /\ p[j] \in 1..n /\ p[i] # p[j]
        /\ rank[p[i]] = i /\ rank[p[j]] = j
    BY <1>12, <1>14, <1>16
  <2>2. ~ (rank[p[j]] < rank[p[i]])
    BY <1>16, <2>1
  <2>3. ~ Before(p[j], p[i])
    BY <1>7, <2>1, <2>2
  <2>4. s[p[i]] \in Int /\ s[p[j]] \in Int
    BY <1>1, <2>1
  <2> QED  BY <2>3, <2>4 DEF Before
<1> QED  BY <1>15, <1>16

\* The first n numbers of a are in ascending order.
Ordered(a, n) == \A i, j \in 1..n : i < j => a[i] <= a[j]

\* The m-th number of a sorted sequence: at least m numbers are no greater, and fewer
\* than m are smaller.
LEMMA PlaceInOrder ==
  ASSUME NEW n \in Nat, NEW a \in [1..n -> Int], Ordered(a, n),
         NEW m \in 1..n
  PROVE  /\ Cardinality({i \in 1..n : a[i] <= a[m]}) >= m
         /\ Cardinality({i \in 1..n : a[i] < a[m]}) < m
<1> DEFINE A == {i \in 1..n : a[i] <= a[m]}
           B == {i \in 1..n : a[i] < a[m]}
<1>1. \A i \in 1..n : a[i] \in Int
  OBVIOUS
<1>2. m \in Nat /\ m >= 1 /\ m <= n /\ a[m] \in Int
  BY <1>1
<1>3. 1..m \in SUBSET A
  <2> SUFFICES ASSUME NEW i \in 1..m PROVE i \in 1..n /\ a[i] <= a[m]
    OBVIOUS
  <2>1. i \in 1..n /\ (i = m \/ i < m)
    BY <1>2
  <2> QED  BY <1>2, <2>1 DEF Ordered
<1>4. B \in SUBSET (1..(m - 1))
  <2> SUFFICES ASSUME NEW i \in 1..n, a[i] < a[m] PROVE i \in 1..(m - 1)
    OBVIOUS
  <2>1. a[i] \in Int
    BY <1>1
  <2>2. i # m /\ ~ (m < i)
    <3>1. i # m
      BY <1>2, <2>1
    <3>2. m < i => a[m] <= a[i]
      BY <1>2 DEF Ordered
    <3> QED  BY <1>2, <2>1, <3>1, <3>2
  <2> QED  BY <1>2, <2>2
<1>5. IsFiniteSet(1..n) /\ IsFiniteSet(1..(m - 1)) /\ Cardinality(1..(m - 1)) = m - 1
      /\ Cardinality(1..m) = m
  <2>1. IsFiniteSet(1..n)
    BY FS_Interval
  <2>2. IsFiniteSet(1..(m - 1)) /\ Cardinality(1..(m - 1)) = m - 1
    <3>1. 1 \in Int /\ m - 1 \in Int /\ (IF 1 > m - 1 THEN 0 ELSE (m - 1) - 1 + 1) = m - 1
      BY <1>2
    <3> QED  BY <3>1, FS_Interval
  <2>3. Cardinality(1..m) = m
    <3>1. 1 \in Int /\ m \in Int /\ (IF 1 > m THEN 0 ELSE m - 1 + 1) = m
      BY <1>2
    <3> QED  BY <3>1, FS_Interval
  <2> QED  BY <2>1, <2>2, <2>3
<1>6. IsFiniteSet(A)
  BY <1>5, FS_Subset
<1> HIDE DEF A, B
<1>7. m <= Cardinality(A) /\ Cardinality(A) \in Nat
  <2>1. Cardinality(1..m) <= Cardinality(A) /\ Cardinality(A) \in Nat
    BY ONLY <1>3, <1>6, FS_Subset, FS_CardinalityType
  <2> QED  BY ONLY <1>5, <2>1
<1>8. Cardinality(B) <= m - 1 /\ Cardinality(B) \in Nat
  <2>1. IsFiniteSet(B) /\ Cardinality(B) <= Cardinality(1..(m - 1))
    BY ONLY <1>4, <1>5, FS_Subset
  <2>2. Cardinality(B) \in Nat
    BY ONLY <2>1, FS_CardinalityType
  <2> QED  BY ONLY <1>5, <2>1, <2>2
<1>9. Cardinality(A) >= m /\ Cardinality(B) < m
  BY <1>2, <1>7, <1>8
<1> QED  BY <1>9 DEF A, B
=============================================================================
