------------------------------ MODULE MCProxy ------------------------------
(***************************************************************************)
(* Values for Proxy: a site whose domain is written with a capital and     *)
(* that nobody touches, beside a file that is rewritten, limited, given a  *)
(* port that only url.Parse rejects, and removed; and, for LimitedByOwnSite*)
(* two sites that claim a common name.                                     *)
(***************************************************************************)
EXTENDS Proxy, TLC

CONSTANTS A, a, b, c, r1, r2, r3

AllNames == {A, a, b, c}
Lowered  == [n \in AllNames |-> IF n = A THEN a ELSE n]
ByteRank == (A :> 0) @@ (a :> 1) @@ (b :> 2) @@ (c :> 3)
TwoFiles == {1, 2}
TheFileOf == [n \in AllNames |-> IF n \in {A, a} THEN 1 ELSE 2]

Good == [scheme |-> FALSE, host |-> TRUE, port |-> "digits"]
Junk == [scheme |-> FALSE, host |-> TRUE, port |-> "other"]

Free     == [on |-> FALSE, rps |-> 0, burst |-> 0]
Metered  == [on |-> TRUE, rps |-> 1, burst |-> 0]

Of(domain, aliases, enabled, up, limit) ==
  [domain |-> domain, aliases |-> aliases, enabled |-> enabled, auto |-> FALSE,
   ups |-> {up}, limit |-> limit]

\* One site untouched, one that comes, changes and goes.
Kept(on)    == Of(A, {b}, on, Good, Metered)
Rewritten(on, up, limit) == Of(c, {}, on, up, limit)
SomeSites ==
  {Kept(on) : on \in BOOLEAN}
    \cup {Rewritten(on, Good, Metered) : on \in BOOLEAN}
    \cup {Rewritten(on, Junk, Free) : on \in BOOLEAN}

SomeLoads ==
  {[f \in TwoFiles |-> IF f = 1 THEN Kept(TRUE) ELSE s] :
     s \in {NoSite, Rewritten(TRUE, Good, Metered), Rewritten(TRUE, Junk, Free)}}

KeptFile == {1}

Goroutines == Permutations(Reloaders)
Hosts    == [r \in Requests |-> IF r = r3 THEN c ELSE IF r = r2 THEN b ELSE a]

\* Two sites that claim b: the one sorted last has it in both tables.
First(on)  == Of(b, {a}, on, Good, Free)
Second(on) == Of(c, {b}, on, Good, Metered)
SharingSites == {First(on) : on \in BOOLEAN} \cup {Second(on) : on \in BOOLEAN}
SharingLoad  == {[f \in TwoFiles |-> IF f = 1 THEN First(TRUE) ELSE Second(TRUE)]}

\* Bound: of the three requests any two arrive, so that two meet at the site that
\* is kept, or one there and one at the site that is rewritten and removed.
TwoArrive ==
  Init /\ [][Next /\ Cardinality({r \in Requests : pc'[r] # "new"}) <= 2]_vars
=============================================================================
