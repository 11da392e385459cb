---------------------------- MODULE MCHotReload -----------------------------
(***************************************************************************)
(* Values for the constants of HotReload.  One file, a.yml, for the runs   *)
(* with two admin requests; a second file, b.yml, for the runs in which    *)
(* a.yml is edited, broken and deleted while b.yml is left alone.          *)
(***************************************************************************)
EXTENDS HotReloadVersions, TLC

Port  == [scheme |-> FALSE, host |-> TRUE, port |-> "digits"]
Free  == [on |-> FALSE, rps |-> 0, burst |-> 0]
Zero  == [on |-> TRUE, rps |-> 0, burst |-> 0]
AutoSite(d, aliases, on) ==
  [domain |-> d, aliases |-> aliases, enabled |-> on, auto |-> TRUE,
   ups |-> {Port}, limit |-> Free]
A(on) == AutoSite("a.com", {}, on)
B(on) == AutoSite("b.com", {"w.com"}, on)
\* A rate limit of zero: Validate turns it down.
Invalid(on) == [A(on) EXCEPT !.limit = Zero]

OneName   == {"a.com"}
OneLower  == [n \in OneName |-> n]
OneRank   == [n \in OneName |-> 1]
OneFile   == {1}
OneFileOf == [n \in OneName |-> 1]
OneSites  == {A(on) : on \in BOOLEAN}
OneBlends == {Broken}
OnePosted == {A(TRUE)}
OneDisks  == {[f \in OneFile |-> A(TRUE)]}
OneWritten == OneSites \cup {Absent}

TwoNames  == {"a.com", "b.com", "w.com"}
TwoLower  == [n \in TwoNames |-> n]
TwoRank   == [n \in TwoNames |-> CASE n = "a.com" -> 1 [] n = "b.com" -> 2
                                   [] n = "w.com" -> 3]
TwoFiles  == {1, 2}
TwoFileOf == [n \in TwoNames |-> IF n = "a.com" THEN 1 ELSE 2]
TwoSites  == UNION {{A(on), B(on), Invalid(on)} : on \in BOOLEAN}
TwoDisks  == {[f \in TwoFiles |-> IF f = 1 THEN A(TRUE) ELSE B(TRUE)]}
TwoPosted == {A(TRUE), Invalid(TRUE)}
TwoWritten == {Broken}

Requesters == Permutations(Handlers)

\* Loads are told apart by what they hold and by who points to them: their numbers
\* and what nobody points to say nothing about what comes next.
Pointers == {<<"store", Watcher>>, <<"routes", Watcher>>}
              \cup ({"mine"} \X Procs) \cup ({"req"} \X Handlers)
Pointed(r) == CASE r[1] = "store"  -> store
                [] r[1] = "routes" -> routes
                [] r[1] = "mine"   -> mine[r[2]]
                [] r[1] = "req"    -> req[r[2]].gen
Loads == [r \in Pointers |-> [none   |-> Pointed(r) = 0,
                              holds  |-> heap[Pointed(r)],
                              shared |-> {q \in Pointers : Pointed(q) = Pointed(r)}]]
UpToNumbers ==
  <<fileVars, timer, pc, todo, flags, byDomain, runtimes, managed,
    [h \in Handlers |-> [req[h] EXCEPT !.gen = 0]], boundVars, past, toggled, Loads>>
=============================================================================
