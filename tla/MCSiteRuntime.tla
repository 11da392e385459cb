--------------------------- MODULE MCSiteRuntime ----------------------------
(***************************************************************************)
(* Values for SiteRuntime: four requests that find the first runtime and   *)
(* one that finds the second, at a rate of two tokens in 3 ticks.          *)
(***************************************************************************)
EXTENDS SiteRuntime, TLC

CONSTANTS r1, r2, r3, r4, r5

TwoRuntimes == 1..2
Found       == [r \in Requests |-> IF r = r5 THEN 2 ELSE 1]
Alike       == Permutations({r1, r2, r3, r4})
=============================================================================
