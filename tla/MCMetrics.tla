----------------------------- MODULE MCMetrics ------------------------------
(***************************************************************************)
(* Values for Metrics: a ring of three seconds and a ring of two           *)
(* latencies, which four requests fill more than once.                     *)
(***************************************************************************)
EXTENDS Metrics

CONSTANTS siteA, siteB, r1, r2, r3, r4

Four      == {r1, r2, r3, r4}
TheDomain == [r \in Four |-> IF r = r4 THEN siteB ELSE siteA]
TheStatus == [r \in Four |-> CASE r = r1 -> 200 [] r = r2 -> 502 [] OTHER -> 429]
Took      == [r \in Four |-> CASE r = r1 -> 1 [] r = r2 -> 7 [] r = r3 -> 4 [] OTHER -> 0]
Listed    == {[domain |-> d, enabled |-> TRUE] : d \in {siteA, siteB}}
=============================================================================
