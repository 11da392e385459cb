----------------------------- MODULE MCService ------------------------------
(***************************************************************************)
(* Values for Service, and the two scenes that its run plays: one in which *)
(* admins log in, config.yml is edited and containers are made anew while  *)
(* no listener dies, and one in which listeners die, signals come and      *)
(* requests are drained while nobody can log in.                           *)
(***************************************************************************)
EXTENDS Service

CONSTANTS b1, pw, other, r1, r2

TypedNames == {"Ann", "a.b"}
Lowered    == [n \in TypedNames |-> IF n = "Ann" THEN "ann" ELSE n]
WithDot    == {"a.b"}
OnlyPw     == {pw}

Config(users, password, key) == [admins |-> [u \in users |-> password], secret |-> key, email |-> TRUE]
Locked == Config({"ann"}, other, Unset)
AllConfigs ==
  {Config({"ann", "a.b"}, pw, Unset), Config({"ann"}, pw, Own),
   Config({"ann"}, pw, Weak), BadConfig, Locked, Config({"a.b"}, pw, Unset),
   [Config({"ann"}, pw, Unset) EXCEPT !.email = FALSE]}
OneConfig  == {Config({"ann", "a.b"}, pw, Unset)}

TwoRequests == {r1, r2}
TwoAt       == [r \in TwoRequests |-> IF r = r1 THEN "https" ELSE "admin"]
NoRequests  == {}
NoAt        == [r \in NoRequests |-> "http"]

LoginScene ==
  /\ clock = 0 /\ moves = 0 /\ edits = 0 /\ faults = 0 /\ stops = 0
  /\ config # Locked
  /\ deaths = MaxDeaths /\ \A r \in Requests : req[r] = "served"

ShutdownScene ==
  /\ clock = MaxClock /\ moves = MaxMoves /\ edits = MaxEdits
  /\ faults = MaxFaults /\ stops = 0 /\ config = Locked
  /\ deaths = 0 /\ \A r \in Requests : req[r] = "none"

SceneInit == Init /\ (LoginScene \/ ShutdownScene)

Scenes == SceneInit /\ [][Next]_vars /\ Fairness
=============================================================================
