------------------------------ MODULE Service -------------------------------
(***************************************************************************)
(* The process (cmd/jobcloud/main.go, cmdServe) under docker's             *)
(* "restart: always": it loads config.yml and resolves the secret          *)
(* (Sessions), runs the listeners until a signal or a death (Listeners),   *)
(* exits and is started again, or dies anywhere in between.  The admin     *)
(* pages are behind the admin listener; an admin's cookie outlives both.   *)
(***************************************************************************)
EXTENDS Sessions, Listeners

CONSTANT MaxStops  \* bound: signals and kills

ASSUME MaxStops \in Nat

VARIABLE stops

vars == <<sessionVars, faults, listenerVars, deaths, stops>>

TypeOK == SessionsTypeOK /\ ListenersTypeOK

Init ==
  /\ SessionsInit /\ Off
  /\ req \in [Requests -> {"none", "served"}]
  /\ deaths \in 0..MaxDeaths /\ stops \in 0..MaxStops

-----------------------------------------------------------------------------

\* docker starts the process.
Start ==
  /\ proc = "down" /\ proc' = "load"
  /\ UNCHANGED <<clock, config, global, secret, keyfile, made, cookieVars, moves,
                 edits, faults, listenerVars, deaths, stops>>

Boot ==
  /\ BootStep
  /\ UNCHANGED <<clock, config, cookieVars, moves, edits, listenerVars, deaths,
                 stops>>

\* acme.New wants an address; the rest of main is set up.
NewManagers ==
  /\ proc = "booted"
  /\ IF global.email THEN proc' = "ready" /\ UNCHANGED secret ELSE Fatal
  /\ UNCHANGED <<clock, config, global, keyfile, made, cookieVars, moves, edits,
                 faults, listenerVars, deaths, stops>>

\* The watcher is started, and server.Run starts a goroutine for each listener.
RunServer ==
  /\ proc = "ready" /\ proc' = "run" /\ run' = "select"
  /\ listener' = [s \in Servers |-> "starting"]
  /\ UNCHANGED <<clock, config, global, secret, keyfile, made, cookieVars, moves,
                 edits, faults, errs, cancelled, stopping, closing, expired, req,
                 deaths, stops>>

Serve ==
  /\ proc = "run" /\ ListenersStep
  /\ UNCHANGED <<sessionVars, faults, stops>>

\* SIGTERM or SIGINT: the goroutine that waits for one cancels the context.
Signal ==
  /\ proc = "run" /\ run # "returned" /\ ~cancelled
  /\ stops < MaxStops /\ stops' = stops + 1 /\ cancelled' = TRUE
  /\ UNCHANGED <<sessionVars, run, listener, errs, stopping, closing, expired,
                 req, deaths, faults>>

\* The process is gone, and every connection with it.
Gone ==
  /\ proc' = "down" /\ secret' = Unset
  /\ run' = "off" /\ listener' = [s \in Servers |-> "off"] /\ errs' = 0
  /\ cancelled' = FALSE /\ stopping' = FALSE /\ closing' = {} /\ expired' = FALSE
  /\ req' = [r \in Requests |-> IF req[r] = "active" THEN "cut" ELSE req[r]]
  /\ UNCHANGED <<clock, config, global, keyfile, made, cookieVars, moves, edits,
                 faults, deaths>>

\* main returns when Run has, whatever Run was woken by.
Exit == run = "returned" /\ Gone /\ UNCHANGED stops

\* It is killed (docker's patience is over, memory, power), at any point.
Kill == proc # "down" /\ stops < MaxStops /\ stops' = stops + 1 /\ Gone

\* An admin page is asked for: the listener must be there for it.
AdminPage ==
  /\ Accepting("admin")
  /\ \E b \in Browsers :
       \/ \E name \in Names, password \in Passwords : Login(b, name, password)
       \/ Logout(b)
  /\ UNCHANGED <<listenerVars, faults, deaths, stops>>

Outside ==
  /\ Tick \/ EditConfig \/ Recreate
  /\ UNCHANGED <<listenerVars, faults, deaths, stops>>

Next == Start \/ Boot \/ NewManagers \/ RunServer \/ Serve \/ Signal \/ Exit \/ Kill
        \/ AdminPage \/ Outside

Spec == Init /\ [][Next]_vars

\* docker restarts what has exited; goroutines that can go on do, and the 30
\* seconds of the drain pass.  Requests are under no obligation to end.
Fairness ==
  /\ WF_vars(Start \/ Boot \/ NewManagers \/ RunServer \/ Exit)
  /\ WF_vars(Serve /\ RunStep)

FairSpec == Spec /\ Fairness

-----------------------------------------------------------------------------

\* Whatever dies or is signalled or killed, in the end all three listeners are
\* up again and stay up, if config.yml is one that the process can start with:
\* there is no state in which it goes on without one of them.
ServiceRecovers ==
  <>[](\/ config = BadConfig \/ DOMAIN config.admins = {} \/ config.secret = Weak
       \/ ~config.email \/ \A s \in Servers : Accepting(s))
=============================================================================
