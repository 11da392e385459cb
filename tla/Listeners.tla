----------------------------- MODULE Listeners ------------------------------
(***************************************************************************)
(* server.Run (internal/server/server.go): three listeners, each in a      *)
(* goroutine of its own, the channel on which they report that they died,  *)
(* and the shutdown that follows a signal or such a report: the router is  *)
(* told to refuse, the servers are drained one after the other under one   *)
(* deadline of 30 seconds, and the goroutines are waited for.              *)
(***************************************************************************)
EXTENDS Naturals

CONSTANTS
  Requests,  \* requests that reach a listener
  At,        \* the listener of each
  MaxDeaths  \* bound: listeners that fail

Servers == {"http", "https", "admin"}

ASSUME ListenersAssumption == At \in [Requests -> Servers] /\ MaxDeaths \in Nat

VARIABLES
  run,        \* where Run is
  listener,   \* the goroutine of each listener
  errs,       \* errors in errCh
  cancelled,  \* the context is cancelled: a signal was received
  stopping,   \* Router.Stop was called
  closing,    \* the servers on which Shutdown was called
  expired,    \* drainCtx is over
  req,        \* what became of each request
  deaths

listenerVars == <<run, listener, errs, cancelled, stopping, closing, expired, req>>

ListenersTypeOK ==
  /\ run \in {"off", "select", "stop", "wait", "returned"} \cup Servers
  /\ listener \in [Servers -> {"off", "starting", "up", "dying", "ended"}]
  /\ errs \in 0..3
  /\ {cancelled, stopping, expired} \subseteq BOOLEAN /\ closing \subseteq Servers
  /\ req \in [Requests -> {"none", "active", "served", "refused", "cut"}]
  /\ deaths \in 0..MaxDeaths

\* No process, or one that is not yet in Run.
Off ==
  /\ run = "off" /\ listener = [s \in Servers |-> "off"] /\ errs = 0
  /\ cancelled = FALSE /\ stopping = FALSE /\ closing = {} /\ expired = FALSE

-----------------------------------------------------------------------------
(* A listener's goroutine. *)

Become(s, state) == listener' = [listener EXCEPT ![s] = state]

\* ListenAndServe binds its address, unless Shutdown came first.
Bind(s) ==
  /\ listener[s] = "starting"
  /\ Become(s, IF s \in closing THEN "ended" ELSE "up")
  /\ UNCHANGED <<run, errs, cancelled, stopping, closing, expired, req, deaths>>

\* It cannot bind (the port is taken) or cannot accept any more.
Die(s) ==
  /\ listener[s] \in {"starting", "up"} /\ s \notin closing
  /\ deaths < MaxDeaths /\ deaths' = deaths + 1
  /\ Become(s, "dying")
  /\ UNCHANGED <<run, errs, cancelled, stopping, closing, expired, req>>

\* Mutant of ErrCapacity: room for all but one of the listeners.
ErrCapacityTwo == 2

\* make(chan error, 3)
ErrCapacity == 3

\* errCh <- err, and wg.Done.
Report(s) ==
  /\ listener[s] = "dying" /\ errs < ErrCapacity
  /\ errs' = errs + 1 /\ Become(s, "ended")
  /\ UNCHANGED <<run, cancelled, stopping, closing, expired, req, deaths>>

\* After Shutdown, Serve returns ErrServerClosed, which is not reported.
Close(s) ==
  /\ listener[s] = "up" /\ s \in closing
  /\ Become(s, "ended")
  /\ UNCHANGED <<run, errs, cancelled, stopping, closing, expired, req, deaths>>

-----------------------------------------------------------------------------
(* Run. *)

\* Mutant of Select: the errors of the listeners are not waited for.
SelectSignal ==
  /\ run = "select" /\ cancelled /\ run' = "stop"
  /\ UNCHANGED <<listener, errs, cancelled, stopping, closing, expired, req, deaths>>

\* It waits for a signal or for the death of a listener.
Select ==
  /\ run = "select" /\ run' = "stop"
  /\ \/ cancelled /\ UNCHANGED errs
     \/ errs > 0 /\ errs' = errs - 1
  /\ UNCHANGED <<listener, cancelled, stopping, closing, expired, req, deaths>>

\* Router.Stop; the 30 seconds begin.
StopRouter ==
  /\ run = "stop" /\ run' = "http" /\ stopping' = TRUE
  /\ UNCHANGED <<listener, errs, cancelled, closing, expired, req, deaths>>

\* Mutant of Following: one of the three calls is missing.
FollowingSkips(s) == IF s = "http" THEN "admin" ELSE "wait"

\* The servers are shut down in this order.
Following(s) ==
  CASE s = "http" -> "https" [] s = "https" -> "admin" [] s = "admin" -> "wait"

\* Shutdown closes the listener ...
BeginShutdown ==
  /\ run \in Servers \ closing /\ closing' = closing \cup {run}
  /\ UNCHANGED <<run, listener, errs, cancelled, stopping, expired, req, deaths>>

\* ... and waits for the server's requests or for the end of drainCtx.
FinishShutdown ==
  /\ run \in closing
  /\ expired \/ \A r \in Requests : At[r] = run => req[r] # "active"
  /\ run' = Following(run)
  /\ UNCHANGED <<listener, errs, cancelled, stopping, closing, expired, req, deaths>>

Expire ==
  /\ run \in Servers /\ ~expired /\ expired' = TRUE
  /\ UNCHANGED <<run, listener, errs, cancelled, stopping, closing, req, deaths>>

\* wg.Wait
Return ==
  /\ run = "wait" /\ \A s \in Servers : listener[s] = "ended"
  /\ run' = "returned"
  /\ UNCHANGED <<listener, errs, cancelled, stopping, closing, expired, req, deaths>>

-----------------------------------------------------------------------------
(* Requests. *)

Accepting(s) == listener[s] = "up" /\ s \notin closing

\* A request is accepted; the router refuses it once it is stopping.
Arrive(r) ==
  /\ req[r] = "none" /\ Accepting(At[r])
  /\ req' = [req EXCEPT ![r] =
               IF stopping /\ At[r] # "admin" THEN "refused" ELSE "active"]
  /\ UNCHANGED <<run, listener, errs, cancelled, stopping, closing, expired, deaths>>

Finish(r) ==
  /\ req[r] = "active" /\ req' = [req EXCEPT ![r] = "served"]
  /\ UNCHANGED <<run, listener, errs, cancelled, stopping, closing, expired, deaths>>

RunStep ==
  \/ Select \/ StopRouter \/ BeginShutdown \/ FinishShutdown \/ Expire \/ Return
  \/ \E s \in Servers : Bind(s) \/ Report(s) \/ Close(s)

ListenersStep == RunStep \/ (\E s \in Servers : Die(s))
                 \/ (\E r \in Requests : Arrive(r) \/ Finish(r))

-----------------------------------------------------------------------------
(* Properties. *)

\* Run does not get past the three shutdowns while a request is being answered,
\* on any listener, unless the 30 seconds are over: whenever it was accepted,
\* while another server was drained or after its listener had died.
DrainedBeforeExit ==
  run \in {"wait", "returned"} =>
    expired \/ \A r \in Requests : req[r] # "active"

\* A listener that has died never waits to report it, whoever reads errCh or no
\* longer does: server.go gives it room for one error of each listener, so the
\* wg.Wait at the end of Run is not held up by a send.
ReportsGoThrough ==
  \A s \in Servers : listener[s] = "dying" => errs < ErrCapacity

\* No order of signal, deaths and slow requests keeps Run from returning:
\* errCh has room for the errors that nobody reads any more.
ShutdownEnds == cancelled ~> run = "off"
=============================================================================
