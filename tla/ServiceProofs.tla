--------------------------- MODULE ServiceProofs ----------------------------
(***************************************************************************)
(* The safety of Service for every set of administrators, browsers,        *)
(* requests and configurations and every bound: type correctness, what a   *)
(* cookie is worth (CookieDecides), the secret (SecretIsWhole), the drain  *)
(* (DrainedBeforeExit) and the error channel (ReportsGoThrough).           *)
(*                                                                         *)
(* The inductive invariant has two halves.  Signatures says that a process *)
(* past its boot signs with config.yml's secret or with what secret.key    *)
(* holds, that the generated key of a cookie is what secret.key holds only *)
(* as long as the container is the one of the login, and that it is until  *)
(* a read of secret.key fails.  Shutdown                                   *)
(* says that a server which Run has got past is closed and drained, and    *)
(* that the errors in errCh are of listeners that have ended.              *)
(***************************************************************************)
EXTENDS Service, TLAPS

Cookies == [user : Users, exp : Nat, key : {Own} \cup Keys]

\* TypeOK with what it leaves open: the jars are functions, and a cookie and the
\* login that it is from come and go together.
Typed ==
  /\ TypeOK
  /\ jar \in [Browsers -> Cookies \cup {NoCookie}]
  /\ login \in [Browsers -> Logins \cup {NoCookie}]

\* A process is in server.Run exactly when there is a Run.
RunOfProcess ==
  /\ proc = "run" <=> run # "off"
  /\ run = "off" => Off

\* The secret of a process that has one.
Signing ==
  /\ proc \in {"booted", "ready", "run"} => secret = Own \/ (secret \in Keys /\ secret = keyfile)
  /\ keyfile \in Keys => keyfile <= made

\* Nothing that takes secret.key away has happened since the login of b.
Undisturbed(b) == login[b].move = moves /\ login[b].faults = faults

\* What the cookie of b was made from, and if its key is still there: it is not
\* about to be replaced unless a read of it failed.
Signed(b) ==
  /\ login[b] # NoCookie
  /\ jar[b].user = login[b].user /\ jar[b].exp = login[b].since + Age
  /\ login[b].move <= moves /\ login[b].faults <= faults
  /\ login[b].own <=> jar[b].key = Own
  /\ ~login[b].own =>
       /\ jar[b].key <= made
       /\ jar[b].key = keyfile => login[b].move = moves
       /\ Undisturbed(b) => jar[b].key = keyfile /\ proc \notin {"open", "write"}

Signatures ==
  /\ Signing
  /\ \A b \in Browsers : IF jar[b] = NoCookie THEN login[b] = NoCookie ELSE Signed(b)

\* The servers whose Shutdown has returned.
Passed ==
  CASE run = "https" -> {"http"}
    [] run = "admin" -> {"http", "https"}
    [] run \in {"wait", "returned"} -> Servers
    [] OTHER -> {}

Drained ==
  \A s \in Passed :
    s \in closing /\ (expired \/ \A r \in Requests : At[r] = s => req[r] # "active")

Ended(s) == IF listener[s] = "ended" THEN 1 ELSE 0

\* An error in errCh is the one of a listener that has ended.
Reported == errs <= Ended("http") + Ended("https") + Ended("admin")

IInv == Typed /\ RunOfProcess /\ Signatures /\ Drained /\ Reported

-----------------------------------------------------------------------------
(* Type correctness. *)

LEMMA InitTyped == Init => Typed
<1> SUFFICES ASSUME Init PROVE Typed
  OBVIOUS
<1>1. SessionsTypeOK
  BY SessionsAssumption DEF Init, SessionsInit, SessionsTypeOK
<1>2. ListenersTypeOK
  <2>1. /\ req \in [Requests -> {"none", "active", "served", "refused", "cut"}]
        /\ listener \in [Servers -> {"off", "starting", "up", "dying", "ended"}]
    BY DEF Init, Off
  <2>2. {cancelled, stopping, expired} \subseteq BOOLEAN /\ closing \subseteq Servers
    BY DEF Init, Off
  <2> QED BY <2>1, <2>2, ListenersAssumption DEF Init, Off, ListenersTypeOK
<1> QED BY <1>1, <1>2 DEF Init, SessionsInit, Typed, TypeOK

\* The steps of the process, up to server.Run, and its end.
LEMMA ProcessTyped ==
  ASSUME Typed, Start \/ Boot \/ NewManagers \/ RunServer \/ Signal \/ Exit \/ Kill
  PROVE  Typed'
<1> USE DEF Typed, TypeOK, SessionsTypeOK, ListenersTypeOK, cookieVars, listenerVars,
            sessionVars, bootVars, Fatal
<1>1. CASE Start \/ NewManagers \/ RunServer \/ Signal
  BY <1>1 DEF Start, NewManagers, RunServer, Signal
<1>2. CASE Boot
  <2>1. CASE LoadGlobal
    BY <1>2, <2>1 DEF Boot, LoadGlobal, NewAuth
  <2>2. CASE ReadKey
    BY <1>2, <2>2, SessionsAssumption DEF Boot, ReadKey, Fault
  <2>3. CASE OpenKey
    BY <1>2, <2>3, SessionsAssumption DEF Boot, OpenKey, Fault
  <2>4. CASE WriteKey
    <3>1. made + 1 \in Keys
      BY DEF Keys
    <3> QED BY <1>2, <2>4, <3>1, SessionsAssumption DEF Boot, WriteKey, Fault
  <2> QED BY <1>2, <2>1, <2>2, <2>3, <2>4 DEF Boot, BootStep
<1>3. CASE Exit \/ Kill
  <2>1. Gone
    BY <1>3 DEF Exit, Kill
  <2>2. /\ req' \in [Requests -> {"none", "active", "served", "refused", "cut"}]
        /\ listener' \in [Servers -> {"off", "starting", "up", "dying", "ended"}]
    BY <2>1 DEF Gone
  <2>3. {cancelled', stopping', expired'} \subseteq BOOLEAN /\ closing' \subseteq Servers
    BY <2>1 DEF Gone
  <2> QED BY <2>1, <2>2, <2>3 DEF Gone
<1> HIDE DEF Typed
<1> QED BY <1>1, <1>2, <1>3

\* The steps of the listeners and of Run.
LEMMA ServeTyped ==
  ASSUME Typed, Serve
  PROVE  Typed'
<1> USE DEF Typed, TypeOK, SessionsTypeOK, ListenersTypeOK, cookieVars, listenerVars,
            sessionVars, bootVars, Serve
<1>1. ASSUME NEW s \in Servers, Bind(s) \/ Die(s) \/ Report(s) \/ Close(s)
      PROVE  Typed'
  <2>1. CASE Bind(s) \/ Close(s)
    BY <2>1 DEF Bind, Close, Become
  <2>2. CASE Die(s)
    BY <2>2, ListenersAssumption DEF Die, Become
  <2>3. CASE Report(s)
    BY <2>3 DEF Report, Become, ErrCapacity
  <2> HIDE DEF Typed
  <2> QED BY <1>1, <2>1, <2>2, <2>3
<1>2. CASE Select \/ StopRouter \/ BeginShutdown \/ Expire \/ Return
  <2>1. CASE Select
    BY <2>1 DEF Select
  <2>2. CASE BeginShutdown
    BY <2>2 DEF BeginShutdown
  <2>3. CASE StopRouter \/ Expire \/ Return
    BY <2>3 DEF StopRouter, Expire, Return, Servers
  <2> HIDE DEF Typed
  <2> QED BY <1>2, <2>1, <2>2, <2>3
<1>3. CASE FinishShutdown
  BY <1>3 DEF FinishShutdown, Following, Servers
<1>4. ASSUME NEW r \in Requests, Arrive(r) \/ Finish(r)
      PROVE  Typed'
  BY <1>4 DEF Arrive, Finish
<1> QED BY <1>1, <1>2, <1>3, <1>4 DEF ListenersStep, RunStep

LEMMA LoginTyped ==
  ASSUME Typed, NEW b \in Browsers, NEW name \in Names, NEW password \in Passwords,
         Login(b, name, password), secret \in {Own} \cup Keys
  PROVE  /\ IssueCookie(name) \in Cookies
         /\ jar' \in [Browsers -> Cookies \cup {NoCookie}]
         /\ login' \in [Browsers -> Logins \cup {NoCookie}]
<1>1. LowerName[name] \in Users /\ clock \in Nat /\ moves \in Nat /\ faults \in Nat /\ Age \in Nat
  BY SessionsAssumption DEF Typed, TypeOK, SessionsTypeOK
<1> QED BY <1>1 DEF Login, IssueCookie, Typed, Cookies, Logins

LEMMA OutsideTyped ==
  ASSUME Typed, AdminPage \/ Outside, AdminPage => secret \in {Own} \cup Keys
  PROVE  Typed'
<1> USE DEF Typed, TypeOK, SessionsTypeOK, ListenersTypeOK, cookieVars, listenerVars,
            sessionVars, bootVars
<1>1. ASSUME NEW b \in Browsers, NEW name \in Names, NEW password \in Passwords,
             Login(b, name, password), secret \in {Own} \cup Keys,
             UNCHANGED <<listenerVars, faults, deaths, stops>>
      PROVE  Typed'
  BY <1>1, LoginTyped, ZenonT(60) DEF Login, Cookies
<1>2. ASSUME NEW b \in Browsers, Logout(b), UNCHANGED <<listenerVars, faults, deaths, stops>>
      PROVE  Typed'
  BY <1>2 DEF Logout
<1>3. CASE Outside
  BY <1>3, SessionsAssumption DEF Outside, Tick, EditConfig, Recreate
<1> QED BY <1>1, <1>2, <1>3 DEF AdminPage

-----------------------------------------------------------------------------
(* The process and its Run. *)

LEMMA InitRun == Init => RunOfProcess /\ Drained /\ Reported
BY DEF Init, SessionsInit, Off, RunOfProcess, Drained, Passed, Reported, Ended, Servers

LEMMA RunOfProcessStep ==
  ASSUME Typed, RunOfProcess, [Next]_vars
  PROVE  RunOfProcess'
<1> USE DEF RunOfProcess, Off
<1>1. CASE Start \/ NewManagers \/ RunServer \/ Signal \/ Outside \/ UNCHANGED vars
  BY <1>1
  DEF Start, NewManagers, RunServer, Signal, Outside, Tick, EditConfig, Recreate, Fatal,
      vars, sessionVars, bootVars, listenerVars
<1>2. CASE Boot
  BY <1>2
  DEF Boot, BootStep, LoadGlobal, NewAuth, ReadKey, OpenKey, WriteKey, Fatal, listenerVars
<1>3. CASE Serve
  <2>1. proc = "run" /\ proc' = proc /\ run # "off" /\ ListenersStep
    BY <1>3 DEF Serve, sessionVars, bootVars
  <2>2. CASE FinishShutdown
    BY <2>1, <2>2 DEF FinishShutdown, Following, Typed, TypeOK, ListenersTypeOK, Servers
  <2>3. CASE ~FinishShutdown
    BY <2>1, <2>3
    DEF ListenersStep, RunStep, Bind, Die, Report, Close, Select, StopRouter,
        BeginShutdown, Expire, Return, Arrive, Finish
  <2> QED BY <2>1, <2>2, <2>3
<1>4. CASE Exit \/ Kill
  BY <1>4 DEF Exit, Kill, Gone
<1>5. CASE AdminPage
  BY <1>5 DEF AdminPage, Login, Logout, bootVars, listenerVars
<1> QED BY <1>1, <1>2, <1>3, <1>4, <1>5 DEF Next

\* An admin page is answered by a process that is in server.Run and has a secret.
LEMMA PageHasProcess ==
  ASSUME Typed, RunOfProcess, Signing, AdminPage
  PROVE  proc = "run" /\ secret \in {Own} \cup Keys
<1>1. listener["admin"] = "up"
  BY DEF AdminPage, Accepting
<1>2. run # "off"
  BY <1>1 DEF RunOfProcess, Off, Servers
<1> QED BY <1>2 DEF RunOfProcess, Signing

LEMMA TypedStep ==
  ASSUME Typed, RunOfProcess, Signing, [Next]_vars
  PROVE  Typed'
<1>1. CASE UNCHANGED vars
  BY <1>1
  DEF vars, sessionVars, bootVars, cookieVars, listenerVars, Typed, TypeOK,
      SessionsTypeOK, ListenersTypeOK
<1> QED BY <1>1, ProcessTyped, ServeTyped, OutsideTyped, PageHasProcess DEF Next

-----------------------------------------------------------------------------
(* The secret and the cookies. *)

\* What the boot does to secret.key: nothing, or it writes over it, which it goes
\* about only when it found no key there or could not read it.
LEMMA BootKeeps ==
  ASSUME Typed, Signing, Boot
  PROVE  /\ UNCHANGED <<jar, login, moves>> /\ Signing' /\ faults' >= faults
         /\ \/ UNCHANGED <<keyfile, made>>
            \/ /\ proc \in {"open", "write"} /\ made' >= made
               /\ keyfile' \notin Keys \/ keyfile' > made
         /\ proc' \in {"open", "write"} =>
              proc \in {"open", "write"} \/ keyfile \notin Keys \/ faults' > faults
<1> USE SessionsAssumption
    DEF Boot, BootStep, Fatal, Signing, Typed, TypeOK, SessionsTypeOK, Keys, cookieVars, Fault
<1>1. CASE LoadGlobal
  BY <1>1 DEF LoadGlobal, NewAuth
<1>2. CASE ReadKey
  BY <1>2 DEF ReadKey
<1>3. CASE OpenKey
  BY <1>3 DEF OpenKey
<1>4. CASE WriteKey
  BY <1>4 DEF WriteKey
<1> QED BY <1>1, <1>2, <1>3, <1>4

\* A cookie outlives what leaves it, the container, its key and the calls that
\* failed alone, and the writing of another key.
LEMMA SignaturesKept ==
  ASSUME Typed, Signatures, UNCHANGED <<jar, login, moves>>,
         faults' \in Nat, faults' >= faults,
         proc' \in {"open", "write"} =>
           proc \in {"open", "write"} \/ keyfile \notin Keys \/ faults' > faults,
         \/ UNCHANGED <<keyfile, made>>
         \/ /\ proc \in {"open", "write"} /\ made' \in Nat /\ made' >= made
            /\ keyfile' \notin Keys \/ keyfile' > made
  PROVE  \A b \in Browsers : IF jar'[b] = NoCookie THEN login'[b] = NoCookie ELSE Signed(b)'
<1> SUFFICES ASSUME NEW b \in Browsers, jar[b] # NoCookie PROVE Signed(b)'
  BY DEF Signatures
<1>1. Signed(b) /\ jar[b] \in Cookies /\ login[b] \in Logins
  BY DEF Signatures, Typed, Signed
<1>2. /\ made \in Nat /\ faults \in Nat /\ login[b].faults \in Nat
      /\ ~login[b].own => jar[b].key \in Keys
  BY <1>1, SessionsAssumption DEF Signed, Typed, TypeOK, SessionsTypeOK, Cookies, Logins
<1>3. login[b].faults <= faults'
  BY <1>1, <1>2 DEF Signed
<1>4. ASSUME ~login[b].own, Undisturbed(b)'
      PROVE  UNCHANGED <<keyfile, made>> /\ jar[b].key = keyfile /\ proc' \notin {"open", "write"}
  <2>1. faults' = faults /\ Undisturbed(b)
    BY <1>1, <1>2, <1>4 DEF Signed, Undisturbed
  <2> QED BY <1>1, <1>2, <1>4, <2>1 DEF Signed
<1>5. ASSUME ~login[b].own
      PROVE  jar[b].key <= made' /\ (jar[b].key = keyfile' => login[b].move = moves)
  BY <1>1, <1>2, <1>5 DEF Signed, Keys
<1> QED BY <1>1, <1>3, <1>4, <1>5 DEF Signed

LEMMA LoginSigns ==
  ASSUME Typed, RunOfProcess, Signatures, AdminPage
  PROVE  Signatures'
<1>1. proc = "run" /\ secret \in {Own} \cup Keys
  BY PageHasProcess DEF Signatures
<1>2. Signing' /\ UNCHANGED <<keyfile, made, moves, faults, proc>>
  BY DEF AdminPage, Login, Logout, bootVars, Signatures, Signing
<1>3. ASSUME NEW b \in Browsers, NEW name \in Names, NEW password \in Passwords,
             Login(b, name, password)
      PROVE  Signatures'
  <2>1. IssueCookie(name) \in Cookies
    BY <1>1, <1>3, LoginTyped
  <2>2. IssueCookie(name) # NoCookie
    BY <2>1, SessionsAssumption DEF Cookies, Keys
  <2>3. LowerName[name] \in Users /\ clock \in Nat /\ moves \in Nat /\ faults \in Nat
    BY SessionsAssumption DEF Typed, TypeOK, SessionsTypeOK
  <2> DEFINE entry == [user |-> LowerName[name], since |-> clock,
                       own |-> secret = Own, move |-> moves,
                       faults |-> faults]
  <2>4. entry # NoCookie
    <3>1. (secret = Own) \in BOOLEAN
      OBVIOUS
    <3>2. entry \in Logins
      BY <2>3, <3>1 DEF Logins
    <3> QED BY <3>2, SessionsAssumption
  <2>5. jar'[b] = IssueCookie(name) /\ login'[b] = entry
    BY <1>3 DEF Login, Typed
  <2>6. \A c \in Browsers \ {b} : jar'[c] = jar[c] /\ login'[c] = login[c]
    BY <1>3 DEF Login, Typed
  <2>7. secret # Own => secret = keyfile /\ keyfile <= made
    BY <1>1 DEF Signatures, Signing
  <2>8. Signed(b)'
    <3>1. /\ jar'[b].user = LowerName[name] /\ jar'[b].exp = clock + Age /\ jar'[b].key = secret
          /\ login'[b].user = LowerName[name] /\ login'[b].since = clock
          /\ login'[b].own = (secret = Own) /\ login'[b].move = moves
          /\ login'[b].faults = faults
      BY <2>5 DEF IssueCookie
    <3>2. login'[b].own <=> jar'[b].key = Own
      BY <3>1
    <3>3. ~login'[b].own => jar'[b].key <= made' /\ jar'[b].key = keyfile' /\ moves' = moves
      BY <1>2, <2>7, <3>1, <3>2
    <3> QED BY <1>1, <1>2, <2>3, <2>4, <2>5, <3>1, <3>2, <3>3 DEF Signed, Undisturbed
  <2>9. \A c \in Browsers \ {b} :
          IF jar'[c] = NoCookie THEN login'[c] = NoCookie ELSE Signed(c)'
    BY <1>2, <2>6 DEF Signatures, Signed, Undisturbed
  <2> QED BY <1>2, <2>2, <2>5, <2>8, <2>9 DEF Signatures
<1>4. ASSUME NEW b \in Browsers, Logout(b)
      PROVE  Signatures'
  <2>1. jar'[b] = NoCookie /\ login'[b] = NoCookie
    BY <1>4 DEF Logout, Typed
  <2>2. \A c \in Browsers \ {b} : jar'[c] = jar[c] /\ login'[c] = login[c]
    BY <1>4 DEF Logout, Typed
  <2> QED BY <1>2, <2>1, <2>2 DEF Signatures, Signed, Undisturbed
<1> QED BY <1>3, <1>4 DEF AdminPage

LEMMA SignaturesStep ==
  ASSUME Typed, RunOfProcess, Signatures, [Next]_vars
  PROVE  Signatures'
<1>1. CASE Boot
  <2>1. made' \in Nat /\ faults' \in Nat
    BY <1>1, ProcessTyped, SessionsAssumption DEF Typed, TypeOK, SessionsTypeOK
  <2> QED BY <1>1, <2>1, BootKeeps, SignaturesKept DEF Signatures
<1>2. CASE Start \/ NewManagers \/ RunServer \/ Serve \/ Signal \/ Exit \/ Kill \/ UNCHANGED vars
  <2>1. /\ UNCHANGED <<jar, login, moves, keyfile, made, faults>>
        /\ proc' \in {"open", "write"} => proc \in {"open", "write"}
    BY <1>2
    DEF Start, NewManagers, RunServer, Serve, Signal, Exit, Kill, Gone, vars, sessionVars,
        bootVars, cookieVars, Fatal
  <2>2. Signing'
    BY <1>2, <2>1
    DEF Start, NewManagers, RunServer, Serve, Signal, Exit, Kill, Gone, vars, sessionVars,
        bootVars, Fatal, Signatures, Signing
  <2>3. faults \in Nat
    BY SessionsAssumption DEF Typed, TypeOK, SessionsTypeOK
  <2> QED BY <2>1, <2>2, <2>3, SignaturesKept DEF Signatures
<1>3. CASE Outside
  <2>1. CASE Tick \/ EditConfig
    <3>1. UNCHANGED <<jar, login, moves, keyfile, made, proc, secret, faults>> /\ faults \in Nat
      BY <1>3, <2>1, SessionsAssumption
      DEF Outside, Typed, TypeOK, SessionsTypeOK, Tick, EditConfig, bootVars, cookieVars
    <3>2. Signing'
      BY <3>1 DEF Signatures, Signing
    <3> QED BY <3>1, <3>2, SignaturesKept DEF Signatures
  <2>2. CASE Recreate
    <3>1. /\ UNCHANGED <<jar, login, made, proc, secret, faults>> /\ proc = "down"
          /\ moves' = moves + 1 /\ keyfile' = NoFile /\ moves \in Nat
      BY <1>3, <2>2, SessionsAssumption DEF Outside, Recreate, cookieVars, Typed, TypeOK, SessionsTypeOK
    <3>2. NoFile \notin Keys
      BY SessionsAssumption DEF Keys
    <3>3. ASSUME NEW b \in Browsers, jar[b] # NoCookie PROVE Signed(b)'
      <4>1. Signed(b) /\ jar[b] \in Cookies /\ login[b] \in Logins
        BY <3>3 DEF Signatures, Typed, Signed
      <4> QED BY <3>1, <3>2, <4>1 DEF Signed, Undisturbed, Cookies, Logins
    <3> QED BY <3>1, <3>2, <3>3 DEF Signatures, Signing
  <2> QED BY <1>3, <2>1, <2>2 DEF Outside
<1> QED BY <1>1, <1>2, <1>3, LoginSigns DEF Next

-----------------------------------------------------------------------------
(* Run and its listeners. *)

\* Listeners of a process that has none yet, or no longer.
LEMMA OffDrained == ASSUME Off PROVE Drained /\ Reported
BY DEF Off, Drained, Passed, Reported, Ended, Servers

LEMMA ServeDrains ==
  ASSUME Typed, RunOfProcess, Drained, Serve
  PROVE  Drained'
<1> USE DEF Servers
<1>1. CASE BeginShutdown \/ Expire \/ Select \/ StopRouter \/ Return
  BY <1>1 DEF BeginShutdown, Expire, Select, StopRouter, Return, Drained, Passed
<1>2. CASE FinishShutdown
  <2>1. /\ run \in closing /\ run \in Servers /\ UNCHANGED <<closing, expired, req>>
        /\ expired \/ \A r \in Requests : At[r] = run => req[r] # "active"
    BY <1>2 DEF FinishShutdown, Typed, TypeOK, ListenersTypeOK
  <2>2. Passed' = Passed \cup {run}
    BY <1>2, <2>1 DEF FinishShutdown, Following, Passed
  <2> QED BY <2>1, <2>2 DEF Drained
<1>3. ASSUME NEW s \in Servers, Bind(s) \/ Die(s) \/ Report(s) \/ Close(s)
      PROVE  Drained'
  BY <1>3 DEF Bind, Die, Report, Close, Drained, Passed
<1>4. ASSUME NEW r \in Requests, Arrive(r) PROVE Drained'
  <2>1. Passed' = Passed /\ UNCHANGED <<closing, expired>>
    BY <1>4 DEF Arrive, Passed
  <2>2. /\ At[r] \notin closing
        /\ \A q \in Requests \ {r} : req'[q] = req[q]
    BY <1>4 DEF Arrive, Accepting, Typed, TypeOK, ListenersTypeOK
  <2> QED BY <2>1, <2>2 DEF Drained
<1>5. ASSUME NEW r \in Requests, Finish(r) PROVE Drained'
  <2>1. Passed' = Passed /\ UNCHANGED <<closing, expired>>
    BY <1>5 DEF Finish, Passed
  <2>2. /\ req'[r] = "served" /\ \A q \in Requests \ {r} : req'[q] = req[q]
    BY <1>5 DEF Finish, Typed, TypeOK, ListenersTypeOK
  <2> QED BY <2>1, <2>2 DEF Drained
<1> QED BY <1>1, <1>2, <1>3, <1>4, <1>5 DEF Serve, ListenersStep, RunStep

LEMMA ServeReports ==
  ASSUME Typed, Reported, Serve
  PROVE  Reported'
<1>1. errs \in Nat /\ listener \in [Servers -> {"off", "starting", "up", "dying", "ended"}]
  BY DEF Typed, TypeOK, ListenersTypeOK
<1>2. CASE Select
  BY <1>1, <1>2 DEF Select, Reported, Ended
<1>3. ASSUME NEW s \in Servers, Bind(s) \/ Die(s) \/ Report(s) \/ Close(s)
      PROVE  Reported'
  BY <1>1, <1>3 DEF Bind, Die, Report, Close, Become, Reported, Ended, Servers
<1>4. ASSUME UNCHANGED <<errs, listener>> PROVE Reported'
  BY <1>4 DEF Reported, Ended
<1> QED
  BY <1>2, <1>3, <1>4
  DEF Serve, ListenersStep, RunStep, StopRouter, BeginShutdown, FinishShutdown, Expire,
      Return, Arrive, Finish

LEMMA ShutdownStep ==
  ASSUME Typed, RunOfProcess, Drained, Reported, [Next]_vars
  PROVE  Drained' /\ Reported'
<1>1. CASE Start \/ Boot \/ NewManagers \/ AdminPage \/ Outside \/ UNCHANGED vars
  <2>1. UNCHANGED listenerVars
    BY <1>1
    DEF Start, Boot, NewManagers, AdminPage, Outside, vars
  <2> QED BY <2>1 DEF listenerVars, Drained, Passed, Reported, Ended
<1>2. CASE Signal
  BY <1>2 DEF Signal, Drained, Passed, Reported, Ended
<1>3. CASE RunServer
  BY <1>3 DEF RunServer, RunOfProcess, Off, Drained, Passed, Reported, Ended, Servers
<1>4. CASE Exit \/ Kill
  <2>1. Off'
    BY <1>4 DEF Exit, Kill, Gone, Off
  <2> QED BY <2>1 DEF Off, Drained, Passed, Reported, Ended, Servers
<1> QED BY <1>1, <1>2, <1>3, <1>4, ServeDrains, ServeReports DEF Next

-----------------------------------------------------------------------------

LEMMA IInvInit == Init => IInv
<1> SUFFICES ASSUME Init PROVE Signatures
  BY InitTyped, InitRun DEF IInv
<1> QED
  BY SessionsAssumption DEF Init, SessionsInit, Signatures, Signing, Signed, Keys

LEMMA IInvStep == IInv /\ [Next]_vars => IInv'
<1> SUFFICES ASSUME Typed, RunOfProcess, Signatures, Drained, Reported, [Next]_vars
             PROVE  IInv'
  BY DEF IInv
<1> QED
  BY TypedStep, RunOfProcessStep, SignaturesStep, ShutdownStep DEF IInv, Signatures

\* Type correctness of the process, its sessions and its listeners.
THEOREM TypeCorrect == Spec => []TypeOK
<1>1. IInv => TypeOK
  BY DEF IInv, Typed
<1> QED BY <1>1, IInvInit, IInvStep, PTL DEF Spec

\* A cookie opens the pages only for a current login, and it does for one whose
\* secret nothing has taken away, whatever was killed, restarted, edited or made
\* anew in between.
THEOREM CookiesDecide == Spec => []CookieDecides
<1>1. IInv => CookieDecides
  <2> SUFFICES ASSUME IInv, proc = "run", NEW b \in Browsers
               PROVE  /\ Authenticated(b) => Current(b) /\ (login[b].own \/ login[b].move = moves)
                      /\ (Current(b) /\ (login[b].own \/ Undisturbed(b))) => Authenticated(b)
    BY DEF CookieDecides, Undisturbed
  <2>1. CASE jar[b] = NoCookie
    BY <2>1 DEF IInv, Signatures, Authenticated, Current
  <2>2. CASE jar[b] # NoCookie
    <3>1. Signed(b) /\ jar[b] \in Cookies /\ (secret = Own \/ (secret \in Keys /\ secret = keyfile))
      BY <2>2 DEF IInv, Signatures, Signing, Typed
    <3>2. Own \notin Keys
      BY SessionsAssumption DEF Keys
    <3>3. jar[b].key = secret =>
            (login[b].own <=> secret = Own) /\ (login[b].own \/ login[b].move = moves)
      BY <3>1, <3>2 DEF Signed
    <3>4. ((login[b].own <=> secret = Own) /\ (login[b].own \/ Undisturbed(b)))
            => jar[b].key = secret
      BY <3>1, <3>2 DEF Signed
    <3> QED BY <2>2, <3>1, <3>3, <3>4 DEF Authenticated, Parses, Signed, Current
  <2> QED BY <2>1, <2>2
<1> QED BY <1>1, IInvInit, IInvStep, PTL DEF Spec

\* No process signs with what a killed one left of a key, nor with a key that
\* auth.New turned down.
THEOREM SecretWhole == Spec => []SecretIsWhole
<1>1. IInv => SecretIsWhole
  BY SessionsAssumption DEF IInv, Signatures, Signing, SecretIsWhole, Keys
<1> QED BY <1>1, IInvInit, IInvStep, PTL DEF Spec

\* Run does not get past its shutdowns while a request is being answered, unless
\* the 30 seconds are over: no request slips in at a server that was drained.
THEOREM Drains == Spec => []DrainedBeforeExit
<1>1. IInv => DrainedBeforeExit
  BY ListenersAssumption DEF IInv, Drained, Passed, DrainedBeforeExit, Servers
<1> QED BY <1>1, IInvInit, IInvStep, PTL DEF Spec

\* No listener that has died waits to report it.
THEOREM ReportsPass == Spec => []ReportsGoThrough
<1>1. IInv => ReportsGoThrough
  BY DEF IInv, Typed, TypeOK, ListenersTypeOK, Reported, Ended, ReportsGoThrough, ErrCapacity,
         Servers
<1> QED BY <1>1, IInvInit, IInvStep, PTL DEF Spec
=============================================================================
