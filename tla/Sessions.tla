------------------------------ MODULE Sessions ------------------------------
(***************************************************************************)
(* Admin sessions (internal/auth/auth.go): the secret that New resolves at *)
(* boot, the signed cookie that a login hands out, and what Authenticated  *)
(* makes of it later, possibly in another process, after config.yml has    *)
(* changed or the container was made anew.                                 *)
(*                                                                         *)
(* A secret is the one of config.yml (Own) or a generated one, numbered; a *)
(* signature is good when the secret it was made with is the current one.  *)
(* bcrypt says yes to the password that was hashed.                        *)
(***************************************************************************)
EXTENDS Naturals

CONSTANTS
  Browsers,
  Names,      \* the usernames that are typed
  LowerName,  \* strings.ToLower
  Dotted,     \* the lowercased names that contain a dot
  Passwords,  \* the passwords that are typed
  Configs,    \* the contents of config.yml: admins, secret, and if acme_email is set
  Own, Weak, Unset,  \* a session_secret: long enough, too short, empty
  BadConfig,  \* a config.yml that LoadGlobal turns down
  NoFile, Short,     \* secret.key is missing, or cut off
  NoCookie,
  Age,        \* sessionMaxAge, in ticks
  MaxClock,   \* bound: the last tick
  MaxEdits,   \* bound: edits of config.yml
  MaxMoves,   \* bound: containers made anew, their file system with them
  MaxFaults   \* bound: calls into the operating system that fail

Users == {LowerName[n] : n \in Names}

\* What is remembered of a login: by whom, when, under whose secret, and how many
\* containers had been made and system calls had failed by then.
Logins == [user : Users, since : Nat, own : BOOLEAN, move : Nat, faults : Nat]

ASSUME SessionsAssumption ==
  /\ LowerName \in [Names -> Users] /\ Dotted \subseteq Users
  /\ \A c \in Configs \ {BadConfig} :
       DOMAIN c.admins \subseteq Users /\ c.secret \in {Own, Weak, Unset}
         /\ c.email \in BOOLEAN
  /\ Age \in Nat \ {0} /\ {MaxClock, MaxEdits, MaxMoves, MaxFaults} \subseteq Nat
  /\ {Own, Weak, Unset, NoFile, Short} \cap Nat = {} /\ Own \notin {Weak, Unset, Short}
  /\ NoCookie \notin [user : Users, exp : Nat, key : {Own} \cup Nat]
  /\ NoCookie \notin Logins

VARIABLES
  clock,
  config,   \* config.yml
  keyfile,  \* secret.key
  proc,     \* how far the process is: down, booting, or in server.Run
  global,   \* the config.yml that it has loaded
  secret,   \* the secret that it signs with
  jar,      \* the cookie of each browser
  login,    \* history: the login that each browser's cookie is from
  made,     \* how many secrets were generated
  moves, edits, faults

bootVars   == <<proc, global, secret, keyfile, made>>
cookieVars == <<jar, login>>
sessionVars == <<clock, config, bootVars, cookieVars, moves, edits>>

\* The generated secrets: each container makes one, and one for every crash.
Keys == Nat \ {0}

SessionsTypeOK ==
  /\ clock \in 0..MaxClock /\ config \in Configs
  /\ keyfile \in {NoFile, Short} \cup Keys
  /\ proc \in {"down", "load", "key", "open", "write", "booted", "ready", "run"}
  /\ global \in Configs \cup {BadConfig} /\ secret \in {Unset, Own, Short} \cup Keys
  /\ \A b \in Browsers :
       jar[b] # NoCookie => jar[b].user \in Users /\ jar[b].key \in {Own, Short} \cup Keys
  /\ made \in Nat /\ faults \in 0..MaxFaults /\ moves \in 0..MaxMoves /\ edits \in 0..MaxEdits

\* The first start; some of what the bounds allow may be used up by then.
SessionsInit ==
  /\ clock \in 0..MaxClock /\ moves \in 0..MaxMoves /\ edits \in 0..MaxEdits
  /\ faults \in 0..MaxFaults
  /\ config \in Configs \ {BadConfig} /\ keyfile = NoFile
  /\ proc = "down" /\ global = BadConfig /\ secret = Unset
  /\ jar = [b \in Browsers |-> NoCookie] /\ login = [b \in Browsers |-> NoCookie]
  /\ made = 0

-----------------------------------------------------------------------------
(* Booting: config.LoadGlobal, then auth.New. *)

Fault == faults < MaxFaults /\ faults' = faults + 1

\* fatal: the process exits with status 1 before it has listened.
Fatal == proc' = "down" /\ secret' = Unset

\* auth.New: the administrators and the secret of the configuration are checked.
NewAuth(g) ==
  IF DOMAIN g.admins = {} \/ g.secret = Weak THEN Fatal
  ELSE IF g.secret = Own THEN proc' = "booted" /\ secret' = Own
  ELSE proc' = "key" /\ secret' = Unset

LoadGlobal ==
  /\ proc = "load" /\ global' = config
  /\ IF config = BadConfig THEN Fatal ELSE NewAuth(config)
  /\ UNCHANGED <<keyfile, made, faults>>

\* Mutants of ReadKey: the length is not checked; the file is not looked at.
ReadKeyAny ==
  /\ proc = "key"
  /\ IF keyfile # NoFile THEN secret' = keyfile /\ proc' = "booted"
     ELSE proc' = "open" /\ UNCHANGED secret
  /\ UNCHANGED <<global, keyfile, made, faults>>
ReadKeyNever ==
  /\ proc = "key" /\ proc' = "open"
  /\ UNCHANGED <<global, secret, keyfile, made, faults>>

\* resolveSecret takes the key that it finds, when it is long enough.  One that
\* it cannot read is as good as none: any error of os.ReadFile leads to a new key.
ReadKey ==
  /\ proc = "key"
  /\ \/ keyfile \in Keys /\ secret' = keyfile /\ proc' = "booted" /\ UNCHANGED faults
     \/ keyfile \notin Keys /\ proc' = "open" /\ UNCHANGED <<secret, faults>>
     \/ Fault /\ proc' = "open" /\ UNCHANGED secret
  /\ UNCHANGED <<global, keyfile, made>>

\* It generates one, and os.WriteFile truncates the file before it writes.
OpenKey ==
  /\ proc = "open"
  /\ \/ keyfile' = Short /\ proc' = "write" /\ UNCHANGED <<secret, faults>>
     \/ Fault /\ Fatal /\ UNCHANGED keyfile
  /\ UNCHANGED <<global, made>>
WriteKey ==
  /\ proc = "write"
  /\ \/ /\ made' = made + 1 /\ keyfile' = made + 1 /\ secret' = made + 1
        /\ proc' = "booted" /\ UNCHANGED faults
     \/ Fault /\ Fatal /\ UNCHANGED <<keyfile, made>>
  /\ UNCHANGED global

BootStep == LoadGlobal \/ ReadKey \/ OpenKey \/ WriteKey

-----------------------------------------------------------------------------
(* The admin pages. *)

\* VerifyPassword, on the lowercased name.
VerifyPassword(name, password) ==
  /\ LowerName[name] \in DOMAIN global.admins
  /\ global.admins[LowerName[name]] = password

\* Mutant of IssueCookie: the cookie carries the name as it was typed.
IssueCookieAsTyped(name) == [user |-> name, exp |-> clock + Age, key |-> secret]

\* The cookie: a name, an expiry and the signature of both.
IssueCookie(name) == [user |-> LowerName[name], exp |-> clock + Age, key |-> secret]

\* handleLogin answers a good login with a cookie.
Login(b, name, password) ==
  /\ VerifyPassword(name, password)
  /\ jar' = [jar EXCEPT ![b] = IssueCookie(name)]
  /\ login' = [login EXCEPT ![b] = [user |-> LowerName[name], since |-> clock,
                                    own |-> secret = Own, move |-> moves,
                                    faults |-> faults]]
  /\ UNCHANGED <<clock, config, bootVars, moves, edits>>

\* handleLogout clears the cookie.
Logout(b) ==
  /\ jar[b] # NoCookie
  /\ jar' = [jar EXCEPT ![b] = NoCookie] /\ login' = [login EXCEPT ![b] = NoCookie]
  /\ UNCHANGED <<clock, config, bootVars, moves, edits>>

\* Splitting user.expiry.signature at the dots: a name with a dot of its own
\* leaves a part that is no number where the expiry is looked for.
Parses(cookie) == cookie.user \notin Dotted

\* Authenticated, which Require asks before every page.
Authenticated(b) ==
  /\ jar[b] # NoCookie /\ Parses(jar[b])
  /\ clock < jar[b].exp /\ jar[b].key = secret
  /\ jar[b].user \in DOMAIN global.admins

-----------------------------------------------------------------------------
(* The world outside. *)

Tick ==
  /\ clock < MaxClock /\ clock' = clock + 1
  /\ UNCHANGED <<config, bootVars, cookieVars, moves, edits>>

\* config.yml is edited; a running process does not look at it again.
EditConfig ==
  /\ edits < MaxEdits /\ edits' = edits + 1
  /\ config' \in Configs \ {config}
  /\ UNCHANGED <<clock, bootVars, cookieVars, moves>>

\* The container is made anew (docker compose up -d after a build, a move to
\* another host): of /etc/jobcloud only the mounted parts stay, and secret.key
\* is not in one of them.
Recreate ==
  /\ proc = "down" /\ moves < MaxMoves /\ moves' = moves + 1
  /\ keyfile' = NoFile
  /\ UNCHANGED <<clock, config, proc, global, secret, made, cookieVars, edits>>

-----------------------------------------------------------------------------
(* Properties. *)

\* The cookie of b is from a login of less than Age ago by a user who is still
\* configured, and the configuration says now what it said then of where the
\* secret comes from.
Current(b) ==
  /\ login[b] # NoCookie /\ login[b].user \notin Dotted
  /\ login[b].user \in DOMAIN global.admins
  /\ clock < login[b].since + Age
  /\ login[b].own <=> secret = Own

\* No cookie opens the pages but one of a current login, whatever was killed,
\* restarted, edited or made anew in between; and one does, if the secret is that
\* of config.yml, or if it is a generated one and neither the container was made
\* anew nor the reading of secret.key failed since: not when the process was killed
\* while it wrote the file, and not when it was restarted any number of times
\* (auth.go: restart the binary and existing sessions keep working).
CookieDecides ==
  proc = "run" => \A b \in Browsers :
    /\ Authenticated(b) => Current(b) /\ (login[b].own \/ login[b].move = moves)
    /\ (Current(b) /\ (login[b].own \/ (login[b].move = moves /\ login[b].faults = faults)))
         => Authenticated(b)

\* README.md: the session secret is in data/, and config.yml, sites/, certs/ and
\* data/ are everything.  A container that is made anew with all of them should
\* therefore still know the sessions of the one before.
SessionsKept ==
  proc = "run" => \A b \in Browsers :
    (Current(b) /\ login[b].faults = faults) => Authenticated(b)

\* No process signs with what a killed one left of a key (resolveSecret takes
\* 32 bytes or more).
SecretIsWhole == proc = "run" => secret \notin {Short, Weak, Unset}

\* ui.go: who gives the right name and password gets a cookie and is sent to the
\* page; the cookie should open it.
LoginLetsIn ==
  proc = "run" => \A b \in Browsers :
    (login[b] # NoCookie /\ login[b].since = clock /\ login[b].move = moves
       /\ jar[b].key = secret /\ login[b].user \in DOMAIN global.admins)
      => Authenticated(b)
=============================================================================
