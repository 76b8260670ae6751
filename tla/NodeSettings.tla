---------------------------- MODULE NodeSettings ----------------------------
(***************************************************************************)
(* .env.local, which the host's scripts, an operator and the API all       *)
(* write: PUT /sub/settings persists the label of subscription links in it *)
(* (utils/settings.py), env_set and ports.sh set other keys, and docker    *)
(* compose reads it when it creates the API's container.  The container    *)
(* sees the file through a bind mount, that is, the file the path named    *)
(* when the container was created.  On top, who may call what under the    *)
(* access settings in force (main.py, api/depends/authentication.py).      *)
(*                                                                         *)
(* The content of the file is the label and the rest; the rest is known by *)
(* the access settings in it.  Operators named Bug... are faulty variants  *)
(* of the definition below them (README).                                  *)
(***************************************************************************)
EXTENDS Naturals

CONSTANTS
    Labels, DefaultLabel,
    Rejected,       \* labels validate_sub_uri_template rejects or fails on
    AsRead,         \* what compose makes of the label's line in an env_file
    Modes, InstalledMode,
    Lost,           \* no such line: the file was truncated
    MaxPuts,        \* bound: PUT /sub/settings
    MaxWrites,      \* bound: writes of scripts and operator
    MaxDeaths       \* bound: deaths of the API process

AllModes == [hide : BOOLEAN, subscription : BOOLEAN, dev : BOOLEAN,
             secret : {"unset", "placeholder", "set"}]

ASSUME SettingsAssumption ==
    /\ Rejected \subseteq Labels /\ DefaultLabel \in Labels \ Rejected
    /\ AsRead \in [Labels -> Labels] /\ AsRead[DefaultLabel] = DefaultLabel
    /\ Modes \subseteq AllModes /\ InstalledMode \in Modes
    /\ Lost \notin Labels /\ Lost \notin Modes
    /\ MaxPuts \in Nat /\ MaxWrites \in Nat /\ MaxDeaths \in Nat

VARIABLES
    host,           \* .env.local: content and the account that may access it
    mounted,        \* the API's file, once the path names another
    attached,       \* the API's file is .env.local
    created,        \* the content the container was created with
    label,          \* SUB_URI_TEMPLATE of the process
    origin,         \* where the process has it from
    pc, wanted, loaded, reply,  \* the PUT in progress, and the last answer
    writer, copied, \* a script: how it will write, and what it has read
    puts, writes, deaths,
    promised,       \* history: the last label answered for
    rest,           \* history: what a script wrote last
    raced,          \* history: a script and the API overlapped
    torn,           \* history: .env.local was truncated and not written
    astray          \* history: a label was stored in a file compose never reads

files   == <<host, mounted, attached>>
process == <<created, label, origin>>
put     == <<pc, wanted, loaded, reply>>
script  == <<writer, copied>>
counted == <<puts, writes, deaths>>
noted   == <<promised, rest, raced, torn, astray>>
vars    == <<files, process, put, script, counted, noted>>

Contents == [label : Labels \union {Lost}, rest : Modes \union {Lost}]
Empty == [label |-> Lost, rest |-> Lost]
File(content, owner) == [content |-> content, owner |-> owner]

\* The file the API has open the path of.
Own == IF attached THEN host ELSE mounted

WritesOwn(content) ==
    IF attached THEN host' = [host EXCEPT !.content = content] /\ UNCHANGED mounted
    ELSE mounted' = [mounted EXCEPT !.content = content] /\ UNCHANGED host

\* install.sh gives the file to the API's user, and env_set takes it back
\* when there was no certificate yet.
Init ==
    LET installed == [label |-> DefaultLabel, rest |-> InstalledMode]
    IN  /\ \E owner \in {"api", "root"} : host = File(installed, owner)
        /\ mounted = host /\ attached = TRUE
        /\ created = installed /\ label = DefaultLabel /\ origin = "created"
        /\ pc = "idle" /\ wanted = DefaultLabel /\ loaded = installed /\ reply = "none"
        /\ writer = "none" /\ copied = installed
        /\ puts = 0 /\ writes = 0 /\ deaths = 0
        /\ promised = DefaultLabel /\ rest = InstalledMode
        /\ raced = FALSE /\ torn = FALSE /\ astray = FALSE

-----------------------------------------------------------------------------
(* PUT /sub/settings.  The handler never suspends, so calls do not         *)
(* overlap, but the process may die and scripts run in between.            *)

\* A label is refused, the file may not be read, or its lines are read.
PutLabel(l) ==
    /\ pc = "idle" /\ puts < MaxPuts
    /\ puts' = puts + 1
    /\ \/ l \in Rejected /\ reply' = "refused" /\ UNCHANGED <<pc, wanted, loaded>>
       \/ /\ l \notin Rejected /\ Own.owner # "api"
          /\ reply' = "failed" /\ UNCHANGED <<pc, wanted, loaded>>
       \/ /\ l \notin Rejected /\ Own.owner = "api"
          /\ pc' = "truncate" /\ wanted' = l /\ loaded' = Own.content
          /\ reply' = "none"
    /\ UNCHANGED <<files, process, script, writes, deaths, noted>>

\* write_text opens the file for writing ...
Truncate ==
    /\ pc = "truncate"
    /\ pc' = "write"
    /\ WritesOwn(Empty)
    /\ UNCHANGED <<attached, process, wanted, loaded, reply, script, counted, noted>>

BugOwnLineOnly(content, l) == [Empty EXCEPT !.label = l]

\* The key's line is replaced or added, the others stay.
Persisted(content, l) == [content EXCEPT !.label = l]

\* ... and fills it, unless the disk is full.  Then the process takes it over.
WriteBack ==
    /\ pc = "write"
    /\ pc' = "idle"
    /\ \/ /\ WritesOwn(Persisted(loaded, wanted))
          /\ label' = wanted /\ origin' = "put" /\ promised' = wanted
          /\ reply' = "stored"
          /\ astray' = (astray \/ ~attached)
          /\ UNCHANGED torn
       \/ /\ reply' = "failed"
          /\ torn' = (torn \/ attached)
          /\ UNCHANGED <<host, mounted, label, origin, promised, astray>>
    /\ UNCHANGED <<attached, created, wanted, loaded, script, counted, rest, raced>>

-----------------------------------------------------------------------------
(* The process and its container.                                          *)

BugNoDefault(content) == content.label

\* os.getenv with its default, in an environment compose made of an env_file.
EnvLabel(content) == IF content.label = Lost THEN DefaultLabel ELSE AsRead[content.label]

\* uvicorn needs the paths of the certificate, which are in the rest.
Starts(content, from) ==
    /\ label' = EnvLabel(content)
    /\ origin' = from
    /\ pc' = IF content.rest = Lost THEN "down" ELSE "idle"

TearsWrite == torn' = (torn \/ (pc = "write" /\ attached))

\* Docker restarts the process in the container it has, or the operator does.
ApiRestarts ==
    /\ pc # "down" /\ deaths < MaxDeaths
    /\ deaths' = deaths + 1
    /\ Starts(created, "restarted")
    /\ TearsWrite
    /\ UNCHANGED <<files, created, wanted, loaded, reply, script, puts, writes, promised,
                   rest, raced, astray>>

\* docker compose up, where the environment differs or recreation is forced.
Recreate ==
    /\ created' = host.content /\ attached' = TRUE
    /\ Starts(host.content, "created")
    /\ TearsWrite
    /\ UNCHANGED <<host, mounted, wanted, loaded, reply, script, counted, promised, rest,
                   raced, astray>>

-----------------------------------------------------------------------------
(* Scripts and operator: env_set renames a new file of root's over the old *)
(* one, ports.sh copies into it.                                           *)

WriterReads(how) ==
    /\ writer = "none" /\ writes < MaxWrites
    /\ writes' = writes + 1
    /\ writer' = how
    /\ copied' = host.content
    /\ UNCHANGED <<files, process, put, puts, deaths, noted>>

\* The lines of other keys are copied as they were read.
Edited(new) == [copied EXCEPT !.rest = IF @ = Lost THEN Lost ELSE new]

WriterWrites(new) ==
    /\ \/ /\ writer = "rename"
          /\ host' = File(Edited(new), "root")
          /\ mounted' = Own /\ attached' = FALSE
       \/ /\ writer = "copy"
          /\ host' = [host EXCEPT !.content = Edited(new)]
          /\ UNCHANGED <<mounted, attached>>
    /\ writer' = "none"
    /\ rest' = new
    /\ raced' = (raced \/ host.content # copied \/ (pc \in {"truncate", "write"} /\ attached))
    /\ UNCHANGED <<process, put, copied, counted, promised, torn, astray>>

Next ==
    \/ \E l \in Labels : PutLabel(l)
    \/ Truncate \/ WriteBack
    \/ ApiRestarts \/ Recreate
    \/ \E how \in {"rename", "copy"} : WriterReads(how)
    \/ \E new \in Modes : WriterWrites(new)

Spec == Init /\ [][Next]_vars

-----------------------------------------------------------------------------
(* Who may call what.  Subscriptions are answered without the secret, the  *)
(* administrative routes, /status and the settings with it.                *)

Routes == {"health", "status", "admin", "subscription", "docs", "unknown"}
Headers == {"absent", "wrong", "secret"}

\* The documentation's routes exist in development mode only.
Declared(mode, route) == route # "unknown" /\ (route = "docs" => mode.dev)

BugPlaceholder(mode) == mode.secret # "unset"

\* configured_api_secret is not None
Configured(mode) == mode.secret = "set"

\* is_valid_api_secret; "secret" is the value of API_SECRET, whatever it is.
IsValid(mode, header) == Configured(mode) /\ header = "secret"

\* verify_api_secret, whose header is mandatory
Verified(mode, header) ==
    IF header = "absent" THEN "422"
    ELSE IF ~Configured(mode) THEN "500"
    ELSE IF ~IsValid(mode, header) THEN "401"
    ELSE "answer"

RouteAnswer(mode, route, header) ==
    IF ~Declared(mode, route) THEN "404"
    ELSE CASE route \in {"health", "docs"}  -> "answer"
           [] route = "subscription" ->
                 IF mode.subscription THEN "answer" ELSE "disabled"
           [] route \in {"status", "admin"} -> Verified(mode, header)

\* hide_endpoints, then the route.
Answer(mode, route, header) ==
    IF mode.hide /\ ~(Declared(mode, route) /\ IsValid(mode, header)) THEN "hidden"
    ELSE IF route = "status" /\ ~IsValid(mode, header)
         THEN IF Configured(mode) THEN "401" ELSE "500"
    ELSE RouteAnswer(mode, route, header)

-----------------------------------------------------------------------------
(* Properties.                                                             *)

TypeOK ==
    /\ host \in [content : Contents, owner : {"api", "root"}]
    /\ mounted \in [content : Contents, owner : {"api", "root"}]
    /\ attached \in BOOLEAN
    /\ created \in Contents /\ label \in Labels
    /\ origin \in {"created", "restarted", "put"}
    /\ pc \in {"idle", "truncate", "write", "down"}
    /\ wanted \in Labels /\ loaded \in Contents
    /\ reply \in {"none", "refused", "failed", "stored"}
    /\ writer \in {"none", "rename", "copy"} /\ copied \in Contents
    /\ puts \in 0..MaxPuts /\ writes \in 0..MaxWrites /\ deaths \in 0..MaxDeaths
    /\ promised \in Labels /\ rest \in Modes
    /\ raced \in BOOLEAN /\ torn \in BOOLEAN /\ astray \in BOOLEAN

\* The API and the scripts keep each other's lines, and the process uses the
\* label it answered for, or what compose makes of it, except after a restart
\* of the old container.  This holds until a script and the API overlap, a
\* write is interrupted, or a label goes to a file that is no longer
\* .env.local.
SettingsKept ==
    ~raced /\ ~torn /\ ~astray /\ pc # "write" =>
        /\ host.content = [label |-> promised, rest |-> rest]
        /\ origin # "restarted" => label \in {promised, AsRead[promised]}

\* README, "Security and endpoint hiding": with hiding on, whoever lacks the
\* secret gets one and the same answer, on any route; with hiding off nothing
\* but /health, the enabled subscriptions and the documentation of development
\* mode; a placeholder opens nothing.  Whoever has it is let in everywhere.
StrangersLearnNothing ==
    pc # "down" => \A route \in Routes, header \in Headers :
        LET mode     == created.rest
            stranger == mode.secret # "set" \/ header # "secret"
            answer   == Answer(mode, route, header)
        IN  /\ mode.hide /\ stranger => answer = "hidden"
            /\ stranger /\ answer = "answer" =>
                  \/ route = "health"
                  \/ route = "subscription" /\ mode.subscription
                  \/ route = "docs" /\ mode.dev
            /\ ~stranger /\ route \in {"health", "status", "admin"} => answer = "answer"

\* README: PUT /sub/settings "Validate, persist and apply a new label": a label
\* that is answered for is in .env.local, at least as long as no script and
\* no call overlap.
PutPersists ==
    [][reply # "stored" /\ reply' = "stored" /\ ~raced
          => host'.content.label = label']_vars

-----------------------------------------------------------------------------
(* The inductive invariant behind them.                                    *)

\* A process that serves has the access settings of a whole file.
ModeInv == pc # "down" => created.rest \in Modes

\* As long as nothing overlaps, is interrupted or goes astray, .env.local has
\* everybody's last line but while the API has it open for writing, and what
\* the API then writes back are the lines of the others.
KeptInv ==
    ~raced /\ ~torn /\ ~astray =>
        /\ ~(pc = "write" /\ attached)
              => host.content = [label |-> promised, rest |-> rest]
        /\ pc \in {"truncate", "write"} /\ attached => loaded.rest = rest
        /\ origin # "restarted" => label \in {promised, AsRead[promised]}

IInv == TypeOK /\ ModeInv /\ KeptInv
=============================================================================
