----------------------------- MODULE PortRollout -----------------------------
(***************************************************************************)
(* Changing the node's ports (scripts/ports.sh, scripts/lib/ports.sh): the *)
(* plan is validated, .env.local and the persisted configuration are       *)
(* backed up and rewritten, both containers restart, and a failing step    *)
(* restores what was there.                                                *)
(*                                                                         *)
(* The script and the API share config.json and no lock: a request of      *)
(* ApiRequest runs beside the script, and dies when the API container is   *)
(* recreated.                                                              *)
(*                                                                         *)
(* A port is a text of digits, and three readers take it for a number:     *)
(* bash arithmetic when it is validated, the comparison of texts when it   *)
(* is compared, int() and Docker when it is used.  Operators named Bug...  *)
(* are faulty variants of the definition below them (README).              *)
(***************************************************************************)
EXTENDS ApiRequest, Naturals

CONSTANTS
    Keys,               \* PORT_KEYS, or some of them
    Inbounds,           \* keys of the inbounds the deployed template has
    Requests,           \* what is asked for: a text for some of the keys, valid or not
    InitialEnv,         \* the deployed ports
    Busy,               \* sockets other processes of the host listen on
    Word,               \* numbers of bash arithmetic: 2^64
    MaxRollouts         \* bound: runs of the script

Transports(key) ==
    CASE key = "HYSTERIA2_PORT" -> {"udp"}
      [] key = "SHADOWSOCKS_PORT" -> {"tcp", "udp"}
      [] OTHER -> {"tcp"}

\* port_protocol knows one transport per key; Shadowsocks is a special case.
Protocol(key) == IF key = "HYSTERIA2_PORT" THEN "udp" ELSE "tcp"

\* A text: its leading zeros, then the digits of a number, none if that is 0.
Texts == [zeros : Nat, number : Nat]
Empty == [zeros |-> 0, number |-> 0]

\* The digits of n as bash reads them behind a leading zero.
Octal[n \in Nat] == IF n = 0 THEN 0 ELSE 8 * Octal[n \div 10] + (n % 10)
IsOctal[n \in Nat] == IF n = 0 THEN TRUE ELSE n % 10 < 8 /\ IsOctal[n \div 10]

Arithmetic(text) ==
    (IF text.zeros = 0 THEN text.number ELSE Octal[text.number]) % Word

\* int() of Python, and Docker.
Decimal(text) == text.number

PortNumbers == 1..65535

BugPortRange(text) == text # Empty /\ Arithmetic(text) <= 65535

\* port_validate: a digit 8 or 9 behind a leading zero is an error.
ValidPort(text) ==
    /\ text # Empty
    /\ text.zeros > 0 => IsOctal[text.number]
    /\ Arithmetic(text) \in PortNumbers

BugNoUdpCheck(env) ==
    /\ \A k \in Keys : ValidPort(env[k])
    /\ \A k, l \in Keys : k # l /\ Protocol(k) = Protocol(l) => env[k] # env[l]

\* port_require_unique_config compares texts.
UniqueConfig(env) ==
    /\ \A k \in Keys : ValidPort(env[k])
    /\ \A k, l \in Keys : k # l /\ Protocol(k) = Protocol(l) => env[k] # env[l]
    /\ {"HYSTERIA2_PORT", "SHADOWSOCKS_PORT"} \subseteq Keys
           => env["HYSTERIA2_PORT"] # env["SHADOWSOCKS_PORT"]

\* The keys render_singbox_ports asks the configuration for.
InboundKeys == Keys \ {"API_PORT"}
InboundPorts(env) == [k \in Inbounds |-> Decimal(env[k])]

\* A number beyond the range is no port of anything.
Sockets(env, key) == Transports(key) \X ({Decimal(env[key])} \intersect PortNumbers)

\* The port compose publishes, 8337 where .env.local has none.
ApiPort(env) == IF env["API_PORT"] = Empty THEN 8337 ELSE Decimal(env["API_PORT"])

ASSUME EnvAssumption ==
    /\ Keys \subseteq {"API_PORT", "VLESS_PORT", "VMESS_PORT", "TROJAN_PORT",
                       "HYSTERIA2_PORT", "SHADOWSOCKS_PORT"}
    /\ "API_PORT" \in Keys
    /\ Inbounds \subseteq InboundKeys
    /\ Word \in Nat /\ 65535 < Word
    /\ \A asked \in Requests :
          DOMAIN asked \subseteq Keys /\ \A k \in DOMAIN asked : asked[k] \in Texts
    /\ InitialEnv \in [Keys -> Texts] /\ UniqueConfig(InitialEnv)
    /\ \A k \in Keys : /\ Decimal(InitialEnv[k]) \in PortNumbers
                       /\ Sockets(InitialEnv, k) \intersect Busy = {}
    /\ MaxRollouts \in Nat

Configs == [ports : [Inbounds -> Nat], users : SUBSET Users]
Files == Configs \union {NoConfig}

ASSUME NoConfigAssumption == NoConfig \notin Configs

VARIABLES
    env,            \* .env.local
    published,      \* API_PORT the API container was created with
    pc,             \* the next command of the script
    staged,         \* the validated plan
    envBackup, configBackup,
    rendered,       \* what render_singbox_ports has read and will write
    failed,         \* restore_ports' flag
    outcome,        \* how the last rollout ended
    rollouts,
    overlapped      \* history: the script or a request wrote over the other's work

script == <<pc, staged, envBackup, configBackup, rendered, failed, outcome, rollouts>>
api == <<requestVars, overlapped>>
deployed == <<env, config, served, published>>
vars == <<deployed, script, api>>

Init ==
    /\ InitRequest([ports |-> InboundPorts(InitialEnv), users |-> {}])
    /\ env = InitialEnv
    /\ published = ApiPort(InitialEnv)
    /\ pc = "idle"
    /\ staged = InitialEnv
    /\ envBackup = InitialEnv
    /\ configBackup = config
    /\ rendered = NoConfig
    /\ failed = FALSE
    /\ outcome = "none"
    /\ rollouts = 0
    /\ overlapped = FALSE

-----------------------------------------------------------------------------
(* The plan.                                                               *)

\* validate_requested runs in a command substitution, where bash clears -e:
\* that a port is taken is reported, and the plan goes on.
Plan(requested) ==
    /\ pc = "idle" /\ rollouts < MaxRollouts
    /\ DOMAIN requested # {}
    /\ \A k \in DOMAIN requested : ValidPort(requested[k])
    /\ staged' = [k \in Keys |-> IF k \in DOMAIN requested THEN requested[k] ELSE env[k]]
    /\ UniqueConfig(staged')
    /\ rollouts' = rollouts + 1
    /\ pc' = "backup"
    /\ failed' = FALSE
    /\ outcome' = "none"
    /\ UNCHANGED <<deployed, envBackup, configBackup, rendered, api>>

-----------------------------------------------------------------------------
(* The commands of apply_ports: each succeeds and the next follows, or     *)
(* fails, with or without its effect, and the restore begins.              *)

BugIgnoresFailure(next, effect) == (effect \/ UNCHANGED deployed) /\ pc' = next

Then(next, effect) ==
    \/ effect /\ pc' = next
    \/ UNCHANGED deployed /\ pc' = "restore env"
    \/ effect /\ pc' = "restore env"

BugOldBackup ==
    /\ pc = "backup"
    /\ envBackup' = env
    /\ configBackup' = IF rollouts = 1 THEN config ELSE configBackup
    /\ pc' = "copy env"
    /\ UNCHANGED <<deployed, staged, rendered, failed, outcome, rollouts, api>>

Backup ==
    /\ pc = "backup"
    /\ envBackup' = env
    /\ configBackup' = config
    /\ pc' = "copy env"
    /\ UNCHANGED <<deployed, staged, rendered, failed, outcome, rollouts, api>>

\* set -e ends the script: nothing has changed yet.
BackupFails ==
    /\ pc = "backup"
    /\ pc' = "idle"
    /\ outcome' = "aborted"
    /\ UNCHANGED <<deployed, staged, envBackup, configBackup, rendered, failed,
                   rollouts, api>>

\* A copy that fails halfway has lost lines of the file.
CutEnv(text) ==
    /\ \E lost \in (SUBSET Keys) \ {{}} :
          env' = [k \in Keys |-> IF k \in lost THEN Empty ELSE text[k]]
    /\ UNCHANGED <<config, served, published>>

CopyEnv ==
    /\ pc = "copy env"
    /\ \/ Then("recreate", env' = staged /\ UNCHANGED <<config, served, published>>)
       \/ CutEnv(staged) /\ pc' = "restore env"
    /\ UNCHANGED <<staged, envBackup, configBackup, rendered, failed, outcome,
                   rollouts, api>>

\* docker compose up --force-recreate: the API of the old container dies with
\* its request, and sing-box, whose env file changed, is recreated or not.
RecreateApi ==
    /\ ApiPort(env) \in PortNumbers /\ <<"tcp", ApiPort(env)>> \notin Busy
    /\ published' = ApiPort(env)
    /\ served' \in {served, config}
    /\ DiesWithRequest
    /\ UNCHANGED <<env, config>>

Recreate ==
    /\ pc = "recreate"
    /\ DiesWithRequest \/ UNCHANGED <<request, loaded, undo>>
    /\ Then("read config", RecreateApi)
    /\ UNCHANGED <<staged, envBackup, configBackup, rendered, failed, outcome,
                   rollouts, creating, answered, overlapped>>

\* render_singbox_ports reads the file, changes the ports and replaces it, if
\* it finds every inbound there is.
ReadConfig ==
    /\ pc = "read config"
    /\ \/ /\ config # NoConfig /\ InboundKeys \subseteq Inbounds
          /\ rendered' = [config EXCEPT !.ports = InboundPorts(env)]
          /\ pc' = "write config"
       \/ pc' = "restore env" /\ UNCHANGED rendered
    /\ UNCHANGED <<deployed, staged, envBackup, configBackup, failed, outcome, rollouts,
                   api>>

Overwrite(new) ==
    /\ config' = new
    /\ UNCHANGED <<env, served, published>>

WriteConfig ==
    /\ pc = "write config"
    /\ Then("check", Overwrite(rendered))
    /\ rendered' = NoConfig
    /\ UNCHANGED <<staged, envBackup, configBackup, failed, outcome, rollouts, api>>

\* sing-box check.
Accepted(file) == file # NoConfig /\ \A k \in Inbounds : file.ports[k] \in PortNumbers

Check ==
    /\ pc = "check"
    /\ Then("restart", Accepted(config) /\ UNCHANGED deployed)
    /\ UNCHANGED <<staged, envBackup, configBackup, rendered, failed, outcome,
                   rollouts, api>>

RestartRuntime == served' = config /\ UNCHANGED <<env, config, published>>

Restart ==
    /\ pc = "restart"
    /\ Then("wait", RestartRuntime)
    /\ UNCHANGED <<staged, envBackup, configBackup, rendered, failed, outcome,
                   rollouts, api>>

\* wait_for_status: the API answers "ok" within a minute, or not.
Wait ==
    /\ pc = "wait"
    /\ Then("idle", UNCHANGED deployed)
    /\ outcome' = IF pc' = "idle" THEN "applied" ELSE outcome
    /\ UNCHANGED <<staged, envBackup, configBackup, rendered, failed, rollouts, api>>

-----------------------------------------------------------------------------
(* restore_ports: every command runs, whatever became of those before it.  *)

BugFailureForgotten(effect) == (effect \/ UNCHANGED deployed) /\ UNCHANGED failed

Attempt(effect) ==
    \/ effect /\ UNCHANGED failed
    \/ (effect \/ UNCHANGED deployed) /\ failed' = TRUE

RestoreEnv ==
    /\ pc = "restore env"
    /\ pc' = "recreate old"
    /\ \/ Attempt(env' = envBackup /\ UNCHANGED <<config, served, published>>)
       \/ CutEnv(envBackup) /\ failed' = TRUE
    /\ UNCHANGED <<staged, envBackup, configBackup, rendered, outcome, rollouts, api>>

RecreateOld ==
    /\ pc = "recreate old"
    /\ pc' = "restore config"
    /\ DiesWithRequest \/ UNCHANGED <<request, loaded, undo>>
    /\ Attempt(RecreateApi)
    /\ UNCHANGED <<staged, envBackup, configBackup, rendered, outcome, rollouts,
                   creating, answered, overlapped>>

\* compose cp writes the file in place, and may stop halfway.
RestoreConfig ==
    /\ pc = "restore config"
    /\ pc' = "restart old"
    /\ \/ Attempt(Overwrite(configBackup))
       \/ Overwrite(NoConfig) /\ failed' = TRUE
    /\ UNCHANGED <<staged, envBackup, configBackup, rendered, outcome, rollouts, api>>

\* The check of the restored file, and the restart, whatever it found.
RestartOld ==
    /\ pc = "restart old"
    /\ pc' = "idle"
    /\ Attempt(RestartRuntime)
    /\ Accepted(config) \/ failed' = TRUE
    /\ outcome' = IF failed' THEN "incomplete" ELSE "restored"
    /\ UNCHANGED <<staged, envBackup, configBackup, rendered, rollouts, api>>

-----------------------------------------------------------------------------
(* The API, while the script runs and in between.                          *)

Request ==
    /\ RequestStep
    /\ overlapped' = (overlapped \/ (config' # config /\ ~(pc = "idle" /\ KnowsFile)))
    /\ UNCHANGED <<env, published, script>>

Next ==
    \/ \E requested \in Requests : Plan(requested)
    \/ Backup \/ BackupFails \/ CopyEnv \/ Recreate \/ ReadConfig \/ WriteConfig
    \/ Check \/ Restart \/ Wait
    \/ RestoreEnv \/ RecreateOld \/ RestoreConfig \/ RestartOld
    \/ Request

Spec == Init /\ [][Next]_vars

-----------------------------------------------------------------------------
(* Properties.                                                             *)

Steps == {"idle", "backup", "copy env", "recreate", "read config", "write config",
          "check", "restart", "wait", "restore env", "recreate old", "restore config",
          "restart old"}
\* Every line a file still has is a number from 1 to 65535 for bash.
ValidEnv(file) ==
    /\ file \in [Keys -> Texts]
    /\ \A k \in Keys : file[k] # Empty => Arithmetic(file[k]) \in PortNumbers

\* Plans are complete, and what is published is a port.
FileTypes ==
    /\ ValidEnv(env) /\ ValidEnv(staged) /\ ValidEnv(envBackup)
    /\ \A k \in Keys : staged[k] # Empty
    /\ config \in Files /\ served \in Files /\ configBackup \in Files
    /\ rendered \in Files
    /\ published \in PortNumbers

ControlTypes ==
    /\ pc \in Steps /\ rollouts \in 0..MaxRollouts
    /\ failed \in BOOLEAN /\ overlapped \in BOOLEAN
    /\ outcome \in {"none", "applied", "restored", "incomplete", "aborted"}
    /\ request \in {"none", "loaded", "backed up", "saved", "restore", "reload"}
    /\ creating \in Users /\ loaded \in Files /\ undo \in Files
    /\ answered \in SUBSET Users

TypeOK == FileTypes /\ ControlTypes

\* Whatever fails and whatever is restored, .env.local gives one socket to two
\* services only as one number in two spellings, with and without leading
\* zeros, which the check compares as texts.  Shadowsocks listens on both
\* transports, and the check compares keys by one transport each, with one
\* exception for the rest.
NoSharedSocket ==
    \A k, l \in Keys :
        k # l /\ Sockets(env, k) \intersect Sockets(env, l) # {} =>
            env[k].zeros # env[l].zeros

PortsAgree ==
    /\ config.ports = InboundPorts(env)
    /\ served.ports = InboundPorts(env)
    /\ published = ApiPort(env)

\* "Port change applied successfully": .env.local, the persisted
\* configuration, the running sing-box and the published API port all have the
\* new ports, ports the VPN accepts, and keep them, as long as the script and
\* a request do not write over each other's work.
AppliedIsServed ==
    outcome = "applied" /\ ~overlapped => env = staged /\ Accepted(served) /\ PortsAgree

\* "previous configuration was restored": both files, the running sing-box
\* and the published API port have what they had before, no user is lost, and
\* this whichever command failed and whether or not it had its effect.
RestoredIsServed ==
    outcome = "restored" /\ ~overlapped =>
        /\ env = envBackup /\ published = ApiPort(env)
        /\ Accepted(config)
        /\ config.ports = configBackup.ports /\ served.ports = config.ports
        /\ configBackup.users \subseteq config.users

\* A rollout loses no user: what the API answered for is in config.json and is
\* served, whatever the rollout does, as long as the script and a request do
\* not write over each other's work and no failing copy cuts config.json.
AnsweredUsersStay ==
    ~overlapped =>
        \A file \in {config, served} \ {NoConfig} : answered \subseteq file.users

-----------------------------------------------------------------------------
(* The inductive invariant behind them.                                    *)

\* Keys with one text have no transport in common.
Apart(file) ==
    \A k, l \in Keys :
        k # l /\ file[k] = file[l] =>
            file[k] = Empty \/ Transports(k) \intersect Transports(l) = {}

UniqueInv == Apart(env) /\ Apart(staged) /\ Apart(envBackup)

\* Until one overwrites the other's work, the script and the request write
\* back the users they have read, and the script's backup has the users of the
\* file, unless it could not be read or the restore has cut the file.
WritersInv ==
    /\ request # "none" => loaded \in Configs /\ creating \in loaded.users
    /\ ~overlapped =>
          /\ pc = "write config" => /\ NoConfig \notin {rendered, config}
                                    /\ rendered.users = config.users
          /\ pc \notin {"idle", "backup"} =>
                \/ config = NoConfig /\ (pc = "restart old" \/ configBackup = NoConfig)
                \/ /\ NoConfig \notin {config, configBackup}
                   /\ configBackup.users = config.users

\* Nor is a user lost: until its creation ends nobody counts on it.
UsersInv ==
    ~overlapped =>
        /\ AnsweredUsersStay
        /\ request # "none" => creating \notin answered
        /\ config # NoConfig =>
              /\ request \in {"loaded", "backed up"} => creating \notin config.users
              /\ request = "saved" => creating \in config.users

\* The way to "Port change applied successfully".
AppliedInv ==
    LET applied == pc = "idle" /\ outcome = "applied"
        onTheWay(steps) == pc \in steps \/ applied
    IN  /\ pc # "idle" => outcome = "none"
        /\ ~overlapped =>
              /\ onTheWay({"recreate", "read config", "write config", "check", "restart",
                           "wait"})
                    => env = staged
              /\ onTheWay({"read config", "write config", "check", "restart", "wait"})
                    => published = ApiPort(env)
              /\ pc = "write config" => rendered.ports = InboundPorts(env)
              /\ onTheWay({"check", "restart", "wait"})
                    => config # NoConfig /\ config.ports = InboundPorts(env)
              /\ onTheWay({"restart", "wait"}) => Accepted(config)
              /\ onTheWay({"wait"})
                    => served # NoConfig /\ served.ports = InboundPorts(env)

\* The way back, as long as no command of the restore fails: the request that
\* the backup may have caught dies with the API's container, and the next one
\* creates somebody else.
RestoredInv ==
    LET restored == pc = "idle" /\ outcome = "restored"
        onTheWay(steps) == (pc \in steps /\ ~failed) \/ restored
    IN  ~overlapped =>
            /\ onTheWay({"recreate old", "restore config", "restart old"})
                  => env = envBackup
            /\ onTheWay({"restore config", "restart old"})
                  => /\ published = ApiPort(env)
                     /\ request # "none" => /\ configBackup # NoConfig
                                            /\ creating \notin configBackup.users
            /\ pc = "restart old" /\ ~failed => config = configBackup
            /\ restored => /\ Accepted(config) /\ NoConfig \notin {configBackup, served}
                           /\ config.ports = configBackup.ports
                           /\ configBackup.users \subseteq config.users
                           /\ served.ports = config.ports

IInv == TypeOK /\ UniqueInv /\ WritersInv /\ UsersInv /\ AppliedInv /\ RestoredInv
=============================================================================
