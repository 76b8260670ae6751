-------------------------- MODULE ContainerRuntime --------------------------
(***************************************************************************)
(* Committing a configuration to the container that runs the VPN core, call*)
(* by call: DockerRuntime.reload restarts sing-box and polls its status;   *)
(* XrayDockerRuntime.reload first renders xray.json, the file Xray really  *)
(* reads, and tests it inside the running container.  commit_config and its*)
(* rollback drive both.  Docker's restart policy, the operator, failing    *)
(* calls, cancellation and the death of the API interleave.                *)
(*                                                                         *)
(* ConfigMutation takes a reload for one step of one thread; here is what  *)
(* that step is made of.  Operators named Bug... are faulty variants of the*)
(* definition below them (README).                                         *)
(***************************************************************************)
EXTENDS Naturals

CONSTANTS
    Configs, InitialConfig,
    Refused,        \* configurations the VPN core exits on
    Unrenderable,   \* those render_xray_config raises an error on
    MaxFaults,      \* bound: failing calls to Docker and the disk
    MaxCancels,     \* bound: cancellations of the request
    MaxCrashes,     \* bound: crashes of the API process
    Nothing         \* no source read, no request

ASSUME RuntimeAssumption ==
    /\ Refused \subseteq Configs /\ Unrenderable \subseteq Configs
    /\ InitialConfig \in Configs \ (Refused \union Unrenderable)
    /\ Nothing \notin Configs
    /\ MaxFaults \in Nat /\ MaxCancels \in Nat /\ MaxCrashes \in Nat

VARIABLES
    runtime,    \* VPN_RUNTIME, fixed when the API starts
    file,       \* config.json
    xray,       \* the configuration xray.json was rendered from
    started,    \* the configuration the core was last started with
    status,     \* the container's status, as Docker reports it
    pc,         \* the call the request waits for
    mode,       \* whether it commits or rolls back
    candidate,  \* the configuration to commit
    previous,   \* the backup
    source,     \* what the render thread has read
    expired,    \* the deadline of the status poll has passed
    cause,      \* why the request rolls back
    reply,      \* how the last request ended
    leaked,     \* threads abandoned by a cancellation
    faults, cancels, crashes,
    exposed     \* history: an event after which the node promises nothing

node    == <<file, xray, started, status>>
request == <<pc, mode, candidate, previous, source, expired, cause, reply>>
counted == <<faults, cancels, crashes>>
vars    == <<runtime, node, request, leaked, counted, exposed>>

Reloading == {"render", "write", "test", "restart", "poll"}
Threads == [kind : {"render", "restart"}, source : {Nothing}]
           \union [kind : {"write"}, source : Configs]

\* What the core reads when it starts.
Source == IF runtime = "xray" THEN xray ELSE file
FirstCall == IF runtime = "xray" THEN "render" ELSE "restart"

Init ==
    /\ runtime \in {"sing-box", "xray"}
    /\ file = InitialConfig /\ xray = InitialConfig /\ started = InitialConfig
    /\ status = "running"
    /\ pc = "idle" /\ mode = "commit"
    /\ candidate = InitialConfig /\ previous = InitialConfig
    /\ source = Nothing
    /\ expired = FALSE
    /\ cause = "failed" /\ reply = "none"
    /\ leaked = {}
    /\ faults = 0 /\ cancels = 0 /\ crashes = 0
    /\ exposed = FALSE

-----------------------------------------------------------------------------
(* The request between its calls.                                          *)

Calls(next) ==
    /\ pc' = next
    /\ UNCHANGED <<mode, candidate, previous, cause, reply, exposed>>

Answers(answer) ==
    /\ pc' = "idle" /\ mode' = "commit"
    /\ candidate' = InitialConfig /\ previous' = InitialConfig
    /\ cause' = "failed"
    /\ reply' = answer
    /\ exposed' = (exposed \/ answer = "rollback_failed")

RollsBack(why) ==
    /\ pc' = "restore" /\ mode' = "rollback" /\ cause' = why
    /\ UNCHANGED <<candidate, previous, reply, exposed>>

BugSwallowed == Answers(IF mode = "commit" THEN "failed" ELSE "rollback_failed")

\* An exception: commit_config rolls back, _rollback gives up.
Raises ==
    \/ mode = "commit" /\ RollsBack("failed")
    \/ mode = "rollback" /\ Answers("rollback_failed")

\* reload() returned.
Returns ==
    \/ mode = "commit" /\ Answers("ok")
    \/ mode = "rollback" /\ Answers(cause)

\* A call fails for a reason outside the model: the disk, or Docker.
Fault == faults < MaxFaults /\ faults' = faults + 1
NoFault == UNCHANGED faults

UnchangedElsewhere == UNCHANGED <<runtime, leaked, cancels, crashes>>

Begin(c) ==
    /\ pc = "idle"
    /\ pc' = "save"
    /\ candidate' = c /\ previous' = file
    /\ reply' = "none"
    /\ UNCHANGED <<runtime, node, mode, source, expired, cause, leaked, counted, exposed>>

BugRestoreWithoutRender ==
    LET new == IF pc = "save" THEN candidate ELSE previous
    IN  /\ pc \in {"save", "restore"}
        /\ file' = new /\ NoFault
        /\ Calls(IF pc = "save" THEN FirstCall ELSE "restart")
        /\ UNCHANGED <<xray, started, status, source, expired>>
        /\ UnchangedElsewhere

\* store.save or store.restore: atomic, and chmod may fail after the replace.
WriteConfig ==
    LET new == IF pc = "save" THEN candidate ELSE previous
    IN  /\ pc \in {"save", "restore"}
        /\ \/ file' = new /\ NoFault /\ Calls(FirstCall)
           \/ file' \in {file, new} /\ Fault /\ Raises
        /\ UNCHANGED <<xray, started, status, source, expired>>
        /\ UnchangedElsewhere

-----------------------------------------------------------------------------
(* XrayDockerRuntime.reload: render in a thread, then test in the container.*)

BugRenderUnread ==
    /\ pc = "render"
    /\ Calls("write")
    /\ UNCHANGED <<node, source, expired, faults>>
    /\ UnchangedElsewhere

RenderRead ==
    /\ pc = "render"
    /\ \/ file \notin Unrenderable /\ source' = file /\ Calls("write")
       \/ file \in Unrenderable /\ Raises /\ UNCHANGED source
    /\ UNCHANGED <<node, expired, faults>>
    /\ UnchangedElsewhere

\* xray.json is replaced before it is tested.
RenderWrite ==
    /\ pc = "write"
    /\ \/ xray' = source /\ NoFault /\ Calls("test")
       \/ xray' \in {xray, source} /\ Fault /\ Raises
    /\ source' = Nothing
    /\ UNCHANGED <<file, started, status, expired>>
    /\ UnchangedElsewhere

BugTestIgnored ==
    /\ pc = "test"
    /\ Calls("restart")
    /\ UNCHANGED <<node, source, expired, faults>>
    /\ UnchangedElsewhere

\* exec needs a running container, whatever it is to test.
Test ==
    /\ pc = "test"
    /\ \/ status = "running" /\ xray \notin Refused /\ NoFault /\ Calls("restart")
       \/ (status # "running" \/ xray \in Refused) /\ NoFault /\ Raises
       \/ Fault /\ Raises
    /\ UNCHANGED <<node, source, expired>>
    /\ UnchangedElsewhere

-----------------------------------------------------------------------------
(* DockerRuntime.reload: restart, then poll until the container runs.      *)

Starts == started' = Source /\ status' = "running"

\* Docker's restart fails before the stop, between stop and start, or after.
RestartFails ==
    \/ UNCHANGED <<started, status>>
    \/ status' = "exited" /\ UNCHANGED started
    \/ Starts

Restart ==
    /\ pc = "restart"
    /\ \/ Starts /\ NoFault /\ Calls("poll") /\ expired' = FALSE
       \/ RestartFails /\ Fault /\ Raises /\ UNCHANGED expired
    /\ UNCHANGED <<file, xray, source>>
    /\ UnchangedElsewhere

BugNoDeadline ==
    /\ pc = "poll"
    /\ \/ status = "running" /\ NoFault /\ Returns
       \/ Fault /\ Raises
    /\ UNCHANGED <<node, source, expired>>
    /\ UnchangedElsewhere

\* A core that crashes over and over is running between two crashes.
Poll ==
    /\ pc = "poll"
    /\ \/ status = "running" /\ NoFault /\ Returns
       \/ status # "running" /\ expired /\ NoFault /\ Raises
       \/ Fault /\ Raises
    /\ UNCHANGED <<node, source, expired>>
    /\ UnchangedElsewhere

DeadlinePasses ==
    /\ pc = "poll" /\ ~expired
    /\ expired' = TRUE
    /\ UNCHANGED <<runtime, node, pc, mode, candidate, previous, source, cause, reply,
                   leaked, counted, exposed>>

-----------------------------------------------------------------------------
(* Cancellation inside reload.  A thread at work runs on; one that waits   *)
(* for its turn may be dropped.  Tests and polls change nothing.           *)

Abandoned ==
    CASE pc = "render"  -> {{}, {[kind |-> "render", source |-> Nothing]}}
      [] pc = "write"   -> {{[kind |-> "write", source |-> source]}}
      [] pc = "restart" -> {{}, {[kind |-> "restart", source |-> Nothing]}}
      [] OTHER          -> {{}}

\* commit_config rolls back and raises it again; _rollback does not catch it.
Cancel ==
    /\ pc \in Reloading
    /\ cancels < MaxCancels /\ cancels' = cancels + 1
    /\ \E work \in Abandoned : leaked' = leaked \union work
    /\ source' = Nothing
    /\ \/ mode = "commit" /\ RollsBack("cancelled")
       \/ /\ mode = "rollback"
          /\ pc' = "idle" /\ mode' = "commit"
          /\ candidate' = InitialConfig /\ previous' = InitialConfig
          /\ cause' = "failed" /\ reply' = "cancelled" /\ exposed' = TRUE
    /\ UNCHANGED <<runtime, node, expired, faults, crashes>>

\* An abandoned thread reads or writes whenever it gets to it.  If the file
\* has changed in between, xray.json is of no configuration the node holds.
LeakedRender(thread) ==
    /\ thread \in leaked /\ thread.kind = "render"
    /\ leaked' = (leaked \ {thread}) \union
                    (IF file \in Unrenderable THEN {}
                     ELSE {[kind |-> "write", source |-> file]})
    /\ UNCHANGED <<runtime, node, request, counted, exposed>>

LeakedWrite(thread) ==
    /\ thread \in leaked /\ thread.kind = "write"
    /\ leaked' = leaked \ {thread}
    /\ xray' = thread.source
    /\ exposed' = (exposed \/ thread.source # file)
    /\ UNCHANGED <<runtime, file, started, status, request, counted>>

LeakedRestart(thread) ==
    /\ thread \in leaked /\ thread.kind = "restart"
    /\ leaked' = leaked \ {thread}
    /\ Starts
    /\ UNCHANGED <<runtime, file, xray, request, counted, exposed>>

-----------------------------------------------------------------------------
(* The environment.                                                        *)

\* The core exits, on a configuration it refuses or for any other reason.
ProcessDies ==
    /\ status = "running"
    /\ status' = "restarting"
    /\ UNCHANGED <<runtime, file, xray, started, request, leaked, counted, exposed>>

\* restart: unless-stopped
DockerRestarts ==
    /\ status = "restarting"
    /\ Starts
    /\ UNCHANGED <<runtime, file, xray, request, leaked, counted, exposed>>

OperatorStops ==
    /\ status # "exited"
    /\ status' = "exited"
    /\ UNCHANGED <<runtime, file, xray, started, request, leaked, counted, exposed>>

OperatorStarts ==
    /\ status = "exited"
    /\ Starts
    /\ UNCHANGED <<runtime, file, xray, request, leaked, counted, exposed>>

\* Nothing renders or restarts when the API starts again.
ApiCrash ==
    /\ crashes < MaxCrashes /\ crashes' = crashes + 1
    /\ exposed' = (exposed \/ pc # "idle")
    /\ reply' = IF pc = "idle" THEN reply ELSE "lost"
    /\ pc' = "idle" /\ mode' = "commit"
    /\ candidate' = InitialConfig /\ previous' = InitialConfig
    /\ source' = Nothing /\ cause' = "failed"
    /\ leaked' = {}
    /\ UNCHANGED <<runtime, node, expired, faults, cancels>>

RequestStep ==
    WriteConfig \/ RenderRead \/ RenderWrite \/ Test \/ Restart \/ Poll

Next ==
    \/ \E c \in Configs : Begin(c)
    \/ RequestStep \/ DeadlinePasses \/ Cancel
    \/ \E thread \in leaked :
          LeakedRender(thread) \/ LeakedWrite(thread) \/ LeakedRestart(thread)
    \/ ProcessDies \/ DockerRestarts \/ OperatorStops \/ OperatorStarts
    \/ ApiCrash

Spec == Init /\ [][Next]_vars

\* Calls to Docker and the disk end, the event loop goes on, and time passes.
\* Docker owes no restart, and nobody a request.
FairSpec == Spec /\ WF_vars(RequestStep) /\ WF_vars(DeadlinePasses)

-----------------------------------------------------------------------------
(* Properties.                                                             *)

TypeOK ==
    /\ runtime \in {"sing-box", "xray"}
    /\ file \in Configs /\ xray \in Configs /\ started \in Configs
    /\ status \in {"running", "restarting", "exited"}
    /\ pc \in {"idle", "save", "restore"} \union Reloading
    /\ mode \in {"commit", "rollback"}
    /\ candidate \in Configs /\ previous \in Configs
    /\ source \in Configs \union {Nothing}
    /\ expired \in BOOLEAN
    /\ cause \in {"failed", "cancelled"}
    /\ reply \in {"none", "ok", "failed", "cancelled", "rollback_failed", "lost"}
    /\ leaked \subseteq Threads
    /\ faults \in 0 .. MaxFaults /\ cancels \in 0 .. MaxCancels
    /\ crashes \in 0 .. MaxCrashes
    /\ exposed \in BOOLEAN

\* Between requests the core runs config.json, however the last request ended
\* and whoever restarted the container; under Xray it is a configuration the
\* core accepts, and xray.json is its rendering.
SettledAgreement ==
    ~exposed /\ pc = "idle" =>
        /\ started = file
        /\ runtime = "xray" => xray = file /\ file \notin Refused

\* A rollback that is reported as failed (the container was stopped, or kept
\* dying until the deadline) has still put the previous configuration where
\* the core will read it, and under sing-box has started it, unless the disk
\* or Docker failed.
RollbackReinstalls ==
    [][reply # "rollback_failed" /\ reply' = "rollback_failed" /\ faults' = 0 /\ ~exposed
          => /\ file' = previous /\ Source' = previous
             /\ runtime = "sing-box" => started' = previous]_vars

Never(o, c) == FALSE
Replaced(o, c) == o

\* The reload contract that ConfigMutation relies on is enough for README's
\* "Atomic mutations" with either core.
Node == INSTANCE AtomicNode WITH
    Tasks <- {"request"},
    Ops <- Configs,
    Refuses <- Never,
    Skips <- Never,
    Apply <- Replaced,
    None <- Nothing,
    config <- IF pc = "idle" THEN file ELSE previous,
    request <- [t \in {"request"} |-> IF pc = "idle" THEN Nothing ELSE candidate],
    answer <- [t \in {"request"} |-> reply]

ImplementsAtomicNode == Node!Spec

\* Every reload ends, also while the core crashes over and over: the status
\* poll has a deadline, and the rollback's poll one of its own.
EveryReloadEnds == pc # "idle" ~> pc = "idle"

-----------------------------------------------------------------------------
(* The inductive invariant behind them.                                    *)

\* Where the request is tells what it has written to config.json.
PassInv ==
    /\ runtime = "sing-box" => pc \notin {"render", "write", "test"}
    /\ pc \in {"idle", "save"} => mode = "commit"
    /\ pc = "restore" => mode = "rollback"
    /\ pc = "write" => source # Nothing
    /\ pc \in Reloading => file = IF mode = "commit" THEN candidate ELSE previous

\* Each call of a reload leaves the next what it needs, and an abandoned
\* write that could take it away ends the promise.
ReloadInv ==
    ~exposed =>
        /\ pc \in {"idle", "save", "poll"} => started = file
        /\ runtime = "xray" =>
              /\ pc = "write" => source = file
              /\ pc \in {"idle", "save", "test", "restart", "poll"} => xray = file
              /\ pc \in {"idle", "save", "restart", "poll"} => file \notin Refused
              /\ pc \in {"idle", "save", "write", "test", "restart", "poll"}
                    => file \notin Unrenderable
              /\ pc # "idle" => previous \notin Unrenderable

IInv == TypeOK /\ PassInv /\ ReloadInv
=============================================================================
