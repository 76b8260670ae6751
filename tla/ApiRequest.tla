----------------------------- MODULE ApiRequest -----------------------------
(***************************************************************************)
(* A request that creates a user, as the scripts of the host see it.  They *)
(* share config.json and the VPN container with the API, and no lock: of   *)
(* the commit protocol that ConfigMutation describes in full, what matters *)
(* here is when a request reads and writes the file and restarts the       *)
(* container, on the way forward and when a failing or cancelled call      *)
(* takes it back.  The thread that a cancelled call leaves behind, which   *)
(* may still write, is ConfigMutation's alone.                             *)
(***************************************************************************)
CONSTANTS
    Users,
    NoConfig    \* a config.json cut short, which nobody can read, or nothing at all

VARIABLES
    config,     \* config.json: a record whose users are a set, or NoConfig
    served,     \* the configuration the VPN container started with
    request,    \* the API's mutation: "none", or what it has done so far
    creating,   \* the user it creates
    loaded,     \* what it loaded, the new user included
    undo,       \* the backup it took
    answered    \* history: users whose last creation was answered with success

requestVars == <<request, creating, loaded, undo, answered>>

InitRequest(initial) ==
    /\ config = initial
    /\ served = initial
    /\ request = "none"
    /\ creating \in Users
    /\ loaded = NoConfig
    /\ undo = NoConfig
    /\ answered = {}

\* What the request had in memory is gone.
EndRequest == request' = "none" /\ loaded' = NoConfig /\ undo' = NoConfig

LoadConfig(u) ==
    /\ request = "none"
    /\ config # NoConfig /\ u \notin config.users
    /\ request' = "loaded"
    /\ creating' = u
    /\ loaded' = [config EXCEPT !.users = @ \union {u}]
    /\ answered' = answered \ {u}
    /\ UNCHANGED <<config, served, undo>>

\* The backup is a second read of the file.
BackupConfig ==
    /\ request = "loaded"
    /\ \/ undo' = config /\ request' = "backed up" /\ UNCHANGED loaded
       \/ EndRequest
    /\ UNCHANGED <<config, served, creating, answered>>

\* A call that fails or is cancelled may have had its effect.
SaveConfig ==
    /\ request = "backed up"
    /\ \/ config' = loaded /\ request' = "saved"
       \/ config' \in {config, loaded} /\ request' = "restore"
    /\ UNCHANGED <<served, creating, loaded, undo, answered>>

ReloadRuntime ==
    /\ request = "saved"
    /\ \/ /\ served' = config
          /\ answered' = answered \union {creating}
          /\ EndRequest
       \/ /\ served' \in {served, config}
          /\ request' = "restore"
          /\ UNCHANGED <<answered, loaded, undo>>
    /\ UNCHANGED <<config, creating>>

\* _rollback; a failing restore leaves the second reload out.
RestoreBackup ==
    /\ request = "restore"
    /\ \/ config' = undo /\ request' = "reload" /\ UNCHANGED <<loaded, undo>>
       \/ config' \in {config, undo} /\ EndRequest
    /\ UNCHANGED <<served, creating, answered>>

ReloadBackup ==
    /\ request = "reload"
    /\ served' \in {served, config}
    /\ EndRequest
    /\ UNCHANGED <<config, creating, answered>>

RequestStep ==
    \/ \E u \in Users : LoadConfig(u)
    \/ BackupConfig \/ SaveConfig \/ ReloadRuntime
    \/ RestoreBackup \/ ReloadBackup

\* The container of the API is recreated, and dies with its request.
DiesWithRequest == EndRequest

\* The request knows the file: it is what its backup holds, or that and the
\* user.  A write of a request that does not undoes what another writer did.
KnowsFile ==
    /\ config \in {undo, loaded}
    /\ undo # NoConfig
    /\ loaded = [undo EXCEPT !.users = @ \union {creating}]
=============================================================================
