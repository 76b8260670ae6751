----------------------------- MODULE NodeUpdate -----------------------------
(***************************************************************************)
(* update.sh: the checkout moves to a release, environment and             *)
(* configuration are backed up, images are pulled, the containers are      *)
(* recreated and the deployed configuration is merged into the release's   *)
(* template.  From the trap on, a failing command starts the rollback.     *)
(*                                                                         *)
(* Commits, templates and .env.local are known by the release they come    *)
(* from.  Image tags move on their own: a pull brings what is published.   *)
(* Operators named Bug... are faulty variants of the definition below them *)
(* (README).                                                               *)
(***************************************************************************)
EXTENDS ApiRequest, Naturals

CONSTANTS
    MaxRelease,     \* bound: releases
    MaxUpdates      \* bound: runs of the script

ASSUME UpdateAssumption == MaxRelease \in Nat \ {0} /\ MaxUpdates \in Nat

Releases == 1..MaxRelease
Garbled == 0        \* .env.local cut short, or with a command's output for a value
NoImage == 0

Configs == [template : Releases, users : SUBSET Users]
Files == Configs \union {NoConfig}

ASSUME NoConfigAssumption == NoConfig \notin Configs

VARIABLES
    checkout,       \* HEAD of the installation
    env,            \* .env.local
    images,         \* what the image tags name
    running,        \* image and environment of the containers
    pc,             \* the next command of the script
    oldCommit, oldImages, envBackup, configBackup,
    rendered,       \* config.json.next
    resume,         \* what follows a rollback: "exit", "rollback" or "up"
    outcome,        \* how the last update ended
    updates,
    before,         \* history: the deployment when the update began
    crossed,        \* history: the script or a request wrote over the other's work
    late,           \* history: a request wrote config.json while an update held a backup
    skipped         \* history: a command of this update's rollback failed

deployed == <<checkout, env, images, running, config, served>>
api == requestVars
backups == <<oldCommit, oldImages, envBackup, configBackup>>
noted == <<before, crossed, late, skipped>>
vars == <<deployed, api, backups, pc, rendered, resume, outcome, updates, noted>>

Deployment ==
    [checkout |-> checkout, env |-> env, image |-> running.image, config |-> config,
     users |-> IF config = NoConfig THEN {} ELSE answered \intersect config.users]

\* An update that aborted may have left a later checkout and environment, and
\* somebody may have pulled images.
Init ==
    /\ InitRequest([template |-> 1, users |-> {}])
    /\ checkout \in Releases /\ env \in {1, checkout} /\ images \in Releases
    /\ running = [image |-> 1, env |-> 1]
    /\ pc = "idle"
    /\ oldCommit = checkout /\ oldImages = NoImage
    /\ envBackup = env /\ configBackup = config
    /\ rendered = config
    /\ resume = "exit" /\ outcome = "none" /\ updates = 0
    /\ before = Deployment
    /\ crossed = FALSE /\ late = FALSE /\ skipped = FALSE

-----------------------------------------------------------------------------
(* Before the trap: a failing command ends the script and leaves what is   *)
(* done as it is.                                                          *)

Aborts == pc' = "idle" /\ outcome' = "aborted"

BugReexecForgets ==
    /\ pc = "idle" /\ updates < MaxUpdates
    /\ updates' = updates + 1
    /\ \E release \in checkout..MaxRelease :
          /\ checkout' = release
          /\ oldCommit' = checkout'
          /\ pc' = "backup" /\ outcome' = "none"
    /\ resume' = "exit"
    /\ before' = Deployment
    /\ UNCHANGED <<env, images, running, config, served, api, oldImages, envBackup,
                   configBackup, rendered, crossed, late, skipped>>

\* The script of the new release takes over and is told the old commit.
Fetch ==
    /\ pc = "idle" /\ updates < MaxUpdates
    /\ updates' = updates + 1
    /\ oldCommit' = checkout
    /\ \E release \in checkout..MaxRelease :
          \/ checkout' = release /\ pc' = "backup" /\ outcome' = "none"
          \/ checkout' \in {checkout, release} /\ Aborts
    /\ resume' = "exit"
    /\ before' = Deployment
    /\ UNCHANGED <<env, images, running, config, served, api, oldImages, envBackup,
                   configBackup, rendered, crossed, late, skipped>>

Backup ==
    /\ pc = "backup"
    /\ envBackup' = env
    /\ configBackup' = config
    /\ (pc' = "choose images" /\ UNCHANGED outcome) \/ Aborts
    /\ UNCHANGED <<deployed, api, oldCommit, oldImages, rendered, resume, updates, noted>>

BugImagesLate ==
    /\ pc = "choose images"
    /\ env' = checkout /\ pc' = "pull"
    /\ UNCHANGED <<checkout, images, running, config, served, api, backups, rendered,
                   resume, outcome, updates, noted>>

\* The runtime's image is written to .env.local, and the images to go back to
\* are those of the containers.
ChooseImages ==
    /\ pc = "choose images"
    /\ oldImages' = running.image
    /\ \/ env' = checkout /\ pc' = "pull" /\ UNCHANGED outcome
       \/ env' \in {env, checkout} /\ Aborts
    /\ UNCHANGED <<checkout, images, running, config, served, api, oldCommit, envBackup,
                   configBackup, rendered, resume, updates, noted>>

-----------------------------------------------------------------------------
(* Under the trap.  set -E hands it to command substitutions too: one that *)
(* fails rolls back in its subshell, and the script itself then rolls back *)
(* again, if the result was assigned, or goes on, if it was an argument.   *)

RollsBack(next) == pc' = "reset commit" /\ resume' = next /\ skipped' = FALSE

BugIgnoresFailure(next, effect) ==
    (effect \/ UNCHANGED deployed) /\ pc' = next /\ UNCHANGED <<resume, skipped>>

\* A command succeeds and the next follows, or it fails, with or without its
\* effect.
Then(next, effect) ==
    \/ effect /\ pc' = next /\ UNCHANGED <<resume, skipped>>
    \/ (effect \/ UNCHANGED deployed) /\ RollsBack("exit")

SubstitutionFails(next) == RollsBack(next) /\ UNCHANGED deployed

Pull ==
    /\ pc = "pull"
    /\ \/ Then("complete env",
               /\ images' \in images..MaxRelease
               /\ UNCHANGED <<checkout, env, running, config, served>>)
       \/ SubstitutionFails("rollback")
    /\ UNCHANGED <<api, backups, rendered, outcome, updates, before, crossed, late>>

CompleteEnv ==
    /\ pc = "complete env"
    /\ \/ Then("up", env' = checkout
                     /\ UNCHANGED <<checkout, images, running, config, served>>)
       \/ \E next \in {"rollback", "up"} : SubstitutionFails(next)
    /\ UNCHANGED <<api, backups, rendered, outcome, updates, before, crossed, late>>

\* docker compose up: containers whose image or environment changed are
\* recreated, the API's with the death of its request.
Recreate ==
    LET current == [image |-> images, env |-> env]
    IN  /\ running' = current
        /\ IF running = current THEN UNCHANGED <<served, request, loaded, undo>>
           ELSE served' \in {served, config} /\ DiesWithRequest
        /\ UNCHANGED <<checkout, env, images, config>>

Up ==
    /\ pc = "up"
    /\ Then("read config", Recreate)
    /\ DiesWithRequest \/ UNCHANGED <<request, loaded, undo>>
    /\ UNCHANGED <<creating, answered, backups, rendered, outcome, updates, before,
                   crossed, late>>

BugReadConfig ==
    /\ pc = "read config"
    /\ rendered' = [template |-> checkout, users |-> {}]
    /\ Then("move", UNCHANGED deployed)
    /\ UNCHANGED <<api, backups, outcome, updates, before, crossed, late>>

\* sync-singbox.py merges the deployed users into the template of the checkout.
ReadConfig ==
    /\ pc = "read config"
    /\ \/ /\ config # NoConfig
          /\ rendered' = [template |-> checkout, users |-> config.users]
          /\ pc' = "move" /\ UNCHANGED <<resume, skipped>>
       \/ RollsBack("exit") /\ UNCHANGED rendered
    /\ UNCHANGED <<deployed, api, backups, outcome, updates, before, crossed, late>>

Replace(new) ==
    config' = new /\ UNCHANGED <<checkout, env, images, running, served>>

Move ==
    /\ pc = "move"
    /\ Then("check", Replace(rendered))
    /\ UNCHANGED <<api, backups, rendered, outcome, updates, before, crossed, late>>

\* sing-box check sees the configuration after it was deployed.
Check ==
    /\ pc = "check"
    /\ Then("restart", config # NoConfig /\ UNCHANGED deployed)
    /\ UNCHANGED <<api, backups, rendered, outcome, updates, before, crossed, late>>

RestartRuntime ==
    served' = config /\ UNCHANGED <<checkout, env, images, running, config>>

Restart ==
    /\ pc = "restart"
    /\ Then("wait", RestartRuntime)
    /\ UNCHANGED <<api, backups, rendered, outcome, updates, before, crossed, late>>

\* wait_for_status, and the end of the trap.
Wait ==
    /\ pc = "wait"
    /\ Then("idle", UNCHANGED deployed)
    /\ outcome' = IF pc' = "idle" THEN "complete" ELSE outcome
    /\ UNCHANGED <<api, backups, rendered, updates, before, crossed, late>>

-----------------------------------------------------------------------------
(* rollback: every command runs, and none is asked whether it succeeded.   *)

Attempt(next, effect) ==
    /\ pc' = next
    /\ \/ effect /\ UNCHANGED skipped
       \/ (effect \/ UNCHANGED deployed) /\ skipped' = TRUE
    /\ UNCHANGED <<backups, rendered, resume, outcome, updates, before, late>>

ResetCommit ==
    /\ pc = "reset commit"
    /\ Attempt("restore env", checkout' = oldCommit
                              /\ UNCHANGED <<env, images, running, config, served>>)
    /\ UNCHANGED <<api, crossed>>

\* cp and compose cp write in place, and may stop halfway.
Cut(next, damage) ==
    /\ damage /\ skipped' = TRUE
    /\ pc' = next
    /\ UNCHANGED <<backups, rendered, resume, outcome, updates, before, late>>

RestoreEnv ==
    /\ pc = "restore env"
    /\ \/ Attempt("retag", env' = envBackup
                           /\ UNCHANGED <<checkout, images, running, config, served>>)
       \/ Cut("retag", env' = Garbled
                       /\ UNCHANGED <<checkout, images, running, config, served>>)
    /\ UNCHANGED <<api, crossed>>

\* restore_image skips what compose did not name.
RetagImages ==
    /\ pc = "retag"
    /\ Attempt("up old",
               /\ images' = IF oldImages = NoImage THEN images ELSE oldImages
               /\ UNCHANGED <<checkout, env, running, config, served>>)
    /\ UNCHANGED <<api, crossed>>

UpOld ==
    /\ pc = "up old"
    /\ Attempt("restore config", Recreate)
    /\ DiesWithRequest \/ UNCHANGED <<request, loaded, undo>>
    /\ UNCHANGED <<creating, answered, crossed>>

RestoreConfig ==
    /\ pc = "restore config"
    /\ \/ Attempt("restart old", Replace(configBackup))
       \/ Cut("restart old", Replace(NoConfig))
    /\ UNCHANGED <<api, crossed>>

\* The owner, the check and the restart, whatever the check found.
RestartOld ==
    /\ pc = "restart old"
    /\ Attempt("report", RestartRuntime)
    /\ config # NoConfig \/ skipped' = TRUE
    /\ UNCHANGED <<api, crossed>>

\* wait_for_status decides what is said.  A rollback in a subshell ends there,
\* and what it said may become a value of .env.local.
Report ==
    /\ pc = "report"
    /\ \/ /\ resume = "exit" /\ pc' = "idle"
          /\ outcome' \in {"restored", "incomplete"}
          /\ UNCHANGED <<env, resume, skipped>>
       \/ resume = "rollback" /\ RollsBack("exit") /\ UNCHANGED <<env, outcome>>
       \/ /\ resume = "up" /\ pc' = "up"
          /\ env' = Garbled
          /\ UNCHANGED <<resume, skipped, outcome>>
    /\ UNCHANGED <<checkout, images, running, config, served, api, backups, rendered,
                   updates, before, crossed, late>>

-----------------------------------------------------------------------------
(* The API, while the script runs and in between.                          *)

Request ==
    /\ RequestStep
    /\ crossed' = (crossed \/ (config' # config /\ ~(pc # "move" /\ KnowsFile)))
    /\ late' = (late \/ (config' # config /\ pc \notin {"idle", "backup"}))
    /\ UNCHANGED <<checkout, env, images, running, backups, pc, rendered, resume, outcome,
                   updates, before, skipped>>

Next ==
    \/ Fetch \/ Backup \/ ChooseImages
    \/ Pull \/ CompleteEnv \/ Up \/ ReadConfig \/ Move \/ Check \/ Restart \/ Wait
    \/ ResetCommit \/ RestoreEnv \/ RetagImages \/ UpOld \/ RestoreConfig \/ RestartOld
    \/ Report
    \/ Request

Spec == Init /\ [][Next]_vars

-----------------------------------------------------------------------------
(* Properties.                                                             *)

Steps == {"idle", "backup", "choose images", "pull", "complete env", "up", "read config",
          "move", "check", "restart", "wait", "reset commit", "restore env", "retag",
          "up old", "restore config", "restart old", "report"}

\* What is deployed is of some release.
DeploymentTypes ==
    /\ checkout \in Releases /\ images \in Releases
    /\ env \in Releases \union {Garbled}
    /\ running \in [image : Releases, env : Releases \union {Garbled}]
    /\ config \in Files /\ served \in Files

\* So is what the script keeps; under the trap the images to go back to are
\* known.
BackupTypes ==
    /\ oldCommit \in Releases /\ envBackup \in Releases \union {Garbled}
    /\ oldImages \in Releases \union {NoImage}
    /\ pc \notin {"idle", "backup", "choose images"} => oldImages \in Releases
    /\ configBackup \in Files /\ rendered \in Configs
    /\ before \in [checkout : Releases, env : Releases \union {Garbled},
                   image : Releases, config : Files, users : SUBSET Users]

ControlTypes ==
    /\ pc \in Steps /\ resume \in {"exit", "rollback", "up"}
    /\ outcome \in {"none", "complete", "restored", "incomplete", "aborted"}
    /\ updates \in 0..MaxUpdates
    /\ request \in {"none", "loaded", "backed up", "saved", "restore", "reload"}
    /\ creating \in Users /\ loaded \in Files /\ undo \in Files
    /\ answered \in SUBSET Users
    /\ crossed \in BOOLEAN /\ late \in BOOLEAN /\ skipped \in BOOLEAN

TypeOK == DeploymentTypes /\ BackupTypes /\ ControlTypes

\* "Update complete": the containers run the pulled images with the updated
\* environment, and config.json and the running VPN have the template of the
\* checkout, whatever became of the requests beside the update, unless the
\* script or a request wrote over the other's work, or the script went on after
\* a rollback of its subshell.
UpdatedIsDeployed ==
    outcome = "complete" /\ ~crossed /\ resume # "up" =>
        /\ env = checkout
        /\ running = [image |-> images, env |-> env]
        /\ NoConfig \notin {config, served}
        /\ config.template = checkout /\ served.template = checkout

\* "Previous deployment restored": commit, environment, image tags, containers
\* and template are what they were when the update began, and the users that
\* had been answered for are served, whichever command failed, however often
\* the rollback ran and whatever became of the requests beside it, unless a
\* command of the rollback itself failed, which the script does not look at.
RestoredIsDeployed ==
    outcome = "restored" /\ ~skipped /\ ~crossed =>
        /\ checkout = before.checkout /\ env = before.env
        /\ images = before.image
        /\ running = [image |-> images, env |-> env]
        /\ NoConfig \notin {config, served, before.config}
        /\ config.template = before.config.template
        /\ served.template = config.template
        /\ before.users \subseteq served.users

\* Updates, complete, restored, incomplete or aborted, lose no user: who was
\* answered for is in config.json and is served, as long as the script and a
\* request do not write over each other's work, no request writes while an
\* update holds a backup and no failing copy cuts config.json.
AnsweredUsersStay ==
    ~crossed /\ ~late =>
        \A file \in {config, served} \ {NoConfig} : answered \subseteq file.users

-----------------------------------------------------------------------------
(* The inductive invariant behind them.                                    *)

Forward  == {"pull", "complete env", "up", "read config", "move", "check", "restart",
             "wait"}
Rollback == {"reset commit", "restore env", "retag", "up old", "restore config",
             "restart old", "report"}

\* A configuration with the template that was deployed when the update began
\* and at least the users that had been answered for, or none if there was none.
KeepsDeployed(file) ==
    \/ file = NoConfig /\ before.config = NoConfig
    \/ /\ NoConfig \notin {file, before.config}
       /\ file.template = before.config.template
       /\ before.users \subseteq file.users

\* An update remembers the deployment it found, part by part as it gets there.
MemoryInv ==
    /\ pc # "idle" => outcome = "none" /\ oldCommit = before.checkout
    /\ pc \in {"backup", "choose images"}
          => env = before.env /\ running.image = before.image
    /\ pc \notin {"idle", "backup"} => envBackup = before.env
    /\ pc \in Forward \union Rollback => oldImages = before.image
    /\ ~crossed => /\ pc = "backup" => KeepsDeployed(config)
                   /\ pc \notin {"idle", "backup"} => KeepsDeployed(configBackup)

\* Until one overwrites the other's work, the script and the request write back
\* the users that had been answered for when the update began.
WritersInv ==
    /\ request # "none" => /\ loaded \in Configs /\ creating \in loaded.users
                           /\ creating \notin answered
    /\ ~crossed =>
          /\ request # "none" => creating \notin before.users
          /\ config # NoConfig => before.users \subseteq config.users
          /\ pc = "move" => config # NoConfig /\ rendered.users = config.users

\* Who was answered for is in the file, and so is who has been saved.
Counts(file) ==
    file # NoConfig =>
        /\ answered \subseteq file.users
        /\ request \in {"loaded", "backed up"} => creating \notin file.users
        /\ request = "saved" => creating \in file.users

ServedCounts == served # NoConfig => answered \subseteq served.users

BackupIsCurrent ==
    config # NoConfig /\ configBackup # NoConfig => configBackup.users = config.users

\* Nor is a user lost if nobody writes while an update holds a backup.
UsersInv ==
    ~crossed /\ ~late =>
        /\ Counts(config) /\ ServedCounts
        /\ pc \notin {"idle", "backup"} => Counts(configBackup) /\ BackupIsCurrent

\* The way to "Update complete".
ForwardInv ==
    LET complete == pc = "idle" /\ outcome = "complete"
    IN  ~crossed /\ resume # "up" =>
            /\ pc \in Forward \/ complete => env = checkout
            /\ pc \in Forward \ {"pull", "complete env", "up"} \/ complete
                  => running = [image |-> images, env |-> env]
            /\ pc = "move" => rendered.template = checkout
            /\ pc \in {"check", "restart", "wait"} \/ complete
                  => config # NoConfig /\ config.template = checkout
            /\ pc = "wait" \/ complete => served # NoConfig /\ served.template = checkout

\* The way back.
RollbackInv ==
    LET restored == pc = "idle" /\ outcome = "restored"
    IN  ~crossed /\ ~skipped =>
            /\ pc \in Rollback \ {"reset commit"} \/ restored
                  => checkout = before.checkout
            /\ pc \in Rollback \ {"reset commit", "restore env"} \/ restored
                  => env = before.env
            /\ pc \in {"up old", "restore config", "restart old", "report"} \/ restored
                  => images = before.image
            /\ pc \in {"restore config", "restart old", "report"} \/ restored
                  => running = [image |-> images, env |-> env]
            /\ pc \in {"restart old", "report"} \/ restored => KeepsDeployed(config)
            /\ pc = "report" \/ restored
                  => NoConfig \notin {config, served} /\ KeepsDeployed(served)

IInv == TypeOK /\ MemoryInv /\ WritersInv /\ UsersInv /\ ForwardInv /\ RollbackInv
=============================================================================
