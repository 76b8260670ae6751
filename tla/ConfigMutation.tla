--------------------------- MODULE ConfigMutation ---------------------------
(***************************************************************************)
(* The commit protocol of the node: every state-changing request takes the *)
(* one asyncio lock, loads config.json, backs it up, computes the new      *)
(* configuration, saves it, restarts the VPN container, and rolls back     *)
(* when saving or restarting fails (domain/mutation.py, the file store and *)
(* DockerRuntime.reload as the file and the container see them).           *)
(*                                                                         *)
(* What a request computes is a parameter: Refuses, Skips and Apply are    *)
(* the three ways a domain operation leaves its in-memory part.  Every     *)
(* await on a worker thread is two steps, the thread's work and the task's *)
(* resumption, so that cancellation can fall between them: a cancelled     *)
(* await abandons its thread, it does not stop it.                         *)
(*                                                                         *)
(* Operators named Bug... are faulty variants of the definition below      *)
(* them; no specification uses them (README, "What makes a property fail").*)
(***************************************************************************)
EXTENDS Naturals, Sequences

CONSTANTS
    Tasks,              \* concurrent HTTP requests
    Ops,                \* what a request may ask for
    Configs,            \* configurations the node can hold
    InitialConfig,
    Refuses(_, _),      \* the operation raises a domain error on this config
    Skips(_, _),        \* it returns success without committing
    Apply(_, _),        \* the configuration it commits otherwise
    EarlyBackup,        \* operations that back up before they validate
    MaxClock,           \* bound: seconds the model distinguishes
    MaxCancels,         \* bound: cancellations of request tasks
    MaxCrashes,         \* bound: crashes of the API process
    Nobody,             \* no task holds the lock
    Broken,             \* an unusable file, or a container that serves nothing
    None                \* no request, no abandoned work

Stored == Configs \union {Broken}
Stamps == 0 .. MaxClock

ASSUME OpsAssumption ==
    \A o \in Ops, c \in Configs :
        /\ Refuses(o, c) \in BOOLEAN
        /\ Skips(o, c) \in BOOLEAN
        /\ Apply(o, c) \in Configs
ASSUME ConstantsAssumption ==
    /\ InitialConfig \in Configs
    /\ Nobody \notin Tasks
    /\ Broken \notin Configs
    /\ MaxClock \in Nat /\ MaxCancels \in Nat /\ MaxCrashes \in Nat

JobKinds == {"backup", "save", "reload", "restore"}
Job == [kind : JobKinds, cfg : Configs, stamp : Stamps]
ASSUME NoneAssumption == None \notin Job \union Ops

VARIABLES
    file,       \* config.json
    backups,    \* the backup file of each second, Broken if never written
    running,    \* the configuration the container started with
    clock,      \* the second a backup's name is made of
    lock,       \* holder of the shared mutation lock
    queue,      \* tasks waiting for it, first come first served
    pc,         \* the await a task is suspended in
    await,      \* what the worker thread of that await has done so far
    op,         \* the request a task serves
    loaded,     \* config as load() returned it
    next,       \* config the task wants to commit
    stamp,      \* the backup the task took
    cause,      \* why the task rolls back
    reply,      \* how the task's last request ended
    leaked,     \* thread work abandoned by the n-th cancellation
    cancels,
    crashes,
    exposed     \* history: an event after which the node promises nothing

disk   == <<file, backups, running, clock>>
sync   == <<lock, queue, pc>>
locals == <<op, loaded, next, stamp, cause>>
faults == <<leaked, cancels, crashes, exposed>>
vars   == <<disk, sync, await, locals, reply, faults>>

Critical   == {"load", "backup", "save", "reload", "restore", "recover"}
Committing == {"save", "reload", "restore", "recover"}
Replies    == {"none", "ok", "unchanged", "refused", "failed",
               "rollback_failed", "cancelled", "lost"}

Init ==
    /\ file = InitialConfig
    /\ backups = [s \in Stamps |-> Broken]
    /\ running = InitialConfig
    /\ clock = 0
    /\ lock = Nobody
    /\ queue = <<>>
    /\ pc = [t \in Tasks |-> "idle"]
    /\ await = [t \in Tasks |-> "pending"]
    /\ op = [t \in Tasks |-> None]
    /\ loaded = [t \in Tasks |-> InitialConfig]
    /\ next = [t \in Tasks |-> InitialConfig]
    /\ stamp = [t \in Tasks |-> 0]
    /\ cause = [t \in Tasks |-> "failed"]
    /\ reply = [t \in Tasks |-> "none"]
    /\ leaked = [n \in 1 .. MaxCancels |-> None]
    /\ cancels = 0
    /\ crashes = 0
    /\ exposed = FALSE

-----------------------------------------------------------------------------
(* Moving between awaits.                                                  *)

\* The task suspends in another await, whose thread has not run yet.
Goto(t, place) ==
    /\ pc' = [pc EXCEPT ![t] = place]
    /\ await' = [await EXCEPT ![t] = "pending"]
    /\ UNCHANGED <<lock, queue, reply>>

\* The task answers, its locals are gone, and the lock goes to the first waiter.
Finish(t, answer) ==
    LET woken == IF queue = <<>> THEN Nobody ELSE Head(queue)
    IN  /\ reply' = [reply EXCEPT ![t] = answer]
        /\ lock' = woken
        /\ queue' = IF queue = <<>> THEN queue ELSE Tail(queue)
        /\ pc' = [x \in Tasks |-> IF x = t THEN "idle"
                                  ELSE IF x = woken THEN "load" ELSE pc[x]]
        /\ await' = [await EXCEPT ![t] = "pending"]
        /\ op' = [op EXCEPT ![t] = None]
        /\ loaded' = [loaded EXCEPT ![t] = InitialConfig]
        /\ next' = [next EXCEPT ![t] = InitialConfig]
        /\ stamp' = [stamp EXCEPT ![t] = 0]
        /\ cause' = [cause EXCEPT ![t] = "failed"]

\* The request has its result in memory: refuse, answer, or go on to commit.
Decide(t, c) ==
    \/ /\ Refuses(op[t], c)
       /\ Finish(t, "refused")
    \/ /\ ~Refuses(op[t], c) /\ Skips(op[t], c)
       /\ Finish(t, "unchanged")
    \/ /\ ~Refuses(op[t], c) /\ ~Skips(op[t], c)
       /\ next' = [next EXCEPT ![t] = Apply(op[t], c)]
       /\ Goto(t, IF op[t] \in EarlyBackup THEN "save" ELSE "backup")
       /\ UNCHANGED <<op, loaded, stamp, cause>>

-----------------------------------------------------------------------------
(* What a worker thread does to the disk and the container.                *)

Replaces(c) == file' = c /\ UNCHANGED <<backups, running>>

BugInPlace(c, result) ==
    \/ result = "ok" /\ Replaces(c)
    \/ result = "error" /\ (Replaces(c) \/ Replaces(Broken))

\* mkstemp, write, fsync, os.replace, chmod: an error leaves the old file,
\* unless it is chmod that fails.
WritesConfig(c, result) ==
    \/ result = "ok" /\ Replaces(c)
    \/ result = "error" /\ (Replaces(c) \/ Replaces(file))

BugBackupErrorIgnored(result) ==
    /\ result = "ok" /\ backups' \in {[backups EXCEPT ![clock] = c] : c \in {file, Broken}}
    /\ UNCHANGED <<file, running>>

\* The backup is written in place: a failed write leaves it unusable.
WritesBackup(result) ==
    /\ \/ result = "ok" /\ backups' = [backups EXCEPT ![clock] = file]
       \/ result = "error" /\ backups' = [backups EXCEPT ![clock] = Broken]
       \/ result = "error" /\ backups' = backups
    /\ UNCHANGED <<file, running>>

BugRestartErrorIgnored(result) ==
    /\ result = "ok" /\ running' \in {running, file, Broken}
    /\ UNCHANGED <<file, backups>>

\* The container reads config.json as it starts.  Docker may fail before the
\* restart, after it, or with the container down.
Restarts(result) ==
    /\ \/ result = "ok" /\ running' = file
       \/ result = "error" /\ running' \in {running, file, Broken}
    /\ UNCHANGED <<file, backups>>

RunsJob(kind, c, s, result) ==
    \/ kind = "backup" /\ WritesBackup(result)
    \/ kind = "save" /\ WritesConfig(c, result)
    \/ kind = "restore" /\ WritesConfig(backups[s], result)
    \/ kind \in {"reload", "recover"} /\ Restarts(result)

-----------------------------------------------------------------------------
(* Requests.                                                               *)

BugNoLock(t, o) ==
    /\ pc[t] = "idle"
    /\ op' = [op EXCEPT ![t] = o]
    /\ reply' = [reply EXCEPT ![t] = "none"]
    /\ lock' = t
    /\ pc' = [pc EXCEPT ![t] = "load"]
    /\ UNCHANGED <<disk, queue, await, loaded, next, stamp, cause, faults>>

\* async with self._mutation_lock: take it when it is free, else queue.
Submit(t, o) ==
    /\ pc[t] = "idle"
    /\ op' = [op EXCEPT ![t] = o]
    /\ reply' = [reply EXCEPT ![t] = "none"]
    /\ \/ /\ lock = Nobody
          /\ lock' = t
          /\ pc' = [pc EXCEPT ![t] = "load"]
          /\ UNCHANGED queue
       \/ /\ lock # Nobody
          /\ queue' = Append(queue, t)
          /\ pc' = [pc EXCEPT ![t] = "queued"]
          /\ UNCHANGED lock
    /\ UNCHANGED <<disk, await, loaded, next, stamp, cause, faults>>

BugLoadUnchecked(t) ==
    /\ pc[t] = "load" /\ await[t] = "pending"
    /\ loaded' = [loaded EXCEPT ![t] = file]
    /\ await' = [await EXCEPT ![t] = "ok"]
    /\ UNCHANGED <<disk, sync, op, next, stamp, cause, reply, faults>>

\* The worker thread of the task's await does its work; reading fails for other
\* reasons, too, than what is in the file.
ThreadLoad(t) ==
    /\ pc[t] = "load" /\ await[t] = "pending"
    /\ \/ /\ file # Broken
          /\ loaded' = [loaded EXCEPT ![t] = file]
          /\ await' = [await EXCEPT ![t] = "ok"]
       \/ /\ await' = [await EXCEPT ![t] = "error"]
          /\ UNCHANGED loaded
    /\ UNCHANGED <<disk, sync, op, next, stamp, cause, reply, faults>>

ThreadRun(t) ==
    /\ pc[t] \in Critical \ {"load"} /\ await[t] = "pending"
    /\ \E result \in {"ok", "error"} :
          /\ RunsJob(pc[t], next[t], stamp[t], result)
          /\ await' = [await EXCEPT ![t] = result]
    /\ stamp' = IF pc[t] = "backup" THEN [stamp EXCEPT ![t] = clock] ELSE stamp
    /\ UNCHANGED <<clock, sync, op, loaded, next, cause, reply, faults>>

\* The task resumes after load(): operations on users back up first.
ResumeLoad(t) ==
    /\ pc[t] = "load" /\ await[t] # "pending"
    /\ \/ /\ await[t] = "error"
          /\ Finish(t, "failed")
       \/ /\ await[t] = "ok" /\ op[t] \in EarlyBackup
          /\ Goto(t, "backup")
          /\ UNCHANGED locals
       \/ /\ await[t] = "ok" /\ op[t] \notin EarlyBackup
          /\ Decide(t, loaded[t])
    /\ UNCHANGED <<disk, faults>>

ResumeBackup(t) ==
    /\ pc[t] = "backup" /\ await[t] # "pending"
    /\ \/ /\ await[t] = "error"
          /\ Finish(t, "failed")
       \/ /\ await[t] = "ok" /\ op[t] \in EarlyBackup
          /\ Decide(t, loaded[t])
       \/ /\ await[t] = "ok" /\ op[t] \notin EarlyBackup
          /\ Goto(t, "save")
          /\ UNCHANGED locals
    /\ UNCHANGED <<disk, faults>>

BugNoRollback(t) ==
    /\ pc[t] \in {"save", "reload"} /\ await[t] # "pending"
    /\ IF await[t] = "ok" /\ pc[t] = "save"
       THEN Goto(t, "reload") /\ UNCHANGED locals
       ELSE Finish(t, IF await[t] = "ok" THEN "ok" ELSE "failed")
    /\ UNCHANGED <<disk, faults>>

\* commit_config: save, reload; an exception of either starts the rollback.
ResumeCommit(t) ==
    /\ pc[t] \in {"save", "reload"} /\ await[t] # "pending"
    /\ \/ /\ await[t] = "error"
          /\ cause' = [cause EXCEPT ![t] = "failed"]
          /\ Goto(t, "restore")
          /\ UNCHANGED <<op, loaded, next, stamp>>
       \/ /\ await[t] = "ok" /\ pc[t] = "save"
          /\ Goto(t, "reload")
          /\ UNCHANGED locals
       \/ /\ await[t] = "ok" /\ pc[t] = "reload"
          /\ Finish(t, "ok")
    /\ UNCHANGED <<disk, faults>>

BugRestoreWithoutReload(t) ==
    /\ pc[t] = "restore" /\ await[t] # "pending"
    /\ Finish(t, IF await[t] = "ok" THEN cause[t] ELSE "rollback_failed")
    /\ exposed' = (exposed \/ await[t] = "error")
    /\ UNCHANGED <<disk, leaked, cancels, crashes>>

\* _rollback: restore, reload, then the original exception is raised again.
ResumeRollback(t) ==
    /\ pc[t] \in {"restore", "recover"} /\ await[t] # "pending"
    /\ \/ /\ await[t] = "error"
          /\ Finish(t, "rollback_failed")
          /\ exposed' = TRUE
       \/ /\ await[t] = "ok" /\ pc[t] = "restore"
          /\ Goto(t, "recover")
          /\ UNCHANGED <<locals, exposed>>
       \/ /\ await[t] = "ok" /\ pc[t] = "recover"
          /\ Finish(t, cause[t])
          /\ UNCHANGED exposed
    /\ UNCHANGED <<disk, leaked, cancels, crashes>>

-----------------------------------------------------------------------------
(* Cancellation.  A thread the pool has started runs on; one it has not is *)
(* dropped with its future.                                                *)

JobOf(t) == [kind  |-> IF pc[t] = "recover" THEN "reload" ELSE pc[t],
             cfg   |-> next[t],
             stamp |-> stamp[t]]

\* Abandoning a thread that writes a file breaks what the lock protects;
\* abandoning a read or a restart that succeeds does not.
Abandon(t) ==
    \/ /\ await[t] = "pending" /\ pc[t] # "load"
       /\ leaked' = [leaked EXCEPT ![cancels + 1] = JobOf(t)]
       /\ exposed' = (exposed \/ pc[t] # "reload")
    \/ /\ UNCHANGED leaked
       /\ exposed' = (exposed \/ pc[t] \in {"restore", "recover"})

CancelWaiting(t) ==
    /\ cancels < MaxCancels
    /\ pc[t] = "queued"
    /\ \E i \in 1 .. Len(queue) :
          /\ queue[i] = t
          /\ queue' = SubSeq(queue, 1, i - 1) \o SubSeq(queue, i + 1, Len(queue))
    /\ pc' = [pc EXCEPT ![t] = "idle"]
    /\ reply' = [reply EXCEPT ![t] = "cancelled"]
    /\ op' = [op EXCEPT ![t] = None]
    /\ cancels' = cancels + 1
    /\ UNCHANGED <<disk, lock, await, loaded, next, stamp, cause, leaked, crashes,
                   exposed>>

BugCancelKeepsLock(t) ==
    /\ cancels < MaxCancels
    /\ pc[t] \in {"load", "backup", "restore", "recover"}
    /\ Abandon(t)
    /\ pc' = [pc EXCEPT ![t] = "idle"]
    /\ reply' = [reply EXCEPT ![t] = "cancelled"]
    /\ cancels' = cancels + 1
    /\ UNCHANGED <<disk, lock, queue, await, locals, crashes>>

\* Before the commit, and inside the rollback, nothing catches CancelledError.
CancelOutside(t) ==
    /\ cancels < MaxCancels
    /\ pc[t] \in {"load", "backup", "restore", "recover"}
    /\ Abandon(t)
    /\ Finish(t, "cancelled")
    /\ cancels' = cancels + 1
    /\ UNCHANGED <<disk, crashes>>

CancelCommit(t) ==
    /\ cancels < MaxCancels
    /\ pc[t] \in {"save", "reload"}
    /\ Abandon(t)
    /\ cause' = [cause EXCEPT ![t] = "cancelled"]
    /\ Goto(t, "restore")
    /\ cancels' = cancels + 1
    /\ UNCHANGED <<disk, op, loaded, next, stamp, crashes>>

\* An abandoned thread does its work whenever it gets to it, and nobody hears
\* of its failure.
LeakedRun(n) ==
    /\ leaked[n] # None
    /\ \E result \in {"ok", "error"} :
          /\ RunsJob(leaked[n].kind, leaked[n].cfg, leaked[n].stamp, result)
          /\ exposed' = (exposed \/ result = "error")
    /\ leaked' = [leaked EXCEPT ![n] = None]
    /\ UNCHANGED <<clock, sync, await, locals, reply, cancels, crashes>>

-----------------------------------------------------------------------------
(* The environment.                                                        *)

\* The API process dies and starts again: tasks, threads and the lock are
\* gone, the file and the container stay as they are.
Crash ==
    /\ crashes < MaxCrashes
    /\ crashes' = crashes + 1
    /\ exposed' = (exposed \/ \E t \in Tasks : pc[t] \in Committing)
    /\ reply' = [t \in Tasks |-> IF pc[t] = "idle" THEN reply[t] ELSE "lost"]
    /\ pc' = [t \in Tasks |-> "idle"]
    /\ await' = [t \in Tasks |-> "pending"]
    /\ lock' = Nobody
    /\ queue' = <<>>
    /\ op' = [t \in Tasks |-> None]
    /\ loaded' = [t \in Tasks |-> InitialConfig]
    /\ next' = [t \in Tasks |-> InitialConfig]
    /\ stamp' = [t \in Tasks |-> 0]
    /\ cause' = [t \in Tasks |-> "failed"]
    /\ leaked' = [n \in 1 .. MaxCancels |-> None]
    /\ UNCHANGED <<disk, cancels>>

\* Docker's restart policy, a reboot or an operator restarts the container.
ContainerRestart ==
    /\ running' = file
    /\ UNCHANGED <<file, backups, clock, sync, await, locals, reply, faults>>

Tick ==
    /\ clock < MaxClock
    /\ clock' = clock + 1
    /\ UNCHANGED <<file, backups, running, sync, await, locals, reply, faults>>

TaskStep(t) ==
    \/ ThreadLoad(t) \/ ThreadRun(t)
    \/ ResumeLoad(t) \/ ResumeBackup(t) \/ ResumeCommit(t) \/ ResumeRollback(t)

Cancel(t) == CancelWaiting(t) \/ CancelOutside(t) \/ CancelCommit(t)

Next ==
    \/ \E t \in Tasks :
          \/ \E o \in Ops : Submit(t, o)
          \/ TaskStep(t)
          \/ Cancel(t)
    \/ \E n \in 1 .. MaxCancels : LeakedRun(n)
    \/ Crash \/ ContainerRestart \/ Tick

Spec == Init /\ [][Next]_vars

\* Threads and the event loop make progress; nobody owes a request, a
\* cancellation or a crash.
FairSpec == Spec /\ \A t \in Tasks : WF_vars(TaskStep(t))

-----------------------------------------------------------------------------
(* Properties.                                                             *)

TypeOK ==
    /\ file \in Stored
    /\ backups \in [Stamps -> Stored]
    /\ running \in Stored
    /\ clock \in Stamps
    /\ lock \in Tasks \union {Nobody}
    /\ queue \in Seq(Tasks)
    /\ pc \in [Tasks -> Critical \union {"idle", "queued"}]
    /\ await \in [Tasks -> {"pending", "ok", "error"}]
    /\ op \in [Tasks -> Ops \union {None}]
    /\ loaded \in [Tasks -> Configs]
    /\ next \in [Tasks -> Configs]
    /\ stamp \in [Tasks -> Stamps]
    /\ cause \in [Tasks -> {"failed", "cancelled"}]
    /\ reply \in [Tasks -> Replies]
    /\ leaked \in [1 .. MaxCancels -> Job \union {None}]
    /\ cancels \in 0 .. MaxCancels
    /\ crashes \in 0 .. MaxCrashes
    /\ exposed \in BOOLEAN

\* serialized_mutation: only the holder is past the lock, the lock is never
\* lost while tasks wait, and a free lock means nobody is inside.
LockDiscipline ==
    /\ \A t \in Tasks : pc[t] \in Critical <=> lock = t
    /\ lock = Nobody => queue = <<>>

\* The backup a rollback would restore is the configuration the request
\* loaded, although backup names only tell seconds apart.
BackupIsPrestate ==
    \A t \in Tasks :
        ~exposed /\ pc[t] \in {"save", "reload", "restore"}
            => backups[stamp[t]] = loaded[t]

\* Between mutations the container runs what config.json says.
QuiescentAgreement == ~exposed /\ lock = Nobody => running = file

\* The configuration clients may rely on: what the committing request found,
\* until it is answered.
Committed ==
    IF lock # Nobody /\ pc[lock] \in Committing THEN loaded[lock] ELSE file

\* GET takes no lock.  What it reads is what clients may rely on or what the
\* committing request is about to make of it, which a rollback may take back:
\* never part of a file, and nothing a third request wrote.
ReadsAreGenuine ==
    ~exposed => \/ file = Committed
                \/ lock # Nobody /\ pc[lock] \in Committing /\ file = next[lock]

Answered(t, a) == reply[t] = "none" /\ reply'[t] = a

\* A request that raised (500) left both the file and the container as
\* clients may rely on: commit_config re-raises only after a complete rollback,
\* and a request that could not read or back up the file changed nothing.
RestoresOnFailure ==
    \A t \in Tasks :
        Answered(t, "failed") /\ ~exposed' => file' = Committed /\ running' = Committed
FailureRestores == [][RestoresOnFailure]_vars

\* A success answer is true of the container, not only of the file: what the
\* request asked for is installed and served, and a request that committed
\* nothing answered from a configuration that is.
ServesOnSuccess ==
    \A t \in Tasks :
        /\ Answered(t, "ok") /\ ~exposed
               => running' = file' /\ file' = Apply(op[t], loaded[t])
        /\ Answered(t, "unchanged") /\ ~exposed
               => running' = file' /\ file' = loaded[t] /\ Skips(op[t], file)
SuccessIsServed == [][ServesOnSuccess]_vars

\* README: the complete batch can safely be retried.  A success answer, also
\* that of a retry, means the runtime serves the configuration.
RetryIsSafe ==
    [][\A t \in Tasks :
          Answered(t, "ok") \/ Answered(t, "unchanged") => running' = file']_vars

Node == INSTANCE AtomicNode WITH config <- Committed, request <- op, answer <- reply

\* README "Atomic mutations": every request is one atomic change of the whole
\* configuration or none, in whatever order tasks, threads and faults run.
ImplementsAtomicNode == Node!Spec

\* Every request is answered: the lock is released on every way out.
EveryRequestAnswered == \A t \in Tasks : pc[t] # "idle" ~> pc[t] = "idle"

-----------------------------------------------------------------------------
(* The inductive invariant behind the safety properties.                   *)

\* Waiting tasks wait, once each; a task has a request from submission to
\* answer, and no thread at work outside the lock.
QueueInv ==
    /\ \A i \in 1 .. Len(queue) : pc[queue[i]] = "queued"
    /\ \A i, j \in 1 .. Len(queue) : queue[i] = queue[j] => i = j
    /\ \A t \in Tasks : IF pc[t] = "idle" THEN op[t] = None ELSE op[t] \in Ops
    /\ \A t \in Tasks : pc[t] \notin Critical => await[t] = "pending"

\* The configuration to commit is what the operation makes of the one loaded.
Prepared(t) ==
    /\ ~Refuses(op[t], loaded[t]) /\ ~Skips(op[t], loaded[t])
    /\ next[t] = Apply(op[t], loaded[t])

\* What the lock holder may rely on in each await.
HolderInv(t) ==
    /\ pc[t] = "load" => /\ running = file
                         /\ await[t] = "ok" => loaded[t] = file
    /\ pc[t] = "backup" => /\ running = file /\ loaded[t] = file
                           /\ op[t] \notin EarlyBackup => Prepared(t)
    /\ (pc[t] = "backup" /\ await[t] = "ok") \/ pc[t] \in {"save", "reload", "restore"}
           => backups[stamp[t]] = loaded[t]
    /\ pc[t] \in {"save", "reload"} => Prepared(t)
    /\ pc[t] \in {"save", "restore"} => file \in {loaded[t], next[t]}
    /\ pc[t] = "save" => /\ await[t] = "ok" => file = next[t]
                         /\ await[t] = "pending" => file = loaded[t]
    /\ pc[t] = "reload" => /\ file = next[t]
                           /\ await[t] = "ok" => running = file
    /\ pc[t] = "restore" /\ await[t] = "ok" => file = loaded[t]
    /\ pc[t] = "recover" => /\ file = loaded[t]
                            /\ await[t] = "ok" => running = file

OnlyRestartsLeaked ==
    \A n \in 1 .. MaxCancels : leaked[n] # None => leaked[n].kind = "reload"

Undisturbed ==
    /\ file \in Configs
    /\ OnlyRestartsLeaked
    /\ lock = Nobody => running = file
    /\ \A t \in Tasks : HolderInv(t)

CommitInv == ~exposed => Undisturbed

IInv == TypeOK /\ LockDiscipline /\ QueueInv /\ CommitInv
=============================================================================
