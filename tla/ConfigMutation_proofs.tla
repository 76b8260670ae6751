------------------------ MODULE ConfigMutation_proofs ------------------------
(***************************************************************************)
(* Theorems about ConfigMutation, for every set of tasks, operations and   *)
(* configurations and every bound on faults.                               *)
(***************************************************************************)
EXTENDS ConfigMutation, TLAPS

\* The part of TypeOK a task's own step can change.
TaskTypes ==
    /\ lock \in Tasks \union {Nobody}
    /\ queue \in Seq(Tasks)
    /\ pc \in [Tasks -> Critical \union {"idle", "queued"}]
    /\ await \in [Tasks -> {"pending", "ok", "error"}]
    /\ op \in [Tasks -> Ops \union {None}]
    /\ loaded \in [Tasks -> Configs]
    /\ next \in [Tasks -> Configs]
    /\ stamp \in [Tasks -> Stamps]
    /\ cause \in [Tasks -> {"failed", "cancelled"}]
    /\ reply \in [Tasks -> Replies]

\* Answering a request keeps every variable in its type.
LEMMA FinishTypes ==
    ASSUME TypeOK, NEW t \in Tasks, NEW a \in Replies, Finish(t, a)
    PROVE  TaskTypes'
<1>1. lock' \in Tasks \union {Nobody} /\ queue' \in Seq(Tasks)
  BY DEF TypeOK, Finish
<1>2. pc' \in [Tasks -> Critical \union {"idle", "queued"}]
  BY DEF TypeOK, Finish, Critical
<1>3. /\ await' \in [Tasks -> {"pending", "ok", "error"}]
      /\ reply' \in [Tasks -> Replies]
  BY DEF TypeOK, Finish
<1>4. /\ op' \in [Tasks -> Ops \union {None}]
      /\ loaded' \in [Tasks -> Configs]
      /\ next' \in [Tasks -> Configs]
      /\ stamp' \in [Tasks -> Stamps]
      /\ cause' \in [Tasks -> {"failed", "cancelled"}]
  BY ConstantsAssumption DEF TypeOK, Finish, Stamps
<1> QED BY <1>1, <1>2, <1>3, <1>4 DEF TaskTypes

\* So does suspending in another await.
LEMMA GotoTypes ==
    ASSUME TypeOK, NEW t \in Tasks, NEW place \in Critical, Goto(t, place)
    PROVE  /\ lock' \in Tasks \union {Nobody}
           /\ queue' \in Seq(Tasks)
           /\ pc' \in [Tasks -> Critical \union {"idle", "queued"}]
           /\ await' \in [Tasks -> {"pending", "ok", "error"}]
           /\ reply' \in [Tasks -> Replies]
BY DEF TypeOK, Goto

\* And so does the in-memory part of a request.
LEMMA DecideTypes ==
    ASSUME TypeOK, NEW t \in Tasks, NEW c \in Configs, op[t] \in Ops, Decide(t, c)
    PROVE  TaskTypes'
<1>1. CASE Finish(t, "refused") \/ Finish(t, "unchanged")
  BY <1>1, FinishTypes DEF Replies
<1>2. CASE /\ next' = [next EXCEPT ![t] = Apply(op[t], c)]
           /\ Goto(t, IF op[t] \in EarlyBackup THEN "save" ELSE "backup")
           /\ UNCHANGED <<op, loaded, stamp, cause>>
  <2>1. next' \in [Tasks -> Configs]
    BY <1>2, OpsAssumption DEF TypeOK
  <2>2. (IF op[t] \in EarlyBackup THEN "save" ELSE "backup") \in Critical
    BY DEF Critical
  <2> QED BY <1>2, <2>1, <2>2, GotoTypes DEF TypeOK, TaskTypes
<1> QED BY <1>1, <1>2 DEF Decide

\* A worker thread leaves the file, the backups and the container well-formed.
LEMMA RunsJobTypes ==
    ASSUME TypeOK, NEW kind, NEW c \in Configs, NEW s \in Stamps, NEW result,
           RunsJob(kind, c, s, result)
    PROVE  /\ file' \in Stored
           /\ backups' \in [Stamps -> Stored]
           /\ running' \in Stored
<1>1. CASE kind = "backup" /\ WritesBackup(result)
  BY <1>1 DEF TypeOK, WritesBackup, Stored
<1>2. CASE WritesConfig(c, result)
  BY <1>2 DEF TypeOK, WritesConfig, Replaces, Stored
<1>3. CASE WritesConfig(backups[s], result)
  BY <1>3 DEF TypeOK, WritesConfig, Replaces, Stored
<1>4. CASE Restarts(result)
  BY <1>4 DEF TypeOK, Restarts, Stored
<1> QED BY <1>1, <1>2, <1>3, <1>4 DEF RunsJob

-----------------------------------------------------------------------------
(* Type correctness of every step.                                         *)

\* The API starts with every variable in its type.
LEMMA TypeInit == Init => TypeOK
<1> SUFFICES ASSUME Init PROVE TypeOK
  OBVIOUS
<1>1. clock \in Stamps /\ 0 \in Stamps /\ InitialConfig \in Configs
  BY ConstantsAssumption DEF Init, Stamps
<1>2. /\ file \in Stored /\ running \in Stored
      /\ backups \in [Stamps -> Stored]
  BY <1>1 DEF Init, Stored
<1>3. lock \in Tasks \union {Nobody} /\ queue \in Seq(Tasks)
  BY DEF Init
<1>4. /\ cancels \in 0 .. MaxCancels /\ crashes \in 0 .. MaxCrashes
      /\ leaked \in [1 .. MaxCancels -> Job \union {None}]
  BY ConstantsAssumption DEF Init
<1> QED BY <1>1, <1>2, <1>3, <1>4 DEF Init, TypeOK, Replies

\* Every step keeps the types; answering needs that the lock queue holds tasks.
LEMMA TypeStep == TypeOK /\ QueueInv /\ [Next]_vars => TypeOK'
<1> SUFFICES ASSUME TypeOK, QueueInv, [Next]_vars PROVE TypeOK'
  OBVIOUS
<1> USE DEF disk, sync, locals, faults
<1>1. ASSUME NEW t \in Tasks, NEW o \in Ops, Submit(t, o) PROVE TypeOK'
  <2>1. /\ lock' \in Tasks \union {Nobody}
        /\ queue' \in Seq(Tasks)
        /\ pc' \in [Tasks -> Critical \union {"idle", "queued"}]
    <3>1. CASE lock = Nobody
      BY <1>1, <3>1 DEF TypeOK, Submit, Critical
    <3>2. CASE lock # Nobody
      <4>1. queue' \in Seq(Tasks)
        <5>1. queue' = Append(queue, t) /\ queue \in Seq(Tasks)
          BY <1>1, <3>2 DEF TypeOK, Submit
        <5> QED BY <5>1
      <4> QED BY <1>1, <3>2, <4>1 DEF TypeOK, Submit
    <3> QED BY <3>1, <3>2
  <2>2. reply' \in [Tasks -> Replies] /\ op' \in [Tasks -> Ops \union {None}]
    BY <1>1 DEF TypeOK, Submit, Replies
  <2> QED BY <1>1, <2>1, <2>2 DEF TypeOK, Submit
<1>2. ASSUME NEW t \in Tasks, ThreadLoad(t) PROVE TypeOK'
  BY <1>2 DEF TypeOK, ThreadLoad, Stored
<1>3. ASSUME NEW t \in Tasks, ThreadRun(t) PROVE TypeOK'
  <2>1. PICK result \in {"ok", "error"} :
          /\ RunsJob(pc[t], next[t], stamp[t], result)
          /\ await' = [await EXCEPT ![t] = result]
    BY <1>3 DEF ThreadRun
  <2>2. file' \in Stored /\ backups' \in [Stamps -> Stored] /\ running' \in Stored
    BY <2>1, RunsJobTypes DEF TypeOK
  <2>3. stamp' \in [Tasks -> Stamps]
    BY <1>3 DEF ThreadRun, TypeOK
  <2> QED BY <1>3, <2>1, <2>2, <2>3 DEF TypeOK, ThreadRun
<1>4. ASSUME NEW t \in Tasks, ResumeLoad(t) PROVE TypeOK'
  <2>1. TaskTypes'
    <3>1. CASE Finish(t, "failed")
      BY <3>1, FinishTypes DEF Replies
    <3>2. CASE Goto(t, "backup") /\ UNCHANGED locals
      BY <3>2, GotoTypes DEF TypeOK, TaskTypes, Critical
    <3>3. CASE Decide(t, loaded[t])
      <4>1. op[t] \in Ops /\ loaded[t] \in Configs
        BY <1>4 DEF ResumeLoad, QueueInv, TypeOK
      <4> QED BY <3>3, <4>1, DecideTypes
    <3> QED BY <1>4, <3>1, <3>2, <3>3 DEF ResumeLoad
  <2> QED BY <1>4, <2>1 DEF TypeOK, TaskTypes, ResumeLoad
<1>5. ASSUME NEW t \in Tasks, ResumeBackup(t) PROVE TypeOK'
  <2>1. TaskTypes'
    <3>1. CASE Finish(t, "failed")
      BY <3>1, FinishTypes DEF Replies
    <3>2. CASE Goto(t, "save") /\ UNCHANGED locals
      BY <3>2, GotoTypes DEF TypeOK, TaskTypes, Critical
    <3>3. CASE Decide(t, loaded[t])
      <4>1. op[t] \in Ops /\ loaded[t] \in Configs
        BY <1>5 DEF ResumeBackup, QueueInv, TypeOK
      <4> QED BY <3>3, <4>1, DecideTypes
    <3> QED BY <1>5, <3>1, <3>2, <3>3 DEF ResumeBackup
  <2> QED BY <1>5, <2>1 DEF TypeOK, TaskTypes, ResumeBackup
<1>6. ASSUME NEW t \in Tasks, ResumeCommit(t) PROVE TypeOK'
  <2>1. TaskTypes'
    <3>1. CASE Finish(t, "ok")
      BY <3>1, FinishTypes DEF Replies
    <3>2. CASE Goto(t, "restore") /\ cause' = [cause EXCEPT ![t] = "failed"]
               /\ UNCHANGED <<op, loaded, next, stamp>>
      <4>1. cause' \in [Tasks -> {"failed", "cancelled"}]
        BY <3>2 DEF TypeOK
      <4> QED BY <3>2, <4>1, GotoTypes DEF TypeOK, TaskTypes, Critical
    <3>3. CASE Goto(t, "reload") /\ UNCHANGED locals
      BY <3>3, GotoTypes DEF TypeOK, TaskTypes, Critical
    <3> QED BY <1>6, <3>1, <3>2, <3>3 DEF ResumeCommit
  <2> QED BY <1>6, <2>1 DEF TypeOK, TaskTypes, ResumeCommit
<1>7. ASSUME NEW t \in Tasks, ResumeRollback(t) PROVE TypeOK'
  <2>1. TaskTypes'
    <3>1. CASE Finish(t, "rollback_failed")
      BY <3>1, FinishTypes DEF Replies
    <3>2. CASE Finish(t, cause[t])
      <4>1. cause[t] \in Replies
        BY DEF TypeOK, Replies
      <4> QED BY <3>2, <4>1, FinishTypes
    <3>3. CASE Goto(t, "recover") /\ UNCHANGED locals
      BY <3>3, GotoTypes DEF TypeOK, TaskTypes, Critical
    <3> QED BY <1>7, <3>1, <3>2, <3>3 DEF ResumeRollback
  <2>2. exposed' \in BOOLEAN
    BY <1>7 DEF TypeOK, ResumeRollback
  <2> QED BY <1>7, <2>1, <2>2 DEF TypeOK, TaskTypes, ResumeRollback
<1>8. ASSUME NEW t \in Tasks, CancelWaiting(t) PROVE TypeOK'
  <2>1. queue' \in Seq(Tasks)
    BY <1>8 DEF TypeOK, CancelWaiting
  <2>2. cancels' \in 0 .. MaxCancels
    BY <1>8, ConstantsAssumption DEF TypeOK, CancelWaiting
  <2> QED BY <1>8, <2>1, <2>2 DEF TypeOK, CancelWaiting, Replies
<1>9. ASSUME NEW t \in Tasks, Abandon(t), cancels < MaxCancels,
             pc[t] \in Critical, cancels' = cancels + 1
      PROVE  /\ leaked' \in [1 .. MaxCancels -> Job \union {None}]
             /\ exposed' \in BOOLEAN
             /\ cancels' \in 0 .. MaxCancels
  <2>1. cancels' \in 0 .. MaxCancels /\ cancels + 1 \in 1 .. MaxCancels
    BY <1>9, ConstantsAssumption DEF TypeOK
  <2>2. pc[t] # "load" => JobOf(t) \in Job
    BY <1>9 DEF TypeOK, JobOf, Job, JobKinds, Critical
  <2>3. leaked' \in [1 .. MaxCancels -> Job \union {None}]
    BY <1>9, <2>1, <2>2 DEF Abandon, TypeOK
  <2>4. exposed' \in BOOLEAN
    BY <1>9 DEF Abandon, TypeOK
  <2> QED BY <2>1, <2>3, <2>4
<1>10. ASSUME NEW t \in Tasks, CancelOutside(t) PROVE TypeOK'
  <2>1. TaskTypes'
    BY <1>10, FinishTypes DEF CancelOutside, Replies
  <2> QED BY <1>9, <1>10, <2>1 DEF CancelOutside, TypeOK, TaskTypes, Critical
<1>11. ASSUME NEW t \in Tasks, CancelCommit(t) PROVE TypeOK'
  <2>1. cause' \in [Tasks -> {"failed", "cancelled"}]
    BY <1>11 DEF CancelCommit, TypeOK
  <2> QED BY <1>9, <1>11, <2>1, GotoTypes DEF CancelCommit, TypeOK, Critical
<1>12. ASSUME NEW n \in 1 .. MaxCancels, LeakedRun(n) PROVE TypeOK'
  <2>1. PICK result \in {"ok", "error"} :
          /\ RunsJob(leaked[n].kind, leaked[n].cfg, leaked[n].stamp, result)
          /\ exposed' = (exposed \/ result = "error")
    BY <1>12 DEF LeakedRun
  <2>2. leaked[n] \in Job
    BY <1>12 DEF TypeOK, LeakedRun
  <2>3. file' \in Stored /\ backups' \in [Stamps -> Stored] /\ running' \in Stored
    BY <2>1, <2>2, RunsJobTypes DEF Job
  <2>4. leaked' \in [1 .. MaxCancels -> Job \union {None}]
    BY <1>12 DEF LeakedRun, TypeOK
  <2> QED BY <1>12, <2>1, <2>3, <2>4 DEF LeakedRun, TypeOK
<1>13. CASE Crash
  <2>1. crashes' \in 0 .. MaxCrashes /\ exposed' \in BOOLEAN
    BY <1>13, ConstantsAssumption DEF Crash, TypeOK
  <2>2. TaskTypes'
    BY <1>13, ConstantsAssumption DEF Crash, TypeOK, TaskTypes, Replies, Stamps
  <2> QED BY <1>13, <2>1, <2>2 DEF Crash, TypeOK, TaskTypes
<1>14. CASE ContainerRestart
  BY <1>14 DEF ContainerRestart, TypeOK
<1>15. CASE Tick
  BY <1>15, ConstantsAssumption DEF Tick, TypeOK, Stamps
<1>16. CASE UNCHANGED vars
  BY <1>16 DEF vars, TypeOK
<1> QED
  BY <1>1, <1>2, <1>3, <1>4, <1>5, <1>6, <1>7, <1>8, <1>10, <1>11, <1>12, <1>13,
     <1>14, <1>15, <1>16
  DEF Next, TaskStep, Cancel

-----------------------------------------------------------------------------
(* The lock.                                                               *)

\* Answering hands the lock to the first waiter, and to nobody else.
LEMMA FinishLock ==
    ASSUME TypeOK, LockDiscipline, QueueInv,
           NEW t \in Tasks, NEW a, pc[t] \in Critical, Finish(t, a)
    PROVE  LockDiscipline' /\ QueueInv'
<1> USE DEF Critical
<1>1. /\ lock = t
      /\ \A x \in Tasks : x # t => pc[x] \notin Critical
  BY DEF LockDiscipline
<1>2. op' = [op EXCEPT ![t] = None] /\ pc'[t] = "idle"
  BY DEF Finish, TypeOK
<1>3. \A x \in Tasks : await'[x] = IF x = t THEN "pending" ELSE await[x]
  BY DEF Finish, TypeOK
<1>4. \A x \in Tasks : await'[x] = "pending"
  BY <1>1, <1>3 DEF QueueInv
<1>5. CASE queue = <<>>
  <2>1. lock' = Nobody /\ queue' = <<>>
    BY <1>5 DEF Finish
  <2>2. \A x \in Tasks : pc'[x] = IF x = t THEN "idle" ELSE pc[x]
    BY <1>5, ConstantsAssumption DEF Finish, TypeOK
  <2>3. LockDiscipline'
    BY <1>1, <2>1, <2>2, ConstantsAssumption DEF LockDiscipline
  <2> QED BY <1>2, <1>4, <2>1, <2>2, <2>3 DEF QueueInv, TypeOK
<1>6. CASE queue # <<>>
  <2> DEFINE w == Head(queue)
  <2>1. /\ Len(queue) \in Nat \ {0} /\ w = queue[1] /\ w \in Tasks
        /\ \A i \in 1 .. Len(queue) : queue[i] \in Tasks
    BY <1>6 DEF TypeOK
  <2>2. pc[w] = "queued" /\ w # t
    BY <2>1 DEF QueueInv
  <2>3. lock' = w /\ queue' = Tail(queue)
    BY <1>6 DEF Finish
  <2>4. \A x \in Tasks : pc'[x] = IF x = t THEN "idle" ELSE IF x = w THEN "load" ELSE pc[x]
    BY <1>6 DEF Finish, TypeOK
  <2>5. /\ Len(queue') = Len(queue) - 1
        /\ \A i \in 1 .. Len(queue') : queue'[i] = queue[i + 1] /\ i + 1 \in 1 .. Len(queue)
    BY <1>6, <2>1, <2>3 DEF TypeOK
  <2>6. LockDiscipline'
    <3>1. \A x \in Tasks : pc'[x] \in Critical <=> lock' = x
      BY <1>1, <2>1, <2>2, <2>3, <2>4
    <3>2. lock' # Nobody
      BY <2>1, <2>3, ConstantsAssumption
    <3> QED BY <3>1, <3>2 DEF LockDiscipline
  <2>7. \A i \in 1 .. Len(queue') : pc'[queue'[i]] = "queued"
    <3> SUFFICES ASSUME NEW i \in 1 .. Len(queue') PROVE pc'[queue'[i]] = "queued"
      OBVIOUS
    <3>1. queue'[i] = queue[i + 1] /\ i + 1 \in 1 .. Len(queue) /\ i + 1 # 1
      BY <2>1, <2>5
    <3>2. queue[i + 1] # w /\ pc[queue[i + 1]] = "queued" /\ queue[i + 1] # t
      BY <2>1, <3>1 DEF QueueInv
    <3> QED BY <2>1, <2>4, <3>1, <3>2
  <2>8. \A i, j \in 1 .. Len(queue') : queue'[i] = queue'[j] => i = j
    <3> SUFFICES ASSUME NEW i \in 1 .. Len(queue'), NEW j \in 1 .. Len(queue'),
                        queue'[i] = queue'[j]
                 PROVE  i = j
      OBVIOUS
    <3>1. queue[i + 1] = queue[j + 1] /\ i + 1 \in 1 .. Len(queue) /\ j + 1 \in 1 .. Len(queue)
      BY <2>5
    <3>2. i + 1 = j + 1
      BY <3>1 DEF QueueInv
    <3> QED BY <2>1, <2>5, <3>2
  <2>9. \A x \in Tasks : IF pc'[x] = "idle" THEN op'[x] = None ELSE op'[x] \in Ops
    BY <1>2, <2>2, <2>4 DEF QueueInv, TypeOK
  <2> QED BY <1>4, <2>6, <2>7, <2>8, <2>9 DEF QueueInv
<1> QED BY <1>5, <1>6

\* Moving the holder from one await to another changes nothing for the others.
LEMMA GotoLock ==
    ASSUME TypeOK, LockDiscipline, QueueInv,
           NEW t \in Tasks, NEW place \in Critical, pc[t] \in Critical,
           Goto(t, place), op' = op
    PROVE  LockDiscipline' /\ QueueInv'
<1>1. /\ lock' = lock /\ queue' = queue
      /\ \A x \in Tasks : pc'[x] = IF x = t THEN place ELSE pc[x]
  BY DEF Goto, TypeOK
<1>2. LockDiscipline'
  BY <1>1 DEF LockDiscipline
<1>3. \A i \in 1 .. Len(queue) : queue[i] \in Tasks /\ queue[i] # t
  BY DEF TypeOK, QueueInv, Critical
<1>4. \A x \in Tasks : x # t => await'[x] = await[x]
  BY DEF Goto, TypeOK
<1>5. QueueInv'
  BY <1>1, <1>3, <1>4 DEF QueueInv, Critical
<1> QED BY <1>2, <1>5

\* The in-memory part of a request keeps the lock or hands it on.
LEMMA DecideLock ==
    ASSUME TypeOK, LockDiscipline, QueueInv,
           NEW t \in Tasks, NEW c, pc[t] \in Critical, Decide(t, c)
    PROVE  LockDiscipline' /\ QueueInv'
<1>1. CASE Finish(t, "refused") \/ Finish(t, "unchanged")
  BY <1>1, FinishLock
<1>2. CASE /\ Goto(t, IF op[t] \in EarlyBackup THEN "save" ELSE "backup")
           /\ UNCHANGED <<op, loaded, stamp, cause>>
  BY <1>2, GotoLock DEF Critical
<1> QED BY <1>1, <1>2 DEF Decide

\* Every step keeps mutual exclusion: only the holder is past serialized_mutation.
LEMMA LockStep ==
    TypeOK /\ LockDiscipline /\ QueueInv /\ [Next]_vars => LockDiscipline' /\ QueueInv'
<1> SUFFICES ASSUME TypeOK, LockDiscipline, QueueInv, [Next]_vars
             PROVE  LockDiscipline' /\ QueueInv'
  OBVIOUS
<1> USE DEF disk, sync, locals, faults
<1>1. ASSUME NEW t \in Tasks, NEW o \in Ops, Submit(t, o)
      PROVE  LockDiscipline' /\ QueueInv'
  <2>1. \A x \in Tasks : op'[x] = IF x = t THEN o ELSE op[x]
    BY <1>1 DEF Submit, TypeOK
  <2>2. Len(queue) \in Nat /\ \A i \in 1 .. Len(queue) : queue[i] \in Tasks /\ queue[i] # t
    BY <1>1 DEF TypeOK, QueueInv, Submit
  <2>5. \A x \in Tasks : pc'[x] \notin Critical => await'[x] = "pending"
    BY <1>1 DEF Submit, TypeOK, QueueInv, Critical
  <2>3. CASE lock = Nobody
    <3>1. /\ lock' = t /\ queue' = queue /\ queue = <<>>
          /\ \A x \in Tasks : pc'[x] = IF x = t THEN "load" ELSE pc[x]
      BY <1>1, <2>3 DEF Submit, TypeOK, LockDiscipline
    <3>2. LockDiscipline'
      BY <2>3, <3>1, ConstantsAssumption DEF LockDiscipline, Critical
    <3> QED BY <2>1, <2>5, <3>1, <3>2 DEF QueueInv
  <2>4. CASE lock # Nobody
    <3>1. /\ lock' = lock /\ queue' = Append(queue, t)
          /\ \A x \in Tasks : pc'[x] = IF x = t THEN "queued" ELSE pc[x]
      BY <1>1, <2>4 DEF Submit, TypeOK
    <3>2. /\ Len(queue') = Len(queue) + 1
          /\ \A i \in 1 .. Len(queue') : queue'[i] = IF i = Len(queue) + 1 THEN t ELSE queue[i]
      BY <3>1 DEF TypeOK
    <3>3. LockDiscipline'
      BY <1>1, <2>4, <3>1 DEF LockDiscipline, Critical, Submit
    <3>4. \A i \in 1 .. Len(queue') : pc'[queue'[i]] = "queued"
      BY <2>2, <3>1, <3>2 DEF QueueInv
    <3>5. \A i, j \in 1 .. Len(queue') : queue'[i] = queue'[j] => i = j
      BY <2>2, <3>2 DEF QueueInv
    <3>6. \A x \in Tasks : IF pc'[x] = "idle" THEN op'[x] = None ELSE op'[x] \in Ops
      BY <2>1, <3>1 DEF QueueInv
    <3> QED BY <2>5, <3>3, <3>4, <3>5, <3>6 DEF QueueInv
  <2> QED BY <2>3, <2>4
<1>2. ASSUME NEW t \in Tasks, ThreadLoad(t) \/ ThreadRun(t)
      PROVE  LockDiscipline' /\ QueueInv'
  <2>1. /\ UNCHANGED <<lock, queue, pc, op>> /\ pc[t] \in Critical
        /\ \A x \in Tasks : x # t => await'[x] = await[x]
    BY <1>2 DEF ThreadLoad, ThreadRun, TypeOK, Critical
  <2> QED BY <2>1 DEF LockDiscipline, QueueInv
<1>3. ASSUME NEW t \in Tasks, ResumeLoad(t) \/ ResumeBackup(t)
      PROVE  LockDiscipline' /\ QueueInv'
  <2>1. pc[t] \in Critical
    BY <1>3 DEF ResumeLoad, ResumeBackup, Critical
  <2>2. CASE Finish(t, "failed")
    BY <2>1, <2>2, FinishLock
  <2>3. CASE (Goto(t, "backup") \/ Goto(t, "save")) /\ UNCHANGED locals
    BY <2>1, <2>3, GotoLock DEF Critical
  <2>4. CASE Decide(t, loaded[t])
    BY <2>1, <2>4, DecideLock
  <2> QED BY <1>3, <2>2, <2>3, <2>4 DEF ResumeLoad, ResumeBackup
<1>4. ASSUME NEW t \in Tasks, ResumeCommit(t)
      PROVE  LockDiscipline' /\ QueueInv'
  <2>1. pc[t] \in Critical
    BY <1>4 DEF ResumeCommit, Critical
  <2>2. CASE Finish(t, "ok")
    BY <2>1, <2>2, FinishLock
  <2>3. CASE (Goto(t, "restore") \/ Goto(t, "reload")) /\ op' = op
    BY <2>1, <2>3, GotoLock DEF Critical
  <2> QED BY <1>4, <2>2, <2>3 DEF ResumeCommit
<1>5. ASSUME NEW t \in Tasks, ResumeRollback(t)
      PROVE  LockDiscipline' /\ QueueInv'
  <2>1. pc[t] \in Critical
    BY <1>5 DEF ResumeRollback, Critical
  <2>2. CASE Finish(t, "rollback_failed") \/ Finish(t, cause[t])
    BY <2>1, <2>2, FinishLock
  <2>3. CASE Goto(t, "recover") /\ UNCHANGED locals
    BY <2>1, <2>3, GotoLock DEF Critical
  <2> QED BY <1>5, <2>2, <2>3 DEF ResumeRollback
<1>6. ASSUME NEW t \in Tasks, CancelWaiting(t)
      PROVE  LockDiscipline' /\ QueueInv'
  <2>1. PICK i \in 1 .. Len(queue) :
          /\ queue[i] = t
          /\ queue' = SubSeq(queue, 1, i - 1) \o SubSeq(queue, i + 1, Len(queue))
    BY <1>6 DEF CancelWaiting
  <2>2. /\ Len(queue) \in Nat /\ i \in Nat
        /\ \A k \in 1 .. Len(queue) : queue[k] \in Tasks
    BY <2>1 DEF TypeOK
  <2>3. /\ lock' = lock
        /\ \A x \in Tasks : pc'[x] = IF x = t THEN "idle" ELSE pc[x]
        /\ \A x \in Tasks : op'[x] = IF x = t THEN None ELSE op[x]
    BY <1>6 DEF CancelWaiting, TypeOK
  <2> DEFINE old(k) == IF k < i THEN k ELSE k + 1
  <2>4. /\ Len(queue') = Len(queue) - 1
        /\ \A k \in 1 .. Len(queue') : queue'[k] = queue[old(k)]
    <3> DEFINE before == SubSeq(queue, 1, i - 1)
               after == SubSeq(queue, i + 1, Len(queue))
    <3>1. /\ before \in Seq(Tasks) /\ Len(before) = i - 1
          /\ \A k \in 1 .. i - 1 : before[k] = queue[k]
      BY <2>1, <2>2 DEF TypeOK
    <3>2. /\ after \in Seq(Tasks) /\ Len(after) = Len(queue) - i
          /\ \A k \in 1 .. Len(queue) - i : after[k] = queue[i + k]
      BY <2>1, <2>2 DEF TypeOK
    <3>3. queue' = before \o after
      BY <2>1
    <3> HIDE DEF before, after
    <3>4. /\ Len(queue') = Len(queue) - 1
          /\ \A k \in 1 .. Len(queue) - 1 :
                queue'[k] = IF k < i THEN before[k] ELSE after[k - (i - 1)]
      BY <2>2, <3>1, <3>2, <3>3
    <3>5. ASSUME NEW k \in 1 .. Len(queue) - 1, k < i
          PROVE  queue'[k] = queue[k]
      <4>1. k \in 1 .. i - 1
        BY <2>2, <3>5
      <4> QED BY <3>1, <3>4, <3>5, <4>1
    <3>6. ASSUME NEW k \in 1 .. Len(queue) - 1, ~(k < i)
          PROVE  queue'[k] = queue[k + 1]
      <4>1. k - (i - 1) \in 1 .. Len(queue) - i /\ i + (k - (i - 1)) = k + 1
        BY <2>2, <3>6
      <4>2. after[k - (i - 1)] = queue[k + 1]
        BY <3>2, <4>1
      <4> QED BY <3>4, <3>6, <4>2
    <3> QED BY <3>4, <3>5, <3>6
  <2>5. \A k \in 1 .. Len(queue') : old(k) \in 1 .. Len(queue) /\ old(k) # i
    BY <2>2, <2>4
  <2>6. LockDiscipline'
    <3>1. lock = Nobody => FALSE
      BY <2>1, <2>2 DEF LockDiscipline
    <3>2. pc[t] \notin Critical
      BY <1>6 DEF CancelWaiting, Critical
    <3> QED BY <2>3, <3>1, <3>2 DEF LockDiscipline, Critical
  <2>7. \A k \in 1 .. Len(queue') : pc'[queue'[k]] = "queued"
    <3> SUFFICES ASSUME NEW k \in 1 .. Len(queue') PROVE pc'[queue'[k]] = "queued"
      OBVIOUS
    <3>1. queue'[k] = queue[old(k)] /\ old(k) \in 1 .. Len(queue) /\ old(k) # i
      BY <2>4, <2>5
    <3>2. queue[old(k)] # t /\ pc[queue[old(k)]] = "queued"
      BY <2>1, <3>1 DEF QueueInv
    <3> QED BY <2>2, <2>3, <3>1, <3>2
  <2>8. \A j, k \in 1 .. Len(queue') : queue'[j] = queue'[k] => j = k
    <3> SUFFICES ASSUME NEW j \in 1 .. Len(queue'), NEW k \in 1 .. Len(queue'),
                        queue'[j] = queue'[k]
                 PROVE  j = k
      OBVIOUS
    <3>1. old(j) = old(k)
      BY <2>4, <2>5 DEF QueueInv
    <3>2. j \in Nat /\ k \in Nat
      BY <2>2, <2>4
    <3> QED BY <2>2, <3>1, <3>2
  <2>9. \A x \in Tasks : IF pc'[x] = "idle" THEN op'[x] = None ELSE op'[x] \in Ops
    BY <2>3 DEF QueueInv
  <2>10. \A x \in Tasks : pc'[x] \notin Critical => await'[x] = "pending"
    BY <1>6 DEF CancelWaiting, TypeOK, QueueInv, Critical
  <2> QED BY <2>6, <2>7, <2>8, <2>9, <2>10 DEF QueueInv
<1>7. ASSUME NEW t \in Tasks, CancelOutside(t)
      PROVE  LockDiscipline' /\ QueueInv'
  BY <1>7, FinishLock DEF CancelOutside, Critical
<1>8. ASSUME NEW t \in Tasks, CancelCommit(t)
      PROVE  LockDiscipline' /\ QueueInv'
  BY <1>8, GotoLock DEF CancelCommit, Critical
<1>9. ASSUME NEW n \in 1 .. MaxCancels, LeakedRun(n)
      PROVE  LockDiscipline' /\ QueueInv'
  BY <1>9 DEF LeakedRun, LockDiscipline, QueueInv
<1>10. CASE Crash
  BY <1>10, ConstantsAssumption DEF Crash, LockDiscipline, QueueInv, Critical
<1>11. CASE ContainerRestart \/ Tick \/ UNCHANGED vars
  BY <1>11 DEF ContainerRestart, Tick, vars, LockDiscipline, QueueInv
<1> QED
  BY <1>1, <1>2, <1>3, <1>4, <1>5, <1>6, <1>7, <1>8, <1>9, <1>10, <1>11
  DEF Next, TaskStep, Cancel

-----------------------------------------------------------------------------
(* The commit protocol.                                                    *)

\* Until an event of exposure, history says nothing happened.
LEMMA ExposureLasts == TypeOK /\ [Next]_vars /\ ~exposed' => ~exposed
<1> SUFFICES ASSUME TypeOK, [Next]_vars, exposed PROVE exposed'
  BY DEF TypeOK
<1> USE DEF disk, sync, locals, faults
<1>1. ASSUME NEW t \in Tasks, NEW o \in Ops, Submit(t, o) PROVE exposed'
  BY <1>1 DEF Submit
<1>2. ASSUME NEW t \in Tasks, TaskStep(t) PROVE exposed'
  BY <1>2 DEF TaskStep, ThreadLoad, ThreadRun, ResumeLoad, ResumeBackup,
              ResumeCommit, ResumeRollback
<1>3. ASSUME NEW t \in Tasks, Cancel(t) PROVE exposed'
  BY <1>3 DEF Cancel, CancelWaiting, CancelOutside, CancelCommit, Abandon
<1>4. ASSUME NEW n \in 1 .. MaxCancels, LeakedRun(n) PROVE exposed'
  BY <1>4 DEF LeakedRun
<1>5. CASE Crash \/ ContainerRestart \/ Tick \/ UNCHANGED vars
  BY <1>5 DEF Crash, ContainerRestart, Tick, vars
<1> QED BY <1>1, <1>2, <1>3, <1>4, <1>5 DEF Next

\* Leaving the lock with the container in step with the file keeps the
\* invariant: the next holder starts at load().
LEMMA FinishCommit ==
    ASSUME TypeOK, LockDiscipline, QueueInv,
           NEW t \in Tasks, NEW a, pc[t] \in Critical, Finish(t, a),
           UNCHANGED <<file, running>>, running = file, file \in Configs,
           OnlyRestartsLeaked'
    PROVE  Undisturbed'
<1>1. \A x \in Tasks : await'[x] = IF x = t THEN "pending" ELSE await[x]
  BY DEF Finish, TypeOK
<1>2. \A x \in Tasks : x # t => pc[x] \notin Critical /\ await'[x] = "pending"
  BY <1>1 DEF LockDiscipline, QueueInv
<1>3. \A x \in Tasks : pc'[x] \in {"idle", "queued", "load"} /\ await'[x] = "pending"
  BY <1>1, <1>2 DEF Finish, TypeOK
<1>4. \A x \in Tasks : HolderInv(x)'
  BY <1>3 DEF HolderInv
<1> QED BY <1>4 DEF Undisturbed

\* While a task holds the lock, its own await is all there is to check.
LEMMA HolderCommit ==
    ASSUME TypeOK, LockDiscipline,
           NEW t \in Tasks, pc[t] \in Critical, lock' = lock,
           \A x \in Tasks : x # t => pc'[x] = pc[x],
           file' \in Configs, OnlyRestartsLeaked', HolderInv(t)'
    PROVE  Undisturbed'
<1>1. lock = t /\ lock # Nobody /\ \A x \in Tasks : x # t => pc[x] \notin Critical
  BY ConstantsAssumption DEF LockDiscipline
<1>2. \A x \in Tasks : x # t => HolderInv(x)'
  BY <1>1 DEF HolderInv, Critical
<1> QED BY <1>1, <1>2 DEF Undisturbed

\* What Goto does to the task and to the others.
LEMMA GotoFacts ==
    ASSUME TypeOK, NEW t \in Tasks, NEW place, Goto(t, place)
    PROVE  /\ pc'[t] = place /\ await'[t] = "pending" /\ lock' = lock
           /\ \A x \in Tasks : x # t => pc'[x] = pc[x]
BY DEF Goto, TypeOK

\* What the holder decides after load() sets up the backup it will restore.
LEMMA DecideCommit ==
    ASSUME TypeOK, LockDiscipline, QueueInv, Undisturbed,
           NEW t \in Tasks, Decide(t, loaded[t]),
           UNCHANGED <<file, running, backups, leaked>>,
           \/ pc[t] = "load" /\ await[t] = "ok" /\ op[t] \notin EarlyBackup
           \/ pc[t] = "backup" /\ await[t] = "ok" /\ op[t] \in EarlyBackup
    PROVE  Undisturbed'
<1>1. pc[t] \in Critical
  BY DEF Critical
<1>2. running = file /\ file = loaded[t] /\ file \in Configs
  BY DEF Undisturbed, HolderInv
<1>3. OnlyRestartsLeaked'
  BY DEF Undisturbed, OnlyRestartsLeaked
<1>4. CASE Finish(t, "refused") \/ Finish(t, "unchanged")
  BY <1>1, <1>2, <1>3, <1>4, FinishCommit
<1>5. CASE /\ ~Refuses(op[t], loaded[t]) /\ ~Skips(op[t], loaded[t])
           /\ next' = [next EXCEPT ![t] = Apply(op[t], loaded[t])]
           /\ Goto(t, IF op[t] \in EarlyBackup THEN "save" ELSE "backup")
           /\ UNCHANGED <<op, loaded, stamp, cause>>
  <2> DEFINE place == IF op[t] \in EarlyBackup THEN "save" ELSE "backup"
  <2>1. /\ pc'[t] = place /\ await'[t] = "pending" /\ lock' = lock
        /\ \A x \in Tasks : x # t => pc'[x] = pc[x]
    BY <1>5, GotoFacts
  <2>2. Prepared(t)'
    BY <1>5 DEF Prepared, TypeOK
  <2>3. op[t] \in EarlyBackup => backups[stamp[t]] = loaded[t]
    BY DEF Undisturbed, HolderInv
  <2>4. HolderInv(t)'
    BY <1>2, <1>5, <2>1, <2>2, <2>3 DEF HolderInv
  <2> QED BY <1>1, <1>2, <1>3, <2>1, <2>4, HolderCommit
<1> QED BY <1>4, <1>5 DEF Decide

\* A worker thread of the holder brings the file, the backup or the container
\* to what the next await relies on.
LEMMA ThreadCommit ==
    ASSUME TypeOK, LockDiscipline, Undisturbed,
           NEW t \in Tasks, ThreadLoad(t) \/ ThreadRun(t)
    PROVE  Undisturbed'
<1> USE DEF disk, sync, locals, faults
<1>1. /\ pc[t] \in Critical /\ await[t] = "pending"
      /\ UNCHANGED <<lock, pc, op, next, leaked>>
  BY DEF ThreadLoad, ThreadRun, Critical
<1>2. OnlyRestartsLeaked' /\ HolderInv(t) /\ file \in Configs /\ file # Broken
  BY <1>1, ConstantsAssumption DEF Undisturbed, OnlyRestartsLeaked
<1>3. CASE ThreadLoad(t)
  <2>1. /\ UNCHANGED <<file, running, backups, stamp>> /\ pc[t] = "load"
        /\ \/ await'[t] = "ok" /\ loaded'[t] = file
           \/ await'[t] = "error"
    BY <1>2, <1>3 DEF ThreadLoad, TypeOK
  <2>2. HolderInv(t)'
    BY <1>1, <1>2, <2>1 DEF HolderInv
  <2> QED BY <1>1, <1>2, <2>1, <2>2, HolderCommit
<1>4. CASE ThreadRun(t)
  <2>1. PICK result \in {"ok", "error"} :
          /\ RunsJob(pc[t], next[t], stamp[t], result)
          /\ await' = [await EXCEPT ![t] = result]
    BY <1>4 DEF ThreadRun
  <2>2. await'[t] = result /\ UNCHANGED loaded /\ (pc[t] # "backup" => stamp' = stamp)
    BY <1>4, <2>1 DEF TypeOK, ThreadRun
  <2>3. Prepared(t)' = Prepared(t)
    BY <1>1, <2>2 DEF Prepared
  <2>4. CASE pc[t] = "backup"
    <3>1. /\ UNCHANGED <<file, running>> /\ stamp'[t] = clock
          /\ result = "ok" => backups'[clock] = file
      BY <1>4, <2>1, <2>4 DEF RunsJob, WritesBackup, ThreadRun, TypeOK
    <3>2. HolderInv(t)'
      BY <1>1, <1>2, <2>2, <2>3, <2>4, <3>1 DEF HolderInv
    <3> QED BY <1>1, <1>2, <3>1, <3>2, HolderCommit
  <2>5. CASE pc[t] = "save"
    <3>1. /\ UNCHANGED <<backups, running>> /\ file' \in {file, next[t]}
          /\ result = "ok" => file' = next[t]
      BY <2>1, <2>5 DEF RunsJob, WritesConfig, Replaces
    <3>2. HolderInv(t)' /\ file' \in Configs
      BY <1>1, <1>2, <2>2, <2>3, <2>5, <3>1 DEF HolderInv, TypeOK
    <3> QED BY <1>1, <1>2, <3>2, HolderCommit
  <2>6. CASE pc[t] = "restore"
    <3>1. /\ UNCHANGED <<backups, running>> /\ file' \in {file, backups[stamp[t]]}
          /\ result = "ok" => file' = backups[stamp[t]]
      BY <2>1, <2>6 DEF RunsJob, WritesConfig, Replaces
    <3>2. HolderInv(t)' /\ file' \in Configs
      BY <1>1, <1>2, <2>2, <2>3, <2>6, <3>1 DEF HolderInv, TypeOK
    <3> QED BY <1>1, <1>2, <3>2, HolderCommit
  <2>7. CASE pc[t] \in {"reload", "recover"}
    <3>1. UNCHANGED <<file, backups>> /\ (result = "ok" => running' = file)
      BY <2>1, <2>7 DEF RunsJob, Restarts
    <3>2. HolderInv(t)'
      BY <1>1, <1>2, <2>2, <2>3, <2>7, <3>1 DEF HolderInv
    <3> QED BY <1>1, <1>2, <3>1, <3>2, HolderCommit
  <2> QED BY <1>4, <2>4, <2>5, <2>6, <2>7 DEF ThreadRun, Critical
<1> QED BY <1>3, <1>4

\* The task resumes: on with the commit, into the rollback, or out.
LEMMA ResumeCommits ==
    ASSUME TypeOK, LockDiscipline, QueueInv, Undisturbed, ~exposed',
           NEW t \in Tasks,
           \/ ResumeLoad(t) \/ ResumeBackup(t) \/ ResumeCommit(t) \/ ResumeRollback(t)
    PROVE  Undisturbed'
<1> USE DEF disk, sync, locals, faults
<1>1. /\ UNCHANGED <<file, running, backups, leaked>>
      /\ pc[t] \in Critical /\ await[t] # "pending"
  BY DEF ResumeLoad, ResumeBackup, ResumeCommit, ResumeRollback, Critical
<1>2. OnlyRestartsLeaked' /\ HolderInv(t) /\ file \in Configs
  BY <1>1 DEF Undisturbed, OnlyRestartsLeaked
<1>3. CASE ResumeLoad(t)
  <2>1. running = file /\ pc[t] = "load" /\ (await[t] = "ok" => loaded[t] = file)
    BY <1>2, <1>3 DEF ResumeLoad, HolderInv
  <2>2. CASE Finish(t, "failed")
    BY <1>1, <1>2, <2>1, <2>2, FinishCommit
  <2>3. CASE /\ await[t] = "ok" /\ op[t] \in EarlyBackup
             /\ Goto(t, "backup") /\ UNCHANGED locals
    <3>1. HolderInv(t)'
      BY <1>1, <2>1, <2>3, GotoFacts DEF HolderInv
    <3> QED BY <1>1, <1>2, <2>3, <3>1, GotoFacts, HolderCommit
  <2>4. CASE await[t] = "ok" /\ op[t] \notin EarlyBackup /\ Decide(t, loaded[t])
    BY <1>1, <2>1, <2>4, DecideCommit
  <2> QED BY <1>3, <2>2, <2>3, <2>4 DEF ResumeLoad
<1>4. CASE ResumeBackup(t)
  <2>1. pc[t] = "backup" /\ running = file /\ loaded[t] = file
    BY <1>2, <1>4 DEF ResumeBackup, HolderInv
  <2>2. CASE Finish(t, "failed")
    BY <1>1, <1>2, <2>1, <2>2, FinishCommit
  <2>3. CASE await[t] = "ok" /\ op[t] \in EarlyBackup /\ Decide(t, loaded[t])
    BY <1>1, <2>1, <2>3, DecideCommit
  <2>4. CASE /\ await[t] = "ok" /\ op[t] \notin EarlyBackup
             /\ Goto(t, "save") /\ UNCHANGED locals
    <3>1. Prepared(t) /\ Prepared(t)' = Prepared(t)
      BY <1>2, <2>1, <2>4 DEF HolderInv, Prepared
    <3>2. HolderInv(t)'
      BY <1>1, <1>2, <2>1, <2>4, <3>1, GotoFacts DEF HolderInv
    <3> QED BY <1>1, <1>2, <2>4, <3>2, GotoFacts, HolderCommit
  <2> QED BY <1>4, <2>2, <2>3, <2>4 DEF ResumeBackup
<1>5. CASE ResumeCommit(t)
  <2>1. CASE await[t] = "error" /\ Goto(t, "restore") /\ UNCHANGED <<op, loaded, next, stamp>>
    <3>1. HolderInv(t)'
      BY <1>1, <1>2, <1>5, <2>1, GotoFacts DEF HolderInv, ResumeCommit
    <3> QED BY <1>1, <1>2, <2>1, <3>1, GotoFacts, HolderCommit
  <2>2. CASE await[t] = "ok" /\ pc[t] = "save" /\ Goto(t, "reload") /\ UNCHANGED locals
    <3>1. Prepared(t) /\ Prepared(t)' = Prepared(t)
      BY <1>2, <2>2 DEF HolderInv, Prepared
    <3>2. HolderInv(t)'
      BY <1>1, <1>2, <2>2, <3>1, GotoFacts DEF HolderInv
    <3> QED BY <1>1, <1>2, <2>2, <3>2, GotoFacts, HolderCommit
  <2>3. CASE await[t] = "ok" /\ pc[t] = "reload" /\ Finish(t, "ok")
    <3>1. running = file
      BY <1>2, <2>3 DEF HolderInv
    <3> QED BY <1>1, <1>2, <2>3, <3>1, FinishCommit
  <2> QED BY <1>5, <2>1, <2>2, <2>3 DEF ResumeCommit
<1>6. CASE ResumeRollback(t)
  <2>1. CASE await[t] = "ok" /\ pc[t] = "restore" /\ Goto(t, "recover") /\ UNCHANGED locals
    <3>1. HolderInv(t)'
      BY <1>1, <1>2, <2>1, GotoFacts DEF HolderInv
    <3> QED BY <1>1, <1>2, <2>1, <3>1, GotoFacts, HolderCommit
  <2>2. CASE await[t] = "ok" /\ pc[t] = "recover" /\ Finish(t, cause[t])
    <3>1. running = file
      BY <1>2, <2>2 DEF HolderInv
    <3> QED BY <1>1, <1>2, <2>2, <3>1, FinishCommit
  <2> QED BY <1>6, <2>1, <2>2 DEF ResumeRollback
<1> QED BY <1>3, <1>4, <1>5, <1>6

\* A cancellation outside the rollback leaves at most a restart behind.
LEMMA CancelCommits ==
    ASSUME TypeOK, LockDiscipline, QueueInv, Undisturbed, ~exposed',
           NEW t \in Tasks, Cancel(t)
    PROVE  Undisturbed'
<1> USE DEF disk, sync, locals, faults
<1>1. ASSUME Abandon(t), cancels < MaxCancels
      PROVE  OnlyRestartsLeaked' /\ pc[t] \notin {"restore", "recover"}
  <2>1. cancels + 1 \in 1 .. MaxCancels
    BY <1>1, ConstantsAssumption DEF TypeOK
  <2>2. CASE UNCHANGED leaked
    BY <1>1, <2>2 DEF Abandon, Undisturbed, OnlyRestartsLeaked
  <2>3. CASE pc[t] = "reload" /\ leaked' = [leaked EXCEPT ![cancels + 1] = JobOf(t)]
    <3>1. JobOf(t).kind = "reload"
      BY <2>3 DEF JobOf
    <3>2. OnlyRestartsLeaked'
      BY <2>1, <2>3, <3>1 DEF Undisturbed, OnlyRestartsLeaked, TypeOK
    <3> QED BY <2>3, <3>2
  <2> QED BY <1>1, <2>2, <2>3 DEF Abandon
<1>2. CASE CancelWaiting(t)
  <2>1. /\ UNCHANGED <<file, running, backups, lock, await, loaded, next, stamp, leaked>>
        /\ pc'[t] = "idle" /\ pc[t] = "queued"
        /\ \A x \in Tasks : x # t => pc'[x] = pc[x] /\ op'[x] = op[x]
    BY <1>2 DEF CancelWaiting, TypeOK
  <2>2. \A x \in Tasks : HolderInv(x)'
    BY <2>1 DEF Undisturbed, HolderInv, Prepared
  <2> QED BY <2>1, <2>2 DEF Undisturbed, OnlyRestartsLeaked
<1>3. CASE CancelOutside(t)
  <2>1. OnlyRestartsLeaked' /\ pc[t] \in {"load", "backup"}
    BY <1>1, <1>3 DEF CancelOutside
  <2>2. running = file /\ file \in Configs /\ pc[t] \in Critical
    BY <2>1 DEF Undisturbed, HolderInv, Critical
  <2> QED BY <1>3, <2>1, <2>2, FinishCommit DEF CancelOutside
<1>4. CASE CancelCommit(t)
  <2>1. OnlyRestartsLeaked' /\ pc[t] \in Critical
    BY <1>1, <1>4 DEF CancelCommit, Critical
  <2>2. /\ pc'[t] = "restore" /\ await'[t] = "pending" /\ lock' = lock
        /\ \A x \in Tasks : x # t => pc'[x] = pc[x]
    BY <1>4, GotoFacts DEF CancelCommit
  <2>3. HolderInv(t)' /\ file' \in Configs
    BY <1>4, <2>2 DEF CancelCommit, Undisturbed, HolderInv
  <2> QED BY <2>1, <2>2, <2>3, HolderCommit
<1> QED BY <1>2, <1>3, <1>4 DEF Cancel

\* Every step keeps what the commit protocol relies on.
LEMMA CommitStep == IInv /\ [Next]_vars => CommitInv'
<1> SUFFICES ASSUME IInv, [Next]_vars, ~exposed' PROVE Undisturbed'
  BY DEF CommitInv
<1> USE DEF disk, sync, locals, faults
<1>1. TypeOK /\ LockDiscipline /\ QueueInv /\ Undisturbed
  BY ExposureLasts DEF IInv, CommitInv
<1>2. LockDiscipline' /\ QueueInv'
  BY <1>1, LockStep
<1>3. ASSUME NEW t \in Tasks, NEW o \in Ops, Submit(t, o) PROVE Undisturbed'
  <2>1. /\ UNCHANGED <<file, running, backups, await, loaded, next, stamp, leaked>>
        /\ pc[t] = "idle" /\ pc'[t] \in {"load", "queued"}
        /\ pc'[t] = "load" => lock = Nobody
        /\ lock' = Nobody => lock = Nobody
        /\ \A x \in Tasks : x # t => pc'[x] = pc[x] /\ op'[x] = op[x]
    BY <1>1, <1>3 DEF Submit, TypeOK
  <2>2. await[t] = "pending"
    BY <1>1, <2>1 DEF QueueInv, Critical
  <2>3. HolderInv(t)'
    BY <1>1, <2>1, <2>2 DEF Undisturbed, HolderInv
  <2>4. \A x \in Tasks : x # t => HolderInv(x)'
    BY <1>1, <2>1 DEF Undisturbed, HolderInv, Prepared
  <2> QED BY <1>1, <2>1, <2>3, <2>4 DEF Undisturbed, OnlyRestartsLeaked
<1>4. ASSUME NEW t \in Tasks, TaskStep(t) PROVE Undisturbed'
  BY <1>1, <1>4, ThreadCommit, ResumeCommits DEF TaskStep
<1>5. ASSUME NEW t \in Tasks, Cancel(t) PROVE Undisturbed'
  BY <1>1, <1>5, CancelCommits
<1>6. ASSUME NEW n \in 1 .. MaxCancels, LeakedRun(n) PROVE Undisturbed'
  <2>1. /\ leaked[n].kind = "reload"
        /\ RunsJob("reload", leaked[n].cfg, leaked[n].stamp, "ok")
    BY <1>1, <1>6 DEF LeakedRun, Undisturbed, OnlyRestartsLeaked
  <2>2. UNCHANGED <<file, backups>> /\ running' = file
    BY <2>1 DEF RunsJob, Restarts
  <2>3. \A x \in Tasks : HolderInv(x)'
    BY <1>1, <1>6, <2>2 DEF LeakedRun, Undisturbed, HolderInv, Prepared
  <2>4. OnlyRestartsLeaked'
    BY <1>1, <1>6 DEF LeakedRun, Undisturbed, OnlyRestartsLeaked, TypeOK
  <2> QED BY <1>1, <2>2, <2>3, <2>4 DEF Undisturbed
<1>7. CASE Crash
  <2>1. /\ UNCHANGED <<file, running>> /\ \A x \in Tasks : pc[x] \notin Committing
        /\ \A n \in 1 .. MaxCancels : leaked'[n] = None
        /\ \A x \in Tasks : pc'[x] = "idle"
    BY <1>7 DEF Crash
  <2>2. running = file
    <3>1. CASE lock = Nobody
      BY <1>1, <3>1 DEF Undisturbed
    <3>2. CASE lock \in Tasks
      <4>1. pc[lock] \in {"load", "backup"}
        BY <1>1, <2>1, <3>2 DEF LockDiscipline, Critical, Committing
      <4> QED BY <1>1, <3>2, <4>1 DEF Undisturbed, HolderInv
    <3> QED BY <1>1, <3>1, <3>2 DEF TypeOK
  <2>3. \A x \in Tasks : HolderInv(x)'
    BY <2>1 DEF HolderInv
  <2> QED BY <1>1, <2>1, <2>2, <2>3 DEF Undisturbed, OnlyRestartsLeaked
<1>8. CASE ContainerRestart
  <2>1. \A x \in Tasks : HolderInv(x)'
    BY <1>1, <1>8 DEF ContainerRestart, Undisturbed, HolderInv, Prepared
  <2> QED BY <1>1, <1>8, <2>1 DEF ContainerRestart, Undisturbed, OnlyRestartsLeaked
<1>9. CASE Tick \/ UNCHANGED vars
  <2>1. \A x \in Tasks : HolderInv(x)'
    BY <1>1, <1>9 DEF Tick, vars, Undisturbed, HolderInv, Prepared
  <2> QED BY <1>1, <1>9, <2>1 DEF Tick, vars, Undisturbed, OnlyRestartsLeaked
<1> QED BY <1>3, <1>4, <1>5, <1>6, <1>7, <1>8, <1>9 DEF Next

\* The inductive invariant holds when the API starts.
LEMMA InitInvariant == Init => IInv
<1> SUFFICES ASSUME Init PROVE IInv
  OBVIOUS
<1>1. TypeOK
  BY TypeInit
<1>2. LockDiscipline /\ QueueInv
  BY ConstantsAssumption DEF Init, LockDiscipline, QueueInv, Critical
<1>3. CommitInv
  BY ConstantsAssumption
  DEF Init, CommitInv, Undisturbed, OnlyRestartsLeaked, HolderInv
<1> QED BY <1>1, <1>2, <1>3 DEF IInv

-----------------------------------------------------------------------------
(* Theorems.                                                               *)

\* IInv is inductive: no interleaving of requests, threads, cancellations,
\* crashes and container restarts leaves it.
THEOREM Invariance == Spec => []IInv
<1>1. Init => IInv
  BY InitInvariant
<1>2. IInv /\ [Next]_vars => IInv'
  BY TypeStep, LockStep, CommitStep DEF IInv
<1> QED BY <1>1, <1>2, PTL DEF Spec

\* Every variable keeps its type.
THEOREM TypeCorrect == Spec => []TypeOK
<1>1. IInv => TypeOK
  BY DEF IInv
<1> QED BY <1>1, Invariance, PTL

\* serialized_mutation gives mutual exclusion and never loses the lock.
THEOREM MutualExclusion == Spec => []LockDiscipline
<1>1. IInv => LockDiscipline
  BY DEF IInv
<1> QED BY <1>1, Invariance, PTL

\* The backup a rollback restores is the configuration the request loaded.
THEOREM RollbackTarget == Spec => []BackupIsPrestate
<1>1. IInv => BackupIsPrestate
  BY DEF IInv, CommitInv, Undisturbed, HolderInv, BackupIsPrestate
<1> QED BY <1>1, Invariance, PTL

\* Between mutations the container runs what config.json says.
THEOREM Agreement == Spec => []QuiescentAgreement
<1>1. IInv => QuiescentAgreement
  BY DEF IInv, CommitInv, Undisturbed, QuiescentAgreement
<1> QED BY <1>1, Invariance, PTL

\* A read, which takes no lock, sees the configuration before or after the
\* commit in progress.
THEOREM Reads == Spec => []ReadsAreGenuine
<1>1. IInv => ReadsAreGenuine
  <2> SUFFICES ASSUME IInv, ~exposed, lock # Nobody, pc[lock] \in Committing
               PROVE  file \in {loaded[lock], next[lock]}
    BY DEF ReadsAreGenuine, Committed
  <2>1. lock \in Tasks
    BY DEF IInv, TypeOK
  <2>2. HolderInv(lock)
    BY <2>1 DEF IInv, CommitInv, Undisturbed
  <2> QED BY <2>2 DEF HolderInv, Committing
<1> QED BY <1>1, Invariance, PTL

-----------------------------------------------------------------------------
(* What an answer means.                                                   *)

\* Only the task's own resumption tells a client of success or failure.
LEMMA AnswerIsOwn ==
    ASSUME TypeOK, [Next]_vars, NEW t \in Tasks,
           NEW a \in {"ok", "unchanged", "failed"}, Answered(t, a)
    PROVE  \/ ResumeLoad(t) \/ ResumeBackup(t) \/ ResumeCommit(t) \/ ResumeRollback(t)
<1> USE DEF disk, sync, locals, faults
<1>1. reply'[t] # reply[t] /\ reply'[t] = a
  BY DEF Answered
<1>2. ASSUME NEW s \in Tasks, NEW b, Finish(s, b) PROVE s = t /\ a = b
  BY <1>1, <1>2 DEF Finish, TypeOK
<1>3. ASSUME NEW s \in Tasks, NEW o \in Ops, Submit(s, o) PROVE FALSE
  BY <1>1, <1>3 DEF Submit, TypeOK
<1>4. ASSUME NEW s \in Tasks, NEW place, Goto(s, place) PROVE FALSE
  BY <1>1, <1>4 DEF Goto
<1>5. ASSUME NEW s \in Tasks, ThreadLoad(s) \/ ThreadRun(s) PROVE FALSE
  BY <1>1, <1>5 DEF ThreadLoad, ThreadRun
<1>6. ASSUME NEW s \in Tasks, Cancel(s) PROVE FALSE
  <2>1. CASE CancelWaiting(s)
    BY <1>1, <2>1 DEF CancelWaiting, TypeOK
  <2>2. CASE CancelOutside(s)
    BY <1>2, <2>2 DEF CancelOutside
  <2>3. CASE CancelCommit(s)
    BY <1>4, <2>3 DEF CancelCommit
  <2> QED BY <1>6, <2>1, <2>2, <2>3 DEF Cancel
<1>7. ASSUME NEW n \in 1 .. MaxCancels, LeakedRun(n) PROVE FALSE
  BY <1>1, <1>7 DEF LeakedRun
<1>8. ASSUME Crash \/ ContainerRestart \/ Tick \/ UNCHANGED vars PROVE FALSE
  BY <1>1, <1>8 DEF Crash, ContainerRestart, Tick, vars, TypeOK
<1>9. ASSUME NEW s \in Tasks,
             \/ ResumeLoad(s) \/ ResumeBackup(s) \/ ResumeCommit(s) \/ ResumeRollback(s)
      PROVE  s = t
  BY <1>2, <1>4, <1>9
  DEF ResumeLoad, ResumeBackup, ResumeCommit, ResumeRollback, Decide
<1> QED BY <1>3, <1>5, <1>6, <1>7, <1>8, <1>9 DEF Next, TaskStep

\* The reply is the one Finish was given.
LEMMA AnswerIsFinish ==
    ASSUME TypeOK, NEW t \in Tasks, NEW b, Finish(t, b)
    PROVE  reply'[t] = b
BY DEF Finish, TypeOK

\* Going to another await answers nobody.
LEMMA GotoIsSilent ==
    ASSUME NEW t \in Tasks, NEW place, NEW a, Goto(t, place), Answered(t, a)
    PROVE  a = "none"
BY DEF Goto, Answered

\* The in-memory part answers only what it refuses or finds already done.
LEMMA DecideAnswers ==
    ASSUME TypeOK, NEW t \in Tasks, NEW c, Decide(t, c),
           NEW a \in {"ok", "unchanged", "failed"}, Answered(t, a)
    PROVE  a = "unchanged" /\ Skips(op[t], c)
BY AnswerIsFinish, GotoIsSilent DEF Decide, Answered

\* A success answer, also that of a request that had nothing to do, is true of
\* what the container serves.
THEOREM SuccessServed == Spec => SuccessIsServed
<1>1. IInv /\ [Next]_vars => ServesOnSuccess
  <2> SUFFICES ASSUME IInv, [Next]_vars, NEW t \in Tasks, ~exposed,
                      NEW a \in {"ok", "unchanged"}, Answered(t, a)
               PROVE  /\ running' = file'
                      /\ a = "ok" => file' = Apply(op[t], loaded[t])
                      /\ a = "unchanged" => file' = loaded[t] /\ Skips(op[t], file)
    BY DEF ServesOnSuccess
  <2> USE DEF disk, locals
  <2>1. TypeOK /\ HolderInv(t)
    BY DEF IInv, CommitInv, Undisturbed
  <2>2. CASE ResumeLoad(t)
    <3>1. UNCHANGED <<file, running>> /\ pc[t] = "load" /\ running = file
      BY <2>1, <2>2 DEF ResumeLoad, HolderInv
    <3>2. CASE await[t] = "ok" /\ Decide(t, loaded[t])
      BY <2>1, <3>1, <3>2, DecideAnswers DEF HolderInv
    <3> QED BY <2>1, <2>2, <3>2, AnswerIsFinish, GotoIsSilent DEF ResumeLoad, Answered
  <2>3. CASE ResumeBackup(t)
    <3>1. UNCHANGED <<file, running>> /\ running = file /\ loaded[t] = file
      BY <2>1, <2>3 DEF ResumeBackup, HolderInv
    <3>2. CASE Decide(t, loaded[t])
      BY <2>1, <3>1, <3>2, DecideAnswers
    <3> QED BY <2>1, <2>3, <3>2, AnswerIsFinish, GotoIsSilent DEF ResumeBackup, Answered
  <2>4. CASE ResumeCommit(t)
    <3>1. UNCHANGED <<file, running>>
      BY <2>4 DEF ResumeCommit
    <3>2. CASE await[t] = "ok" /\ pc[t] = "reload" /\ Finish(t, "ok")
      BY <2>1, <3>1, <3>2, AnswerIsFinish DEF HolderInv, Prepared, Answered
    <3> QED BY <2>1, <2>4, <3>2, GotoIsSilent DEF ResumeCommit
  <2>5. CASE ResumeRollback(t)
    <3>1. cause[t] \in {"failed", "cancelled"}
      BY <2>1 DEF TypeOK
    <3> QED BY <2>1, <2>5, <3>1, AnswerIsFinish, GotoIsSilent DEF ResumeRollback, Answered
  <2> QED BY <2>1, <2>2, <2>3, <2>4, <2>5, AnswerIsOwn
<1> QED BY <1>1, Invariance, PTL DEF Spec, SuccessIsServed

\* While a task holds the lock, its await tells what clients may rely on.
LEMMA HolderCommitted ==
    ASSUME LockDiscipline, NEW t \in Tasks, pc[t] \in Critical
    PROVE  Committed = IF pc[t] \in Committing THEN loaded[t] ELSE file
BY ConstantsAssumption DEF LockDiscipline, Committed

\* A 500 answer leaves the file and the container as the request found them.
THEOREM FailuresRestore == Spec => FailureRestores
<1>1. IInv /\ [Next]_vars => RestoresOnFailure
  <2> SUFFICES ASSUME IInv, [Next]_vars, NEW t \in Tasks, ~exposed', Answered(t, "failed")
               PROVE  file' = Committed /\ running' = Committed
    BY DEF RestoresOnFailure
  <2> USE DEF disk, locals
  <2>1. TypeOK /\ HolderInv(t)
    BY ExposureLasts DEF IInv, CommitInv, Undisturbed
  <2>2. pc[t] \in {"load", "backup"} => Committed = file
    BY HolderCommitted DEF IInv, Critical, Committing
  <2>3. pc[t] \in {"restore", "recover"} => Committed = loaded[t]
    BY HolderCommitted DEF IInv, Critical, Committing
  <2>4. CASE ResumeLoad(t)
    <3>1. pc[t] = "load" /\ UNCHANGED <<file, running>>
      BY <2>4 DEF ResumeLoad
    <3> QED BY <2>1, <2>2, <3>1 DEF HolderInv
  <2>5. CASE ResumeBackup(t)
    <3>1. pc[t] = "backup" /\ UNCHANGED <<file, running>>
      BY <2>5 DEF ResumeBackup
    <3> QED BY <2>1, <2>2, <3>1 DEF HolderInv
  <2>6. CASE ResumeCommit(t)
    BY <2>1, <2>6, AnswerIsFinish, GotoIsSilent DEF ResumeCommit, Answered
  <2>7. CASE ResumeRollback(t)
    <3>1. file' = loaded[t] /\ running' = loaded[t]
      BY <2>1, <2>7, GotoIsSilent DEF ResumeRollback, HolderInv
    <3>2. pc[t] \in {"restore", "recover"}
      BY <2>7 DEF ResumeRollback
    <3> QED BY <2>3, <3>1, <3>2
  <2> QED BY <2>1, <2>4, <2>5, <2>6, <2>7, AnswerIsOwn
<1> QED BY <1>1, Invariance, PTL DEF Spec, FailureRestores

-----------------------------------------------------------------------------
(* The refinement of AtomicNode.                                           *)

LEMMA InitRefines == Init => Node!Init
BY DEF Init, Node!Init, Committed

\* A step after which the promise has lapsed refines its lapsing.
LEMMA LapseRefines ==
    ASSUME exposed'
    PROVE  Node!Next
BY DEF Node!Next, Node!PromiseLapses

\* A request that moves to another await, or whose thread works there, is
\* invisible as long as it keeps what it loaded once the commit has begun.
LEMMA InnerStepRefines ==
    ASSUME LockDiscipline, LockDiscipline',
           NEW t \in Tasks, pc[t] \in Critical, pc'[t] \in Critical,
           UNCHANGED <<op, reply, exposed>>,
           IF pc[t] \in Committing THEN pc'[t] \in Committing /\ loaded'[t] = loaded[t]
           ELSE file' = file /\ (pc'[t] \in Committing => loaded'[t] = file)
    PROVE  UNCHANGED Node!vars
<1>1. Committed = IF pc[t] \in Committing THEN loaded[t] ELSE file
  BY HolderCommitted
<1>2. Committed' = IF pc'[t] \in Committing THEN loaded'[t] ELSE file'
  BY ConstantsAssumption DEF LockDiscipline, Committed
<1> QED BY <1>1, <1>2 DEF Node!vars

\* So is what changes neither the file nor the request that commits.
LEMMA OuterStepRefines ==
    ASSUME UNCHANGED <<file, lock, pc, loaded, op, reply, exposed>>
    PROVE  UNCHANGED Node!vars
BY DEF Node!vars, Committed

\* What clients may rely on after an answer is the file.
LEMMA FinishCommitted ==
    ASSUME TypeOK, LockDiscipline, TypeOK',
           NEW t \in Tasks, NEW a, pc[t] \in Critical, Finish(t, a)
    PROVE  Committed' = file'
<1>1. \A x \in Tasks : x # t => pc[x] \notin Critical
  BY DEF LockDiscipline
<1>2. \A x \in Tasks : pc'[x] \notin Committing
  BY <1>1 DEF Finish, Committing, Critical
<1> QED BY <1>2 DEF Committed, TypeOK

\* An answer that leaves clients with the configuration they relied on, or
\* with the one the request asked for, is a step of AtomicNode.
LEMMA FinishRefines ==
    ASSUME IInv, TypeOK',
           NEW t \in Tasks, NEW a, pc[t] \in Critical, Finish(t, a),
           UNCHANGED <<file, exposed>>,
           \/ /\ a = "ok" /\ file = Apply(op[t], Committed)
              /\ ~Refuses(op[t], Committed) /\ ~Skips(op[t], Committed)
           \/ /\ a = "refused" /\ file = Committed
              /\ Refuses(op[t], Committed)
           \/ /\ a = "unchanged" /\ file = Committed
              /\ ~Refuses(op[t], Committed) /\ Skips(op[t], Committed)
           \/ /\ a \in {"failed", "cancelled"} /\ file = Committed
    PROVE  Node!Next
<1>1. Committed' = file
  BY FinishCommitted DEF IInv
<1>2. op[t] # None
  BY NoneAssumption DEF IInv, QueueInv, Critical
<1>3. Node!Answers(t, a)
  BY <1>2 DEF Node!Answers, Finish
<1> QED
  BY <1>1, <1>3 DEF Node!Next, Node!Commit, Node!Refuse, Node!LeaveUnchanged, Node!Fail

\* What the request decides in memory is refused, left unchanged, or goes on.
LEMMA DecideRefines ==
    ASSUME IInv, TypeOK', LockDiscipline', ~exposed,
           NEW t \in Tasks, pc[t] \in {"load", "backup"}, loaded[t] = file,
           Decide(t, loaded[t]), UNCHANGED <<file, exposed>>
    PROVE  [Node!Next]_(Node!vars)
<1>1. Committed = file /\ pc[t] \in Critical
  BY HolderCommitted DEF IInv, Critical, Committing
<1>2. CASE Refuses(op[t], loaded[t]) /\ Finish(t, "refused")
  BY <1>1, <1>2, FinishRefines
<1>3. CASE ~Refuses(op[t], loaded[t]) /\ Skips(op[t], loaded[t]) /\ Finish(t, "unchanged")
  BY <1>1, <1>3, FinishRefines
<1>4. CASE /\ Goto(t, IF op[t] \in EarlyBackup THEN "save" ELSE "backup")
           /\ UNCHANGED <<op, loaded, stamp, cause>>
  <2>1. pc'[t] \in Critical /\ reply' = reply
    BY <1>4 DEF Goto, IInv, TypeOK, Critical
  <2> QED BY <1>1, <1>4, <2>1, InnerStepRefines DEF IInv, Committing
<1> QED BY <1>2, <1>3, <1>4 DEF Decide

\* The work of the holder's thread is invisible to clients.
LEMMA ThreadRefines ==
    ASSUME IInv, LockDiscipline',
           NEW t \in Tasks, ThreadLoad(t) \/ ThreadRun(t)
    PROVE  UNCHANGED Node!vars
<1> USE DEF disk, sync, locals, faults
<1>1. pc[t] \in Critical /\ UNCHANGED <<pc, op, reply, exposed>>
  BY DEF ThreadLoad, ThreadRun, Critical
<1>2. CASE ThreadLoad(t)
  BY <1>1, <1>2, InnerStepRefines DEF ThreadLoad, IInv, Committing
<1>3. CASE ThreadRun(t)
  <2>1. pc[t] = "backup" => file' = file
    BY <1>3 DEF ThreadRun, RunsJob, WritesBackup
  <2> QED BY <1>1, <1>3, <2>1, InnerStepRefines DEF ThreadRun, IInv, Critical, Committing
<1> QED BY <1>2, <1>3

\* A resumption answers as AtomicNode does, or is invisible.
LEMMA ResumeRefines ==
    ASSUME IInv, IInv', ~exposed, ~exposed',
           NEW t \in Tasks,
           \/ ResumeLoad(t) \/ ResumeBackup(t) \/ ResumeCommit(t) \/ ResumeRollback(t)
    PROVE  [Node!Next]_(Node!vars)
<1> USE DEF disk, sync, locals, faults
<1>1. /\ TypeOK /\ LockDiscipline /\ HolderInv(t)
      /\ TypeOK' /\ LockDiscipline'
  BY DEF IInv, CommitInv, Undisturbed
<1>2. /\ pc[t] \in Critical /\ UNCHANGED <<file, exposed>>
      /\ exposed' = exposed
  BY <1>1 DEF ResumeLoad, ResumeBackup, ResumeCommit, ResumeRollback, Critical, TypeOK
<1>3. Committed = IF pc[t] \in Committing THEN loaded[t] ELSE file
  BY <1>1, <1>2, HolderCommitted
<1>4. ASSUME NEW place \in Critical, Goto(t, place), UNCHANGED <<op, loaded>>,
             IF pc[t] \in Committing THEN place \in Committing
             ELSE place \in Committing => loaded[t] = file
      PROVE  UNCHANGED Node!vars
  <2>1. pc'[t] = place /\ reply' = reply
    BY <1>1, <1>4 DEF Goto, TypeOK
  <2> QED BY <1>1, <1>2, <1>4, <2>1, InnerStepRefines
<1>5. CASE ResumeLoad(t)
  <2>1. pc[t] = "load" /\ Committed = file /\ (await[t] = "ok" => loaded[t] = file)
    BY <1>1, <1>3, <1>5 DEF ResumeLoad, HolderInv, Committing
  <2>2. CASE Finish(t, "failed")
    BY <1>1, <1>2, <2>1, <2>2, FinishRefines
  <2>3. CASE Goto(t, "backup") /\ UNCHANGED locals
    BY <1>4, <2>1, <2>3 DEF Critical, Committing
  <2>4. CASE await[t] = "ok" /\ Decide(t, loaded[t])
    BY <1>1, <1>2, <2>1, <2>4, DecideRefines
  <2> QED BY <1>5, <2>2, <2>3, <2>4 DEF ResumeLoad
<1>6. CASE ResumeBackup(t)
  <2>1. pc[t] = "backup" /\ loaded[t] = file /\ Committed = file
    BY <1>1, <1>3, <1>6 DEF ResumeBackup, HolderInv, Committing
  <2>2. CASE Finish(t, "failed")
    BY <1>1, <1>2, <2>1, <2>2, FinishRefines
  <2>3. CASE Decide(t, loaded[t])
    BY <1>1, <1>2, <2>1, <2>3, DecideRefines
  <2>4. CASE Goto(t, "save") /\ UNCHANGED locals
    BY <1>4, <2>1, <2>4 DEF Critical, Committing
  <2> QED BY <1>6, <2>2, <2>3, <2>4 DEF ResumeBackup
<1>7. CASE ResumeCommit(t)
  <2>1. CASE (Goto(t, "restore") \/ Goto(t, "reload")) /\ UNCHANGED <<op, loaded>>
    BY <1>4, <1>7, <2>1 DEF ResumeCommit, Critical, Committing
  <2>2. CASE pc[t] = "reload" /\ Finish(t, "ok")
    <3>1. Committed = loaded[t] /\ file = next[t] /\ Prepared(t)
      BY <1>1, <1>3, <2>2 DEF HolderInv, Committing
    <3> QED BY <1>1, <1>2, <2>2, <3>1, FinishRefines DEF Prepared
  <2> QED BY <1>7, <2>1, <2>2 DEF ResumeCommit
<1>8. CASE ResumeRollback(t)
  <2>1. CASE Goto(t, "recover") /\ UNCHANGED locals
    BY <1>4, <1>8, <2>1 DEF ResumeRollback, Critical, Committing
  <2>2. CASE pc[t] = "recover" /\ Finish(t, cause[t])
    <3>1. Committed = loaded[t] /\ file = loaded[t] /\ cause[t] \in {"failed", "cancelled"}
      BY <1>1, <1>3, <2>2 DEF HolderInv, Committing, TypeOK
    <3> QED BY <1>1, <1>2, <2>2, <3>1, FinishRefines
  <2> QED BY <1>2, <1>8, <2>1, <2>2 DEF ResumeRollback
<1> QED BY <1>5, <1>6, <1>7, <1>8

\* A cancelled request leaves no trace, now or once its rollback is through.
LEMMA CancelRefines ==
    ASSUME IInv, IInv', ~exposed, ~exposed', NEW t \in Tasks, Cancel(t)
    PROVE  [Node!Next]_(Node!vars)
<1> USE DEF disk, sync, locals, faults
<1>1. /\ TypeOK /\ LockDiscipline /\ HolderInv(t) /\ QueueInv
      /\ TypeOK' /\ LockDiscipline'
  BY DEF IInv, CommitInv, Undisturbed
<1>2. exposed' = exposed
  BY <1>1 DEF TypeOK
<1>3. CASE CancelWaiting(t)
  <2>1. op[t] # None
    BY <1>1, <1>3, NoneAssumption DEF CancelWaiting, QueueInv
  <2>2. Committed' = Committed
    <3>1. lock' = lock /\ UNCHANGED <<file, loaded>>
      BY <1>3 DEF CancelWaiting
    <3>2. \A x \in Tasks : pc'[x] \in Committing <=> pc[x] \in Committing
      BY <1>1, <1>3 DEF CancelWaiting, TypeOK, Committing
    <3> QED BY <1>1, <3>1, <3>2 DEF Committed, TypeOK
  <2>3. Node!Answers(t, "cancelled")
    BY <1>2, <1>3, <2>1 DEF Node!Answers, CancelWaiting
  <2>4. Node!Fail(t)
    BY <2>2, <2>3 DEF Node!Fail
  <2> QED BY <2>4 DEF Node!Next
<1>4. CASE CancelOutside(t)
  <2>1. pc[t] \in {"load", "backup"} /\ pc[t] \in Critical
    BY <1>4 DEF CancelOutside, Abandon, Critical
  <2>2. Committed = file
    BY <1>1, <2>1, HolderCommitted DEF Committing
  <2> QED BY <1>1, <1>2, <1>4, <2>1, <2>2, FinishRefines DEF CancelOutside
<1>5. CASE CancelCommit(t)
  <2>1. /\ pc[t] \in Committing /\ pc[t] \in Critical
        /\ pc'[t] \in Committing /\ pc'[t] \in Critical
        /\ UNCHANGED <<op, loaded, reply>>
    BY <1>1, <1>5 DEF CancelCommit, Goto, TypeOK, Committing, Critical
  <2> QED BY <1>1, <1>2, <2>1, InnerStepRefines
<1> QED BY <1>3, <1>4, <1>5 DEF Cancel

\* Every step refines a step of AtomicNode or a stutter.
LEMMA StepRefines ==
    ASSUME IInv, IInv', [Next]_vars
    PROVE  [Node!Next]_(Node!vars)
<1> USE DEF disk, sync, locals, faults
<1> SUFFICES ASSUME ~exposed'
             PROVE  [Node!Next]_(Node!vars)
  BY LapseRefines
<1>1. /\ TypeOK /\ LockDiscipline /\ QueueInv /\ Undisturbed /\ ~exposed
      /\ TypeOK' /\ LockDiscipline'
  BY ExposureLasts DEF IInv, CommitInv
<1>2. ASSUME NEW t \in Tasks, NEW o \in Ops, Submit(t, o)
      PROVE  Node!Next
  <2>1. op[t] = None
    BY <1>1, <1>2 DEF Submit, QueueInv
  <2>2. Committed' = Committed
    <3>1. UNCHANGED <<file, loaded>> /\ pc[t] = "idle" /\ pc'[t] \in {"load", "queued"}
      BY <1>1, <1>2 DEF Submit, TypeOK
    <3>2. \A x \in Tasks : pc'[x] \in Committing <=> pc[x] \in Committing
      BY <1>1, <1>2 DEF Submit, TypeOK, Committing
    <3>3. lock' = lock \/ (lock = Nobody /\ lock' = t)
      BY <1>2 DEF Submit
    <3> QED BY <1>1, <3>1, <3>2, <3>3 DEF Committed, TypeOK, Committing
  <2>3. Node!Ask(t)
    BY <1>2, <2>1, <2>2 DEF Node!Ask, Submit
  <2> QED BY <2>3 DEF Node!Next
<1>3. ASSUME NEW t \in Tasks, TaskStep(t)
      PROVE  [Node!Next]_(Node!vars)
  BY <1>1, <1>3, ThreadRefines, ResumeRefines DEF TaskStep
<1>4. ASSUME NEW t \in Tasks, Cancel(t)
      PROVE  [Node!Next]_(Node!vars)
  BY <1>1, <1>4, CancelRefines
<1>5. ASSUME NEW n \in 1 .. MaxCancels, LeakedRun(n)
      PROVE  UNCHANGED Node!vars
  <2>1. leaked[n].kind = "reload"
    BY <1>1, <1>5 DEF LeakedRun, Undisturbed, OnlyRestartsLeaked
  <2>2. file' = file /\ exposed' = exposed
    BY <1>1, <1>5, <2>1 DEF LeakedRun, RunsJob, Restarts, TypeOK
  <2> QED BY <1>5, <2>2, OuterStepRefines DEF LeakedRun
<1>6. CASE Crash
  <2>1. \A x \in Tasks : pc[x] \notin Committing /\ pc'[x] = "idle"
    BY <1>6 DEF Crash
  <2>2. Committed' = Committed /\ exposed' = exposed
    BY <1>1, <1>6, <2>1 DEF Crash, Committed, TypeOK
  <2>3. \A x \in Tasks : pc[x] = "idle" <=> op[x] = None
    BY <1>1, NoneAssumption DEF QueueInv
  <2>4. Node!LoseRequests
    BY <1>6, <2>2, <2>3 DEF Node!LoseRequests, Crash
  <2> QED BY <2>4 DEF Node!Next
<1>7. CASE ContainerRestart \/ Tick \/ UNCHANGED vars
  BY <1>7, OuterStepRefines DEF ContainerRestart, Tick, vars
<1> QED BY <1>2, <1>3, <1>4, <1>5, <1>6, <1>7 DEF Next

\* Seen by its clients the commit protocol is AtomicNode: whatever the
\* interleaving, every request is one change of the whole configuration or none.
THEOREM Refinement == Spec => ImplementsAtomicNode
<1>1. Init => Node!Init
  BY InitRefines
<1>2. IInv /\ IInv' /\ [Next]_vars => [Node!Next]_(Node!vars)
  BY StepRefines
<1> QED BY <1>1, <1>2, Invariance, PTL DEF Spec, ImplementsAtomicNode, Node!Spec
=============================================================================
