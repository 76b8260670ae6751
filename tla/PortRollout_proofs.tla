-------------------------- MODULE PortRollout_proofs -------------------------
(***************************************************************************)
(* Theorems about PortRollout, for every choice of keys, inbounds, texts   *)
(* asked for, initial ports, busy sockets, word size and users, and every  *)
(* number of rollouts.                                                     *)
(***************************************************************************)
EXTENDS PortRollout, TLAPS

\* What is assumed of the environment, part by part.
LEMMA Bounds == MaxRollouts \in Nat
BY EnvAssumption

LEMMA InitialTexts ==
    /\ InitialEnv \in [Keys -> Texts] /\ UniqueConfig(InitialEnv)
    /\ \A k \in Keys : Decimal(InitialEnv[k]) \in PortNumbers
BY EnvAssumption

\* A loaded configuration has the ports of the deployed one, its users and
\* the new one.
LEMMA LoadAdds ==
    ASSUME config \in Files, NEW u \in Users, LoadConfig(u)
    PROVE  /\ loaded' \in Configs
           /\ loaded'.users = config.users \union {u}
BY DEF Files, Configs, LoadConfig

\* A rendered configuration has the ports of .env.local and the users of the
\* file it was read from.
LEMMA RenderSetsPorts ==
    ASSUME config \in Files, config # NoConfig, env \in [Keys -> Texts],
           rendered' = [config EXCEPT !.ports = InboundPorts(env)]
    PROVE  /\ rendered' \in Configs
           /\ rendered'.ports = InboundPorts(env)
           /\ rendered'.users = config.users
<1>1. InboundPorts(env) \in [Inbounds -> Nat]
  BY EnvAssumption DEF InboundPorts, InboundKeys, Decimal, Texts
<1> QED BY <1>1 DEF Files, Configs

\* A plan that is valid for bash gives every key a number from 1 to 65535.
LEMMA PlanValid ==
    ASSUME ValidEnv(env), NEW requested \in Requests, Plan(requested)
    PROVE  ValidEnv(staged') /\ \A k \in Keys : staged'[k] # Empty
<1>1. staged' \in [Keys -> Texts]
  BY EnvAssumption DEF Plan, ValidEnv
<1>2. ASSUME NEW k \in Keys
      PROVE  staged'[k] # Empty /\ Arithmetic(staged'[k]) \in PortNumbers
  <2>1. ValidPort(staged'[k])
    BY DEF Plan, UniqueConfig
  <2> QED BY <2>1 DEF ValidPort
<1> QED BY <1>1, <1>2 DEF ValidEnv

\* Losing lines leaves the others valid.
LEMMA CutValid ==
    ASSUME NEW text, ValidEnv(text), CutEnv(text)
    PROVE  ValidEnv(env')
BY DEF CutEnv, ValidEnv, Empty, Texts

\* A request that changes the file and overwrites nobody adds or takes back
\* its user, and nothing else.
LEMMA RequestWrites ==
    ASSUME TypeOK, Request, ~overlapped', config' # config
    PROVE  /\ pc = "idle" /\ request \in {"backed up", "restore"}
           /\ config \in Configs /\ config' \in Configs
           /\ config'.ports = config.ports
           /\ config.users \ {creating} \subseteq config'.users
           /\ config'.users \subseteq config.users \union {creating}
           /\ UNCHANGED <<served, creating, answered>>
<1>1. /\ request \in {"backed up", "restore"}
      /\ config' \in {loaded, undo}
      /\ UNCHANGED <<served, creating, answered>>
  BY DEF Request, RequestStep, LoadConfig, BackupConfig, SaveConfig,
      ReloadRuntime, RestoreBackup, ReloadBackup, EndRequest
<1>2. pc = "idle" /\ KnowsFile
  BY DEF Request
<1>3. /\ undo \in Configs
      /\ loaded = [undo EXCEPT !.users = @ \union {creating}]
      /\ config \in {undo, loaded}
  BY <1>2 DEF KnowsFile, TypeOK, ControlTypes, Files
<1>4. /\ loaded \in Configs /\ loaded.ports = undo.ports
      /\ loaded.users = undo.users \union {creating}
  BY <1>3 DEF Configs, TypeOK, ControlTypes
<1> QED BY <1>1, <1>2, <1>3, <1>4

\* Whatever a command does or fails to do, every file and backup holds valid
\* ports, and plans are complete.
LEMMA FileTypesStep ==
    ASSUME TypeOK, [Next]_vars
    PROVE  FileTypes'
<1> USE DEF TypeOK, FileTypes, deployed, api, script
<1>1. ASSUME NEW requested \in Requests, Plan(requested)
      PROVE  FileTypes'
  BY <1>1, PlanValid DEF Plan
<1>2. CASE Backup
  BY <1>2 DEF Backup
<1>3. CASE BackupFails
  BY <1>3 DEF BackupFails
<1>4. CASE CopyEnv
  <2>1. CASE CutEnv(staged)
    BY <1>4, <2>1, CutValid DEF CopyEnv, CutEnv
  <2> QED BY <1>4, <2>1 DEF CopyEnv, Then
<1>5. CASE Recreate
  BY <1>5 DEF Recreate, Then, RecreateApi, DiesWithRequest, EndRequest
<1>6. CASE ReadConfig
  BY <1>6, RenderSetsPorts DEF ReadConfig, Files, ValidEnv
<1>7. CASE WriteConfig
  BY <1>7 DEF WriteConfig, Then, Overwrite, Files
<1>8. CASE Check
  BY <1>8 DEF Check, Then
<1>9. CASE Restart
  BY <1>9 DEF Restart, Then, RestartRuntime
<1>10. CASE Wait
  BY <1>10 DEF Wait, Then
<1>11. CASE RestoreEnv
  <2>1. CASE CutEnv(envBackup)
    BY <1>11, <2>1, CutValid DEF RestoreEnv, CutEnv
  <2> QED BY <1>11, <2>1 DEF RestoreEnv, Attempt
<1>12. CASE RecreateOld
  BY <1>12 DEF RecreateOld, Attempt, RecreateApi, DiesWithRequest, EndRequest
<1>13. CASE RestoreConfig
  BY <1>13 DEF RestoreConfig, Attempt, Overwrite, Files
<1>14. CASE RestartOld
  BY <1>14 DEF RestartOld, Attempt, RestartRuntime
<1>15. CASE Request
  <2>1. config' \in {config, loaded, undo} /\ served' \in {served, config}
    BY <1>15
    DEF Request, RequestStep, LoadConfig, BackupConfig, SaveConfig,
      ReloadRuntime, RestoreBackup, ReloadBackup, EndRequest
  <2> QED BY <1>15, <2>1 DEF Request, ControlTypes
<1>16. CASE UNCHANGED vars
  BY <1>16 DEF vars
<1> QED
  BY <1>1, <1>2, <1>3, <1>4, <1>5, <1>6, <1>7, <1>8, <1>9, <1>10, <1>11,
     <1>12, <1>13, <1>14, <1>15, <1>16 DEF Next

\* The script is at one of its commands, and the API in one of its states.
LEMMA ControlTypesStep ==
    ASSUME TypeOK, [Next]_vars
    PROVE  ControlTypes'
<1> USE DEF TypeOK, ControlTypes, deployed, api, script, requestVars
<1>1. ASSUME NEW requested \in Requests, Plan(requested)
      PROVE  ControlTypes'
  <2>1. rollouts \in 0..MaxRollouts /\ rollouts < MaxRollouts /\ rollouts' = rollouts + 1
    BY <1>1 DEF Plan
  <2>2. rollouts' \in 0..MaxRollouts
    <3> HIDE DEF TypeOK, ControlTypes
    <3> QED BY <2>1, Bounds
  <2>3. UNCHANGED <<overlapped, request, creating, loaded, undo, answered>>
    BY <1>1 DEF Plan
  <2>4. pc' = "backup" /\ failed' = FALSE /\ outcome' = "none"
    BY <1>1 DEF Plan
  <2> QED BY <2>2, <2>3, <2>4 DEF Steps
<1>2. CASE Backup
  BY <1>2 DEF Backup, Steps
<1>3. CASE BackupFails
  BY <1>3 DEF BackupFails, Steps
<1>4. CASE CopyEnv
  BY <1>4 DEF CopyEnv, Then, CutEnv, Steps
<1>5. CASE Recreate
  BY <1>5 DEF Recreate, Then, RecreateApi, DiesWithRequest, EndRequest, Steps, Files
<1>6. CASE ReadConfig
  BY <1>6 DEF ReadConfig, Steps
<1>7. CASE WriteConfig
  BY <1>7 DEF WriteConfig, Then, Overwrite, Steps
<1>8. CASE Check
  BY <1>8 DEF Check, Then, Steps
<1>9. CASE Restart
  BY <1>9 DEF Restart, Then, RestartRuntime, Steps
<1>10. CASE Wait
  BY <1>10 DEF Wait, Then, Steps
<1>11. CASE RestoreEnv
  BY <1>11 DEF RestoreEnv, Attempt, CutEnv, Steps
<1>12. CASE RecreateOld
  BY <1>12 DEF RecreateOld, Attempt, RecreateApi, DiesWithRequest, EndRequest, Steps, Files
<1>13. CASE RestoreConfig
  BY <1>13 DEF RestoreConfig, Attempt, Overwrite, Steps
<1>14. CASE RestartOld
  BY <1>14 DEF RestartOld, Attempt, RestartRuntime, Steps
<1>15. CASE Request
  <2>1. ASSUME NEW u \in Users, LoadConfig(u)
        PROVE  ControlTypes'
    <3>1. loaded' \in Configs
      BY <2>1, LoadAdds DEF FileTypes
    <3> QED BY <1>15, <2>1, <3>1 DEF LoadConfig, Request, Files
  <2>2. CASE BackupConfig \/ SaveConfig \/ ReloadRuntime \/ RestoreBackup
             \/ ReloadBackup
    BY <1>15, <2>2
    DEF Request, BackupConfig, SaveConfig, ReloadRuntime, RestoreBackup, ReloadBackup,
        EndRequest, Files, FileTypes
  <2> QED BY <1>15, <2>1, <2>2 DEF Request, RequestStep
<1>16. CASE UNCHANGED vars
  BY <1>16 DEF vars
<1> QED
  BY <1>1, <1>2, <1>3, <1>4, <1>5, <1>6, <1>7, <1>8, <1>9, <1>10, <1>11,
     <1>12, <1>13, <1>14, <1>15, <1>16 DEF Next

\* port_require_unique_config, which gives every key one transport and
\* compares Shadowsocks with one key more, leaves one text only to keys
\* without a common transport.
LEMMA UniqueIsApart ==
    ASSUME NEW file, UniqueConfig(file)
    PROVE  Apart(file)
<1> SUFFICES ASSUME NEW k \in Keys, NEW l \in Keys, k # l, file[k] = file[l]
             PROVE  Transports(k) \intersect Transports(l) = {}
  BY DEF Apart
<1>1. Protocol(k) # Protocol(l)
  BY DEF UniqueConfig
<1>2. {k, l} # {"HYSTERIA2_PORT", "SHADOWSOCKS_PORT"}
  BY DEF UniqueConfig
<1> QED BY <1>1, <1>2, EnvAssumption DEF Protocol, Transports

\* Losing lines leaves the others apart.
LEMMA CutApart ==
    ASSUME NEW text, Apart(text), CutEnv(text)
    PROVE  Apart(env')
BY DEF CutEnv, Apart

\* Only validated plans and backups of them reach .env.local.
LEMMA UniqueStep ==
    ASSUME IInv, [Next]_vars
    PROVE  UniqueInv'
<1> USE DEF IInv, UniqueInv, deployed, api, script
<1>1. ASSUME NEW requested \in Requests, Plan(requested)
      PROVE  UniqueInv'
  BY <1>1, UniqueIsApart DEF Plan
<1>2. CASE Backup
  BY <1>2 DEF Backup
<1>3. CASE BackupFails
  BY <1>3 DEF BackupFails
<1>4. CASE CopyEnv
  <2>1. CASE CutEnv(staged)
    BY <1>4, <2>1, CutApart DEF CopyEnv, CutEnv
  <2> QED BY <1>4, <2>1 DEF CopyEnv, Then
<1>5. CASE Recreate
  BY <1>5 DEF Recreate, Then, RecreateApi, DiesWithRequest, EndRequest
<1>6. CASE ReadConfig
  BY <1>6 DEF ReadConfig
<1>7. CASE WriteConfig
  BY <1>7 DEF WriteConfig, Then, Overwrite
<1>8. CASE Check
  BY <1>8 DEF Check, Then
<1>9. CASE Restart
  BY <1>9 DEF Restart, Then, RestartRuntime
<1>10. CASE Wait
  BY <1>10 DEF Wait, Then
<1>11. CASE RestoreEnv
  <2>1. CASE CutEnv(envBackup)
    BY <1>11, <2>1, CutApart DEF RestoreEnv, CutEnv
  <2> QED BY <1>11, <2>1 DEF RestoreEnv, Attempt
<1>12. CASE RecreateOld
  BY <1>12 DEF RecreateOld, Attempt, RecreateApi, DiesWithRequest, EndRequest
<1>13. CASE RestoreConfig
  BY <1>13 DEF RestoreConfig, Attempt, Overwrite
<1>14. CASE RestartOld
  BY <1>14 DEF RestartOld, Attempt, RestartRuntime
<1>15. CASE Request
  BY <1>15 DEF Request
<1>16. CASE UNCHANGED vars
  BY <1>16 DEF vars
<1> QED
  BY <1>1, <1>2, <1>3, <1>4, <1>5, <1>6, <1>7, <1>8, <1>9, <1>10, <1>11,
     <1>12, <1>13, <1>14, <1>15, <1>16 DEF Next

\* Until one overwrites the other's work, each writes back the users it has
\* read.
LEMMA WritersStep ==
    ASSUME IInv, [Next]_vars
    PROVE  WritersInv'
<1> USE DEF IInv, WritersInv, deployed, api, script, requestVars
<1>1. ASSUME NEW requested \in Requests, Plan(requested)
      PROVE  WritersInv'
  BY <1>1 DEF Plan
<1>2. CASE Backup
  BY <1>2 DEF Backup
<1>3. CASE BackupFails
  BY <1>3 DEF BackupFails
<1>4. CASE CopyEnv
  BY <1>4 DEF CopyEnv, Then, CutEnv
<1>5. CASE Recreate
  BY <1>5 DEF Recreate, Then, RecreateApi, DiesWithRequest, EndRequest
<1>6. CASE ReadConfig
  BY <1>6, RenderSetsPorts, NoConfigAssumption DEF ReadConfig, TypeOK, FileTypes, ValidEnv
<1>7. CASE WriteConfig
  BY <1>7 DEF WriteConfig, Then, Overwrite
<1>8. CASE Check
  BY <1>8 DEF Check, Then
<1>9. CASE Restart
  BY <1>9 DEF Restart, Then, RestartRuntime
<1>10. CASE Wait
  BY <1>10 DEF Wait, Then
<1>11. CASE RestoreEnv
  BY <1>11 DEF RestoreEnv, Attempt, CutEnv
<1>12. CASE RecreateOld
  BY <1>12 DEF RecreateOld, Attempt, RecreateApi, DiesWithRequest, EndRequest
<1>13. CASE RestoreConfig
  BY <1>13 DEF RestoreConfig, Attempt, Overwrite
<1>14. CASE RestartOld
  BY <1>14 DEF RestartOld, Attempt, RestartRuntime
<1>15. CASE Request
  <2>1. request' # "none" => loaded' \in Configs /\ creating' \in loaded'.users
    <3>1. ASSUME NEW u \in Users, LoadConfig(u)
          PROVE  loaded' \in Configs /\ creating' \in loaded'.users
      BY <3>1, LoadAdds DEF LoadConfig, TypeOK, FileTypes
    <3> QED BY <1>15, <3>1
        DEF Request, RequestStep, BackupConfig, SaveConfig, ReloadRuntime,
            RestoreBackup, ReloadBackup, EndRequest
  <2>2. /\ ~overlapped' => ~overlapped /\ (pc = "idle" \/ config' = config)
        /\ UNCHANGED <<pc, rendered, configBackup>>
    BY <1>15 DEF Request
  <2> QED BY <2>1, <2>2
<1>16. CASE UNCHANGED vars
  BY <1>16 DEF vars
<1> QED
  BY <1>1, <1>2, <1>3, <1>4, <1>5, <1>6, <1>7, <1>8, <1>9, <1>10, <1>11,
     <1>12, <1>13, <1>14, <1>15, <1>16 DEF Next

\* No user who was answered for is lost.
LEMMA UsersStep ==
    ASSUME IInv, [Next]_vars
    PROVE  UsersInv'
<1> USE DEF IInv, UsersInv, WritersInv, AnsweredUsersStay, deployed, api, script,
           requestVars
<1>1. ASSUME NEW requested \in Requests, Plan(requested)
      PROVE  UsersInv'
  BY <1>1 DEF Plan
<1>2. CASE Backup
  BY <1>2 DEF Backup
<1>3. CASE BackupFails
  BY <1>3 DEF BackupFails
<1>4. CASE CopyEnv
  BY <1>4 DEF CopyEnv, Then, CutEnv
<1>5. CASE Recreate
  BY <1>5 DEF Recreate, Then, RecreateApi, DiesWithRequest, EndRequest
<1>6. CASE ReadConfig
  BY <1>6 DEF ReadConfig
<1>7. CASE WriteConfig
  BY <1>7 DEF WriteConfig, Then, Overwrite
<1>8. CASE Check
  BY <1>8 DEF Check, Then
<1>9. CASE Restart
  BY <1>9 DEF Restart, Then, RestartRuntime
<1>10. CASE Wait
  BY <1>10 DEF Wait, Then
<1>11. CASE RestoreEnv
  BY <1>11 DEF RestoreEnv, Attempt, CutEnv
<1>12. CASE RecreateOld
  BY <1>12 DEF RecreateOld, Attempt, RecreateApi, DiesWithRequest, EndRequest
<1>13. CASE RestoreConfig
  BY <1>13 DEF RestoreConfig, Attempt, Overwrite
<1>14. CASE RestartOld
  BY <1>14 DEF RestartOld, Attempt, RestartRuntime
<1>15. CASE Request
  <2> SUFFICES ASSUME ~overlapped'
               PROVE  UsersInv'
    OBVIOUS
  <2>1. ~overlapped
    BY <1>15 DEF Request
  <2>2. ASSUME NEW u \in Users, LoadConfig(u)
        PROVE  UsersInv'
    BY <1>15, <2>1, <2>2 DEF LoadConfig, Request
  <2>3. CASE BackupConfig
    BY <1>15, <2>1, <2>3 DEF BackupConfig, EndRequest, Request
  <2>4. CASE SaveConfig
    <3>1. CASE config' = config
      <4>1. request = "backed up" /\ request' \in {"saved", "restore"}
        BY <2>4 DEF SaveConfig
      <4>2. request' = "saved" => config' = loaded /\ creating \in config'.users
        BY <2>4, <4>1 DEF SaveConfig
      <4>3. UNCHANGED <<served, creating, answered>>
        BY <2>4 DEF SaveConfig
      <4> QED BY <2>1, <3>1, <4>1, <4>2, <4>3
    <3>2. CASE config' # config
      <4>1. /\ config' = loaded /\ creating \in config'.users
            /\ request = "backed up" /\ request' \in {"saved", "restore"}
        BY <2>4, <3>2 DEF SaveConfig
      <4>2. /\ config # NoConfig /\ config.users \ {creating} \subseteq config'.users
            /\ UNCHANGED <<served, creating, answered>>
        BY <1>15, <3>2, RequestWrites, NoConfigAssumption
      <4>3. answered \subseteq config'.users
        BY <2>1, <4>1, <4>2
      <4> QED BY <2>1, <4>1, <4>2, <4>3
    <3> QED BY <3>1, <3>2
  <2>5. CASE ReloadRuntime
    BY <1>15, <2>1, <2>5 DEF ReloadRuntime, EndRequest, Request
  <2>6. CASE RestoreBackup
    <3>1. /\ request = "restore" /\ request' \in {"reload", "none"}
          /\ UNCHANGED <<served, creating, answered>>
      BY <2>6 DEF RestoreBackup, EndRequest
    <3>2. CASE config' = config
      BY <2>1, <3>1, <3>2
    <3>3. CASE config' # config
      <4>1. config # NoConfig /\ config.users \ {creating} \subseteq config'.users
        BY <1>15, <3>3, RequestWrites, NoConfigAssumption
      <4>2. answered \subseteq config'.users
        BY <2>1, <3>1, <4>1
      <4> QED BY <2>1, <3>1, <4>2
    <3> QED BY <3>2, <3>3
  <2>7. CASE ReloadBackup
    BY <1>15, <2>1, <2>7 DEF ReloadBackup, EndRequest, Request
  <2> QED BY <1>15, <2>2, <2>3, <2>4, <2>5, <2>6, <2>7 DEF Request, RequestStep
<1>16. CASE UNCHANGED vars
  BY <1>16 DEF vars
<1> QED
  BY <1>1, <1>2, <1>3, <1>4, <1>5, <1>6, <1>7, <1>8, <1>9, <1>10, <1>11,
     <1>12, <1>13, <1>14, <1>15, <1>16 DEF Next

\* Each command of a rollout adds its part of what "applied successfully" says.
LEMMA AppliedStep ==
    ASSUME IInv, [Next]_vars
    PROVE  AppliedInv'
<1> USE DEF IInv, AppliedInv, deployed, api, script
<1>1. ASSUME NEW requested \in Requests, Plan(requested)
      PROVE  AppliedInv'
  BY <1>1 DEF Plan
<1>2. CASE Backup
  BY <1>2 DEF Backup
<1>3. CASE BackupFails
  BY <1>3 DEF BackupFails
<1>4. CASE CopyEnv
  BY <1>4 DEF CopyEnv, Then, CutEnv
<1>5. CASE Recreate
  BY <1>5 DEF Recreate, Then, RecreateApi, DiesWithRequest, EndRequest
<1>6. CASE ReadConfig
  BY <1>6, RenderSetsPorts DEF ReadConfig, TypeOK, FileTypes, ValidEnv
<1>7. CASE WriteConfig
  BY <1>7 DEF WriteConfig, Then, Overwrite, WritersInv
<1>8. CASE Check
  BY <1>8 DEF Check, Then, Accepted
<1>9. CASE Restart
  BY <1>9 DEF Restart, Then, RestartRuntime, Accepted
<1>10. CASE Wait
  BY <1>10 DEF Wait, Then, Accepted
<1>11. CASE RestoreEnv
  BY <1>11 DEF RestoreEnv, Attempt, CutEnv
<1>12. CASE RecreateOld
  BY <1>12 DEF RecreateOld, Attempt, RecreateApi, DiesWithRequest, EndRequest
<1>13. CASE RestoreConfig
  BY <1>13 DEF RestoreConfig, Attempt, Overwrite
<1>14. CASE RestartOld
  BY <1>14 DEF RestartOld, Attempt, RestartRuntime
<1>15. CASE Request
  <2> SUFFICES ASSUME ~overlapped'
               PROVE  AppliedInv'
    BY <1>15 DEF Request
  <2>1. /\ ~overlapped /\ served' \in {served, config}
        /\ UNCHANGED <<env, published, pc, outcome, staged, rendered>>
    BY <1>15
    DEF Request, RequestStep, LoadConfig, BackupConfig, SaveConfig,
      ReloadRuntime, RestoreBackup, ReloadBackup, EndRequest
  <2>2. CASE config' = config
    BY <2>1, <2>2 DEF Accepted
  <2>3. CASE config' # config
    <3>1. /\ pc = "idle" /\ config' # NoConfig /\ config'.ports = config.ports
          /\ served' = served
      BY <1>15, <2>3, RequestWrites, NoConfigAssumption
    <3> QED BY <2>1, <3>1 DEF Accepted
  <2> QED BY <2>2, <2>3
<1>16. CASE UNCHANGED vars
  BY <1>16 DEF vars
<1> QED
  BY <1>1, <1>2, <1>3, <1>4, <1>5, <1>6, <1>7, <1>8, <1>9, <1>10, <1>11,
     <1>12, <1>13, <1>14, <1>15, <1>16 DEF Next

\* Each command of the restore adds its part of what "restored" says.
LEMMA RestoredStep ==
    ASSUME IInv, [Next]_vars
    PROVE  RestoredInv'
<1> USE DEF IInv, RestoredInv, AppliedInv, WritersInv, deployed, api, script,
           requestVars
<1>1. ASSUME NEW requested \in Requests, Plan(requested)
      PROVE  RestoredInv'
  BY <1>1 DEF Plan
<1>2. CASE Backup
  BY <1>2 DEF Backup
<1>3. CASE BackupFails
  BY <1>3 DEF BackupFails
<1>4. CASE CopyEnv
  BY <1>4 DEF CopyEnv, Then, CutEnv
<1>5. CASE Recreate
  BY <1>5 DEF Recreate, Then, RecreateApi, DiesWithRequest, EndRequest
<1>6. CASE ReadConfig
  BY <1>6 DEF ReadConfig
<1>7. CASE WriteConfig
  BY <1>7 DEF WriteConfig, Then, Overwrite
<1>8. CASE Check
  BY <1>8 DEF Check, Then
<1>9. CASE Restart
  BY <1>9 DEF Restart, Then, RestartRuntime
<1>10. CASE Wait
  BY <1>10 DEF Wait, Then
<1>11. CASE RestoreEnv
  BY <1>11 DEF RestoreEnv, Attempt, CutEnv
<1>12. CASE RecreateOld
  <2>1. ~failed' => ~failed /\ RecreateApi
    BY <1>12 DEF RecreateOld, Attempt
  <2>2. /\ pc = "recreate old" /\ pc' = "restore config" /\ outcome' = outcome
        /\ overlapped' = overlapped /\ UNCHANGED envBackup
    BY <1>12 DEF RecreateOld, Attempt
  <2> QED BY <2>1, <2>2 DEF RecreateApi, DiesWithRequest, EndRequest
<1>13. CASE RestoreConfig
  BY <1>13 DEF RestoreConfig, Attempt, Overwrite
<1>14. CASE RestartOld
  <2>1. /\ pc = "restart old" /\ pc' = "idle" /\ outcome' # "none"
        /\ UNCHANGED <<configBackup, overlapped, request, creating>>
    BY <1>14 DEF RestartOld
  <2>2. SUFFICES ASSUME outcome' = "restored", ~overlapped
                 PROVE  RestoredInv'
    BY <2>1
  <2>3. ~failed /\ RestartRuntime /\ Accepted(config)
    <3>1. ~failed'
      BY <1>14, <2>2 DEF RestartOld
    <3>2. RestartRuntime /\ failed' = failed
      BY <1>14, <3>1 DEF RestartOld, Attempt
    <3>3. Accepted(config)
      BY <1>14, <3>1 DEF RestartOld
    <3> QED BY <3>1, <3>2, <3>3
  <2>4. UNCHANGED <<env, published, config, envBackup>> /\ served' = config
    BY <1>14, <2>3 DEF RestartRuntime, RestartOld
  <2>5. config = configBackup /\ config # NoConfig
    BY <2>1, <2>2, <2>3 DEF Accepted
  <2>6. Accepted(config)'
    BY <2>3, <2>4 DEF Accepted
  <2>7. /\ env = envBackup /\ published = ApiPort(env)
        /\ request # "none" => /\ configBackup # NoConfig
                               /\ creating \notin configBackup.users
    BY <2>1, <2>2, <2>3
  <2> HIDE DEF IInv, AppliedInv, WritersInv
  <2> QED BY <2>1, <2>4, <2>5, <2>6, <2>7
<1>15. CASE Request
  <2> SUFFICES ASSUME ~overlapped'
               PROVE  RestoredInv'
    OBVIOUS
  <2>1. /\ ~overlapped /\ served' \in {served, config}
        /\ UNCHANGED <<env, envBackup, configBackup, published, pc, outcome, failed>>
    BY <1>15
    DEF Request, RequestStep, LoadConfig, BackupConfig, SaveConfig,
      ReloadRuntime, RestoreBackup, ReloadBackup, EndRequest
  <2>2. request' # "none" =>
           \/ request # "none" /\ creating' = creating
           \/ LoadConfig(creating')
    BY <1>15
    DEF Request, RequestStep, LoadConfig, BackupConfig, SaveConfig,
      ReloadRuntime, RestoreBackup, ReloadBackup, EndRequest
  <2>3. CASE config' = config
    <3>1. LoadConfig(creating') => config # NoConfig /\ creating' \notin config.users
      BY DEF LoadConfig
    <3>2. Accepted(config) => Accepted(config)'
      BY <2>3 DEF Accepted
    <3>3. ASSUME \/ pc \in {"restore config", "restart old"} /\ ~failed
                 \/ pc = "idle" /\ outcome = "restored",
                 request' # "none"
          PROVE  configBackup # NoConfig /\ creating' \notin configBackup.users
      <4>1. CASE request # "none" /\ creating' = creating
        BY <2>1, <3>3, <4>1
      <4>2. CASE LoadConfig(creating')
        BY <2>1, <3>1, <3>3, <4>2
      <4> QED BY <2>2, <3>3, <4>1, <4>2
    <3> HIDE DEF AppliedInv, WritersInv
    <3>4. Accepted(config) => config # NoConfig
      BY DEF Accepted
    <3> QED BY <2>1, <2>3, <3>2, <3>3, <3>4
  <2>4. CASE config' # config
    <3>1. /\ pc = "idle" /\ config' # NoConfig /\ config'.ports = config.ports
          /\ config.users \ {creating} \subseteq config'.users
          /\ request # "none" /\ served' = served /\ creating' = creating
      BY <1>15, <2>4, RequestWrites, NoConfigAssumption
    <3> QED BY <2>1, <3>1 DEF Accepted
  <2> QED BY <2>3, <2>4
<1>16. CASE UNCHANGED vars
  BY <1>16 DEF vars
<1> QED
  BY <1>1, <1>2, <1>3, <1>4, <1>5, <1>6, <1>7, <1>8, <1>9, <1>10, <1>11,
     <1>12, <1>13, <1>14, <1>15, <1>16 DEF Next

\* The deployment the script first finds is valid and served.
LEMMA InitInvariant ==
    ASSUME Init
    PROVE  IInv
<1> DEFINE first == [ports |-> InboundPorts(InitialEnv), users |-> {}]
<1>1. /\ ValidEnv(InitialEnv) /\ UniqueConfig(InitialEnv)
      /\ \A k \in Keys : InitialEnv[k] # Empty
  <2>1. \A k \in Keys : ValidPort(InitialEnv[k])
    BY InitialTexts DEF UniqueConfig
  <2> QED BY <2>1, InitialTexts DEF ValidEnv, ValidPort
<1>2. ApiPort(InitialEnv) \in PortNumbers
  BY <1>1, EnvAssumption DEF ApiPort
<1>3. InboundPorts(InitialEnv) \in [Inbounds -> Nat]
  BY <1>1, EnvAssumption DEF InboundPorts, InboundKeys, Decimal, Texts
<1>4. first \in Configs /\ first.users = {}
  BY <1>3 DEF Configs
<1>5. /\ config = first /\ served = first /\ loaded = NoConfig /\ undo = NoConfig
      /\ request = "none" /\ answered = {} /\ creating \in Users
  BY DEF Init, InitRequest
<1> HIDE DEF first
<1>6. TypeOK
  <2>1. FileTypes
    BY <1>1, <1>2, <1>4, <1>5 DEF Init, FileTypes, Files
  <2>2. 0 \in 0..MaxRollouts
    BY Bounds
  <2>3. ControlTypes
    BY <1>5, <2>2 DEF Init, ControlTypes, Steps, Files
  <2> QED BY <2>1, <2>3 DEF TypeOK
<1>7. UniqueInv
  BY <1>1, UniqueIsApart DEF Init, UniqueInv
<1>8. WritersInv /\ UsersInv
  BY <1>4, <1>5 DEF Init, WritersInv, UsersInv, AnsweredUsersStay
<1>9. AppliedInv /\ RestoredInv
  BY DEF Init, AppliedInv, RestoredInv
<1> QED BY <1>6, <1>7, <1>8, <1>9 DEF IInv

\* Every step of the script or of the API preserves the invariant.
LEMMA InvariantStep ==
    ASSUME IInv, [Next]_vars
    PROVE  IInv'
BY FileTypesStep, ControlTypesStep, UniqueStep, WritersStep, UsersStep, AppliedStep,
   RestoredStep DEF IInv, TypeOK

\* The inductive invariant holds in every state the script and the API reach.
THEOREM Invariance == Spec => []IInv
<1>1. Init => IInv
  BY InitInvariant
<1>2. IInv /\ [Next]_vars => IInv'
  BY InvariantStep
<1> QED BY <1>1, <1>2, PTL DEF Spec

\* Every port that .env.local, its backup or a plan has, after any failing
\* command or partial copy, is a number from 1 to 65535 for bash, plans are
\* complete, and what is published is a port for Docker, whatever the texts
\* are that port_validate sees.
THEOREM TypeCorrect == Spec => []TypeOK
<1>1. IInv => TypeOK
  BY DEF IInv
<1> QED BY <1>1, Invariance, PTL

\* Texts that are one number and have as many leading zeros are one text.
LEMMA OneSpelling ==
    ASSUME NEW t \in Texts, NEW u \in Texts, Decimal(t) = Decimal(u), t.zeros = u.zeros
    PROVE  t = u
BY DEF Texts, Decimal

\* Whatever fails and whatever is restored, .env.local gives one socket to two
\* services only if it spells their port in two ways, with and without leading
\* zeros, the texts that port_require_unique_config takes for different ports.
THEOREM SocketsStayApart == Spec => []NoSharedSocket
<1>1. ASSUME TypeOK, Apart(env)
      PROVE  NoSharedSocket
  <2> SUFFICES ASSUME NEW k \in Keys, NEW l \in Keys, k # l,
                      Sockets(env, k) \intersect Sockets(env, l) # {},
                      env[k].zeros = env[l].zeros
               PROVE  FALSE
    BY DEF NoSharedSocket
  <2>1. /\ Transports(k) \intersect Transports(l) # {}
        /\ Decimal(env[k]) = Decimal(env[l]) /\ Decimal(env[k]) \in PortNumbers
    BY DEF Sockets
  <2>2. env[k] = env[l]
    BY <1>1, <2>1, OneSpelling DEF TypeOK, FileTypes, ValidEnv
  <2>3. env[k] # Empty
    <3>1. Decimal(Empty) = 0 /\ 0 \notin PortNumbers
      BY DEF Decimal, Empty, PortNumbers
    <3> QED BY <2>1, <3>1
  <2> QED BY <1>1, <2>1, <2>2, <2>3 DEF Apart
<1>2. IInv => NoSharedSocket
  BY <1>1 DEF IInv, UniqueInv
<1> QED BY <1>2, Invariance, PTL

\* "Port change applied successfully" (apply_ports) is said of a node whose
\* environment, configuration, running sing-box and published API port all have
\* the new ports, ports sing-box accepts, unless the script or a request wrote
\* over the other's work.
THEOREM AppliedPortsAreServed == Spec => []AppliedIsServed
<1>1. IInv => AppliedIsServed
  BY DEF IInv, AppliedInv, AppliedIsServed, PortsAgree, Accepted
<1> QED BY <1>1, Invariance, PTL

\* "previous configuration was restored" (restore_ports) is said of a node that
\* has, in both files, in the running sing-box and in the published API port,
\* what it had before, and every user, unless the script or a request wrote
\* over the other's work.
THEOREM RestoredPortsAreServed == Spec => []RestoredIsServed
<1>1. IInv => RestoredIsServed
  BY DEF IInv, AppliedInv, RestoredInv, RestoredIsServed
<1> QED BY <1>1, Invariance, PTL

\* However rollouts and requests end, every user the API answered for is in
\* config.json and is served, as long as the script and a request do not write
\* over each other's work and no failing copy cuts config.json.
THEOREM NoUserLost == Spec => []AnsweredUsersStay
<1>1. IInv => AnsweredUsersStay
  BY DEF IInv, UsersInv, AnsweredUsersStay
<1> QED BY <1>1, Invariance, PTL
=============================================================================
