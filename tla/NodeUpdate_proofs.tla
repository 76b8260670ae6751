-------------------------- MODULE NodeUpdate_proofs --------------------------
(***************************************************************************)
(* Theorems about NodeUpdate, for every set of users, every number of      *)
(* releases and every number of updates.                                   *)
(***************************************************************************)
EXTENDS NodeUpdate, TLAPS

\* A pull brings a published release.
LEMMA LaterReleases ==
    ASSUME NEW r \in Releases
    PROVE  r..MaxRelease \subseteq Releases
BY UpdateAssumption DEF Releases

\* A loaded configuration has the template of the deployed one, its users and
\* the new one.
LEMMA LoadAdds ==
    ASSUME config \in Files, NEW u \in Users, LoadConfig(u)
    PROVE  /\ loaded' \in Configs
           /\ loaded'.users = config.users \union {u}
BY DEF Files, Configs, LoadConfig

\* What will be moved over config.json has the template of the checkout and the
\* users of the file.
LEMMA ReadMerges ==
    ASSUME ReadConfig, pc' = "move"
    PROVE  /\ config # NoConfig
           /\ rendered'.template = checkout /\ rendered'.users = config.users
<1>1. CASE RollsBack("exit")
  BY <1>1 DEF RollsBack
<1>2. CASE config # NoConfig /\ rendered' = [template |-> checkout, users |-> config.users]
  BY <1>2
<1> QED BY <1>1, <1>2 DEF ReadConfig

\* What a request writes it has loaded or backed up, and what the container
\* starts with it finds.
LEMMA RequestReaches ==
    ASSUME Request
    PROVE  /\ config' \in {config, loaded, undo} /\ served' \in {served, config}
           /\ config' # config => /\ request \in {"backed up", "restore"}
                                  /\ config' \in {loaded, undo}
                                  /\ UNCHANGED <<served, creating, answered>>
           /\ UNCHANGED <<checkout, env, images, running, backups, pc, rendered, resume,
                          outcome, updates, before, skipped>>
BY DEF Request, RequestStep, LoadConfig, BackupConfig, SaveConfig, ReloadRuntime,
      RestoreBackup, ReloadBackup, EndRequest

\* A request that changes the file and overwrites nobody adds or takes back
\* its user, and nothing else.
LEMMA RequestWrites ==
    ASSUME TypeOK, Request, ~crossed', config' # config
    PROVE  /\ pc # "move" /\ request \in {"backed up", "restore"}
           /\ config \in Configs /\ config' \in Configs
           /\ config'.template = config.template
           /\ config.users \ {creating} \subseteq config'.users
           /\ config'.users \subseteq config.users \union {creating}
           /\ UNCHANGED <<served, creating, answered>>
<1>1. pc # "move" /\ KnowsFile
  BY DEF Request
<1>2. /\ undo \in Configs
      /\ loaded = [undo EXCEPT !.users = @ \union {creating}]
      /\ config \in {undo, loaded}
  BY <1>1 DEF KnowsFile, TypeOK, ControlTypes, Files
<1>3. /\ loaded \in Configs /\ loaded.template = undo.template
      /\ loaded.users = undo.users \union {creating}
  BY <1>2 DEF Configs, TypeOK, ControlTypes
<1> QED BY <1>1, <1>2, <1>3, RequestReaches

\* Whatever a command does or fails to do, what is deployed is of a release.
LEMMA DeploymentTypesStep ==
    ASSUME TypeOK, [Next]_vars
    PROVE  DeploymentTypes'
<1> USE DEF TypeOK, DeploymentTypes, BackupTypes, ControlTypes, deployed, api,
            requestVars, backups, noted
<1>1. CASE Fetch
  <2>1. checkout' \in Releases /\ UNCHANGED <<env, images, running, config, served>>
    BY <1>1, LaterReleases DEF Fetch, Aborts
  <2> QED BY <2>1
<1>2. CASE Backup
  BY <1>2 DEF Backup, Aborts
<1>3. CASE ChooseImages
  BY <1>3 DEF ChooseImages, Aborts
<1>4. CASE Pull
  <2>1. checkout' \in Releases /\ images' \in Releases
        /\ env' = env /\ running' = running /\ UNCHANGED <<config, served>>
    BY <1>4, LaterReleases DEF Pull, Then, SubstitutionFails, RollsBack
  <2> QED BY <2>1
<1>5. CASE CompleteEnv
  BY <1>5 DEF CompleteEnv, Then, SubstitutionFails, RollsBack
<1>6. CASE Up
  <2>1. CASE Recreate
    BY <2>1 DEF Recreate
  <2>2. CASE UNCHANGED deployed
    BY <2>2
  <2> QED BY <1>6, <2>1, <2>2 DEF Up, Then
<1>7. CASE ReadConfig
  BY <1>7 DEF ReadConfig, Then, RollsBack
<1>8. CASE Move
  BY <1>8 DEF Move, Then, RollsBack, Replace, Files
<1>9. CASE Check
  BY <1>9 DEF Check, Then, RollsBack
<1>10. CASE Restart
  BY <1>10 DEF Restart, Then, RollsBack, RestartRuntime
<1>11. CASE Wait
  BY <1>11 DEF Wait, Then, RollsBack
<1>12. CASE ResetCommit
  BY <1>12 DEF ResetCommit, Attempt
<1>13. CASE RestoreEnv
  BY <1>13 DEF RestoreEnv, Attempt, Cut
<1>14. CASE RetagImages
  BY <1>14 DEF RetagImages, Attempt
<1>15. CASE UpOld
  <2>1. CASE Recreate
    BY <2>1 DEF Recreate
  <2>2. CASE UNCHANGED deployed
    BY <2>2
  <2> QED BY <1>15, <2>1, <2>2 DEF UpOld, Attempt
<1>16. CASE RestoreConfig
  BY <1>16 DEF RestoreConfig, Attempt, Cut, Replace, Files
<1>17. CASE RestartOld
  BY <1>17 DEF RestartOld, Attempt, RestartRuntime
<1>18. CASE Report
  BY <1>18 DEF Report, RollsBack
<1>19. CASE Request
  BY <1>19, RequestReaches
<1>20. CASE UNCHANGED vars
  BY <1>20 DEF vars, noted
<1> QED
  BY <1>1, <1>2, <1>3, <1>4, <1>5, <1>6, <1>7, <1>8, <1>9, <1>10, <1>11,
     <1>12, <1>13, <1>14, <1>15, <1>16, <1>17, <1>18, <1>19, <1>20 DEF Next

\* So is what the script keeps.
LEMMA BackupTypesStep ==
    ASSUME TypeOK, [Next]_vars
    PROVE  BackupTypes'
<1> USE DEF TypeOK, DeploymentTypes, BackupTypes, ControlTypes, deployed, api,
            requestVars, backups, noted
<1>1. CASE Fetch
  BY <1>1, UpdateAssumption DEF Fetch, Aborts, Deployment, Releases, Files
<1>2. CASE Backup
  BY <1>2 DEF Backup, Aborts
<1>3. CASE ChooseImages
  BY <1>3 DEF ChooseImages, Aborts
<1>4. CASE Pull
  BY <1>4 DEF Pull, Then, SubstitutionFails, RollsBack
<1>5. CASE CompleteEnv
  BY <1>5 DEF CompleteEnv, Then, SubstitutionFails, RollsBack
<1>6. CASE Up
  BY <1>6 DEF Up, Then, RollsBack, Recreate, DiesWithRequest, EndRequest
<1>7. CASE ReadConfig
  <2>1. rendered' \in Configs
    <3>1. CASE config # NoConfig /\ rendered' = [template |-> checkout, users |-> config.users]
      BY <3>1 DEF Configs, Files
    <3> QED BY <1>7, <3>1 DEF ReadConfig
  <2>2. UNCHANGED <<oldCommit, oldImages, envBackup, configBackup, before>>
    BY <1>7 DEF ReadConfig
  <2>3. pc = "read config"
    BY <1>7 DEF ReadConfig
  <2> QED BY <2>1, <2>2, <2>3
<1>8. CASE Move
  BY <1>8 DEF Move, Then, RollsBack, Replace
<1>9. CASE Check
  BY <1>9 DEF Check, Then, RollsBack
<1>10. CASE Restart
  BY <1>10 DEF Restart, Then, RollsBack, RestartRuntime
<1>11. CASE Wait
  BY <1>11 DEF Wait, Then, RollsBack
<1>12. CASE ResetCommit
  BY <1>12 DEF ResetCommit, Attempt
<1>13. CASE RestoreEnv
  BY <1>13 DEF RestoreEnv, Attempt, Cut
<1>14. CASE RetagImages
  BY <1>14 DEF RetagImages, Attempt
<1>15. CASE UpOld
  BY <1>15 DEF UpOld, Attempt, Recreate, DiesWithRequest, EndRequest
<1>16. CASE RestoreConfig
  BY <1>16 DEF RestoreConfig, Attempt, Cut, Replace
<1>17. CASE RestartOld
  BY <1>17 DEF RestartOld, Attempt, RestartRuntime
<1>18. CASE Report
  BY <1>18 DEF Report, RollsBack
<1>19. CASE Request
  BY <1>19, RequestReaches
<1>20. CASE UNCHANGED vars
  BY <1>20 DEF vars, noted
<1> QED
  BY <1>1, <1>2, <1>3, <1>4, <1>5, <1>6, <1>7, <1>8, <1>9, <1>10, <1>11,
     <1>12, <1>13, <1>14, <1>15, <1>16, <1>17, <1>18, <1>19, <1>20 DEF Next

\* The script is at one of its commands, and the API in one of its states.
LEMMA ControlTypesStep ==
    ASSUME TypeOK, [Next]_vars
    PROVE  ControlTypes'
<1> USE DEF TypeOK, ControlTypes, deployed, api, requestVars,
            backups, noted
<1>1. CASE Fetch
  <2>1. updates' \in 0..MaxUpdates
    <3>1. updates \in 0..MaxUpdates /\ updates < MaxUpdates /\ updates' = updates + 1
      BY <1>1 DEF Fetch
    <3> HIDE DEF TypeOK, ControlTypes
    <3> QED BY <3>1, UpdateAssumption
  <2>2. pc' \in Steps /\ outcome' \in {"none", "aborted"} /\ resume' = "exit"
    BY <1>1 DEF Fetch, Aborts, Steps
  <2> QED BY <1>1, <2>1, <2>2 DEF Fetch
<1>2. CASE Backup
  BY <1>2 DEF Backup, Aborts, Steps
<1>3. CASE ChooseImages
  BY <1>3 DEF ChooseImages, Aborts, Steps
<1>4. CASE Pull
  BY <1>4 DEF Pull, Then, SubstitutionFails, RollsBack, Steps
<1>5. CASE CompleteEnv
  BY <1>5 DEF CompleteEnv, Then, SubstitutionFails, RollsBack, Steps
<1>6. CASE Up
  BY <1>6 DEF Up, Then, RollsBack, Recreate, DiesWithRequest, EndRequest, Steps, Files
<1>7. CASE ReadConfig
  BY <1>7 DEF ReadConfig, Then, RollsBack, Steps
<1>8. CASE Move
  BY <1>8 DEF Move, Then, RollsBack, Replace, Steps
<1>9. CASE Check
  BY <1>9 DEF Check, Then, RollsBack, Steps
<1>10. CASE Restart
  BY <1>10 DEF Restart, Then, RollsBack, RestartRuntime, Steps
<1>11. CASE Wait
  BY <1>11 DEF Wait, Then, RollsBack, Steps
<1>12. CASE ResetCommit
  BY <1>12 DEF ResetCommit, Attempt, Steps
<1>13. CASE RestoreEnv
  BY <1>13 DEF RestoreEnv, Attempt, Cut, Steps
<1>14. CASE RetagImages
  BY <1>14 DEF RetagImages, Attempt, Steps
<1>15. CASE UpOld
  BY <1>15 DEF UpOld, Attempt, Recreate, DiesWithRequest, EndRequest, Steps, Files
<1>16. CASE RestoreConfig
  BY <1>16 DEF RestoreConfig, Attempt, Cut, Replace, Steps
<1>17. CASE RestartOld
  BY <1>17 DEF RestartOld, Attempt, RestartRuntime, Steps
<1>18. CASE Report
  BY <1>18 DEF Report, RollsBack, Steps
<1>19. CASE Request
  <2>1. ASSUME NEW u \in Users, LoadConfig(u)
        PROVE  ControlTypes'
    <3>1. loaded' \in Configs
      BY <2>1, LoadAdds DEF DeploymentTypes
    <3> QED BY <1>19, <2>1, <3>1 DEF LoadConfig, Request, Files
  <2>2. CASE BackupConfig \/ SaveConfig \/ ReloadRuntime \/ RestoreBackup
             \/ ReloadBackup
    BY <1>19, <2>2
    DEF Request, BackupConfig, SaveConfig, ReloadRuntime, RestoreBackup, ReloadBackup,
        EndRequest, Files, DeploymentTypes
  <2> QED BY <1>19, <2>1, <2>2 DEF Request, RequestStep
<1>20. CASE UNCHANGED vars
  BY <1>20 DEF vars, noted
<1> QED
  BY <1>1, <1>2, <1>3, <1>4, <1>5, <1>6, <1>7, <1>8, <1>9, <1>10, <1>11,
     <1>12, <1>13, <1>14, <1>15, <1>16, <1>17, <1>18, <1>19, <1>20 DEF Next

\* Where images are put back, those to go back to are known.
LEMMA ImagesKnown ==
    ASSUME BackupTypes, pc = "retag"
    PROVE  oldImages # NoImage
BY DEF BackupTypes, Releases, NoImage

\* An update's memory of the deployment it found is right.
LEMMA MemoryStep ==
    ASSUME IInv, [Next]_vars
    PROVE  MemoryInv'
<1> USE DEF IInv, MemoryInv, KeepsDeployed, Forward, Rollback, deployed, api,
            requestVars, backups, noted
<1>1. CASE Fetch
  BY <1>1 DEF Fetch, Aborts, Deployment
<1>2. CASE Backup
  BY <1>2 DEF Backup, Aborts
<1>3. CASE ChooseImages
  BY <1>3 DEF ChooseImages, Aborts
<1>4. CASE Pull
  BY <1>4 DEF Pull, Then, SubstitutionFails, RollsBack
<1>5. CASE CompleteEnv
  BY <1>5 DEF CompleteEnv, Then, SubstitutionFails, RollsBack
<1>6. CASE Up
  BY <1>6 DEF Up, Then, RollsBack, Recreate, DiesWithRequest, EndRequest
<1>7. CASE ReadConfig
  BY <1>7 DEF ReadConfig, Then, RollsBack
<1>8. CASE Move
  BY <1>8 DEF Move, Then, RollsBack, Replace
<1>9. CASE Check
  BY <1>9 DEF Check, Then, RollsBack
<1>10. CASE Restart
  BY <1>10 DEF Restart, Then, RollsBack, RestartRuntime
<1>11. CASE Wait
  BY <1>11 DEF Wait, Then, RollsBack
<1>12. CASE ResetCommit
  BY <1>12 DEF ResetCommit, Attempt
<1>13. CASE RestoreEnv
  BY <1>13 DEF RestoreEnv, Attempt, Cut
<1>14. CASE RetagImages
  BY <1>14 DEF RetagImages, Attempt
<1>15. CASE UpOld
  BY <1>15 DEF UpOld, Attempt, Recreate, DiesWithRequest, EndRequest
<1>16. CASE RestoreConfig
  BY <1>16 DEF RestoreConfig, Attempt, Cut, Replace
<1>17. CASE RestartOld
  BY <1>17 DEF RestartOld, Attempt, RestartRuntime
<1>18. CASE Report
  BY <1>18 DEF Report, RollsBack
<1>19. CASE Request
  <2>1. /\ ~crossed' => ~crossed
        /\ UNCHANGED <<checkout, env, running, backups, pc, outcome, before>>
    BY <1>19 DEF Request
  <2>2. CASE config' = config
    BY <2>1, <2>2
  <2>3. CASE config' # config
    <3>1. ~crossed' => /\ NoConfig \notin {config, config'}
                       /\ config'.template = config.template
                       /\ config.users \ {creating} \subseteq config'.users
                       /\ creating \notin before.users
      BY <1>19, <2>1, <2>3, RequestWrites, NoConfigAssumption DEF WritersInv
    <3> QED BY <2>1, <3>1
  <2> QED BY <2>2, <2>3
<1>20. CASE UNCHANGED vars
  BY <1>20 DEF vars, noted
<1> QED
  BY <1>1, <1>2, <1>3, <1>4, <1>5, <1>6, <1>7, <1>8, <1>9, <1>10, <1>11,
     <1>12, <1>13, <1>14, <1>15, <1>16, <1>17, <1>18, <1>19, <1>20 DEF Next

\* A writer that nobody crossed writes back what it has read, and more.
LEMMA WritersStep ==
    ASSUME IInv, [Next]_vars
    PROVE  WritersInv'
<1> USE DEF IInv, WritersInv, deployed, api, requestVars,
            backups, noted
<1>1. CASE Fetch
  BY <1>1 DEF Fetch, Aborts, Deployment
<1>2. CASE Backup
  BY <1>2 DEF Backup, Aborts
<1>3. CASE ChooseImages
  BY <1>3 DEF ChooseImages, Aborts
<1>4. CASE Pull
  BY <1>4 DEF Pull, Then, SubstitutionFails, RollsBack
<1>5. CASE CompleteEnv
  BY <1>5 DEF CompleteEnv, Then, SubstitutionFails, RollsBack
<1>6. CASE Up
  BY <1>6 DEF Up, Then, RollsBack, Recreate, DiesWithRequest, EndRequest
<1>7. CASE ReadConfig
  <2>1. UNCHANGED <<config, api, before, crossed>>
    BY <1>7 DEF ReadConfig
  <2>2. pc' = "move" => config # NoConfig /\ rendered'.users = config.users
    BY <1>7, ReadMerges
  <2> QED BY <2>1, <2>2
<1>8. CASE Move
  BY <1>8 DEF Move, Then, RollsBack, Replace
<1>9. CASE Check
  BY <1>9 DEF Check, Then, RollsBack
<1>10. CASE Restart
  BY <1>10 DEF Restart, Then, RollsBack, RestartRuntime
<1>11. CASE Wait
  BY <1>11 DEF Wait, Then, RollsBack
<1>12. CASE ResetCommit
  BY <1>12 DEF ResetCommit, Attempt
<1>13. CASE RestoreEnv
  BY <1>13 DEF RestoreEnv, Attempt, Cut
<1>14. CASE RetagImages
  BY <1>14 DEF RetagImages, Attempt
<1>15. CASE UpOld
  BY <1>15 DEF UpOld, Attempt, Recreate, DiesWithRequest, EndRequest
<1>16. CASE RestoreConfig
  BY <1>16 DEF RestoreConfig, Attempt, Cut, Replace, MemoryInv, KeepsDeployed
<1>17. CASE RestartOld
  BY <1>17 DEF RestartOld, Attempt, RestartRuntime
<1>18. CASE Report
  BY <1>18 DEF Report, RollsBack
<1>19. CASE Request
  <2>1. /\ ~crossed' => ~crossed /\ (pc = "move" => config' = config)
        /\ UNCHANGED <<pc, rendered, before>>
    BY <1>19 DEF Request
  <2>2. ASSUME NEW u \in Users, LoadConfig(u)
        PROVE  WritersInv'
    BY <2>1, <2>2, LoadAdds DEF LoadConfig, TypeOK, DeploymentTypes
  <2>3. CASE BackupConfig \/ SaveConfig \/ ReloadRuntime \/ RestoreBackup
             \/ ReloadBackup
    <3>1. /\ request' # "none" => /\ request # "none"
                                  /\ UNCHANGED <<loaded, creating, answered>>
      BY <2>3
      DEF BackupConfig, SaveConfig, ReloadRuntime, RestoreBackup, ReloadBackup,
          EndRequest
    <3>2. ~crossed' /\ config' # NoConfig => before.users \subseteq config'.users
      <4>1. CASE config' = config
        BY <2>1, <4>1
      <4>2. CASE config' # config
        BY <1>19, <2>1, <4>2, RequestWrites, NoConfigAssumption
      <4> QED BY <4>1, <4>2
    <3> QED BY <2>1, <3>1, <3>2
  <2> QED BY <1>19, <2>2, <2>3 DEF Request, RequestStep
<1>20. CASE UNCHANGED vars
  BY <1>20 DEF vars, noted
<1> QED
  BY <1>1, <1>2, <1>3, <1>4, <1>5, <1>6, <1>7, <1>8, <1>9, <1>10, <1>11,
     <1>12, <1>13, <1>14, <1>15, <1>16, <1>17, <1>18, <1>19, <1>20 DEF Next

\* A container that starts with the file, or does not, and a request that ends
\* with it, or does not, lose nobody.
LEMMA RestartLosesNobody ==
    ASSUME UsersInv, pc \notin {"idle", "backup"}, served' \in {served, config},
           request' \in {request, "none"},
           UNCHANGED <<config, configBackup, creating, answered, crossed, late>>
    PROVE  UsersInv'
<1> SUFFICES ASSUME ~crossed, ~late
             PROVE  UsersInv'
  BY DEF UsersInv
<1>1. Counts(config)' /\ Counts(configBackup)'
  BY DEF UsersInv, Counts
<1>2. BackupIsCurrent'
  BY DEF UsersInv, BackupIsCurrent
<1>3. ServedCounts'
  <2>1. CASE served' = served
    BY <2>1 DEF UsersInv, ServedCounts
  <2>2. CASE served' = config
    BY <2>2 DEF UsersInv, ServedCounts, Counts
  <2> QED BY <2>1, <2>2
<1> QED BY <1>1, <1>2, <1>3 DEF UsersInv

\* No user who was answered for is lost.
LEMMA UsersStep ==
    ASSUME IInv, [Next]_vars
    PROVE  UsersInv'
<1> USE DEF IInv, UsersInv, Counts, ServedCounts, BackupIsCurrent, deployed, api, requestVars,
            backups, noted
<1>1. CASE Fetch
  BY <1>1 DEF Fetch, Aborts
<1>2. CASE Backup
  BY <1>2 DEF Backup, Aborts
<1>3. CASE ChooseImages
  BY <1>3 DEF ChooseImages, Aborts
<1>4. CASE Pull
  BY <1>4 DEF Pull, Then, SubstitutionFails, RollsBack
<1>5. CASE CompleteEnv
  BY <1>5 DEF CompleteEnv, Then, SubstitutionFails, RollsBack
<1>6. CASE Up
  <2>1. served' \in {served, config} /\ request' \in {request, "none"}
    BY <1>6 DEF Up, Then, RollsBack, Recreate, DiesWithRequest, EndRequest
  <2>2. /\ pc = "up"
        /\ UNCHANGED <<config, configBackup, creating, answered, crossed, late>>
    BY <1>6 DEF Up, Then, RollsBack, Recreate, DiesWithRequest, EndRequest
  <2> QED BY <2>1, <2>2, RestartLosesNobody
<1>7. CASE ReadConfig
  BY <1>7 DEF ReadConfig, RollsBack
<1>8. CASE Move
  BY <1>8 DEF Move, Then, RollsBack, Replace, WritersInv
<1>9. CASE Check
  BY <1>9 DEF Check, Then, RollsBack
<1>10. CASE Restart
  <2>1. /\ served' \in {served, config} /\ request' = request
        /\ pc = "restart"
        /\ UNCHANGED <<config, configBackup, creating, answered, crossed, late>>
    BY <1>10 DEF Restart, Then, RollsBack, RestartRuntime
  <2> QED BY <2>1, RestartLosesNobody
<1>11. CASE Wait
  BY <1>11 DEF Wait, Then, RollsBack
<1>12. CASE ResetCommit
  BY <1>12 DEF ResetCommit, Attempt
<1>13. CASE RestoreEnv
  BY <1>13 DEF RestoreEnv, Attempt, Cut
<1>14. CASE RetagImages
  BY <1>14 DEF RetagImages, Attempt
<1>15. CASE UpOld
  <2>1. served' \in {served, config} /\ request' \in {request, "none"}
    BY <1>15 DEF UpOld, Attempt, Recreate, DiesWithRequest, EndRequest
  <2>2. /\ pc = "up old"
        /\ UNCHANGED <<config, configBackup, creating, answered, crossed, late>>
    BY <1>15 DEF UpOld, Attempt, Recreate, DiesWithRequest, EndRequest
  <2> QED BY <2>1, <2>2, RestartLosesNobody
<1>16. CASE RestoreConfig
  BY <1>16 DEF RestoreConfig, Attempt, Cut, Replace
<1>17. CASE RestartOld
  <2>1. /\ served' \in {served, config} /\ request' = request
        /\ pc = "restart old"
        /\ UNCHANGED <<config, configBackup, creating, answered, crossed, late>>
    BY <1>17 DEF RestartOld, Attempt, RestartRuntime
  <2> QED BY <2>1, RestartLosesNobody
<1>18. CASE Report
  BY <1>18 DEF Report, RollsBack
<1>19. CASE Request
  <2> SUFFICES ASSUME ~crossed', ~late'
               PROVE  UsersInv'
    OBVIOUS
  <2>1. /\ ~crossed /\ ~late /\ UNCHANGED <<pc, configBackup>>
        /\ config' # config => pc \in {"idle", "backup"}
    BY <1>19 DEF Request
  <2>2. ASSUME NEW u \in Users, LoadConfig(u)
        PROVE  UsersInv'
    BY <2>1, <2>2 DEF LoadConfig
  <2>3. CASE BackupConfig
    BY <2>1, <2>3 DEF BackupConfig, EndRequest
  <2>4. CASE SaveConfig
    <3>1. /\ request = "backed up" /\ request' \in {"saved", "restore"}
          /\ UNCHANGED <<served, creating, answered>>
          /\ request' = "saved" => config' # NoConfig /\ creating \in config'.users
      BY <2>4, NoConfigAssumption DEF SaveConfig, WritersInv
    <3>2. CASE config' = config
      BY <2>1, <3>1, <3>2
    <3>3. CASE config' # config
      <4>1. config # NoConfig /\ config.users \ {creating} \subseteq config'.users
        BY <1>19, <3>3, RequestWrites, NoConfigAssumption
      <4> QED BY <2>1, <3>1, <3>3, <4>1
    <3> QED BY <3>2, <3>3
  <2>5. CASE ReloadRuntime
    <3>1. /\ request = "saved" /\ config' = config
          /\ served' \in {served, config} /\ request' \in {"none", "restore"}
          /\ \/ answered' = answered
             \/ answered' = answered \union {creating} /\ served' = config
      BY <2>5 DEF ReloadRuntime, EndRequest
    <3>2. Counts(config)' /\ (pc \notin {"idle", "backup"} => Counts(configBackup)')
      BY <2>1, <3>1
    <3>3. ServedCounts'
      <4>1. CASE served' = served /\ answered' = answered
        BY <2>1, <4>1
      <4>2. CASE served' = config
        BY <2>1, <3>1, <4>2
      <4> QED BY <3>1, <4>1, <4>2
    <3>4. pc \notin {"idle", "backup"} => BackupIsCurrent'
      BY <2>1, <3>1
    <3> QED BY <2>1, <3>2, <3>3, <3>4
  <2>6. CASE RestoreBackup
    <3>1. /\ request = "restore" /\ request' \in {"reload", "none"}
          /\ UNCHANGED <<served, creating, answered>>
      BY <2>6 DEF RestoreBackup, EndRequest
    <3>2. CASE config' = config
      BY <2>1, <3>1, <3>2
    <3>3. CASE config' # config
      <4>1. config # NoConfig /\ config.users \ {creating} \subseteq config'.users
        BY <1>19, <3>3, RequestWrites, NoConfigAssumption
      <4>2. creating \notin answered
        BY <3>1 DEF WritersInv
      <4> QED BY <2>1, <3>1, <3>3, <4>1, <4>2
    <3> QED BY <3>2, <3>3
  <2>7. CASE ReloadBackup
    BY <2>1, <2>7 DEF ReloadBackup, EndRequest
  <2> QED BY <1>19, <2>2, <2>3, <2>4, <2>5, <2>6, <2>7 DEF Request, RequestStep
<1>20. CASE UNCHANGED vars
  BY <1>20 DEF vars, noted
<1> QED
  BY <1>1, <1>2, <1>3, <1>4, <1>5, <1>6, <1>7, <1>8, <1>9, <1>10, <1>11,
     <1>12, <1>13, <1>14, <1>15, <1>16, <1>17, <1>18, <1>19, <1>20 DEF Next

\* Each command of an update adds its part of what "Update complete" says.
LEMMA ForwardStep ==
    ASSUME IInv, [Next]_vars
    PROVE  ForwardInv'
<1> USE DEF IInv, ForwardInv, Forward, deployed, api, requestVars,
            backups, noted
<1>1. CASE Fetch
  BY <1>1 DEF Fetch, Aborts
<1>2. CASE Backup
  BY <1>2 DEF Backup, Aborts
<1>3. CASE ChooseImages
  BY <1>3 DEF ChooseImages, Aborts
<1>4. CASE Pull
  BY <1>4 DEF Pull, Then, SubstitutionFails, RollsBack
<1>5. CASE CompleteEnv
  BY <1>5 DEF CompleteEnv, Then, SubstitutionFails, RollsBack
<1>6. CASE Up
  BY <1>6 DEF Up, Then, RollsBack, Recreate, DiesWithRequest, EndRequest
<1>7. CASE ReadConfig
  <2>1. /\ pc = "read config" /\ pc' \in {"move", "reset commit"}
        /\ UNCHANGED <<deployed, outcome, crossed>>
    BY <1>7 DEF ReadConfig, RollsBack
  <2>2. pc' = "move" => /\ rendered'.template = checkout
                        /\ resume' = resume
    BY <1>7, ReadMerges DEF ReadConfig, RollsBack
  <2> QED BY <2>1, <2>2
<1>8. CASE Move
  BY <1>8, NoConfigAssumption DEF Move, Then, RollsBack, Replace, TypeOK, BackupTypes
<1>9. CASE Check
  BY <1>9 DEF Check, Then, RollsBack
<1>10. CASE Restart
  BY <1>10 DEF Restart, Then, RollsBack, RestartRuntime
<1>11. CASE Wait
  BY <1>11 DEF Wait, Then, RollsBack
<1>12. CASE ResetCommit
  BY <1>12 DEF ResetCommit, Attempt
<1>13. CASE RestoreEnv
  BY <1>13 DEF RestoreEnv, Attempt, Cut
<1>14. CASE RetagImages
  BY <1>14 DEF RetagImages, Attempt
<1>15. CASE UpOld
  BY <1>15 DEF UpOld, Attempt, Recreate, DiesWithRequest, EndRequest
<1>16. CASE RestoreConfig
  BY <1>16 DEF RestoreConfig, Attempt, Cut, Replace
<1>17. CASE RestartOld
  BY <1>17 DEF RestartOld, Attempt, RestartRuntime
<1>18. CASE Report
  BY <1>18 DEF Report, RollsBack
<1>19. CASE Request
  <2> SUFFICES ASSUME ~crossed'
               PROVE  ForwardInv'
    OBVIOUS
  <2>1. /\ ~crossed /\ served' \in {served, config}
        /\ UNCHANGED <<checkout, env, images, running, pc, rendered, resume, outcome>>
    BY <1>19, RequestReaches DEF Request
  <2>2. CASE config' = config
    BY <2>1, <2>2
  <2>3. CASE config' # config
    <3>1. /\ NoConfig \notin {config, config'} /\ served' = served
          /\ config'.template = config.template
      BY <1>19, <2>3, RequestWrites, NoConfigAssumption
    <3> QED BY <2>1, <3>1
  <2> QED BY <2>2, <2>3
<1>20. CASE UNCHANGED vars
  BY <1>20 DEF vars, noted
<1> QED
  BY <1>1, <1>2, <1>3, <1>4, <1>5, <1>6, <1>7, <1>8, <1>9, <1>10, <1>11,
     <1>12, <1>13, <1>14, <1>15, <1>16, <1>17, <1>18, <1>19, <1>20 DEF Next

\* Each command of a rollback adds its part of what "Previous deployment
\* restored" says.
LEMMA RollbackStep ==
    ASSUME IInv, [Next]_vars
    PROVE  RollbackInv'
<1> USE DEF IInv, RollbackInv, MemoryInv, KeepsDeployed, Rollback, Forward,
            deployed, api, requestVars,
            backups, noted
<1>1. CASE Fetch
  BY <1>1 DEF Fetch, Aborts
<1>2. CASE Backup
  BY <1>2 DEF Backup, Aborts
<1>3. CASE ChooseImages
  BY <1>3 DEF ChooseImages, Aborts
<1>4. CASE Pull
  BY <1>4 DEF Pull, Then, SubstitutionFails, RollsBack
<1>5. CASE CompleteEnv
  BY <1>5 DEF CompleteEnv, Then, SubstitutionFails, RollsBack
<1>6. CASE Up
  BY <1>6 DEF Up, Then, RollsBack, Recreate, DiesWithRequest, EndRequest
<1>7. CASE ReadConfig
  BY <1>7 DEF ReadConfig, RollsBack
<1>8. CASE Move
  BY <1>8 DEF Move, Then, RollsBack, Replace
<1>9. CASE Check
  BY <1>9 DEF Check, Then, RollsBack
<1>10. CASE Restart
  BY <1>10 DEF Restart, Then, RollsBack, RestartRuntime
<1>11. CASE Wait
  BY <1>11 DEF Wait, Then, RollsBack
<1>12. CASE ResetCommit
  BY <1>12 DEF ResetCommit, Attempt
<1>13. CASE RestoreEnv
  BY <1>13 DEF RestoreEnv, Attempt, Cut
<1>14. CASE RetagImages
  BY <1>14, ImagesKnown DEF RetagImages, Attempt, TypeOK
<1>15. CASE UpOld
  <2>1. ~skipped' => ~skipped /\ Recreate
    BY <1>15 DEF UpOld, Attempt
  <2>2. pc = "up old" /\ pc' = "restore config" /\ UNCHANGED <<before, crossed>>
    BY <1>15 DEF UpOld, Attempt
  <2> QED BY <2>1, <2>2 DEF Recreate
<1>16. CASE RestoreConfig
  BY <1>16 DEF RestoreConfig, Attempt, Cut, Replace
<1>17. CASE RestartOld
  <2>1. /\ pc = "restart old" /\ pc' = "report"
        /\ UNCHANGED <<checkout, env, images, running, config, outcome, before, crossed>>
    BY <1>17 DEF RestartOld, Attempt, RestartRuntime
  <2>2. ~skipped' => ~skipped /\ served' = config /\ config # NoConfig
    BY <1>17 DEF RestartOld, Attempt, RestartRuntime
  <2> QED BY <2>1, <2>2
<1>18. CASE Report
  BY <1>18 DEF Report, RollsBack
<1>19. CASE Request
  <2> SUFFICES ASSUME ~crossed', ~skipped'
               PROVE  RollbackInv'
    OBVIOUS
  <2>1. /\ ~crossed /\ served' \in {served, config}
        /\ UNCHANGED <<checkout, env, images, running, pc, outcome, before, skipped>>
    BY <1>19, RequestReaches DEF Request
  <2>2. CASE config' = config
    BY <2>1, <2>2
  <2>3. CASE config' # config
    <3>1. /\ NoConfig \notin {config, config'} /\ served' = served
          /\ config'.template = config.template
          /\ config.users \ {creating} \subseteq config'.users
          /\ creating \notin before.users
      BY <1>19, <2>1, <2>3, RequestWrites, NoConfigAssumption DEF WritersInv
    <3> QED BY <2>1, <3>1
  <2> QED BY <2>2, <2>3
<1>20. CASE UNCHANGED vars
  BY <1>20 DEF vars, noted
<1> QED
  BY <1>1, <1>2, <1>3, <1>4, <1>5, <1>6, <1>7, <1>8, <1>9, <1>10, <1>11,
     <1>12, <1>13, <1>14, <1>15, <1>16, <1>17, <1>18, <1>19, <1>20 DEF Next

\* The installation's first deployment is one, and nothing is under way.
LEMMA InitInvariant ==
    ASSUME Init
    PROVE  IInv
<1> DEFINE first == [template |-> 1, users |-> {}]
<1>1. 1 \in Releases /\ 0 \in 0..MaxUpdates
  BY UpdateAssumption DEF Releases
<1>2. first \in Configs /\ first # NoConfig /\ first.users = {}
  BY <1>1, NoConfigAssumption DEF Configs
<1>3. /\ config = first /\ served = first /\ loaded = NoConfig /\ undo = NoConfig
      /\ request = "none" /\ answered = {} /\ creating \in Users
  BY DEF Init, InitRequest
<1> HIDE DEF first
<1>4. /\ checkout \in Releases /\ env \in Releases /\ images \in Releases
      /\ running = [image |-> 1, env |-> 1]
  BY <1>1 DEF Init
<1>5. before = [checkout |-> checkout, env |-> env, image |-> 1, config |-> first,
                users |-> {}]
  BY <1>2, <1>3, <1>4 DEF Init, Deployment
<1>6. DeploymentTypes
  BY <1>1, <1>2, <1>3, <1>4 DEF DeploymentTypes, Files
<1>7. BackupTypes
  <2>1. before \in [checkout : Releases, env : Releases \union {Garbled},
                    image : Releases, config : Files, users : SUBSET Users]
    BY <1>1, <1>2, <1>4, <1>5 DEF Files
  <2> QED BY <1>2, <1>3, <1>4, <2>1 DEF Init, BackupTypes, Files
<1>8. ControlTypes
  BY <1>1, <1>3 DEF Init, ControlTypes, Steps, Files
<1>9. MemoryInv /\ WritersInv /\ UsersInv
  BY <1>2, <1>3, <1>5
  DEF Init, MemoryInv, WritersInv, UsersInv, Counts, ServedCounts, Forward,
      Rollback
<1>10. ForwardInv /\ RollbackInv
  BY DEF Init, ForwardInv, RollbackInv, Forward, Rollback
<1> QED BY <1>6, <1>7, <1>8, <1>9, <1>10 DEF IInv, TypeOK

\* Every step of the script or of the API preserves the invariant.
LEMMA InvariantStep ==
    ASSUME IInv, [Next]_vars
    PROVE  IInv'
BY DeploymentTypesStep, BackupTypesStep, ControlTypesStep, MemoryStep, WritersStep,
   UsersStep, ForwardStep, RollbackStep DEF IInv, TypeOK

\* The inductive invariant holds in every state the script and the API reach.
THEOREM Invariance == Spec => []IInv
<1>1. Init => IInv
  BY InitInvariant
<1>2. IInv /\ [Next]_vars => IInv'
  BY InvariantStep
<1> QED BY <1>1, <1>2, PTL DEF Spec

\* Every file, tag and container is of some release, and under the trap the
\* images to go back to are known (update.sh, restore_image).
THEOREM TypeCorrect == Spec => []TypeOK
<1>1. IInv => TypeOK
  BY DEF IInv
<1> QED BY <1>1, Invariance, PTL

\* "Update complete" is said (update.sh, wait_for_status) of a node that runs
\* the pulled images, the updated environment and the checkout's template,
\* also if a request beside the update failed and took its user back, unless
\* the script or a request wrote over the other's work or the script went on
\* after a rollback of its subshell.
THEOREM CompleteIsDeployed == Spec => []UpdatedIsDeployed
<1>1. IInv => UpdatedIsDeployed
  <2> SUFFICES ASSUME IInv, outcome = "complete", ~crossed, resume # "up"
               PROVE  /\ env = checkout
                      /\ running = [image |-> images, env |-> env]
                      /\ NoConfig \notin {config, served}
                      /\ config.template = checkout /\ served.template = checkout
    BY DEF UpdatedIsDeployed
  <2>1. pc = "idle"
    BY DEF IInv, MemoryInv
  <2> QED BY <2>1 DEF IInv, ForwardInv
<1> QED BY <1>1, Invariance, PTL

\* "Previous deployment restored" is said (update.sh, rollback) of a node that
\* is what it was when the update began, with every user answered for by then,
\* whichever command failed, however often the rollback ran and whatever the
\* requests beside it saved and took back, unless a command of the rollback
\* failed or the script or a request wrote over the other's work.
THEOREM RollbackRestores == Spec => []RestoredIsDeployed
<1>1. IInv => RestoredIsDeployed
  <2> SUFFICES ASSUME IInv, outcome = "restored", ~skipped, ~crossed
               PROVE  /\ checkout = before.checkout /\ env = before.env
                      /\ images = before.image
                      /\ running = [image |-> images, env |-> env]
                      /\ NoConfig \notin {config, served, before.config}
                      /\ config.template = before.config.template
                      /\ served.template = config.template
                      /\ before.users \subseteq served.users
    BY DEF RestoredIsDeployed
  <2>1. pc = "idle"
    BY DEF IInv, MemoryInv
  <2> QED BY <2>1 DEF IInv, RollbackInv, KeepsDeployed
<1> QED BY <1>1, Invariance, PTL

\* However updates end, complete, restored, incomplete or aborted, every user
\* the API answered for is in config.json and is served, as long as the script
\* and a request do not write over each other's work, none writes while
\* update.sh holds a backup and no failing copy cuts config.json.
THEOREM NoUserLost == Spec => []AnsweredUsersStay
<1>1. IInv => AnsweredUsersStay
  <2> SUFFICES ASSUME UsersInv, ~crossed, ~late,
                      NEW file \in {config, served}, file # NoConfig
               PROVE  answered \subseteq file.users
    BY DEF IInv, AnsweredUsersStay
  <2>1. CASE file = config
    BY <2>1 DEF UsersInv, Counts
  <2>2. CASE file = served
    BY <2>2 DEF UsersInv, ServedCounts
  <2> QED BY <2>1, <2>2
<1> QED BY <1>1, Invariance, PTL
=============================================================================
