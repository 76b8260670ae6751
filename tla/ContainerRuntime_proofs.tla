----------------------- MODULE ContainerRuntime_proofs -----------------------
(***************************************************************************)
(* Theorems about ContainerRuntime, for every set of configurations, every *)
(* choice of those the core or the renderer refuses, and every bound.      *)
(***************************************************************************)
EXTENDS ContainerRuntime, TLAPS

\* The part of TypeOK that belongs to the request.
RequestTypes ==
    /\ pc \in {"idle", "save", "restore"} \union Reloading
    /\ mode \in {"commit", "rollback"}
    /\ candidate \in Configs /\ previous \in Configs
    /\ cause \in {"failed", "cancelled"}
    /\ reply \in {"none", "ok", "failed", "cancelled", "rollback_failed", "lost"}
    /\ exposed \in BOOLEAN

\* However a call ends, the request is in its type again.
LEMMA CallsTypes ==
    ASSUME TypeOK, NEW next \in Reloading, Calls(next)
    PROVE  RequestTypes'
BY DEF TypeOK, Calls, RequestTypes

LEMMA RaisesTypes ==
    ASSUME TypeOK, Raises
    PROVE  RequestTypes'
BY RuntimeAssumption DEF TypeOK, Raises, RollsBack, Answers, RequestTypes

LEMMA ReturnsTypes ==
    ASSUME TypeOK, Returns
    PROVE  RequestTypes'
BY RuntimeAssumption DEF TypeOK, Returns, Answers, RequestTypes

\* A counted fault stays within its bound.
LEMMA FaultTypes ==
    ASSUME TypeOK, Fault \/ NoFault
    PROVE  faults' \in 0 .. MaxFaults
BY RuntimeAssumption DEF TypeOK, Fault, NoFault

\* Every step keeps every variable in its type.
LEMMA TypeStep ==
    ASSUME TypeOK, PassInv, [Next]_vars
    PROVE  TypeOK'
<1> USE DEF node, request, counted, UnchangedElsewhere
<1>1. ASSUME NEW c \in Configs, Begin(c)
      PROVE  TypeOK'
  BY <1>1 DEF Begin, TypeOK
<1>2. CASE WriteConfig
  <2>1. RequestTypes'
    <3>1. CASE Calls(FirstCall)
      BY <3>1, CallsTypes DEF FirstCall, Reloading
    <3> QED BY <1>2, <3>1, RaisesTypes DEF WriteConfig
  <2>2. faults' \in 0 .. MaxFaults
    BY <1>2, FaultTypes DEF WriteConfig
  <2>3. file' \in Configs
    BY <1>2 DEF WriteConfig, TypeOK
  <2> QED BY <1>2, <2>1, <2>2, <2>3 DEF WriteConfig, TypeOK, RequestTypes
<1>3. CASE RenderRead
  <2>1. RequestTypes'
    BY <1>3, CallsTypes, RaisesTypes DEF RenderRead, Reloading
  <2> QED BY <1>3, <2>1 DEF RenderRead, TypeOK, RequestTypes
<1>4. CASE RenderWrite
  <2>1. RequestTypes'
    BY <1>4, CallsTypes, RaisesTypes DEF RenderWrite, Reloading
  <2>2. faults' \in 0 .. MaxFaults
    BY <1>4, FaultTypes DEF RenderWrite
  <2>3. source \in Configs
    BY <1>4 DEF RenderWrite, TypeOK, PassInv
  <2> QED BY <1>4, <2>1, <2>2, <2>3 DEF RenderWrite, TypeOK, RequestTypes
<1>5. CASE Test
  <2>1. RequestTypes'
    BY <1>5, CallsTypes, RaisesTypes DEF Test, Reloading
  <2>2. faults' \in 0 .. MaxFaults
    BY <1>5, FaultTypes DEF Test
  <2> QED BY <1>5, <2>1, <2>2 DEF Test, TypeOK, RequestTypes
<1>6. CASE Restart
  <2>1. RequestTypes'
    BY <1>6, CallsTypes, RaisesTypes DEF Restart, Reloading
  <2>2. faults' \in 0 .. MaxFaults
    BY <1>6, FaultTypes DEF Restart
  <2>3. started' \in Configs /\ status' \in {"running", "restarting", "exited"}
    BY <1>6 DEF Restart, RestartFails, Starts, Source, TypeOK
  <2> QED BY <1>6, <2>1, <2>2, <2>3 DEF Restart, TypeOK, RequestTypes
<1>7. CASE Poll
  <2>1. RequestTypes'
    BY <1>7, ReturnsTypes, RaisesTypes DEF Poll
  <2>2. faults' \in 0 .. MaxFaults
    BY <1>7, FaultTypes DEF Poll
  <2> QED BY <1>7, <2>1, <2>2 DEF Poll, TypeOK, RequestTypes
<1>8. CASE DeadlinePasses
  BY <1>8 DEF DeadlinePasses, TypeOK
<1>9. CASE Cancel
  <2>1. RequestTypes'
    BY <1>9, RuntimeAssumption DEF Cancel, RollsBack, TypeOK, RequestTypes
  <2>2. leaked' \subseteq Threads
    <3>1. ASSUME NEW work \in Abandoned
          PROVE  work \subseteq Threads
      <4>1. CASE pc = "write"
        <5>1. source \in Configs
          BY <4>1 DEF TypeOK, PassInv
        <5> QED BY <4>1, <5>1, <3>1 DEF Abandoned, Threads
      <4>2. CASE pc # "write"
        BY <4>2, <3>1 DEF Abandoned, Threads
      <4> QED BY <4>1, <4>2
    <3> QED BY <3>1, <1>9 DEF Cancel, TypeOK
  <2>3. cancels' \in 0 .. MaxCancels
    BY <1>9, RuntimeAssumption DEF Cancel, TypeOK
  <2> QED BY <1>9, <2>1, <2>2, <2>3 DEF Cancel, TypeOK, RequestTypes
<1>10. ASSUME NEW thread \in leaked, LeakedRender(thread)
       PROVE  TypeOK'
  <2>1. leaked' \subseteq Threads
    BY <1>10 DEF LeakedRender, TypeOK, Threads
  <2> QED BY <1>10, <2>1 DEF LeakedRender, TypeOK
<1>11. ASSUME NEW thread \in leaked, LeakedWrite(thread)
       PROVE  TypeOK'
  <2>1. thread.source \in Configs
    BY <1>11 DEF LeakedWrite, TypeOK, Threads
  <2> QED BY <1>11, <2>1 DEF LeakedWrite, TypeOK
<1>12. ASSUME NEW thread \in leaked, LeakedRestart(thread)
       PROVE  TypeOK'
  BY <1>12 DEF LeakedRestart, Starts, Source, TypeOK
<1>13. CASE ProcessDies \/ DockerRestarts \/ OperatorStops \/ OperatorStarts
  BY <1>13 DEF ProcessDies, DockerRestarts, OperatorStops, OperatorStarts, Starts,
               Source, TypeOK
<1>14. CASE ApiCrash
  BY <1>14, RuntimeAssumption DEF ApiCrash, TypeOK
<1>15. CASE UNCHANGED vars
  BY <1>15 DEF vars, TypeOK
<1> QED
  BY <1>1, <1>2, <1>3, <1>4, <1>5, <1>6, <1>7, <1>8, <1>9, <1>10, <1>11, <1>12, <1>13,
     <1>14, <1>15 DEF Next, RequestStep

-----------------------------------------------------------------------------
(* What the request has written.                                           *)

\* A failed or finished call leaves no write pending and fixes the pass.
LEMMA EndOfCall ==
    ASSUME Raises \/ Returns
    PROVE  /\ pc' \in {"idle", "restore"}
           /\ pc' = "idle" => mode' = "commit"
           /\ pc' = "restore" => mode' = "rollback"
BY DEF Raises, Returns, RollsBack, Answers

\* Where the request is tells what it has written, after every step too.
LEMMA PassStep ==
    ASSUME TypeOK, PassInv, [Next]_vars
    PROVE  PassInv'
<1> USE DEF node, request, counted, UnchangedElsewhere, Reloading
<1>0. runtime' = runtime
  BY DEF Next, RequestStep, vars, Begin, WriteConfig, RenderRead, RenderWrite, Test,
         Restart, Poll, DeadlinePasses, Cancel, LeakedRender, LeakedWrite, LeakedRestart,
         ProcessDies, DockerRestarts, OperatorStops, OperatorStarts, ApiCrash
<1>1. CASE Raises \/ Returns
  BY <1>0, <1>1, EndOfCall DEF PassInv
<1>2. ASSUME NEW c \in Configs, Begin(c)
      PROVE  PassInv'
  BY <1>2 DEF Begin, PassInv
<1>3. CASE WriteConfig
  <2>1. ASSUME Calls(FirstCall), file' = IF pc = "save" THEN candidate ELSE previous
        PROVE  PassInv'
    BY <1>0, <1>3, <2>1 DEF WriteConfig, Calls, FirstCall, PassInv, TypeOK
  <2> QED BY <1>1, <1>3, <2>1 DEF WriteConfig
<1>4. CASE RenderRead
  <2>1. ASSUME source' = file, Calls("write")
        PROVE  PassInv'
    BY <1>0, <1>4, <2>1, RuntimeAssumption DEF RenderRead, Calls, PassInv, TypeOK
  <2> QED BY <1>1, <1>4, <2>1 DEF RenderRead
<1>5. CASE RenderWrite
  <2>1. ASSUME Calls("test")
        PROVE  PassInv'
    BY <1>0, <1>5, <2>1 DEF RenderWrite, Calls, PassInv
  <2> QED BY <1>1, <1>5, <2>1 DEF RenderWrite
<1>6. CASE Test
  <2>1. ASSUME Calls("restart")
        PROVE  PassInv'
    BY <1>0, <1>6, <2>1 DEF Test, Calls, PassInv
  <2> QED BY <1>1, <1>6, <2>1 DEF Test
<1>7. CASE Restart
  <2>1. ASSUME Calls("poll")
        PROVE  PassInv'
    BY <1>0, <1>7, <2>1 DEF Restart, Calls, PassInv
  <2> QED BY <1>1, <1>7, <2>1 DEF Restart
<1>8. CASE Poll
  BY <1>1, <1>8 DEF Poll
<1>9. CASE DeadlinePasses
  BY <1>9 DEF DeadlinePasses, PassInv
<1>10. CASE Cancel
  BY <1>0, <1>10 DEF Cancel, RollsBack, PassInv
<1>11. CASE \E thread \in leaked :
               LeakedRender(thread) \/ LeakedWrite(thread) \/ LeakedRestart(thread)
  BY <1>11 DEF LeakedRender, LeakedWrite, LeakedRestart, Starts, PassInv
<1>12. CASE ProcessDies \/ DockerRestarts \/ OperatorStops \/ OperatorStarts
  BY <1>12 DEF ProcessDies, DockerRestarts, OperatorStops, OperatorStarts, Starts, PassInv
<1>13. CASE ApiCrash
  BY <1>0, <1>13 DEF ApiCrash, PassInv
<1>14. CASE UNCHANGED vars
  BY <1>14 DEF vars, PassInv
<1> QED
  BY <1>2, <1>3, <1>4, <1>5, <1>6, <1>7, <1>8, <1>9, <1>10, <1>11, <1>12, <1>13, <1>14
  DEF Next, RequestStep

-----------------------------------------------------------------------------
(* What a reload may rely on.                                              *)

\* Each call leaves the next what it relies on.  A call that fails leaves the
\* commit for the rollback's restore, where nothing is relied on.
LEMMA ReloadStep ==
    ASSUME TypeOK, PassInv, ReloadInv, [Next]_vars
    PROVE  ReloadInv'
<1> USE DEF node, request, counted, UnchangedElsewhere
<1> SUFFICES ASSUME ~exposed'
             PROVE  ReloadInv'
  BY DEF ReloadInv
<1>1. ASSUME NEW c \in Configs, Begin(c)
      PROVE  ReloadInv'
  BY <1>1 DEF Begin, ReloadInv
<1>2. CASE WriteConfig
  <2>1. CASE Raises
    BY <1>2, <2>1 DEF WriteConfig, Raises, RollsBack, Answers, ReloadInv
  <2>2. CASE Calls(FirstCall)
    BY <1>2, <2>2 DEF WriteConfig, Calls, FirstCall, ReloadInv
  <2> QED BY <1>2, <2>1, <2>2 DEF WriteConfig
<1>3. CASE RenderRead
  <2>1. CASE Raises
    BY <1>3, <2>1 DEF RenderRead, Raises, RollsBack, Answers, ReloadInv
  <2>2. CASE file \notin Unrenderable /\ source' = file /\ Calls("write")
    BY <1>3, <2>2 DEF RenderRead, Calls, ReloadInv
  <2> QED BY <1>3, <2>1, <2>2 DEF RenderRead
<1>4. CASE RenderWrite
  <2>1. CASE Raises
    BY <1>4, <2>1 DEF RenderWrite, Raises, RollsBack, Answers, ReloadInv
  <2>2. CASE xray' = source /\ Calls("test")
    BY <1>4, <2>2 DEF RenderWrite, Calls, ReloadInv
  <2> QED BY <1>4, <2>1, <2>2 DEF RenderWrite
<1>5. CASE Test
  <2>1. CASE Raises
    BY <1>5, <2>1 DEF Test, Raises, RollsBack, Answers, ReloadInv
  <2>2. CASE xray \notin Refused /\ Calls("restart")
    BY <1>5, <2>2 DEF Test, Calls, ReloadInv
  <2> QED BY <1>5, <2>1, <2>2 DEF Test
<1>6. CASE Restart
  <2>1. CASE Raises
    BY <1>6, <2>1 DEF Restart, Raises, RollsBack, Answers, ReloadInv
  <2>2. CASE Starts /\ Calls("poll")
    BY <1>6, <2>2 DEF Restart, Starts, Source, Calls, ReloadInv, TypeOK
  <2> QED BY <1>6, <2>1, <2>2 DEF Restart
<1>7. CASE Poll
  <2>1. CASE Raises
    BY <1>7, <2>1 DEF Poll, Raises, RollsBack, Answers, ReloadInv
  <2>2. CASE Returns
    BY <1>7, <2>2 DEF Poll, Returns, Answers, ReloadInv
  <2> QED BY <1>7, <2>1, <2>2 DEF Poll
<1>8. CASE DeadlinePasses
  BY <1>8 DEF DeadlinePasses, ReloadInv
<1>9. CASE Cancel
  BY <1>9 DEF Cancel, RollsBack, Reloading, ReloadInv
<1>10. ASSUME NEW thread \in leaked, LeakedRender(thread)
       PROVE  ReloadInv'
  BY <1>10 DEF LeakedRender, ReloadInv
<1>11. ASSUME NEW thread \in leaked, LeakedWrite(thread)
       PROVE  ReloadInv'
  BY <1>11 DEF LeakedWrite, ReloadInv
<1>12. ASSUME NEW thread \in leaked, LeakedRestart(thread)
       PROVE  ReloadInv'
  BY <1>12 DEF LeakedRestart, Starts, Source, ReloadInv, TypeOK
<1>13. CASE ProcessDies \/ OperatorStops
  BY <1>13 DEF ProcessDies, OperatorStops, ReloadInv
<1>14. CASE DockerRestarts \/ OperatorStarts
  BY <1>14 DEF DockerRestarts, OperatorStarts, Starts, Source, ReloadInv, TypeOK
<1>15. CASE ApiCrash
  BY <1>15 DEF ApiCrash, ReloadInv
<1>16. CASE UNCHANGED vars
  BY <1>16 DEF vars, ReloadInv
<1> QED
  BY <1>1, <1>2, <1>3, <1>4, <1>5, <1>6, <1>7, <1>8, <1>9, <1>10, <1>11, <1>12, <1>13,
     <1>14, <1>15, <1>16 DEF Next, RequestStep

-----------------------------------------------------------------------------
(* Theorems.                                                               *)

LEMMA Initially == Init => IInv
<1> SUFFICES ASSUME Init
             PROVE  IInv
  OBVIOUS
<1>1. TypeOK
  <2>1. faults \in 0 .. MaxFaults /\ cancels \in 0 .. MaxCancels /\ crashes \in 0 .. MaxCrashes
    BY RuntimeAssumption DEF Init
  <2>2. expired \in BOOLEAN /\ exposed \in BOOLEAN
    BY DEF Init
  <2>3. InitialConfig \in Configs
    BY RuntimeAssumption
  <2> QED BY <2>1, <2>2, <2>3 DEF Init, TypeOK
<1>2. PassInv
  BY DEF Init, PassInv, Reloading
<1>3. ReloadInv
  BY RuntimeAssumption DEF Init, ReloadInv
<1> QED BY <1>1, <1>2, <1>3 DEF IInv

LEMMA Inductive == IInv /\ [Next]_vars => IInv'
BY TypeStep, PassStep, ReloadStep DEF IInv

\* The inductive invariant: types, what the request has written, and what each
\* call of a reload leaves for the next.
THEOREM Invariance == Spec => []IInv
BY Initially, Inductive, PTL DEF Spec

\* Every variable keeps its type, whatever fails, dies or is cancelled.
THEOREM TypeCorrect == Spec => []TypeOK
<1>1. IInv => TypeOK
  BY DEF IInv
<1> QED BY <1>1, Invariance, PTL

\* Between requests the core runs config.json with either core, and Xray a
\* configuration that its own test has accepted.
THEOREM Settled == Spec => []SettledAgreement
<1>1. IInv => SettledAgreement
  BY DEF IInv, ReloadInv, SettledAgreement
<1> QED BY <1>1, Invariance, PTL

\* Only an exception in the rollback is answered as a failed rollback.
LEMMA RollbackFailure ==
    ASSUME TypeOK, [Next]_vars, reply # "rollback_failed", reply' = "rollback_failed"
    PROVE  /\ mode = "rollback" /\ Raises
           /\ WriteConfig \/ RenderRead \/ RenderWrite \/ Test \/ Restart \/ Poll
<1> USE DEF request
<1>1. ~ Returns
  BY DEF Returns, Answers, TypeOK
<1>2. ASSUME NEW next, Calls(next)
      PROVE  FALSE
  BY <1>2 DEF Calls
<1>3. RequestStep
  BY DEF Next, vars, Begin, DeadlinePasses, Cancel, RollsBack, LeakedRender, LeakedWrite,
         LeakedRestart, ProcessDies, DockerRestarts, OperatorStops, OperatorStarts,
         ApiCrash
<1>4. Raises
  BY <1>1, <1>2, <1>3 DEF RequestStep, WriteConfig, RenderRead, RenderWrite, Test,
                          Restart, Poll
<1>5. mode = "rollback"
  BY <1>4 DEF Raises, RollsBack
<1> QED BY <1>3, <1>4, <1>5 DEF RequestStep

\* A rollback that neither Docker nor the disk disturbs has reinstalled the
\* previous configuration before anything else can fail.
LEMMA RollbackStep ==
    ASSUME IInv, [Next]_vars, reply # "rollback_failed", reply' = "rollback_failed",
           faults' = 0, ~exposed
    PROVE  /\ file' = previous /\ Source' = previous
           /\ runtime = "sing-box" => started' = previous
<1> USE DEF node, UnchangedElsewhere
<1>1. /\ mode = "rollback" /\ Raises
      /\ WriteConfig \/ RenderRead \/ RenderWrite \/ Test \/ Restart \/ Poll
  BY RollbackFailure DEF IInv
<1>2. ~ Fault
  BY DEF Fault, IInv, TypeOK
<1>3. ASSUME NEW next, Calls(next), pc' = "idle"
      PROVE  next = "idle"
  BY <1>3 DEF Calls
<1>4. pc' = "idle"
  BY <1>1 DEF Raises, Answers
<1>5. ~ WriteConfig /\ ~ RenderWrite /\ ~ Restart
  BY <1>2, <1>3, <1>4 DEF WriteConfig, RenderWrite, Restart, FirstCall
<1>6. ~ RenderRead
  BY <1>1, <1>3, <1>4 DEF RenderRead, IInv, PassInv, ReloadInv, Reloading, TypeOK
<1>7. CASE Test
  BY <1>1, <1>7 DEF Test, Source, IInv, PassInv, ReloadInv, Reloading, TypeOK
<1>8. CASE Poll
  BY <1>1, <1>8 DEF Poll, Source, IInv, PassInv, ReloadInv, Reloading, TypeOK
<1> QED BY <1>1, <1>5, <1>6, <1>7, <1>8

\* A rollback reported as failed has still reinstalled the previous
\* configuration.
THEOREM RollbackInstalls == Spec => RollbackReinstalls
<1>1. IInv /\ [Next]_vars =>
        [reply # "rollback_failed" /\ reply' = "rollback_failed" /\ faults' = 0 /\ ~exposed
          => /\ file' = previous /\ Source' = previous
             /\ runtime = "sing-box" => started' = previous]_vars
  BY RollbackStep
<1> QED BY <1>1, Invariance, PTL DEF Spec, RollbackReinstalls

-----------------------------------------------------------------------------
(* The refinement of AtomicNode.                                           *)

LEMMA InitRefines == Init => Node!Init
BY DEF Init, Node!Init

\* A step after which the promise has lapsed refines its lapsing.
LEMMA LapseRefines ==
    ASSUME exposed'
    PROVE  Node!Next
BY DEF Node!Next, Node!PromiseLapses

\* A step of the request that does not end it is invisible to clients.
LEMMA InnerStepRefines ==
    ASSUME pc # "idle", pc' # "idle", candidate' = candidate, previous' = previous,
           reply' = reply, exposed' = exposed
    PROVE  UNCHANGED Node!vars
BY DEF Node!vars

\* Nor is one that leaves the request alone and may change what the core runs.
LEMMA OuterStepRefines ==
    ASSUME UNCHANGED <<file, request, exposed>>
    PROVE  UNCHANGED Node!vars
BY DEF Node!vars, request

\* The end of a request whose file holds what its answer says.
LEMMA AnswerRefines ==
    ASSUME pc # "idle", pc' = "idle", file' = file, exposed' = exposed,
           \/ reply' = "ok" /\ file = candidate
           \/ reply' \in {"failed", "cancelled"} /\ file = previous,
           candidate # Nothing
    PROVE  Node!Next
<1> DEFINE t == "request"
<1>1. ASSUME NEW a, reply' = a
      PROVE  Node!Answers(t, a)
  BY <1>1 DEF Node!Answers
<1>2. CASE reply' = "ok" /\ file = candidate
  <2>1. Node!Commit(t)
    BY <1>1, <1>2 DEF Node!Commit, Never, Replaced
  <2> QED BY <2>1 DEF Node!Next
<1>3. CASE reply' \in {"failed", "cancelled"} /\ file = previous
  <2>1. Node!Fail(t)
    BY <1>1, <1>3 DEF Node!Fail
  <2> QED BY <2>1 DEF Node!Next
<1> QED BY <1>2, <1>3

\* Whether a call succeeds, fails or ends the request, clients see a step of
\* AtomicNode.
LEMMA CallRefines ==
    ASSUME IInv, RequestStep
    PROVE  [Node!Next]_(Node!vars)
<1> USE DEF node, UnchangedElsewhere
<1> SUFFICES ASSUME ~exposed'
             PROVE  [Node!Next]_(Node!vars)
  BY LapseRefines
<1>0. /\ pc # "idle"
      /\ candidate # Nothing
  BY RuntimeAssumption DEF RequestStep, WriteConfig, RenderRead, RenderWrite, Test,
                           Restart, Poll, IInv, TypeOK
<1>1. ASSUME NEW next \in Reloading, Calls(next)
      PROVE  UNCHANGED Node!vars
  BY <1>0, <1>1, InnerStepRefines DEF Calls, Reloading
<1>2. CASE Raises
  <2>1. ~exposed
    BY <1>2 DEF Raises, RollsBack, Answers
  <2>2. mode = "commit" /\ RollsBack("failed")
    BY <1>2 DEF Raises, Answers
  <2> QED BY <1>0, <2>1, <2>2, InnerStepRefines DEF RollsBack, IInv, TypeOK
<1>3. CASE Poll /\ Returns
  <2>1. file = IF mode = "commit" THEN candidate ELSE previous
    BY <1>3 DEF Poll, IInv, PassInv, Reloading
  <2>2. /\ pc' = "idle" /\ file' = file
        /\ reply' = IF mode = "commit" THEN "ok" ELSE cause
    BY <1>3 DEF Poll, Returns, Answers, IInv, TypeOK
  <2>3. exposed' = exposed /\ cause \in {"failed", "cancelled"}
    BY <1>3 DEF Poll, Returns, Answers, IInv, TypeOK
  <2> QED BY <1>0, <2>1, <2>2, <2>3, AnswerRefines
<1>4. Raises \/ (Poll /\ Returns) \/ \E next \in Reloading : Calls(next)
  BY DEF RequestStep, WriteConfig, RenderRead, RenderWrite, Test, Restart, Poll,
         FirstCall, Reloading
<1> QED BY <1>1, <1>2, <1>3, <1>4

\* Every step of the runtime refines a step of AtomicNode or a stutter.
LEMMA StepRefines ==
    ASSUME IInv, [Next]_vars
    PROVE  [Node!Next]_(Node!vars)
<1> USE DEF node, request, counted
<1> SUFFICES ASSUME ~exposed'
             PROVE  [Node!Next]_(Node!vars)
  BY LapseRefines
<1>1. ASSUME NEW c \in Configs, Begin(c)
      PROVE  Node!Next
  <2>1. Node!Ask("request")
    BY <1>1 DEF Begin, Node!Ask
  <2> QED BY <2>1 DEF Node!Next
<1>2. CASE RequestStep
  BY <1>2, CallRefines
<1>3. CASE DeadlinePasses
  BY <1>3, InnerStepRefines DEF DeadlinePasses
<1>4. CASE Cancel
  BY <1>4, InnerStepRefines DEF Cancel, RollsBack, Reloading
<1>5. ASSUME NEW thread \in leaked,
             LeakedRender(thread) \/ LeakedWrite(thread) \/ LeakedRestart(thread)
      PROVE  UNCHANGED Node!vars
  BY <1>5, OuterStepRefines DEF LeakedRender, LeakedWrite, LeakedRestart, Starts, IInv,
                                TypeOK
<1>6. CASE ProcessDies \/ DockerRestarts \/ OperatorStops \/ OperatorStarts
  BY <1>6, OuterStepRefines DEF ProcessDies, DockerRestarts, OperatorStops,
                                OperatorStarts, Starts
<1>7. CASE ApiCrash
  <2>1. pc = "idle" /\ pc' = "idle" /\ UNCHANGED <<file, reply, exposed>>
    BY <1>7 DEF ApiCrash, IInv, TypeOK
  <2> QED BY <2>1 DEF Node!vars
<1>8. CASE UNCHANGED vars
  BY <1>8, OuterStepRefines DEF vars
<1> QED
  BY <1>1, <1>2, <1>3, <1>4, <1>5, <1>6, <1>7, <1>8 DEF Next

\* Seen by its clients, a node whose reloads are these calls is AtomicNode,
\* with either core.
THEOREM Refinement == Spec => ImplementsAtomicNode
<1>1. Init => Node!Init
  BY InitRefines
<1>2. IInv /\ [Next]_vars => [Node!Next]_(Node!vars)
  BY StepRefines
<1> QED BY <1>1, <1>2, Invariance, PTL DEF Spec, ImplementsAtomicNode, Node!Spec
=============================================================================
