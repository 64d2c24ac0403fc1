------------------------ MODULE KubernetesWorkloadProofs ------------------------
(***************************************************************************)
(* Theorems about one workload of the Kubernetes driver, for any number of *)
(* callers and volumes.                                                    *)
(***************************************************************************)
EXTENDS KubernetesWorkload, FiniteSetTheorems, TLAPS

\* Where a caller has read the Deployment and not ended yet.
Holding == {"restart", "checkpoint", "restore", "save"}

\* Versions and uids are given out in order, and 0 is none.
VersionInv ==
    /\ dep.version <= last /\ created <= last
    /\ dep.version # 0 => dep.uid # 0
    /\ dep.version = 0 => dep = NoDeployment

\* A copy with the version of the Deployment is the Deployment: this is what
\* the conflict check of an Update relies on.
CopyInv ==
    \A c \in Callers : pc[c] \in Holding =>
        /\ copy[c].version # 0 /\ copy[c].uid # 0 /\ copy[c].version <= last
        /\ copy[c].version = dep.version => copy[c] = dep

\* A CronJob that was read exists or existed.
CronInv == \A c \in Callers : pc[c] = "restartCron" => cronCopy[c] # 0

IInv == TypeOK /\ VersionInv /\ CopyInv /\ CronInv

-----------------------------------------------------------------------------
\* What Restart, CheckpointWorkload and RestoreWorkload change in their copy.
LEMMA ModifiedCopy ==
    ASSUME TypeOK, NEW c \in Callers, pc[c] \in {"restart", "checkpoint", "restore"}
    PROVE  /\ Modified(c) \in Deployments
           /\ Modified(c).uid = copy[c].uid /\ Modified(c).version = copy[c].version
           /\ copy[c].restarted => Modified(c).restarted
           /\ pc[c] = "restart" => /\ Modified(c).replicas = copy[c].replicas
                                   /\ Modified(c).asCreated = copy[c].asCreated
           /\ pc[c] = "checkpoint" => Modified(c).replicas = 0
           /\ pc[c] = "restore" => Modified(c).replicas = 1
  <1>1. copy[c] \in Deployments
    BY DEF TypeOK
  <1>2. CASE pc[c] = "restart"
    BY <1>1, <1>2 DEF Modified, Deployments
  <1>3. CASE pc[c] = "checkpoint"
    BY <1>1, <1>3 DEF Modified, Scaled, Deployments
  <1>4. CASE pc[c] = "restore"
    BY <1>1, <1>4 DEF Modified, Scaled, Deployments
  <1> QED
    BY <1>2, <1>3, <1>4

\* A version the API server gives out is new and not 0.
LEMMA Fresh ==
    ASSUME TypeOK, NewVersion
    PROVE  last' = last + 1 /\ last' \in 1 .. MaxVersion
  BY WorkloadAssumption DEF TypeOK, NewVersion

\* An Update that is accepted keeps the uid, and either nothing else changes or
\* the Deployment gets a new version.
LEMMA UpdateEffect ==
    ASSUME IInv, NEW c \in Callers, pc[c] \in {"restart", "checkpoint", "restore"}, Updated(c)
    PROVE  /\ copy[c] = dep /\ dep.version # 0 /\ dep.uid # 0
           /\ dep' \in Deployments /\ dep'.uid = dep.uid
           /\ dep'.replicas = Modified(c).replicas /\ dep'.restarted = Modified(c).restarted
           /\ dep'.asCreated = Modified(c).asCreated
           /\ \/ dep' = dep /\ last' = last
              \/ last' = last + 1 /\ last' \in 1 .. MaxVersion /\ dep'.version = last'
  <1>1. copy[c] = dep /\ dep.version # 0 /\ dep.uid # 0
    BY DEF IInv, CopyInv, Holding, Updated
  <1>2. Modified(c) \in Deployments /\ Modified(c).uid = dep.uid
    BY <1>1, ModifiedCopy DEF IInv
  <1>3. CASE Modified(c) = dep /\ UNCHANGED <<dep, last>>
    BY <1>1, <1>2, <1>3
  <1>4. CASE NewVersion /\ dep' = [Modified(c) EXCEPT !.version = last']
    BY <1>1, <1>2, <1>4, Fresh DEF Deployments, IInv
  <1> QED
    BY <1>3, <1>4 DEF Updated

-----------------------------------------------------------------------------
(***************************************************************************)
(* What a step means for the workload, without the locals of the callers.  *)
(* Only caller c moves, and it does so in one of these ways.               *)
(***************************************************************************)
LocalsOK ==
    /\ pc' \in [Callers -> Labels] /\ failed' \in BOOLEAN
    /\ copy' \in [Callers -> Deployments]
    /\ cronCopy' \in [Callers -> 0 .. MaxVersion]
    /\ todo' \in [Callers -> SUBSET Volumes]
    /\ claims' \subseteq Volumes /\ policy' \in BOOLEAN

OnlyMoves(c) ==
    \A d \in Callers \ {c} : pc'[d] = pc[d] /\ copy'[d] = copy[d] /\ cronCopy'[d] = cronCopy[d]

Sweep == {"list", "listCron", "sweep", "sweepCron"}

\* The caller goes on or returns without a copy, and does not start to clean up.
Proceeds(c) ==
    /\ pc[c] # "save" /\ pc'[c] \notin Holding
    /\ pc'[c] = "restartCron" => cronCopy'[c] # 0
    /\ pc'[c] \in Sweep => pc[c] \in Sweep

Keeps == UNCHANGED <<records, unrecorded>>

Nothing(c) == Proceeds(c) /\ Keeps /\ UNCHANGED <<dep, cron, last, created, destroyed>>

CreatesDeployment(c) ==
    /\ Proceeds(c) /\ Keeps /\ UNCHANGED <<cron, destroyed>>
    /\ dep.version = 0 /\ NewVersion /\ created' = created + 1
    /\ dep' \in Deployments /\ dep'.version = last' /\ dep'.uid = last' /\ dep'.asCreated

CreatesCronJob(c) ==
    /\ Proceeds(c) /\ Keeps /\ UNCHANGED <<dep, destroyed>>
    /\ cron = 0 /\ NewVersion /\ created' = created + 1 /\ cron' = last'

RestartsCronJob(c) ==
    /\ Proceeds(c) /\ Keeps /\ UNCHANGED <<dep, created, destroyed>>
    /\ cron # 0 /\ NewVersion /\ cron' = last'

\* A Destroy has removed an object; its success is counted now or after the
\* clean-up, or not at all.
Removes(c) ==
    /\ pc[c] \notin Sweep \cup {"save"} /\ pc'[c] \notin Holding \cup {"restartCron"}
    /\ Keeps /\ UNCHANGED <<last, created>>
    /\ \/ dep.version # 0 /\ dep' = NoDeployment /\ cron' = cron
       \/ cron # 0 /\ cron' = 0 /\ dep' = dep
    /\ \/ destroyed' = destroyed
       \/ destroyed' = destroyed + 1 /\ pc'[c] \notin Sweep

EndsSweep(c) ==
    /\ pc[c] \in Sweep /\ pc'[c] \notin Sweep \cup Holding \cup {"restartCron"}
    /\ Keeps /\ UNCHANGED <<dep, cron, last, created>> /\ destroyed' = destroyed + 1

Reads(c) ==
    /\ pc'[c] \in Holding \ {"save"} /\ pc[c] \notin Holding
    /\ dep.version # 0 /\ copy'[c] = dep
    /\ Keeps /\ UNCHANGED <<dep, cron, last, created, destroyed>>

Updates(c) ==
    /\ pc[c] \in {"restart", "checkpoint", "restore"} /\ Updated(c)
    /\ UNCHANGED <<cron, records, created, destroyed>>
    /\ \/ /\ pc[c] = "checkpoint" /\ pc'[c] = "save"
          /\ copy'[c] = copy[c] /\ UNCHANGED unrecorded
       \/ /\ pc'[c] \in {"ok", "error"}
          /\ IF pc[c] = "checkpoint" THEN unrecorded' = unrecorded \cup {dep.uid} ELSE UNCHANGED unrecorded

Saves(c) ==
    /\ pc[c] = "save" /\ pc'[c] = "ok"
    /\ records' = records \cup {copy[c].uid}
    /\ UNCHANGED <<dep, cron, last, created, destroyed, unrecorded>>

Effect(c) ==
    /\ OnlyMoves(c)
    /\ \/ Nothing(c) \/ CreatesDeployment(c) \/ CreatesCronJob(c) \/ RestartsCronJob(c)
       \/ Removes(c) \/ EndsSweep(c) \/ Reads(c) \/ Updates(c) \/ Saves(c)

-----------------------------------------------------------------------------
\* A caller goes on to its next API call.
LEMMA GotoLocals ==
    ASSUME TypeOK, NEW c \in Callers, NEW l \in Labels, Goto(c, l)
    PROVE  /\ pc' \in [Callers -> Labels] /\ failed' \in BOOLEAN /\ pc'[c] = l
           /\ \A d \in Callers \ {c} : pc'[d] = pc[d]
  BY DEF TypeOK, Goto

\* A call that returns forgets its locals.
LEMMA LeaveLocals ==
    ASSUME TypeOK, NEW c \in Callers, Leave(c)
    PROVE  /\ copy' \in [Callers -> Deployments]
           /\ cronCopy' \in [Callers -> 0 .. MaxVersion]
           /\ todo' \in [Callers -> SUBSET Volumes]
           /\ \A d \in Callers \ {c} : copy'[d] = copy[d] /\ cronCopy'[d] = cronCopy[d]
  <1>1. NoDeployment \in Deployments /\ 0 \in 0 .. MaxVersion
    BY WorkloadAssumption DEF NoDeployment, Deployments
  <1> QED
    BY <1>1 DEF TypeOK, Leave

\* Caller c, and it alone, is at l, and the locals have their types.
Returned(c, l) ==
    /\ pc' \in [Callers -> Labels] /\ failed' \in BOOLEAN /\ pc'[c] = l
    /\ copy' \in [Callers -> Deployments]
    /\ cronCopy' \in [Callers -> 0 .. MaxVersion]
    /\ todo' \in [Callers -> SUBSET Volumes]
    /\ OnlyMoves(c)

\* A call returns an error.
LEMMA FailLocals == ASSUME TypeOK, NEW c \in Callers, Fail(c) PROVE Returned(c, "error")
  <1>1. "error" \in Labels
    BY DEF Labels, Resting
  <1>2. pc' \in [Callers -> Labels] /\ failed' \in BOOLEAN /\ pc'[c] = "error"
        /\ \A d \in Callers \ {c} : pc'[d] = pc[d]
    BY <1>1 DEF Fail, TypeOK
  <1> QED
    BY <1>2, LeaveLocals DEF Fail, Returned, OnlyMoves

\* A call returns without an error.
LEMMA SucceedLocals == ASSUME TypeOK, NEW c \in Callers, Succeed(c) PROVE Returned(c, "ok")
  <1>1. "ok" \in Labels
    BY DEF Labels, Resting
  <1> QED
    BY <1>1, GotoLocals, LeaveLocals DEF Succeed, Returned, OnlyMoves

\* A caller goes on and keeps its locals.
LEMMA MoveLocals ==
    ASSUME TypeOK, NEW c \in Callers, NEW l \in Labels, Goto(c, l), UNCHANGED callVars
    PROVE  Returned(c, l)
  BY GotoLocals DEF TypeOK, callVars, Returned, OnlyMoves

\* Every action is one of the effects.
LEMMA Effects ==
    ASSUME IInv, NEW c \in Callers, Call(c) \/ Step(c)
    PROVE  LocalsOK /\ Effect(c)
  <1> USE DEF apiVars, callVars, histVars, Keeps, Proceeds, Holding, Sweep
  <1>0. /\ TypeOK
        /\ pc \in [Callers -> Labels] /\ failed \in BOOLEAN
        /\ claims \subseteq Volumes /\ policy \in BOOLEAN
    BY DEF IInv, TypeOK
  <1>1. ASSUME Call(c) PROVE LocalsOK /\ Effect(c)
    <2>1. ASSUME NEW l \in Labels \ (Holding \cup Sweep \cup {"restartCron"}), Begin(c, l)
          PROVE  LocalsOK /\ Effect(c)
      <3>1. Returned(c, l)
        BY <1>0, <2>1, MoveLocals DEF Begin
      <3>2. pc[c] # "save"
        BY <2>1 DEF Begin, Resting
      <3> QED
        BY <1>0, <2>1, <3>1, <3>2 DEF Begin, Returned, LocalsOK, Effect, Nothing
    <2>2. CASE Deploy(c)
      <3>1. "provision" \in Labels
        BY DEF Labels
      <3>2. pc' \in [Callers -> Labels] /\ failed' \in BOOLEAN /\ pc'[c] = "provision"
            /\ \A d \in Callers \ {c} : pc'[d] = pc[d]
        BY <1>0, <2>2, <3>1, GotoLocals DEF Deploy
      <3>3. todo' \in [Callers -> SUBSET Volumes] /\ pc[c] # "save"
        BY <1>0, <2>2 DEF Deploy, TypeOK, Resting
      <3> QED
        BY <1>0, <2>2, <3>2, <3>3 DEF Deploy, TypeOK, LocalsOK, OnlyMoves, Effect, Nothing
    <2>3. {"createCron", "deleteCron", "restartGet", "checkpointRead", "restoreRead"}
            \subseteq Labels \ (Holding \cup Sweep \cup {"restartCron"})
      BY DEF Labels, Writes
    <2> QED
      BY <1>1, <2>1, <2>2, <2>3
         DEF Call, DeployWithSchedule, Destroy, Restart, CheckpointWorkload, RestoreWorkload
  <1>2. ASSUME NEW v \in Volumes, ProvisionClaim(c, v) PROVE LocalsOK /\ Effect(c)
    <2>1. CASE Fail(c)
      BY <1>0, <1>2, <2>1, FailLocals DEF ProvisionClaim, Returned, LocalsOK, Effect, Nothing
    <2>2. CASE /\ todo' = [todo EXCEPT ![c] = @ \ {v}]
               /\ UNCHANGED <<pc, failed, copy, cronCopy>>
      BY <1>0, <1>2, <2>2 DEF ProvisionClaim, TypeOK, LocalsOK, OnlyMoves, Effect, Nothing
    <2> QED
      BY <1>2, <2>1, <2>2 DEF ProvisionClaim
  <1>3. ASSUME NEW v \in Volumes, CleanupClaim(c, v) PROVE LocalsOK /\ Effect(c)
    <2>1. CASE Fail(c) /\ UNCHANGED destroyed
      BY <1>0, <1>3, <2>1, FailLocals DEF CleanupClaim, Returned, LocalsOK, Effect, Nothing
    <2>2. CASE Succeed(c) /\ destroyed' = destroyed + 1
      BY <1>0, <1>3, <2>2, SucceedLocals DEF CleanupClaim, Returned, LocalsOK, Effect, EndsSweep
    <2>3. CASE /\ todo' = [todo EXCEPT ![c] = @ \ {v}]
               /\ UNCHANGED <<pc, failed, copy, cronCopy, destroyed>>
      BY <1>0, <1>3, <2>3 DEF CleanupClaim, TypeOK, LocalsOK, OnlyMoves, Effect, Nothing
    <2> QED
      BY <1>3, <2>1, <2>2, <2>3 DEF CleanupClaim
  <1>4. ASSUME NEW r \in Replicas, CreateDeployment(c, r) PROVE LocalsOK /\ Effect(c)
    <2>1. "policy" \in Labels
      BY DEF Labels
    <2>2. Returned(c, "policy") \/ Returned(c, "error")
      BY <1>0, <1>4, <2>1, FailLocals, MoveLocals DEF CreateDeployment
    <2>3. CASE Created(r)
      <3>1. /\ dep.version = 0 /\ NewVersion /\ created' = created + 1
            /\ dep' \in Deployments /\ dep'.version = last' /\ dep'.uid = last' /\ dep'.asCreated
        BY <1>0, <2>3, Fresh, WorkloadAssumption DEF Created, Deployments
      <3> QED
        BY <1>0, <1>4, <2>2, <3>1
           DEF CreateDeployment, Returned, LocalsOK, Effect, CreatesDeployment
    <2>4. CASE UNCHANGED <<dep, last, created>>
      BY <1>0, <1>4, <2>2, <2>4 DEF CreateDeployment, Returned, LocalsOK, Effect, Nothing
    <2> QED
      BY <1>4, <2>3, <2>4 DEF CreateDeployment
  <1>5. ASSUME NEW b \in Traffic, EnsureNetworkPolicy(c, b) PROVE LocalsOK /\ Effect(c)
    <2>1. "status" \in Labels
      BY DEF Labels
    <2>2. Returned(c, "status") \/ Returned(c, "error")
      BY <1>0, <1>5, <2>1, FailLocals, MoveLocals DEF EnsureNetworkPolicy
    <2>3. policy' \in BOOLEAN
      BY <1>0, <1>5, WorkloadAssumption, Zenon DEF EnsureNetworkPolicy
    <2> QED
      BY <1>0, <1>5, <2>2, <2>3 DEF EnsureNetworkPolicy, Returned, LocalsOK, Effect, Nothing
  <1>6. ASSUME CreateCronJob(c) PROVE LocalsOK /\ Effect(c)
    <2>1. "policy" \in Labels
      BY DEF Labels
    <2>2. Returned(c, "policy") \/ Returned(c, "error")
      BY <1>0, <1>6, <2>1, FailLocals, MoveLocals DEF CreateCronJob
    <2> QED
      BY <1>0, <1>6, <2>2
         DEF CreateCronJob, Returned, LocalsOK, Effect, Nothing, CreatesCronJob
  <1>7. ASSUME DeployStatus(c) PROVE LocalsOK /\ Effect(c)
    BY <1>0, <1>7, FailLocals, SucceedLocals DEF DeployStatus, Returned, LocalsOK, Effect, Nothing
  <1>8. ASSUME CleanupList(c) PROVE LocalsOK /\ Effect(c)
    <2>1. CASE Fail(c) /\ UNCHANGED destroyed
      BY <1>0, <1>8, <2>1, FailLocals DEF CleanupList, Returned, LocalsOK, Effect, Nothing
    <2>2. CASE Succeed(c) /\ destroyed' = destroyed + 1
      BY <1>0, <1>8, <2>2, SucceedLocals DEF CleanupList, Returned, LocalsOK, Effect, EndsSweep
    <2>3. CASE /\ Goto(c, IF pc[c] = "list" THEN "sweep" ELSE "sweepCron")
               /\ todo' = [todo EXCEPT ![c] = claims]
               /\ UNCHANGED <<copy, cronCopy, destroyed>>
      <3>1. {"sweep", "sweepCron"} \subseteq Labels
        BY DEF Labels
      <3>2. pc' \in [Callers -> Labels] /\ failed' \in BOOLEAN /\ pc'[c] \in {"sweep", "sweepCron"}
            /\ \A d \in Callers \ {c} : pc'[d] = pc[d]
        BY <1>0, <2>3, <3>1, GotoLocals
      <3>3. todo' \in [Callers -> SUBSET Volumes]
        BY <1>0, <2>3 DEF TypeOK
      <3> QED
        BY <1>0, <1>8, <2>3, <3>2, <3>3 DEF CleanupList, TypeOK, LocalsOK, OnlyMoves, Effect, Nothing
    <2> QED
      BY <1>8, <2>1, <2>2, <2>3 DEF CleanupList
  <1>9. ASSUME CleanupEnd(c) PROVE LocalsOK /\ Effect(c)
    BY <1>0, <1>9, SucceedLocals DEF CleanupEnd, Returned, LocalsOK, Effect, EndsSweep
  <1>10. ASSUME DeleteCronJob(c) PROVE LocalsOK /\ Effect(c)
    <2>1. {"listCron", "deleteDep"} \subseteq Labels
      BY DEF Labels
    <2>2. CASE cron # 0 /\ cron' = 0 /\ AfterDelete(c, "listCron")
      <3>1. \/ Returned(c, "listCron") /\ destroyed' = destroyed
            \/ Returned(c, "ok") /\ destroyed' = destroyed + 1
        BY <1>0, <2>1, <2>2, MoveLocals, SucceedLocals DEF AfterDelete
      <3> QED
        BY <1>0, <1>10, <2>2, <3>1 DEF DeleteCronJob, Returned, LocalsOK, Effect, Removes
    <2>3. CASE cron = 0 /\ Goto(c, "deleteDep") /\ UNCHANGED <<cron, callVars, destroyed>>
      <3>1. Returned(c, "deleteDep")
        BY <1>0, <2>1, <2>3, MoveLocals
      <3> QED
        BY <1>0, <1>10, <2>3, <3>1 DEF DeleteCronJob, Returned, LocalsOK, Effect, Nothing
    <2>4. CASE Fail(c) /\ cron' \in {cron, 0} /\ UNCHANGED destroyed
      BY <1>0, <1>10, <2>4, FailLocals
         DEF DeleteCronJob, Returned, LocalsOK, Effect, Nothing, Removes
    <2> QED
      BY <1>10, <2>2, <2>3, <2>4 DEF DeleteCronJob
  <1>11. ASSUME DeleteDeployment(c) PROVE LocalsOK /\ Effect(c)
    <2>1. "list" \in Labels
      BY DEF Labels
    <2>2. CASE dep.version # 0 /\ dep' = NoDeployment /\ AfterDelete(c, "list")
      <3>1. \/ Returned(c, "list") /\ destroyed' = destroyed
            \/ Returned(c, "ok") /\ destroyed' = destroyed + 1
        BY <1>0, <2>1, <2>2, MoveLocals, SucceedLocals DEF AfterDelete
      <3> QED
        BY <1>0, <1>11, <2>2, <3>1 DEF DeleteDeployment, Returned, LocalsOK, Effect, Removes
    <2>3. CASE Fail(c) /\ dep' = dep /\ UNCHANGED destroyed
      BY <1>0, <1>11, <2>3, FailLocals DEF DeleteDeployment, Returned, LocalsOK, Effect, Nothing
    <2>4. CASE dep.version # 0 /\ Fail(c) /\ dep' = NoDeployment /\ UNCHANGED destroyed
      BY <1>0, <1>11, <2>4, FailLocals DEF DeleteDeployment, Returned, LocalsOK, Effect, Removes
    <2>5. dep.version = 0 => dep = NoDeployment
      BY DEF IInv, VersionInv
    <2> QED
      BY <1>11, <2>2, <2>3, <2>4, <2>5 DEF DeleteDeployment
  <1>12. ASSUME RestartGetCron(c) PROVE LocalsOK /\ Effect(c)
    <2>1. {"restartCron", "restartRead"} \subseteq Labels
      BY DEF Labels, Writes
    <2>2. CASE /\ cron # 0 /\ cronCopy' = [cronCopy EXCEPT ![c] = cron]
               /\ Goto(c, "restartCron") /\ UNCHANGED <<copy, todo>>
      <3>1. pc' \in [Callers -> Labels] /\ failed' \in BOOLEAN /\ pc'[c] = "restartCron"
            /\ \A d \in Callers \ {c} : pc'[d] = pc[d]
        BY <1>0, <2>1, <2>2, GotoLocals
      <3>2. cronCopy' \in [Callers -> 0 .. MaxVersion] /\ cronCopy'[c] # 0
            /\ \A d \in Callers \ {c} : cronCopy'[d] = cronCopy[d]
        BY <1>0, <2>2 DEF TypeOK
      <3> QED
        BY <1>0, <1>12, <2>2, <3>1, <3>2
           DEF RestartGetCron, TypeOK, LocalsOK, OnlyMoves, Effect, Nothing
    <2>3. CASE cron = 0 /\ Goto(c, "restartRead") /\ UNCHANGED callVars
      <3>1. Returned(c, "restartRead")
        BY <1>0, <2>1, <2>3, MoveLocals
      <3> QED
        BY <1>0, <1>12, <3>1 DEF RestartGetCron, Returned, LocalsOK, Effect, Nothing
    <2>4. CASE Fail(c)
      BY <1>0, <1>12, <2>4, FailLocals DEF RestartGetCron, Returned, LocalsOK, Effect, Nothing
    <2> QED
      BY <1>12, <2>2, <2>3, <2>4 DEF RestartGetCron
  <1>13. ASSUME RestartCronJob(c) PROVE LocalsOK /\ Effect(c)
    <2>1. Returned(c, "ok") \/ Returned(c, "error")
      BY <1>0, <1>13, FailLocals, SucceedLocals DEF RestartCronJob
    <2>2. cronCopy[c] # 0
      BY <1>13 DEF RestartCronJob, IInv, CronInv
    <2> QED
      BY <1>0, <1>13, <2>1, <2>2
         DEF RestartCronJob, Returned, LocalsOK, Effect, Nothing, RestartsCronJob
  <1>14. ASSUME Read(c) PROVE LocalsOK /\ Effect(c)
    <2>1. pc[c] \notin Holding \cup Sweep
      BY <1>14 DEF Read, Writes
    <2>2. CASE Fail(c)
      BY <1>0, <1>14, <2>1, <2>2, FailLocals DEF Read, Returned, LocalsOK, Effect, Nothing
    <2>3. CASE /\ dep.version # 0 /\ copy' = [copy EXCEPT ![c] = dep]
               /\ Goto(c, Writes[pc[c]]) /\ UNCHANGED <<cronCopy, todo>>
      <3>1. Writes[pc[c]] \in {"restart", "checkpoint", "restore"}
        BY <1>14 DEF Read, Writes
      <3>2. {"restart", "checkpoint", "restore"} \subseteq Labels
        BY DEF Labels
      <3>3. pc' \in [Callers -> Labels] /\ failed' \in BOOLEAN /\ pc'[c] = Writes[pc[c]]
            /\ \A d \in Callers \ {c} : pc'[d] = pc[d]
        BY <1>0, <2>3, <3>1, <3>2, GotoLocals
      <3>4. copy' \in [Callers -> Deployments] /\ copy'[c] = dep
            /\ \A d \in Callers \ {c} : copy'[d] = copy[d]
        BY <1>0, <2>3 DEF TypeOK
      <3> QED
        BY <1>0, <1>14, <2>1, <2>3, <3>1, <3>3, <3>4
           DEF Read, TypeOK, LocalsOK, OnlyMoves, Effect, Reads
    <2> QED
      BY <1>14, <2>2, <2>3 DEF Read
  <1>15. ASSUME Update(c) PROVE LocalsOK /\ Effect(c)
    <2>1. "save" \in Labels
      BY DEF Labels
    <2>2. CASE /\ Updated(c) /\ pc[c] = "checkpoint"
               /\ Goto(c, "save") /\ UNCHANGED <<callVars, unrecorded>>
      <3>1. Returned(c, "save")
        BY <1>0, <2>1, <2>2, MoveLocals
      <3> QED
        BY <1>0, <1>15, <2>2, <3>1 DEF Update, Returned, LocalsOK, Effect, Updates
    <2>3. CASE Updated(c) /\ pc[c] # "checkpoint" /\ Succeed(c) /\ UNCHANGED unrecorded
      BY <1>0, <1>15, <2>3, SucceedLocals DEF Update, Returned, LocalsOK, Effect, Updates
    <2>4. CASE /\ Updated(c) /\ Fail(c)
               /\ unrecorded' = IF pc[c] = "checkpoint" THEN unrecorded \cup {dep.uid} ELSE unrecorded
      BY <1>0, <1>15, <2>4, FailLocals DEF Update, Returned, LocalsOK, Effect, Updates
    <2>5. CASE Fail(c) /\ UNCHANGED <<dep, last, unrecorded>>
      BY <1>0, <1>15, <2>5, FailLocals DEF Update, Returned, LocalsOK, Effect, Nothing
    <2> QED
      BY <1>15, <2>2, <2>3, <2>4, <2>5 DEF Update
  <1>16. ASSUME Save(c) PROVE LocalsOK /\ Effect(c)
    BY <1>0, <1>16, SucceedLocals DEF Save, Returned, LocalsOK, Effect, Saves
  <1> QED
    BY <1>1, <1>2, <1>3, <1>4, <1>5, <1>6, <1>7, <1>8, <1>9, <1>10, <1>11, <1>12,
       <1>13, <1>14, <1>15, <1>16 DEF Step

(***************************************************************************)
(* The invariant, effect by effect.                                        *)
(***************************************************************************)

\* Whatever an effect does to the Deployment, it stays or goes, or gets a
\* version that no caller has read.
LEMMA ApiStep ==
    ASSUME IInv, NEW c \in Callers, Effect(c)
    PROVE  /\ dep' \in Deployments /\ cron' \in 0 .. MaxVersion
           /\ last' \in 0 .. MaxVersion /\ last <= last'
           /\ dep' = dep \/ dep' = NoDeployment \/ (dep'.version > last /\ dep'.version <= last')
           /\ created' \in 0 .. MaxVersion /\ created' <= last' /\ destroyed' \in Nat
           /\ dep'.version # 0 => dep'.uid # 0
           /\ dep'.version = 0 => dep' = NoDeployment
  <1>0. /\ dep \in Deployments /\ cron \in 0 .. MaxVersion /\ last \in 0 .. MaxVersion
        /\ created \in 0 .. MaxVersion /\ destroyed \in Nat /\ MaxVersion \in Nat
        /\ TypeOK /\ VersionInv
    BY WorkloadAssumption DEF IInv, TypeOK
  <1>00. NoDeployment \in Deployments /\ NoDeployment.version = 0
    BY WorkloadAssumption DEF NoDeployment, Deployments
  <1> USE DEF VersionInv
  <1>1. CASE Nothing(c)
    BY <1>0, <1>1 DEF Nothing
  <1>2. CASE CreatesDeployment(c)
    BY <1>0, <1>2, Fresh DEF CreatesDeployment
  <1>3. CASE CreatesCronJob(c)
    BY <1>0, <1>3, Fresh DEF CreatesCronJob
  <1>4. CASE RestartsCronJob(c)
    BY <1>0, <1>4, Fresh DEF RestartsCronJob
  <1>5. CASE Removes(c)
    BY <1>0, <1>00, <1>5 DEF Removes
  <1>6. CASE EndsSweep(c)
    BY <1>0, <1>6 DEF EndsSweep
  <1>7. CASE Reads(c)
    BY <1>0, <1>7 DEF Reads
  <1>8. CASE Updates(c)
    BY <1>0, <1>8, UpdateEffect DEF Updates
  <1>9. CASE Saves(c)
    BY <1>0, <1>9 DEF Saves
  <1> QED
    BY <1>1, <1>2, <1>3, <1>4, <1>5, <1>6, <1>7, <1>8, <1>9 DEF Effect

\* The store and the history name uids that were given out.
LEMMA RecordStep ==
    ASSUME IInv, NEW c \in Callers, Effect(c)
    PROVE  records' \subseteq 1 .. MaxVersion /\ unrecorded' \subseteq 1 .. MaxVersion
  <1>1. /\ records \subseteq 1 .. MaxVersion /\ unrecorded \subseteq 1 .. MaxVersion
        /\ MaxVersion \in Nat
    BY WorkloadAssumption DEF IInv, TypeOK
  <1>2. CASE Keeps
    BY <1>1, <1>2 DEF Keeps
  <1>3. CASE Updates(c)
    <2>1. dep.uid # 0
      BY <1>3, UpdateEffect DEF Updates
    <2>2. dep.uid \in 1 .. MaxVersion
      BY <1>1, <2>1 DEF IInv, TypeOK, Deployments
    <2> QED
      BY <1>1, <1>3, <2>2 DEF Updates
  <1>4. CASE Saves(c)
    <2>1. copy[c] \in Deployments /\ copy[c].uid # 0
      BY <1>4 DEF Saves, IInv, TypeOK, CopyInv, Holding
    <2>2. copy[c].uid \in 1 .. MaxVersion
      BY <1>1, <2>1 DEF Deployments
    <2> QED
      BY <1>1, <1>4, <2>2 DEF Saves
  <1> QED
    BY <1>2, <1>3, <1>4 DEF Effect, Nothing, CreatesDeployment, CreatesCronJob, RestartsCronJob,
                            Removes, EndsSweep, Reads

\* A caller that holds a copy has read it in this step, or held it before; then
\* the Deployment stays, or its own Update changed it on the way to the store.
LEMMA HoldStep ==
    ASSUME IInv, NEW c \in Callers, Effect(c), pc'[c] \in Holding
    PROVE  \/ Reads(c)
           \/ Updates(c) /\ pc'[c] = "save" /\ copy'[c] = copy[c] /\ pc[c] \in Holding
  BY DEF Effect, Nothing, CreatesDeployment, CreatesCronJob, RestartsCronJob, Removes, EndsSweep,
         Saves, Updates, Proceeds, Holding

\* Every step of the callers, and the end of the process, keep the invariant.
LEMMA IInvStep ==
    ASSUME IInv, [Next]_vars
    PROVE  IInv'
  <1>1. ASSUME NEW c \in Callers, Call(c) \/ Step(c) PROVE IInv'
    <2>1. LocalsOK /\ Effect(c)
      BY <1>1, Effects
    <2>2. TypeOK'
      BY <2>1, ApiStep, RecordStep DEF LocalsOK, TypeOK
    <2>3. VersionInv'
      <3>1. dep'.version <= last'
        BY <2>1, ApiStep, WorkloadAssumption DEF IInv, VersionInv, TypeOK, NoDeployment, Deployments
      <3> QED
        BY <2>1, <3>1, ApiStep DEF VersionInv
    <2>4. CopyInv'
      <3> SUFFICES ASSUME NEW d \in Callers, pc'[d] \in Holding
                   PROVE  /\ copy'[d].version # 0 /\ copy'[d].uid # 0 /\ copy'[d].version <= last'
                          /\ copy'[d].version = dep'.version => copy'[d] = dep'
        BY DEF CopyInv
      <3>1. CASE d = c /\ Reads(c)
        BY <2>1, <3>1 DEF Reads, IInv, VersionInv
      <3>2. CASE ~(d = c /\ Reads(c))
        <4>1. copy'[d] = copy[d] /\ pc[d] \in Holding
          BY <2>1, <3>2, HoldStep DEF Effect, OnlyMoves
        <4>2. /\ copy[d].version # 0 /\ copy[d].uid # 0 /\ copy[d].version <= last
              /\ copy[d].version = dep.version => copy[d] = dep
              /\ copy[d].version \in Nat /\ last \in Nat /\ dep'.version \in Nat /\ last' \in Nat
          BY <2>2, <4>1, WorkloadAssumption DEF IInv, CopyInv, TypeOK, Deployments
        <4>3. last <= last'
              /\ (dep' = dep \/ dep'.version = 0 \/ dep'.version > last)
          BY <2>1, ApiStep DEF NoDeployment
        <4> QED
          BY <4>1, <4>2, <4>3
      <3> QED
        BY <3>1, <3>2
    <2>5. CronInv'
      BY <2>1 DEF IInv, CronInv, Effect, OnlyMoves, Nothing, CreatesDeployment, CreatesCronJob,
                  RestartsCronJob, Removes, EndsSweep, Reads, Updates, Saves, Proceeds, Holding
    <2> QED
      BY <2>2, <2>3, <2>4, <2>5 DEF IInv
  <1>2. CASE ConcurrentMapWrites
    <2>1. "error" \in Labels /\ "error" \notin Holding \cup {"restartCron"}
      BY DEF Labels, Resting, Holding
    <2>2. NoDeployment \in Deployments /\ 0 \in 0 .. MaxVersion
      BY WorkloadAssumption DEF NoDeployment, Deployments
    <2>3. \A c \in Saving : copy[c].uid \in 1 .. MaxVersion
      BY WorkloadAssumption DEF Saving, IInv, TypeOK, Deployments, CopyInv, Holding
    <2>4. TypeOK'
      BY <1>2, <2>1, <2>2, <2>3 DEF ConcurrentMapWrites, IInv, TypeOK, apiVars
    <2>5. VersionInv' /\ CopyInv' /\ CronInv'
      BY <1>2, <2>1 DEF ConcurrentMapWrites, IInv, VersionInv, CopyInv, CronInv, apiVars
    <2> QED
      BY <2>4, <2>5 DEF IInv
  <1>3. CASE UNCHANGED vars
    BY <1>3 DEF vars, apiVars, callVars, histVars, IInv, TypeOK, VersionInv, CopyInv, CronInv
  <1> QED
    BY <1>1, <1>2, <1>3 DEF Next

\* The invariant of the API objects and the copies holds throughout.
LEMMA IInvInvariant == Spec => []IInv
  <1>1. Init => IInv
    <2>1. "idle" \in Labels /\ "idle" \notin Holding \cup {"restartCron"}
      BY DEF Labels, Resting, Holding
    <2>2. NoDeployment \in Deployments /\ NoDeployment.version = 0
      BY WorkloadAssumption DEF NoDeployment, Deployments
    <2> SUFFICES ASSUME Init PROVE IInv
      OBVIOUS
    <2>3. 0 \in 0 .. MaxVersion
      BY WorkloadAssumption
    <2>4. TypeOK
      BY <2>1, <2>2, <2>3 DEF Init, TypeOK
    <2>5. VersionInv /\ CopyInv /\ CronInv
      BY <2>1, <2>2 DEF Init, VersionInv, CopyInv, CronInv
    <2> QED
      BY <2>4, <2>5 DEF IInv
  <1> QED
    BY <1>1, IInvStep, PTL DEF Spec

\* The API objects and the callers' locals keep their types.
THEOREM TypeCorrect == Spec => []TypeOK
  BY IInvInvariant, PTL DEF IInv

-----------------------------------------------------------------------------
(***************************************************************************)
(* Updates compose.  The conflict check makes an accepted Update a change  *)
(* of the Deployment as it is, since a copy with its version equals it.    *)
(***************************************************************************)
Composes ==
    dep.version # 0 /\ dep'.uid = dep.uid =>
        /\ dep.restarted => dep'.restarted
        /\ \A c \in Callers : pc[c] = "restart" /\ pc'[c] # "restart" => dep'.replicas = dep.replicas

\* No step of a caller undoes what another one wrote to the Deployment.
LEMMA ComposeStep ==
    ASSUME IInv, [Next]_vars
    PROVE  Composes
  <1> SUFFICES ASSUME dep.version # 0, dep'.uid = dep.uid
               PROVE  /\ dep.restarted => dep'.restarted
                      /\ \A c \in Callers : pc[c] = "restart" /\ pc'[c] # "restart"
                                                => dep'.replicas = dep.replicas
    BY DEF Composes
  <1>1. ASSUME NEW c \in Callers, Call(c) \/ Step(c)
        PROVE  /\ dep.restarted => dep'.restarted
               /\ \A d \in Callers : pc[d] = "restart" /\ pc'[d] # "restart"
                                         => dep'.replicas = dep.replicas
    <2>1. Effect(c)
      BY <1>1, Effects
    <2>2. CASE Updates(c)
      <3>1. /\ copy[c] = dep /\ dep'.replicas = Modified(c).replicas
            /\ dep'.restarted = Modified(c).restarted
        BY <2>2, UpdateEffect DEF Updates
      <3>2. /\ copy[c].restarted => Modified(c).restarted
            /\ pc[c] = "restart" => Modified(c).replicas = copy[c].replicas
        BY <2>2, ModifiedCopy DEF Updates, IInv
      <3>3. \A d \in Callers : pc[d] = "restart" /\ pc'[d] # "restart" => d = c
        BY <2>1 DEF Effect, OnlyMoves
      <3> QED
        BY <3>1, <3>2, <3>3
    <2>3. CASE Removes(c)
      <3>1. dep.uid # 0
        BY DEF IInv, VersionInv
      <3> QED
        BY <2>3, <3>1 DEF Removes, NoDeployment
    <2>4. CASE CreatesDeployment(c)
      BY <2>4 DEF CreatesDeployment
    <2>5. CASE dep' = dep
      BY <2>5
    <2> QED
      BY <2>1, <2>2, <2>3, <2>4, <2>5
         DEF Effect, Nothing, CreatesCronJob, RestartsCronJob, EndsSweep, Reads, Saves
  <1>2. CASE ConcurrentMapWrites \/ UNCHANGED vars
    BY <1>2 DEF ConcurrentMapWrites, vars, apiVars
  <1> QED
    BY <1>1, <1>2 DEF Next

\* Restart, CheckpointWorkload and RestoreWorkload, which read and write back
\* without a lock, lose no update of each other.
THEOREM NoUpdateLost == Spec => UpdatesCompose
  <1>1. IInv /\ [Next]_vars => Composes
    BY ComposeStep
  <1>2. IInv /\ [Next]_vars => [Composes]_vars
    BY <1>1
  <1> QED
    BY <1>2, IInvInvariant, PTL DEF Spec, UpdatesCompose, Composes

-----------------------------------------------------------------------------
\* No step leaves a Deployment at zero replicas that nothing accounts for.
LEMMA RecordedStep ==
    ASSUME IInv, ZeroIsRecorded, [Next]_vars
    PROVE  ZeroIsRecorded'
  <1>1. ASSUME NEW c \in Callers, Call(c) \/ Step(c) PROVE ZeroIsRecorded'
    <2>1. Effect(c)
      BY <1>1, Effects
    <2>2. \A d \in Callers \ {c} : pc'[d] = pc[d] /\ copy'[d] = copy[d]
      BY <2>1 DEF Effect, OnlyMoves
    <2>3. CASE Updates(c)
      <3>1. pc[c] # "save" /\ \A d \in Saving : d \in Saving' /\ copy'[d] = copy[d]
        BY <2>2, <2>3 DEF Updates, Saving
      <3>2. records' = records /\ unrecorded \subseteq unrecorded'
        BY <2>3 DEF Updates
      <3>3. /\ copy[c] = dep /\ dep.version # 0 /\ dep'.uid = dep.uid
            /\ dep'.replicas = Modified(c).replicas /\ dep'.asCreated = Modified(c).asCreated
        BY <2>3, UpdateEffect DEF Updates
      <3>4. /\ pc[c] = "restart" => /\ Modified(c).replicas = copy[c].replicas
                                    /\ Modified(c).asCreated = copy[c].asCreated
            /\ pc[c] = "restore" => Modified(c).replicas = 1
        BY <2>3, ModifiedCopy DEF Updates, IInv
      <3>5. CASE pc[c] = "restart"
        BY <3>1, <3>2, <3>3, <3>4, <3>5 DEF ZeroIsRecorded
      <3>6. CASE pc[c] = "restore"
        BY <3>3, <3>4, <3>6 DEF ZeroIsRecorded
      <3>7. CASE pc[c] = "checkpoint" /\ pc'[c] = "save" /\ copy'[c] = copy[c]
        BY <3>3, <3>7 DEF ZeroIsRecorded, Saving
      <3>8. CASE pc[c] = "checkpoint" /\ unrecorded' = unrecorded \cup {dep.uid}
        BY <3>3, <3>8 DEF ZeroIsRecorded
      <3> QED
        BY <2>3, <3>5, <3>6, <3>7, <3>8 DEF Updates
    <2>4. CASE Saves(c)
      <3>1. \A d \in Saving : d = c \/ (d \in Saving' /\ copy'[d] = copy[d])
        BY <2>2 DEF Saving
      <3> QED
        BY <2>4, <3>1 DEF Saves, ZeroIsRecorded
    <2>5. CASE CreatesDeployment(c)
      BY <2>5 DEF CreatesDeployment, ZeroIsRecorded
    <2>6. CASE Keeps /\ pc[c] # "save" /\ dep' \in {dep, NoDeployment}
      <3>1. \A d \in Saving : d \in Saving' /\ copy'[d] = copy[d]
        BY <2>2, <2>6 DEF Saving
      <3> QED
        BY <2>6, <3>1 DEF Keeps, ZeroIsRecorded, NoDeployment
    <2> QED
      BY <2>1, <2>3, <2>4, <2>5, <2>6
         DEF Effect, Nothing, CreatesCronJob, RestartsCronJob, Removes, EndsSweep, Reads,
             Proceeds, Holding, Sweep
  <1>2. CASE ConcurrentMapWrites
    BY <1>2 DEF ConcurrentMapWrites, apiVars, ZeroIsRecorded
  <1>3. CASE UNCHANGED vars
    BY <1>3 DEF vars, apiVars, callVars, histVars, ZeroIsRecorded, Saving
  <1> QED
    BY <1>1, <1>2, <1>3 DEF Next

\* A Deployment without replicas was created so, or CheckpointWorkload scaled it to
\* zero and the store knows it or will, unless the reply of the API server or the
\* store itself was lost.
THEOREM ZeroMeansCheckpointed == Spec => []ZeroIsRecorded
  <1>1. Init => ZeroIsRecorded
    BY DEF Init, ZeroIsRecorded, NoDeployment
  <1> QED
    BY <1>1, RecordedStep, IInvInvariant, PTL DEF Spec

-----------------------------------------------------------------------------
\* 1 for what exists.
One(b) == IF b THEN 1 ELSE 0

\* The number of objects, one by one.
LEMMA ExistingCount == Existing = One(dep.version # 0) + One(cron # 0)
  <1> DEFINE E == {o \in {"Deployment", "CronJob"} :
                    (o = "Deployment" /\ dep.version # 0) \/ (o = "CronJob" /\ cron # 0)}
  <1>1. CASE dep.version # 0 /\ cron # 0
    <2>1. E = {"Deployment"} \cup {"CronJob"} /\ "CronJob" \notin {"Deployment"}
      BY <1>1
    <2>2. IsFiniteSet({"Deployment"}) /\ Cardinality({"Deployment"}) = 1
      BY FS_Singleton
    <2>3. Cardinality({"Deployment"} \cup {"CronJob"}) = 2
      BY <2>1, <2>2, FS_AddElement
    <2> QED
      BY <1>1, <2>1, <2>3 DEF Existing, One
  <1>2. CASE dep.version # 0 /\ cron = 0
    <2>1. E = {"Deployment"}
      BY <1>2
    <2>2. Cardinality(E) = 1
      BY <2>1, FS_Singleton
    <2> QED
      BY <1>2, <2>2 DEF Existing, One
  <1>3. CASE dep.version = 0 /\ cron # 0
    <2>1. E = {"CronJob"}
      BY <1>3
    <2>2. Cardinality(E) = 1
      BY <2>1, FS_Singleton
    <2> QED
      BY <1>3, <2>2 DEF Existing, One
  <1>4. CASE dep.version = 0 /\ cron = 0
    <2>1. E = {}
      BY <1>4
    <2> QED
      BY <1>4, <2>1, FS_EmptySet DEF Existing, One
  <1> QED
    BY <1>1, <1>2, <1>3, <1>4

\* How many callers clean up after a step of one caller.
LEMMA SweepingCount ==
    ASSUME NEW c \in Callers, OnlyMoves(c)
    PROVE  /\ Cardinality(Sweeping) \in Nat /\ Cardinality(Sweeping') \in Nat
           /\ Cardinality(Sweeping') = Cardinality(Sweeping)
                + One(pc'[c] \in Sweep) - One(pc[c] \in Sweep)
  <1>1. IsFiniteSet(Sweeping) /\ Cardinality(Sweeping) \in Nat
    BY WorkloadAssumption, FS_Subset, FS_CardinalityType DEF Sweeping
  <1>2. CASE pc'[c] \in Sweep /\ pc[c] \notin Sweep
    <2>1. Sweeping' = Sweeping \cup {c} /\ c \notin Sweeping
      BY <1>2 DEF Sweeping, Sweep, OnlyMoves
    <2>2. Cardinality(Sweeping') = Cardinality(Sweeping) + 1
      BY <1>1, <2>1, FS_AddElement
    <2> QED
      BY <1>1, <1>2, <2>2 DEF One
  <1>3. CASE pc'[c] \notin Sweep /\ pc[c] \in Sweep
    <2>1. Sweeping' = Sweeping \ {c} /\ c \in Sweeping
      BY <1>3 DEF Sweeping, Sweep, OnlyMoves
    <2>2. Cardinality(Sweeping') = Cardinality(Sweeping) - 1 /\ Cardinality(Sweeping') \in Nat
      BY <1>1, <2>1, FS_RemoveElement, FS_CardinalityType
    <2> QED
      BY <1>1, <1>3, <2>2 DEF One
  <1>4. CASE pc'[c] \in Sweep <=> pc[c] \in Sweep
    <2>1. Sweeping' = Sweeping
      BY <1>4 DEF Sweeping, Sweep, OnlyMoves
    <2> QED
      BY <1>1, <1>4, <2>1 DEF One
  <1> QED
    BY <1>2, <1>3, <1>4

\* Every step keeps the balance of objects created and destroyed.
LEMMA DestroyedStep ==
    ASSUME IInv, DestroyedOnce, [Next]_vars
    PROVE  DestroyedOnce'
  <1>0. /\ destroyed \in Nat /\ created \in Nat /\ last \in Nat
        /\ Cardinality(Sweeping) \in Nat
        /\ destroyed + Cardinality(Sweeping) + One(dep.version # 0) + One(cron # 0) <= created
    <2>1. destroyed \in Nat /\ created \in Nat /\ last \in Nat
      BY WorkloadAssumption DEF IInv, TypeOK
    <2>2. Cardinality(Sweeping) \in Nat
      BY WorkloadAssumption, FS_Subset, FS_CardinalityType DEF Sweeping
    <2> QED
      BY <2>1, <2>2, ExistingCount DEF DestroyedOnce, One
  <1>1. ASSUME NEW c \in Callers, Call(c) \/ Step(c) PROVE DestroyedOnce'
    <2>1. Effect(c)
      BY <1>1, Effects
    <2>2. /\ Cardinality(Sweeping') \in Nat
          /\ Cardinality(Sweeping') = Cardinality(Sweeping)
                + One(pc'[c] \in Sweep) - One(pc[c] \in Sweep)
      BY <2>1, SweepingCount DEF Effect
    <2>3. destroyed' + Cardinality(Sweeping') + One(dep'.version # 0) + One(cron' # 0) <= created'
      <3>1. CASE Nothing(c)
        BY <1>0, <2>2, <3>1 DEF Nothing, Proceeds, One
      <3>2. CASE CreatesDeployment(c)
        BY <1>0, <2>2, <3>2 DEF CreatesDeployment, Proceeds, One
      <3>3. CASE CreatesCronJob(c)
        BY <1>0, <2>2, <3>3 DEF CreatesCronJob, Proceeds, One
      <3>4. CASE RestartsCronJob(c)
        BY <1>0, <2>2, <3>4 DEF RestartsCronJob, Proceeds, One
      <3>5. CASE Removes(c)
        BY <1>0, <2>2, <3>5 DEF Removes, One, NoDeployment
      <3>6. CASE EndsSweep(c)
        BY <1>0, <2>2, <3>6 DEF EndsSweep, One
      <3>7. CASE Reads(c)
        <4>1. pc'[c] \notin Sweep
          BY <3>7 DEF Reads, Holding, Sweep
        <4> QED
          BY <1>0, <2>2, <3>7, <4>1 DEF Reads, One
      <3>8. CASE Updates(c)
        <4>1. pc'[c] \notin Sweep /\ pc[c] \notin Sweep
          BY <3>8 DEF Updates, Sweep
        <4>2. dep.version # 0 /\ UNCHANGED <<cron, created, destroyed>>
          BY <3>8, UpdateEffect DEF Updates
        <4> QED
          BY <1>0, <2>2, <4>1, <4>2 DEF One
      <3>9. CASE Saves(c)
        <4>1. pc'[c] \notin Sweep
          BY <3>9 DEF Saves, Sweep
        <4> QED
          BY <1>0, <2>2, <3>9, <4>1 DEF Saves, One
      <3> QED
        BY <2>1, <3>1, <3>2, <3>3, <3>4, <3>5, <3>6, <3>7, <3>8, <3>9 DEF Effect
    <2>4. (Existing = One(dep.version # 0) + One(cron # 0))'
      BY ExistingCount, PTL
    <2>5. destroyed' \in Nat
      BY <2>1, ApiStep
    <2> QED
      BY <2>2, <2>3, <2>4, <2>5 DEF DestroyedOnce, One
  <1>2. CASE ConcurrentMapWrites
    <2>1. Sweeping' = {}
      BY <1>2 DEF ConcurrentMapWrites, Sweeping
    <2>2. Cardinality(Sweeping') = 0
      BY <2>1, FS_EmptySet
    <2>3. UNCHANGED <<dep, cron, created, destroyed>>
      BY <1>2 DEF ConcurrentMapWrites, apiVars
    <2>4. Existing' = Existing
      BY <2>3 DEF Existing
    <2> QED
      BY <1>0, <2>2, <2>3, <2>4, ExistingCount DEF DestroyedOnce, One
  <1>3. CASE UNCHANGED vars
    BY <1>3 DEF vars, apiVars, histVars, DestroyedOnce, Sweeping, Existing
  <1> QED
    BY <1>1, <1>2, <1>3 DEF Next

\* Destroy counts as a success only for an object that it removed itself, however
\* many Destroys and Deploys of the name overlap and fail.
THEOREM NothingDestroyedTwice == Spec => []DestroyedOnce
  <1>1. Init => DestroyedOnce
    <2> SUFFICES ASSUME Init PROVE DestroyedOnce
      OBVIOUS
    <2>1. Sweeping = {} /\ destroyed = 0 /\ created = 0 /\ cron = 0 /\ dep.version = 0
      BY DEF Init, Sweeping, NoDeployment
    <2> QED
      BY <2>1, FS_EmptySet, ExistingCount DEF DestroyedOnce, One
  <1> QED
    BY <1>1, DestroyedStep, IInvInvariant, PTL DEF Spec

-----------------------------------------------------------------------------
(***************************************************************************)
(* Claims.  A claim that exists without the Deployment is one that a       *)
(* Deploy is still providing for, or that a Destroy is about to list, or   *)
(* has listed and not deleted yet.                                         *)
(***************************************************************************)
Owned(v) ==
    \/ dep.version # 0
    \/ \E d \in Callers : \/ pc[d] \in {"provision", "list"}
                          \/ pc[d] = "sweep" /\ v \in todo[d]

ClaimsInv == AutoCleanup /\ ~failed => \A v \in claims : Owned(v)

\* Other callers are where they were.
Alone(c) ==
    /\ \A d \in Callers \ {c} : pc'[d] = pc[d] /\ todo'[d] = todo[d]
    /\ failed => failed'

\* Ending a call or going on concerns one caller.
LEMMA MovesAlone ==
    ASSUME TypeOK, NEW c \in Callers,
           \/ Fail(c) \/ Succeed(c)
           \/ \E l \in Labels : Goto(c, l) /\ UNCHANGED todo
    PROVE  Alone(c)
  BY DEF TypeOK, Fail, Succeed, Leave, Goto, Alone

\* A caller that owns no claim can take none away from its owner.
LEMMA BystanderStep ==
    ASSUME TypeOK, ClaimsInv, NEW c \in Callers, Alone(c),
           pc[c] \notin {"provision", "list", "sweep"}, claims' \subseteq claims,
           dep.version # 0 => dep'.version # 0
    PROVE  ClaimsInv'
  BY DEF ClaimsInv, Owned, Alone

\* While no call fails, claims are owned.
LEMMA ClaimsStep ==
    ASSUME IInv, ClaimsInv, NEW c \in Callers, Call(c) \/ Step(c)
    PROVE  ClaimsInv'
  <1> USE DEF apiVars, callVars, histVars
  <1>0. TypeOK /\ pc \in [Callers -> Labels] /\ todo \in [Callers -> SUBSET Volumes]
    BY DEF IInv, TypeOK
  <1>00. /\ {"ok", "error", "provision", "createCron", "policy", "status", "deleteCron",
             "deleteDep", "list", "listCron", "sweep", "sweepCron", "restartGet", "restartCron",
             "restartRead", "checkpointRead", "restoreRead", "restart", "checkpoint", "restore",
             "save"} \subseteq Labels
    BY DEF Labels, Resting, Writes
  <1> SUFFICES ASSUME AutoCleanup, ~failed' PROVE ClaimsInv'
    BY DEF ClaimsInv
  <1>000. ~Fail(c)
    BY DEF Fail
  <1>1. CASE Deploy(c)
    BY <1>0, <1>1 DEF Deploy, Goto, Resting, ClaimsInv, Owned
  <1>2. CASE \/ DeployWithSchedule(c) \/ Destroy(c) \/ Restart(c)
             \/ CheckpointWorkload(c) \/ RestoreWorkload(c)
    <2>1. PICK l \in Labels : Begin(c, l)
      BY <1>00, <1>2 DEF DeployWithSchedule, Destroy, Restart, CheckpointWorkload, RestoreWorkload
    <2>2. Alone(c)
      BY <1>0, <2>1, MovesAlone DEF Begin
    <2> QED
      BY <1>0, <2>1, <2>2, BystanderStep DEF Begin, Resting
  <1>3. ASSUME NEW v \in Volumes, ProvisionClaim(c, v) PROVE ClaimsInv'
    <2>1. pc'[c] = "provision"
      BY <1>000, <1>3 DEF ProvisionClaim
    <2>2. \E d \in Callers : pc'[d] = "provision"
      BY <2>1
    <2> QED
      BY <2>2, Zenon DEF ClaimsInv, Owned
  <1>4. ASSUME NEW r \in Replicas, CreateDeployment(c, r) PROVE ClaimsInv'
    <2>1. Created(r) /\ UNCHANGED claims
      BY <1>000, <1>4 DEF CreateDeployment
    <2>2. dep'.version # 0
      BY <1>0, <2>1, Fresh DEF Created
    <2> QED
      BY <2>2 DEF ClaimsInv, Owned
  <1>5. CASE \/ \E enabled \in Traffic : EnsureNetworkPolicy(c, enabled)
             \/ CreateCronJob(c) \/ DeployStatus(c) \/ RestartCronJob(c) \/ Save(c)
    <2>1. Succeed(c) \/ \E l \in Labels : Goto(c, l) /\ UNCHANGED todo
      BY <1>00, <1>000, <1>5
         DEF EnsureNetworkPolicy, CreateCronJob, DeployStatus, RestartCronJob, Save
    <2>2. Alone(c)
      BY <1>0, <2>1, MovesAlone
    <2>3. pc[c] \notin {"provision", "list", "sweep"} /\ UNCHANGED <<dep, claims>>
      BY <1>5 DEF EnsureNetworkPolicy, CreateCronJob, DeployStatus, RestartCronJob, Save
    <2> QED
      BY <1>0, <2>2, <2>3, BystanderStep
  <1>6. CASE RestartGetCron(c) \/ Read(c)
    <2>1. \E l \in Labels : Goto(c, l) /\ UNCHANGED todo
      BY <1>00, <1>000, <1>6 DEF RestartGetCron, Read, Writes
    <2>2. pc[c] \notin {"provision", "list", "sweep"} /\ UNCHANGED <<dep, claims>>
      BY <1>6 DEF RestartGetCron, Read, Writes
    <2> QED
      BY <1>0, <2>1, <2>2, MovesAlone, BystanderStep
  <1>7. CASE Update(c)
    <2>1. Succeed(c) \/ \E l \in Labels : Goto(c, l) /\ UNCHANGED todo
      BY <1>00, <1>000, <1>7 DEF Update
    <2>2. pc[c] \in {"restart", "checkpoint", "restore"} /\ UNCHANGED claims /\ Updated(c)
      BY <1>000, <1>7 DEF Update
    <2>3. dep'.version # 0
      BY <1>0, <2>2, UpdateEffect, ApiStep, Effects, <1>7 DEF Step, IInv, VersionInv
    <2> QED
      BY <1>0, <2>1, <2>2, <2>3, MovesAlone, BystanderStep
  <1>8. CASE DeleteCronJob(c)
    <2>1. \E l \in Labels : Goto(c, l) /\ UNCHANGED todo
      BY <1>00, <1>000, <1>8 DEF DeleteCronJob, AfterDelete
    <2> QED
      BY <1>0, <1>8, <2>1, MovesAlone, BystanderStep DEF DeleteCronJob
  <1>9. CASE DeleteDeployment(c)
    <2>1. pc' = [pc EXCEPT ![c] = "list"]
      BY <1>000, <1>9 DEF DeleteDeployment, AfterDelete, Goto
    <2>2. pc'[c] = "list"
      BY <1>0, <2>1
    <2>3. \E d \in Callers : pc'[d] = "list"
      BY <2>2
    <2> QED
      BY <2>3, Zenon DEF ClaimsInv, Owned
  <1>10. CASE CleanupList(c)
    <2>1. CASE pc[c] = "list"
      <3>1. pc' = [pc EXCEPT ![c] = "sweep"] /\ todo' = [todo EXCEPT ![c] = claims] /\ claims' = claims
        BY <1>000, <1>10, <2>1 DEF CleanupList, Goto
      <3>2. pc'[c] = "sweep" /\ todo'[c] = claims'
        BY <1>0, <3>1
      <3> QED
        BY <3>2 DEF ClaimsInv, Owned
    <2>2. CASE pc[c] = "listCron"
      <3>1. Alone(c)
        BY <1>0, <1>00, <1>000, <1>10, <2>2, MovesAlone DEF CleanupList, Alone, Goto
      <3> QED
        BY <1>0, <1>10, <2>2, <3>1, BystanderStep DEF CleanupList
    <2> QED
      BY <1>10, <2>1, <2>2 DEF CleanupList
  <1>11. ASSUME NEW v \in Volumes, CleanupClaim(c, v) PROVE ClaimsInv'
    <2>1. CASE pc[c] = "sweep"
      <3>1. /\ claims' = claims \ {v} /\ todo' = [todo EXCEPT ![c] = todo[c] \ {v}]
            /\ UNCHANGED <<pc, failed, dep>>
        BY <1>000, <1>11, <2>1 DEF CleanupClaim
      <3>2. \A d \in Callers, w \in claims' : w \in todo[d] => w \in todo'[d]
        BY <1>0, <3>1
      <3> QED
        BY <3>1, <3>2 DEF ClaimsInv, Owned
    <2>2. CASE pc[c] = "sweepCron"
      <3>1. Alone(c)
        BY <1>0, <1>000, <1>11, <2>2, MovesAlone DEF CleanupClaim, Alone
      <3> QED
        BY <1>0, <1>11, <2>2, <3>1, BystanderStep DEF CleanupClaim
    <2> QED
      BY <1>11, <2>1, <2>2 DEF CleanupClaim
  <1>12. CASE CleanupEnd(c)
    <2>1. Alone(c) /\ pc[c] \in {"sweep", "sweepCron"} /\ todo[c] = {} /\ UNCHANGED <<dep, claims>>
      BY <1>0, <1>12, MovesAlone DEF CleanupEnd
    <2> QED
      BY <2>1 DEF ClaimsInv, Owned, Alone
  <1> QED
    BY <1>1, <1>2, <1>3, <1>4, <1>5, <1>6, <1>7, <1>8, <1>9, <1>10, <1>11, <1>12 DEF Call, Step

\* With automatic clean-up, as long as no call has failed, the claims that
\* createDeployment makes outlive the calls only with their Deployment.
THEOREM ClaimsNotOrphaned == Spec => []NoOrphanClaims
  <1>1. Init => ClaimsInv
    BY DEF Init, ClaimsInv
  <1>2. IInv /\ ClaimsInv /\ [Next]_vars => ClaimsInv'
    <2> SUFFICES ASSUME IInv, ClaimsInv, [Next]_vars PROVE ClaimsInv'
      OBVIOUS
    <2>1. CASE ConcurrentMapWrites
      BY <2>1 DEF ConcurrentMapWrites, ClaimsInv
    <2>2. CASE UNCHANGED vars
      BY <2>2 DEF vars, apiVars, callVars, ClaimsInv, Owned
    <2> QED
      BY <2>1, <2>2, ClaimsStep DEF Next
  <1>3. ClaimsInv => NoOrphanClaims
    BY DEF ClaimsInv, Owned, NoOrphanClaims, Resting
  <1> QED
    BY <1>1, <1>2, <1>3, IInvInvariant, PTL DEF Spec
=============================================================================
