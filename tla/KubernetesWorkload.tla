-------------------------- MODULE KubernetesWorkload --------------------------
(***************************************************************************)
(* One workload of the Kubernetes driver, internal/kubernetes, with its    *)
(* volume claims, internal/volume, and the checkpoint store,               *)
(* internal/checkpoint.                                                    *)
(*                                                                         *)
(* The driver takes no lock: Deploy, Destroy, Restart, CheckpointWorkload  *)
(* and RestoreWorkload are sequences of API calls that callers interleave. *)
(* A call of the API server is one step.  An Update carries the version    *)
(* that was read and is refused when the object has changed since; one     *)
(* that changes nothing leaves the version alone.  Specs name the driver's *)
(* namespace.                                                              *)
(***************************************************************************)
EXTENDS Naturals, FiniteSets

CONSTANTS
    Callers,
    Volumes,        \* spec.Volumes
    Replicas,       \* spec.Replicas of the callers
    Traffic,        \* spec.CrossNamespaceTraffic.Enabled of the callers
    AutoCleanup,    \* volumes.auto_cleanup_on_destroy
    CallsFail,      \* API calls may fail, with or without effect
    MaxVersion      \* bound on the writes

ASSUME WorkloadAssumption ==
    /\ IsFiniteSet(Callers) /\ IsFiniteSet(Volumes)
    /\ Replicas \subseteq Nat /\ Traffic \subseteq BOOLEAN
    /\ AutoCleanup \in BOOLEAN /\ CallsFail \in BOOLEAN /\ MaxVersion \in Nat

\* A Deployment; version 0 stands for none.  restarted: the template has the
\* annotation that Restart sets; asCreated: its replicas have not been changed
\* since it was created (history).
Deployments == [uid : 0 .. MaxVersion, version : 0 .. MaxVersion,
                replicas : Replicas \cup {0, 1}, restarted : BOOLEAN, asCreated : BOOLEAN]

NoDeployment == [uid |-> 0, version |-> 0, replicas |-> 0, restarted |-> FALSE, asCreated |-> FALSE]

VARIABLES
    dep,        \* the Deployment of the workload
    cron,       \* version of its CronJob, 0 if there is none
    claims,     \* its volume claims
    policy,     \* whether its network policy exists
    last,       \* last version the API server gave out
    records,    \* uids of the Deployments the checkpoint store knows
    pc,         \* where each caller is, or how its last call ended
    copy,       \* the Deployment it has read
    cronCopy,   \* the version of the CronJob it has read
    todo,       \* volumes it has still to create or delete
    \* history
    created,    \* objects created
    destroyed,  \* Destroys that succeeded
    failed,     \* some call ended with an error
    unrecorded  \* uids of Deployments whose checkpoint or its record was lost

apiVars  == <<dep, cron, claims, policy, last>>
callVars == <<copy, cronCopy, todo>>
histVars == <<created, destroyed, unrecorded>>
vars     == <<apiVars, records, pc, callVars, histVars, failed>>

Resting == {"idle", "ok", "error"}

Init ==
    /\ dep = NoDeployment /\ cron = 0 /\ claims = {} /\ policy = FALSE /\ last = 0
    /\ records = {}
    /\ pc = [c \in Callers |-> "idle"]
    /\ copy = [c \in Callers |-> NoDeployment]
    /\ cronCopy = [c \in Callers |-> 0]
    /\ todo = [c \in Callers |-> {}]
    /\ created = 0 /\ destroyed = 0 /\ failed = FALSE /\ unrecorded = {}

\* The next API call; a call that ends forgets its locals.
Goto(c, label) == pc' = [pc EXCEPT ![c] = label] /\ UNCHANGED failed

Leave(c) ==
    /\ copy' = [copy EXCEPT ![c] = NoDeployment]
    /\ cronCopy' = [cronCopy EXCEPT ![c] = 0]
    /\ todo' = [todo EXCEPT ![c] = {}]

Fail(c) == pc' = [pc EXCEPT ![c] = "error"] /\ failed' = TRUE /\ Leave(c)

Succeed(c) == Goto(c, "ok") /\ Leave(c)

NewVersion == last < MaxVersion /\ last' = last + 1

Begin(c, label) ==
    /\ pc[c] \in Resting
    /\ Goto(c, label)
    /\ UNCHANGED <<apiVars, records, callVars, histVars>>

-----------------------------------------------------------------------------
(***************************************************************************)
(* Deploy of a workload without a schedule: createDeployment provisions    *)
(* the claims one by one, creates the Deployment and its network policy,   *)
(* and Deploy reads the status.                                            *)
(***************************************************************************)
Deploy(c) ==
    /\ pc[c] \in Resting
    /\ Goto(c, "provision")
    /\ todo' = [todo EXCEPT ![c] = Volumes]
    /\ UNCHANGED <<apiVars, records, copy, cronCopy, histVars>>

\* Fault: the claim's name leaves out the volume.
ProvisionOneName(c, v) ==
    /\ pc[c] = "provision" /\ v \in todo[c]
    /\ claims' = claims \cup {"pvc"}
    /\ todo' = [todo EXCEPT ![c] = @ \ {v}]
    /\ UNCHANGED <<dep, cron, last, policy, records, pc, failed, copy, cronCopy, histVars>>

\* alreadyExists looks for a reason in the message of the error, which does not
\* have it: a claim that exists is an error.
ProvisionClaim(c, v) ==
    /\ pc[c] = "provision" /\ v \in todo[c]
    /\ \/ /\ v \notin claims
          /\ claims' = claims \cup {v}
          /\ todo' = [todo EXCEPT ![c] = @ \ {v}]
          /\ UNCHANGED <<pc, failed, copy, cronCopy>>
       \/ v \in claims /\ Fail(c) /\ UNCHANGED claims
       \/ CallsFail /\ Fail(c) /\ claims' \in {claims, claims \cup {v}}
    /\ UNCHANGED <<dep, cron, last, policy, records, histVars>>

\* spec.Replicas is stored as it is, 0 included.
Created(r) ==
    /\ dep.version = 0 /\ NewVersion
    /\ dep' = [uid |-> last', version |-> last', replicas |-> r, restarted |-> FALSE,
               asCreated |-> TRUE]
    /\ created' = created + 1

CreateDeployment(c, r) ==
    /\ pc[c] = "provision" /\ todo[c] = {}
    /\ \/ Created(r) /\ Goto(c, "policy") /\ UNCHANGED callVars
       \/ CallsFail /\ Created(r) /\ Fail(c)
       \/ /\ CallsFail \/ dep.version # 0
          /\ Fail(c) /\ UNCHANGED <<dep, last, created>>
    /\ UNCHANGED <<cron, claims, policy, records, destroyed, unrecorded>>

\* Deploy of a workload with an active schedule.  Claims are not provisioned.
CreateCronJob(c) ==
    /\ pc[c] = "createCron"
    /\ \/ /\ cron = 0 /\ NewVersion
          /\ cron' = last'
          /\ created' = created + 1
          /\ \/ Goto(c, "policy") /\ UNCHANGED callVars
             \/ CallsFail /\ Fail(c)
       \/ /\ CallsFail \/ cron # 0
          /\ Fail(c) /\ UNCHANGED <<cron, last, created>>
    /\ UNCHANGED <<dep, claims, policy, records, destroyed, unrecorded>>

\* The network policy.  Nothing ever deletes one, and one that exists is an
\* error; so is one that would allow nothing (CallsFail).  What Deploy has
\* created before stays.
EnsureNetworkPolicy(c, enabled) ==
    /\ pc[c] = "policy"
    /\ \/ /\ enabled => ~policy
          /\ policy' = (policy \/ enabled)
          /\ Goto(c, "status") /\ UNCHANGED callVars
       \/ enabled /\ policy /\ Fail(c) /\ UNCHANGED policy
       \/ enabled /\ CallsFail /\ Fail(c) /\ policy' \in {policy, TRUE}
    /\ UNCHANGED <<dep, cron, claims, last, records, histVars>>

\* GetStatus.
DeployStatus(c) ==
    /\ pc[c] = "status"
    /\ \/ /\ cron # 0 \/ dep.version # 0
          /\ Succeed(c)
       \/ /\ CallsFail \/ (cron = 0 /\ dep.version = 0)
          /\ Fail(c)
    /\ UNCHANGED <<apiVars, records, histVars>>

-----------------------------------------------------------------------------
(***************************************************************************)
(* Destroy deletes the CronJob and, only when there is none, the           *)
(* Deployment; then the claims, when the configuration says so.  After a   *)
(* CronJob, errors of the clean-up are ignored.                            *)
(***************************************************************************)
AfterDelete(c, sweep) ==
    IF AutoCleanup
    THEN Goto(c, sweep) /\ UNCHANGED <<callVars, destroyed>>
    ELSE Succeed(c) /\ destroyed' = destroyed + 1

DeleteCronJob(c) ==
    /\ pc[c] = "deleteCron"
    /\ \/ cron # 0 /\ cron' = 0 /\ AfterDelete(c, "listCron")
       \/ cron = 0 /\ Goto(c, "deleteDep") /\ UNCHANGED <<cron, callVars, destroyed>>
       \/ CallsFail /\ Fail(c) /\ cron' \in {cron, 0} /\ UNCHANGED destroyed
    /\ UNCHANGED <<dep, claims, last, policy, records, created, unrecorded>>

\* Fault: a Deployment that is not found counts as deleted.
DeleteMissing(c) ==
    /\ pc[c] = "deleteDep"
    /\ dep' = NoDeployment /\ AfterDelete(c, "list")
    /\ UNCHANGED <<cron, claims, last, policy, records, created, unrecorded>>

DeleteDeployment(c) ==
    /\ pc[c] = "deleteDep"
    /\ \/ dep.version # 0 /\ dep' = NoDeployment /\ AfterDelete(c, "list")
       \/ dep.version = 0 /\ Fail(c) /\ UNCHANGED <<dep, destroyed>>
       \/ CallsFail /\ Fail(c) /\ dep' \in {dep, NoDeployment} /\ UNCHANGED destroyed
    /\ UNCHANGED <<cron, claims, last, policy, records, created, unrecorded>>

\* CleanupByWorkload: the claims are found by their label, then deleted.
CleanupList(c) ==
    /\ pc[c] \in {"list", "listCron"}
    /\ \/ /\ Goto(c, IF pc[c] = "list" THEN "sweep" ELSE "sweepCron")
          /\ todo' = [todo EXCEPT ![c] = claims]
          /\ UNCHANGED <<copy, cronCopy, destroyed>>
       \/ CallsFail /\ pc[c] = "list" /\ Fail(c) /\ UNCHANGED destroyed
       \/ CallsFail /\ pc[c] = "listCron" /\ Succeed(c) /\ destroyed' = destroyed + 1
    /\ UNCHANGED <<apiVars, records, created, unrecorded>>

\* Fault: the loop returns after the first claim.
CleanupFirst(c, v) ==
    /\ pc[c] \in {"sweep", "sweepCron"} /\ v \in todo[c]
    /\ claims' = claims \ {v}
    /\ todo' = [todo EXCEPT ![c] = {}]
    /\ UNCHANGED <<dep, cron, last, policy, records, pc, failed, copy, cronCopy, histVars>>

\* notFound looks in the message, too: a claim that another call has deleted
\* meanwhile is an error.
CleanupClaim(c, v) ==
    /\ pc[c] \in {"sweep", "sweepCron"} /\ v \in todo[c]
    /\ \/ /\ v \in claims
          /\ claims' = claims \ {v}
          /\ todo' = [todo EXCEPT ![c] = @ \ {v}]
          /\ UNCHANGED <<pc, failed, copy, cronCopy, destroyed>>
       \/ /\ CallsFail \/ v \notin claims
          /\ IF pc[c] = "sweep"
             THEN Fail(c) /\ UNCHANGED destroyed
             ELSE Succeed(c) /\ destroyed' = destroyed + 1
          /\ claims' \in {claims, claims \ {v}}
    /\ UNCHANGED <<dep, cron, last, policy, records, created, unrecorded>>

CleanupEnd(c) ==
    /\ pc[c] \in {"sweep", "sweepCron"} /\ todo[c] = {}
    /\ Succeed(c)
    /\ destroyed' = destroyed + 1
    /\ UNCHANGED <<apiVars, records, created, unrecorded>>

-----------------------------------------------------------------------------
(***************************************************************************)
(* Restart looks for a CronJob first.  Restart, CheckpointWorkload and     *)
(* RestoreWorkload then read the Deployment, change their copy and write   *)
(* it back.  Restart's annotation has a constant value; RestoreWorkload    *)
(* sets one replica, whatever there were, and does not look at the store.  *)
(***************************************************************************)
RestartGetCron(c) ==
    /\ pc[c] = "restartGet"
    /\ \/ /\ cron # 0
          /\ cronCopy' = [cronCopy EXCEPT ![c] = cron]
          /\ Goto(c, "restartCron") /\ UNCHANGED <<copy, todo>>
       \/ cron = 0 /\ Goto(c, "restartRead") /\ UNCHANGED callVars
       \/ CallsFail /\ Fail(c)
    /\ UNCHANGED <<apiVars, records, histVars>>

\* The annotation of a CronJob is the time: every Update changes it.
RestartCronJob(c) ==
    /\ pc[c] = "restartCron"
    /\ \/ /\ cron = cronCopy[c] /\ NewVersion /\ cron' = last'
          /\ Succeed(c) \/ (CallsFail /\ Fail(c))
       \/ /\ CallsFail \/ cron # cronCopy[c]
          /\ Fail(c) /\ UNCHANGED <<cron, last>>
    /\ UNCHANGED <<dep, claims, policy, records, histVars>>

Writes == [restartRead |-> "restart", checkpointRead |-> "checkpoint", restoreRead |-> "restore"]

Read(c) ==
    /\ pc[c] \in DOMAIN Writes
    /\ \/ /\ dep.version # 0
          /\ copy' = [copy EXCEPT ![c] = dep]
          /\ Goto(c, Writes[pc[c]]) /\ UNCHANGED <<cronCopy, todo>>
       \/ /\ CallsFail \/ dep.version = 0
          /\ Fail(c)
    /\ UNCHANGED <<apiVars, records, histVars>>

Scaled(d, r) == [d EXCEPT !.replicas = r, !.asCreated = @ /\ d.replicas = r]

Modified(c) ==
    CASE pc[c] = "restart"    -> [copy[c] EXCEPT !.restarted = TRUE]
      [] pc[c] = "checkpoint" -> Scaled(copy[c], 0)
      [] pc[c] = "restore"    -> Scaled(copy[c], 1)

\* Fault: the version that was read is not sent.
UpdatedBlindly(c) ==
    /\ dep.version # 0 /\ NewVersion
    /\ dep' = [Modified(c) EXCEPT !.version = last', !.uid = dep.uid]

\* The API server's Update.
Updated(c) ==
    /\ dep.version = copy[c].version
    /\ \/ Modified(c) = dep /\ UNCHANGED <<dep, last>>
       \/ Modified(c) # dep /\ NewVersion /\ dep' = [Modified(c) EXCEPT !.version = last']

Update(c) ==
    /\ pc[c] \in {"restart", "checkpoint", "restore"}
    /\ \/ /\ Updated(c)
          /\ IF pc[c] = "checkpoint" THEN Goto(c, "save") /\ UNCHANGED callVars ELSE Succeed(c)
          /\ UNCHANGED unrecorded
       \/ /\ CallsFail /\ Updated(c) /\ Fail(c)
          /\ unrecorded' = IF pc[c] = "checkpoint" THEN unrecorded \cup {dep.uid} ELSE unrecorded
       \/ /\ CallsFail \/ dep.version # copy[c].version
          /\ Fail(c) /\ UNCHANGED <<dep, last, unrecorded>>
    /\ UNCHANGED <<cron, claims, policy, records, created, destroyed>>

\* Fault: the record is made on a copy of the store.
SaveCopied(c) == pc[c] = "save" /\ Succeed(c) /\ UNCHANGED <<apiVars, records, histVars>>

Save(c) ==
    /\ pc[c] = "save"
    /\ records' = records \cup {copy[c].uid}
    /\ Succeed(c)
    /\ UNCHANGED <<apiVars, histVars>>

Saving == {c \in Callers : pc[c] = "save"}

\* The store's map has no lock: concurrent writes end the process, with every
\* call under way and with the store.
ConcurrentMapWrites ==
    /\ Cardinality(Saving) > 1
    /\ pc' = [c \in Callers |-> "error"] /\ failed' = TRUE
    /\ copy' = [c \in Callers |-> NoDeployment]
    /\ cronCopy' = [c \in Callers |-> 0]
    /\ todo' = [c \in Callers |-> {}]
    /\ unrecorded' = unrecorded \cup records \cup {copy[c].uid : c \in Saving}
    /\ records' = {}
    /\ UNCHANGED <<apiVars, created, destroyed>>

-----------------------------------------------------------------------------
DeployWithSchedule(c) == Begin(c, "createCron")
Destroy(c)            == Begin(c, "deleteCron")
Restart(c)            == Begin(c, "restartGet")
CheckpointWorkload(c) == Begin(c, "checkpointRead")
RestoreWorkload(c)    == Begin(c, "restoreRead")

Call(c) ==
    \/ Deploy(c) \/ DeployWithSchedule(c) \/ Destroy(c)
    \/ Restart(c) \/ CheckpointWorkload(c) \/ RestoreWorkload(c)

Step(c) ==
    \/ \E v \in Volumes : ProvisionClaim(c, v) \/ CleanupClaim(c, v)
    \/ \E r \in Replicas : CreateDeployment(c, r)
    \/ \E enabled \in Traffic : EnsureNetworkPolicy(c, enabled)
    \/ CreateCronJob(c) \/ DeployStatus(c)
    \/ DeleteCronJob(c) \/ DeleteDeployment(c) \/ CleanupList(c) \/ CleanupEnd(c)
    \/ RestartGetCron(c) \/ RestartCronJob(c) \/ Read(c) \/ Update(c) \/ Save(c)

Next == (\E c \in Callers : Call(c) \/ Step(c)) \/ ConcurrentMapWrites

Spec == Init /\ [][Next]_vars

-----------------------------------------------------------------------------
Labels == Resting \cup {"provision", "createCron", "policy", "status", "deleteCron", "deleteDep", "list",
                        "listCron", "sweep", "sweepCron", "restartGet", "restartCron", "save"}
                  \cup DOMAIN Writes \cup {"restart", "checkpoint", "restore"}

\* The API objects and the callers' locals hold values of their types.
TypeOK ==
    /\ dep \in Deployments /\ cron \in 0 .. MaxVersion
    /\ claims \subseteq Volumes /\ policy \in BOOLEAN /\ last \in 0 .. MaxVersion
    /\ records \subseteq 1 .. MaxVersion /\ unrecorded \subseteq 1 .. MaxVersion
    /\ pc \in [Callers -> Labels]
    /\ copy \in [Callers -> Deployments]
    /\ cronCopy \in [Callers -> 0 .. MaxVersion]
    /\ todo \in [Callers -> SUBSET Volumes]
    /\ created \in 0 .. MaxVersion /\ destroyed \in Nat /\ failed \in BOOLEAN

(***************************************************************************)
(* No update of the Deployment is lost: a Restart that overlaps with a     *)
(* checkpoint does not bring the pods back, nor undo a restore; and        *)
(* checkpoints and restores keep the annotation of a restart.              *)
(***************************************************************************)
UpdatesCompose ==
    [][dep.version # 0 /\ dep'.uid = dep.uid =>
        /\ dep.restarted => dep'.restarted
        /\ \A c \in Callers : pc[c] = "restart" /\ pc'[c] # "restart" => dep'.replicas = dep.replicas]_vars

(***************************************************************************)
(* A Deployment without replicas was created so, or was checkpointed: the  *)
(* store knows it, its record is about to be made, or the reply or the     *)
(* store was lost.                                                         *)
(***************************************************************************)
ZeroIsRecorded ==
    dep.version # 0 /\ dep.replicas = 0 /\ ~dep.asCreated =>
        dep.uid \in records \cup unrecorded \cup {copy[c].uid : c \in Saving}

Existing == Cardinality({o \in {"Deployment", "CronJob"} :
                (o = "Deployment" /\ dep.version # 0) \/ (o = "CronJob" /\ cron # 0)})

Sweeping == {c \in Callers : pc[c] \in {"list", "listCron", "sweep", "sweepCron"}}

(***************************************************************************)
(* No object is destroyed twice: however Destroys overlap and fail, those  *)
(* that succeeded or are cleaning up after their deletion, with the        *)
(* objects that exist, are no more than the objects ever created.          *)
(***************************************************************************)
DestroyedOnce == destroyed + Cardinality(Sweeping) + Existing <= created

(***************************************************************************)
(* With automatic clean-up, and as long as no call has failed, claims      *)
(* outlive calls only with their Deployment, however Deploys and Destroys  *)
(* overlapped.                                                             *)
(***************************************************************************)
NoOrphanClaims ==
    AutoCleanup /\ ~failed /\ (\A c \in Callers : pc[c] \in Resting) /\ dep.version = 0
        => claims = {}

-----------------------------------------------------------------------------
(***************************************************************************)
(* A statement of the repository that the code does not keep.              *)
(***************************************************************************)

\* "Trigger rollout restart by updating annotations": a Restart of a Deployment
\* that succeeds has changed the pod template.
RestartRollsOut ==
    [][\A c \in Callers : pc[c] = "restart" /\ pc'[c] = "ok" => dep'.version # dep.version]_vars
=============================================================================
