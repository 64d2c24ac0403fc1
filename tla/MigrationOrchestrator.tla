------------------------ MODULE MigrationOrchestrator ------------------------
(***************************************************************************)
(* Moving one workload between backends: internal/migration/orchestrator.go*)
(* with the driver calls it makes.                                         *)
(*                                                                         *)
(* The orchestrator keeps no state and takes no lock, so any number of     *)
(* MigrateWorkload calls for the same workload may run at once.  Each is   *)
(* a sequence of driver calls; the state they share is what exists on the  *)
(* backends: the workload, and the shadow a zero-downtime migration puts   *)
(* beside it on the target.                                                *)
(***************************************************************************)
EXTENDS Naturals, FiniteSets, RuntimeDriver

CONSTANTS
    Hosts,        \* the backends configured
    Home,         \* the backend that runs the workload at first
    Migrations,   \* the goroutines that call MigrateWorkload (bound)
    None,
    CallsFail,    \* driver calls may fail, with or without effect
    MayCancel     \* callers may cancel their context

ASSUME HostAssumption == Hosts \subseteq Backends /\ IsFiniteSet(Hosts) /\ Home \in Hosts

ASSUME SwitchAssumption ==
    CallsFail \in BOOLEAN /\ MayCancel \in BOOLEAN

(***************************************************************************)
(* An instance is Created when it exists and no process of it was started: *)
(* a container that was created only, or a Deployment none of whose pods   *)
(* has become ready.  Exited is an instance whose process ended, or whose  *)
(* pods are no longer ready.                                               *)
(***************************************************************************)
InstStates == {"Absent", "Created", "Running", "Exited"}
Names      == {"work", "shadow"}

\* A request that names the same backend twice is refused at once.  "spec" says
\* whether the caller passed the workload's spec.
Requests == {r \in [source : Hosts, target : Hosts, zero : BOOLEAN, spec : BOOLEAN] :
                r.source # r.target}

ASSUME MigrationAssumption == IsFiniteSet(Migrations) /\ None \notin Requests

VARIABLES
    inst,       \* state of each instance on each backend
    pc,         \* where each caller is, or how its last migration ended
    req,        \* the request it makes
    cancelled   \* migrations whose context is cancelled

vars == <<inst, pc, req, cancelled>>

Init ==
    /\ inst = [n \in Names |-> [b \in Hosts |->
                 IF n = "work" /\ b = Home THEN "Running" ELSE "Absent"]]
    /\ pc = [m \in Migrations |-> "idle"]
    /\ req = [m \in Migrations |-> None]
    /\ cancelled = {}

Ended == {m \in Migrations : pc[m] \in {"completed", "failed"}}

Present(n) == {b \in Hosts : inst[n][b] # "Absent"}

Running(n) == {b \in Hosts : inst[n][b] = "Running"}

\* Where a process of n was started, whether it still runs or not.
Started(n) == {b \in Hosts : inst[n][b] \in {"Running", "Exited"}}

\* Fault: the request is dropped at every call.
GotoForgets(m, label) ==
    /\ pc' = [pc EXCEPT ![m] = label]
    /\ req' = [req EXCEPT ![m] = None]
    /\ UNCHANGED cancelled

\* Going on to the next call, or returning to the caller.
Goto(m, label) ==
    /\ pc' = [pc EXCEPT ![m] = label]
    /\ IF label \in {"completed", "failed"}
       THEN req' = [req EXCEPT ![m] = None] /\ cancelled' = cancelled \ {m}
       ELSE UNCHANGED <<req, cancelled>>

-----------------------------------------------------------------------------
(***************************************************************************)
(* Driver calls.  registry.Get makes a fresh driver for every migration: a *)
(* remote driver is connected by its own Deploy only, so the source's is   *)
(* never connected.  A cancelled context makes calls fail before they have *)
(* an effect, except over ssh, which ignores the context.                  *)
(***************************************************************************)
Reaches(m, b) ==
    /\ m \in cancelled => b = "remote"
    /\ b = "remote" => b = req[m].target

\* Without a spec there is no compose file to bring up.
CanDeploy(m, n, b) ==
    /\ Reaches(m, b)
    /\ ~DeployRefused(b, b, Present(n))
    /\ b = "compose" => req[m].spec

\* On kubernetes Deploy stores an object; elsewhere it starts the process.
Deploy(m, n, b) ==
    /\ CanDeploy(m, n, b)
    /\ inst' = [inst EXCEPT ![n][b] = IF b = "kubernetes" THEN "Created" ELSE "Running"]

\* A failing Deploy may leave a container that was created and not started, or
\* one whose status could not be read.
DeployFails(m, n, b) ==
    \/ ~CanDeploy(m, n, b) /\ UNCHANGED inst
    \/ CallsFail /\ UNCHANGED inst
    \/ /\ CallsFail /\ CanDeploy(m, n, b) /\ b \notin Present(n)
       /\ \E st \in {"Created", "Running"} :
            /\ b = "kubernetes" => st = "Created"
            /\ inst' = [inst EXCEPT ![n][b] = st]

Destroy(m, n, b) ==
    /\ Reaches(m, b)
    /\ ~DestroyRefused(b, b, Present(n))
    /\ inst' = [inst EXCEPT ![n][b] = "Absent"]

DestroyFails(m, n, b) ==
    \/ ~Reaches(m, b) /\ UNCHANGED inst
    \/ DestroyMayMiss(b, b, Present(n)) /\ UNCHANGED inst
    \/ CallsFail /\ UNCHANGED inst
    \/ CallsFail /\ Reaches(m, b) /\ inst' = [inst EXCEPT ![n][b] = "Absent"]

(***************************************************************************)
(* What GetStatus may report as Running.  Docker filters containers by a   *)
(* substring of the name and takes the first, so that the shadow may       *)
(* answer for the workload; compose calls everything Running that is not   *)
(* listed as Exited or Created, an empty project included; kubernetes      *)
(* compares the pods there are with those that are ready.                  *)
(***************************************************************************)
ReportsRunning(n, b) ==
    CASE b = "compose" -> inst[n][b] \in {"Absent", "Running"}
      [] b = "docker" /\ n = "work" -> b \in Running("work") \cup Running("shadow")
      [] OTHER -> b \in Running(n)

\* GetStatus answers at all.
Known(n, b) ==
    \/ b = "compose"
    \/ b \in Present(n)
    \/ b = "docker" /\ n = "work" /\ b \in Present("shadow")

-----------------------------------------------------------------------------
(***************************************************************************)
(* MigrateWorkload.  Every branch that returns an error returns here too.  *)
(***************************************************************************)
Begin(m) ==
    /\ pc[m] = "idle" \/ m \in Ended
    /\ \E r \in Requests :
        /\ req' = [req EXCEPT ![m] = r]
        /\ pc' = [pc EXCEPT ![m] = IF ~r.spec THEN "load" ELSE IF r.zero THEN "shadow" ELSE "final"]
    /\ UNCHANGED <<inst, cancelled>>

\* Without a spec, the source's status stands in for it.
LoadStatus(m) ==
    /\ pc[m] = "load"
    /\ \/ /\ Reaches(m, req[m].source)
          /\ Known("work", req[m].source)
          /\ Goto(m, IF req[m].zero THEN "shadow" ELSE "final")
       \/ /\ CallsFail \/ ~Reaches(m, req[m].source) \/ ~Known("work", req[m].source)
          /\ Goto(m, "failed")
    /\ UNCHANGED inst

\* A shadow that could not be deployed is not destroyed.
DeployShadow(m) ==
    /\ pc[m] = "shadow"
    /\ \/ Deploy(m, "shadow", req[m].target) /\ Goto(m, "waitShadow")
       \/ DeployFails(m, "shadow", req[m].target) /\ Goto(m, "failed")

\* waitUntilReady: Running is enough, whatever the replicas; the deadline, a
\* failing GetStatus and the context end it otherwise.
WaitShadow(m) ==
    /\ pc[m] = "waitShadow"
    /\ \/ /\ Reaches(m, req[m].target) /\ ReportsRunning("shadow", req[m].target)
          /\ Goto(m, "final")
       \/ Goto(m, "undoShadow")
    /\ UNCHANGED inst

\* Fault: a deployment that failed is rolled back as if it had succeeded.
DeployFinalUndone(m) ==
    /\ pc[m] = "final"
    /\ \/ Deploy(m, "work", req[m].target) /\ Goto(m, "waitFinal")
       \/ DeployFails(m, "work", req[m].target) /\ Goto(m, "undoFinal")

DeployFinal(m) ==
    /\ pc[m] = "final"
    /\ \/ Deploy(m, "work", req[m].target) /\ Goto(m, "waitFinal")
       \/ /\ DeployFails(m, "work", req[m].target)
          /\ Goto(m, IF req[m].zero THEN "undoShadow" ELSE "failed")

\* Fault: the source is removed without waiting for the target.
WaitFinalSkipped(m) ==
    /\ pc[m] = "waitFinal"
    /\ Goto(m, "cutover")
    /\ UNCHANGED inst

\* Fault: the deadline is never compared with the clock.
WaitFinalForEver(m) ==
    /\ pc[m] = "waitFinal"
    /\ \/ /\ Reaches(m, req[m].target) /\ ReportsRunning("work", req[m].target)
          /\ Goto(m, "cutover")
       \/ Goto(m, "waitFinal")
    /\ UNCHANGED inst

WaitFinal(m) ==
    /\ pc[m] = "waitFinal"
    /\ \/ /\ Reaches(m, req[m].target) /\ ReportsRunning("work", req[m].target)
          /\ Goto(m, "cutover")
       \/ Goto(m, "undoFinal")
    /\ UNCHANGED inst

\* Fault: the error of destroying the source is ignored.
CutoverUnchecked(m) ==
    /\ pc[m] = "cutover"
    /\ Destroy(m, "work", req[m].source) \/ DestroyFails(m, "work", req[m].source)
    /\ Goto(m, IF req[m].zero THEN "dropShadow" ELSE "completed")

\* Destroying the source.  When that fails, the shadow stays.
Cutover(m) ==
    /\ pc[m] = "cutover"
    /\ \/ /\ Destroy(m, "work", req[m].source)
          /\ Goto(m, IF req[m].zero THEN "dropShadow" ELSE "completed")
       \/ DestroyFails(m, "work", req[m].source) /\ Goto(m, "failed")

\* Rollback and clean-up ignore the driver's error and use the caller's context.
TryDestroy(m, n, b) == Destroy(m, n, b) \/ DestroyFails(m, n, b)

UndoFinal(m) ==
    /\ pc[m] = "undoFinal"
    /\ TryDestroy(m, "work", req[m].target)
    /\ Goto(m, IF req[m].zero THEN "undoShadow" ELSE "failed")

UndoShadow(m) ==
    /\ pc[m] = "undoShadow"
    /\ TryDestroy(m, "shadow", req[m].target)
    /\ Goto(m, "failed")

DropShadow(m) ==
    /\ pc[m] = "dropShadow"
    /\ TryDestroy(m, "shadow", req[m].target)
    /\ Goto(m, "completed")

\* The caller's context is cancelled or times out.
Cancel(m) ==
    /\ MayCancel
    /\ pc[m] # "idle" /\ m \notin Ended \cup cancelled
    /\ cancelled' = cancelled \cup {m}
    /\ UNCHANGED <<inst, pc, req>>

\* External: the pods of a Deployment become ready; the workload's process that
\* exited is started again by its restart policy.
Start(n, b) ==
    /\ \/ inst[n][b] = "Exited"
       \/ inst[n][b] = "Created" /\ b = "kubernetes"
    /\ inst' = [inst EXCEPT ![n][b] = "Running"]
    /\ UNCHANGED <<pc, req, cancelled>>

\* External: the workload's process exits, or its pods are no longer ready.  Of a
\* shadow's nothing more follows than that a wait fails, as any wait may.
Exit(b) ==
    /\ inst["work"][b] = "Running"
    /\ inst' = [inst EXCEPT !["work"][b] = "Exited"]
    /\ UNCHANGED <<pc, req, cancelled>>

-----------------------------------------------------------------------------
Step(m) ==
    \/ LoadStatus(m) \/ DeployShadow(m) \/ WaitShadow(m) \/ DeployFinal(m) \/ WaitFinal(m)
    \/ Cutover(m) \/ UndoFinal(m) \/ UndoShadow(m) \/ DropShadow(m)

Next ==
    \/ \E m \in Migrations : Begin(m) \/ Step(m) \/ Cancel(m)
    \/ \E n \in Names, b \in Hosts : Start(n, b)
    \/ \E b \in Hosts : Exit(b)

Spec == Init /\ [][Next]_vars

\* Driver calls return and the wait loop has a deadline.
Fairness == \A m \in Migrations : WF_vars(Step(m))

FairSpec == Spec /\ Fairness

-----------------------------------------------------------------------------
Labels == {"idle", "load", "shadow", "waitShadow", "final", "waitFinal", "cutover",
           "undoFinal", "undoShadow", "dropShadow", "completed", "failed"}

\* The backends hold instances, the migrations are at a call of MigrateWorkload.
TypeOK ==
    /\ inst \in [Names -> [Hosts -> InstStates]]
    /\ pc \in [Migrations -> Labels]
    /\ req \in [Migrations -> Requests \cup {None}]
    /\ \A m \in Migrations : req[m] = None => pc[m] \in {"idle", "completed", "failed"}
    /\ cancelled \subseteq Migrations

\* Migrations that deployed the workload and have not removed one since.
Owing == {m \in Migrations : pc[m] \in {"waitFinal", "cutover", "undoFinal"}}

(***************************************************************************)
(* The workload exists once more than there are migrations about to remove *)
(* an instance of it, however they overlap, fail or are cancelled.         *)
(***************************************************************************)
Covered == Cardinality(Present("work")) >= 1 + Cardinality(Owing)

\* The workload is never lost: some backend has it at every moment.
NeverLost == Present("work") # {}

(***************************************************************************)
(* However migrations overlap, fail and roll back, they never remove the   *)
(* last copy that was started: what they leave is never only a Deployment  *)
(* that no pod came up for, or a container that was created.  Where no     *)
(* process exits by itself, one therefore runs at every moment.            *)
(***************************************************************************)
StartedRemains == Started("work") # {}

\* A migration that reports completion has moved the workload: it was started
\* on the target and is gone from the source.
CompletedIsMoved ==
    [][\A m \in Migrations : pc[m] # "completed" /\ pc'[m] = "completed" =>
        /\ inst'["work"][req[m].target] \in {"Running", "Exited"}
        /\ inst'["work"][req[m].source] = "Absent"]_vars

\* Every migration ends, with success or an error.
EveryMigrationEnds == \A m \in Migrations : pc[m] # "idle" ~> m \in Ended

=============================================================================
