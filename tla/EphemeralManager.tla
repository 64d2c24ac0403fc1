-------------------------- MODULE EphemeralManager --------------------------
(***************************************************************************)
(* The manager of ephemeral environments, internal/ephemeral/lifecycle.go. *)
(*                                                                         *)
(* Any number of callers create and tear down environments and deliver     *)
(* pull-request events while a cleaner goroutine removes the environments  *)
(* whose TTL has run out.  All of them share one sync.RWMutex and one      *)
(* runtime driver.  The write lock is held across driver calls, so an      *)
(* operation is split at three places only: where it waits for the lock,   *)
(* where it calls the driver, and where the driver answers.                *)
(***************************************************************************)
EXTENDS Naturals, FiniteSets, RuntimeDriver

CONSTANTS
    EnvIDs,             \* identifiers time.Now().UnixNano() may yield (bound)
    Callers,            \* goroutines calling the manager
    Cleaner,            \* the goroutine running Manager.Start
    None,               \* no goroutine, no environment, no PR, no branch
    Specs,              \* the creation requests callers make
    MaxLimit,           \* the largest MaxEnvironments of a request (0: none)
    Driver,             \* the backend the manager drives
    DriverFails         \* driver calls may fail at any time

Phases == {"Absent", "Creating", "Ready", "Terminating", "Terminated"}

Threads == Callers \cup {Cleaner}

(***************************************************************************)
(* A request: the pull request and the branch it is for, the limit it      *)
(* carries, whether its TTL parses, and the name the caller gave the       *)
(* workload.  CreateEnvironment sets the workload's namespace and leaves   *)
(* its name alone, so the two names agree only when the caller makes them. *)
(***************************************************************************)
SpecFields == {"pr", "branch", "limit", "ttlValid", "work"}

ASSUME IDAssumption == EnvIDs \subseteq Nat /\ IsFiniteSet(EnvIDs)

ASSUME ThreadAssumption ==
    /\ Cleaner \notin Callers
    /\ None \notin Threads /\ None \notin EnvIDs /\ None \notin Specs

ASSUME SpecAssumption ==
    \A s \in Specs : /\ DOMAIN s = SpecFields
                     /\ s.limit \in Nat /\ s.ttlValid \in BOOLEAN

\* Either no request is limited further than by MaxLimit, or none escapes it.
ASSUME LimitAssumption ==
    /\ MaxLimit \in Nat
    /\ MaxLimit > 0 => \A s \in Specs : s.limit > 0 /\ s.limit <= MaxLimit

ASSUME DriverAssumption ==
    Driver \in Backends /\ DriverFails \in BOOLEAN

(***************************************************************************)
(* generateEnvironmentName: the PR number, else the branch, else the       *)
(* clock.  The clock is the one the identifier is read from.               *)
(***************************************************************************)
EnvironmentName(s, e) ==
    IF s.pr # None THEN <<"pr", s.pr>>
    ELSE IF s.branch # None THEN <<"branch", s.branch>>
    ELSE <<"ephem", e>>

\* Where the driver puts the environment's workload (generateNamespace gives
\* every environment name a namespace of its own), and where the manager's
\* Destroy(status.Name) looks for it.
WorkloadPlace(s, e) == Placed(Driver, EnvironmentName(s, e), s.work)
DestroyPlace(s, e)  == Sought(EnvironmentName(s, e))

Places == {WorkloadPlace(s, e) : s \in Specs, e \in EnvIDs}

VARIABLES
    phase,      \* Phase of each environment ("Absent": not in the map)
    request,    \* the request each environment was created for
    expired,    \* environments whose ExpiresAt has passed
    reason,     \* TerminationReason of each environment
    deployed,   \* places on the backend that hold a workload
    emptied,    \* history: places that a failing teardown emptied
    writer,     \* the goroutine holding mu for writing
    readers,    \* the goroutines holding mu for reading
    pending,    \* the goroutine whose Lock waits for them
    pc,         \* where each goroutine is
    env,        \* the environment a goroutine works on
    todo,       \* what its loop over the map has still to visit
    arg,        \* the request or PR number of the call in progress
    stopChan    \* closed by Stop

vars == <<phase, request, reason, expired, deployed, emptied, writer, readers, pending, pc,
          env, todo, arg, stopChan>>

mapVars  == <<phase, request, reason>>
lockVars == <<writer, readers, pending>>
callVars == <<pc, env, todo, arg>>

Workload(e) == WorkloadPlace(request[e], e)
Target(e)   == DestroyPlace(request[e], e)

Reasons == {"", "deployment failed", "requested", "TTL expired", "cleanup failed"}

Known  == {e \in EnvIDs : phase[e] # "Absent"}

\* countActiveEnvironments counts these.
Active == {e \in EnvIDs : phase[e] \notin {"Absent", "Terminated"}}

Init ==
    /\ phase = [e \in EnvIDs |-> "Absent"]
    /\ request = [e \in EnvIDs |-> None]
    /\ reason = [e \in EnvIDs |-> ""]
    /\ expired = {}
    /\ deployed = {}
    /\ emptied = {}
    /\ writer = None
    /\ readers = {}
    /\ pending = None
    /\ pc = [t \in Threads |-> "idle"]
    /\ env = [t \in Threads |-> None]
    /\ todo = [t \in Threads |-> {}]
    /\ arg = [t \in Threads |-> None]
    /\ stopChan = "open"

Goto(t, label) == pc' = [pc EXCEPT ![t] = label]

LockFree == writer = None /\ readers = {}

(***************************************************************************)
(* The RWMutex.  A Lock that finds readers inside waits for them and keeps *)
(* new readers out meanwhile.                                              *)
(***************************************************************************)
MayLock(t) == LockFree /\ pending \in {None, t}
MayRLock   == writer = None /\ pending = None

Lock(t)      == writer' = t /\ pending' = None /\ UNCHANGED readers
LockUnlock   == pending' = None /\ UNCHANGED <<writer, readers>>
Unlock       == writer' = None /\ UNCHANGED <<readers, pending>>
RLock(t)     == readers' = readers \cup {t} /\ UNCHANGED <<writer, pending>>
RUnlock(t)   == readers' = readers \ {t} /\ UNCHANGED <<writer, pending>>

LockWaits(t) ==
    /\ pc[t] \in {"create", "teardown", "tick"}
    /\ readers # {} /\ pending = None
    /\ pending' = t
    /\ UNCHANGED <<mapVars, expired, emptied, deployed, writer, readers, callVars, stopChan>>

-----------------------------------------------------------------------------
(***************************************************************************)
(* CreateEnvironment.  A disabled request returns before the lock and is   *)
(* not modelled.  A deployment that fails may have left the workload on    *)
(* the backend.                                                            *)
(***************************************************************************)
\* Bound: calls are made only while identifiers remain for them.
IDsRemain ==
    Cardinality(Known) + Cardinality({d \in Callers : pc[d] = "create"}) < Cardinality(EnvIDs)

CreateEnvironment(c, s) ==
    /\ pc[c] = "idle"
    /\ IDsRemain
    /\ Goto(c, "create")
    /\ arg' = [arg EXCEPT ![c] = s]
    /\ UNCHANGED <<mapVars, expired, emptied, deployed, lockVars, env, todo, stopChan>>

\* Fault: one environment too many is admitted.
AdmittedOneMore(s) ==
    /\ s.limit > 0 => Cardinality(Active) <= s.limit
    /\ s.ttlValid

\* The conditions under which the request is admitted once the lock is held.
Admitted(s) ==
    /\ s.limit > 0 => Cardinality(Active) < s.limit
    /\ s.ttlValid

\* The clock only moves forward, so identifiers are issued in order.
FreshID(e) == phase[e] = "Absent" /\ \A f \in EnvIDs : phase[f] = "Absent" => e <= f

CreateAdmit(c) ==
    /\ pc[c] = "create"
    /\ MayLock(c)
    /\ Admitted(arg[c])
    /\ \E e \in EnvIDs :
        /\ FreshID(e)
        /\ phase' = [phase EXCEPT ![e] = "Creating"]
        /\ request' = [request EXCEPT ![e] = arg[c]]
        /\ env' = [env EXCEPT ![c] = e]
    /\ Lock(c)
    /\ Goto(c, "deploying")
    /\ UNCHANGED <<reason, expired, emptied, deployed, todo, arg, stopChan>>

\* Fault: the entry is stored before the request is refused.
CreateRejectRecorded(c) ==
    /\ pc[c] = "create"
    /\ MayLock(c)
    /\ ~Admitted(arg[c])
    /\ \E e \in EnvIDs :
        /\ FreshID(e)
        /\ phase' = [phase EXCEPT ![e] = "Terminated"]
        /\ request' = [request EXCEPT ![e] = arg[c]]
    /\ Goto(c, "idle")
    /\ arg' = [arg EXCEPT ![c] = None]
    /\ LockUnlock
    /\ UNCHANGED <<reason, expired, emptied, deployed, env, todo, stopChan>>

CreateReject(c) ==
    /\ pc[c] = "create"
    /\ MayLock(c)
    /\ ~Admitted(arg[c])
    /\ Goto(c, "idle")
    /\ arg' = [arg EXCEPT ![c] = None]
    /\ LockUnlock
    /\ UNCHANGED <<mapVars, expired, emptied, deployed, env, todo, stopChan>>

\* The call is over: the lock is released and the goroutine is free.
Return(c) ==
    /\ Goto(c, "idle")
    /\ env' = [env EXCEPT ![c] = None]
    /\ arg' = [arg EXCEPT ![c] = None]

Refused(c)  == DeployRefused(Driver, Workload(env[c]), deployed)
Visible(c)  == DeployVisible(Driver, EnvironmentName(arg[c], env[c]), arg[c].work)

DeployOK(c) ==
    /\ pc[c] = "deploying"
    /\ ~Refused(c) /\ Visible(c)
    /\ deployed' = deployed \cup {Workload(env[c])}
    /\ phase' = [phase EXCEPT ![env[c]] = "Ready"]
    /\ Unlock
    /\ Return(c)
    /\ UNCHANGED <<request, reason, expired, emptied, todo, stopChan>>

\* Fault: the error of Deploy is ignored.
DeployErrIgnored(c) ==
    /\ pc[c] = "deploying"
    /\ DriverFails \/ Refused(c) \/ ~Visible(c)
    /\ \/ deployed' = deployed \cup {Workload(env[c])}
       \/ DriverFails /\ UNCHANGED deployed
    /\ phase' = [phase EXCEPT ![env[c]] = "Ready"]
    /\ Unlock
    /\ Return(c)
    /\ UNCHANGED <<request, reason, expired, emptied, todo, stopChan>>

\* Fault: the driver's error text is stored as the reason.
DeployErrText(c) ==
    /\ pc[c] = "deploying"
    /\ DriverFails \/ Refused(c) \/ ~Visible(c)
    /\ UNCHANGED deployed
    /\ phase' = [phase EXCEPT ![env[c]] = "Terminated"]
    /\ reason' = [reason EXCEPT ![env[c]] = "error text"]
    /\ Unlock
    /\ Return(c)
    /\ UNCHANGED <<request, expired, emptied, todo, stopChan>>

DeployErr(c) ==
    /\ pc[c] = "deploying"
    /\ DriverFails \/ Refused(c) \/ ~Visible(c)
    /\ \/ deployed' = deployed \cup {Workload(env[c])}
       \/ DriverFails /\ UNCHANGED deployed
    /\ phase' = [phase EXCEPT ![env[c]] = "Terminated"]
    /\ reason' = [reason EXCEPT ![env[c]] = "deployment failed"]
    /\ Unlock
    /\ Return(c)
    /\ UNCHANGED <<request, expired, emptied, todo, stopChan>>

-----------------------------------------------------------------------------
(***************************************************************************)
(* TeardownEnvironment, called directly or from a pull-request handler.    *)
(* The handler's PR number is in arg; a direct call has none.              *)
(***************************************************************************)
TeardownEnvironment(c, e) ==
    /\ pc[c] = "idle"
    /\ Goto(c, "teardown")
    /\ env' = [env EXCEPT ![c] = e]
    /\ UNCHANGED <<mapVars, expired, emptied, deployed, lockVars, todo, arg, stopChan>>

\* Where a teardown returns to: its caller, or the handler's RLock.
TeardownReturn(c, handlerLabel) ==
    \/ arg[c] = None /\ Return(c)
    \/ /\ arg[c] # None
       /\ Goto(c, handlerLabel)
       /\ env' = [env EXCEPT ![c] = None]
       /\ UNCHANGED arg

\* Fault: a second teardown records its own reason.
TeardownAgain(c) ==
    /\ pc[c] = "teardown"
    /\ MayLock(c)
    /\ phase[env[c]] \in {"Absent", "Terminated"}
    /\ reason' = [reason EXCEPT ![env[c]] = "requested"]
    /\ TeardownReturn(c, "relock")
    /\ LockUnlock
    /\ UNCHANGED <<phase, request, expired, emptied, deployed, todo, stopChan>>

\* Unknown environments are an error, terminated ones a success.
TeardownNothing(c) ==
    /\ pc[c] = "teardown"
    /\ MayLock(c)
    /\ phase[env[c]] \in {"Absent", "Terminated"}
    /\ TeardownReturn(c, IF phase[env[c]] = "Absent" THEN "fail" ELSE "relock")
    /\ LockUnlock
    /\ UNCHANGED <<mapVars, expired, emptied, deployed, todo, stopChan>>

\* Fault: an unknown environment is not refused.
TeardownUnknown(c) ==
    /\ pc[c] = "teardown"
    /\ MayLock(c)
    /\ phase[env[c]] # "Terminated"
    /\ phase' = [phase EXCEPT ![env[c]] = "Terminating"]
    /\ Lock(c)
    /\ Goto(c, "destroying")
    /\ UNCHANGED <<request, reason, expired, emptied, deployed, env, todo, arg, stopChan>>

TeardownBegin(c) ==
    /\ pc[c] = "teardown"
    /\ MayLock(c)
    /\ phase[env[c]] \notin {"Absent", "Terminated"}
    /\ phase' = [phase EXCEPT ![env[c]] = "Terminating"]
    /\ Lock(c)
    /\ Goto(c, "destroying")
    /\ UNCHANGED <<request, reason, expired, emptied, deployed, env, todo, arg, stopChan>>

(***************************************************************************)
(* Destroy is asked for the environment's name, whatever the workload is   *)
(* called.  The backend's state after it succeeds, and after it fails: a   *)
(* failing Destroy may have removed the workload first (docker removes the *)
(* container and the volume clean-up of the same call fails; a cancelled   *)
(* context kills podman's or compose's command after its effect).          *)
(***************************************************************************)
DestroySucceeds(e, after) ==
    /\ ~DestroyRefused(Driver, Target(e), deployed)
    /\ after = deployed \ {Target(e)}

DestroyFails(e, after) ==
    /\ DriverFails \/ DestroyMayMiss(Driver, Target(e), deployed)
    /\ after \in {deployed, deployed \ {Target(e)}}

DestroyOK(c) ==
    /\ pc[c] = "destroying"
    /\ DestroySucceeds(env[c], deployed')
    /\ phase' = [phase EXCEPT ![env[c]] = "Terminated"]
    /\ reason' = [reason EXCEPT ![env[c]] = "requested"]
    /\ Unlock
    /\ TeardownReturn(c, "relock")
    /\ UNCHANGED <<request, expired, emptied, todo, stopChan>>

\* Fault: the error path does not unlock.
DestroyErrLocked(c) ==
    /\ pc[c] = "destroying"
    /\ DestroyFails(env[c], deployed')
    /\ TeardownReturn(c, "fail")
    /\ UNCHANGED <<mapVars, expired, emptied, lockVars, todo, stopChan>>

DestroyErr(c) ==
    /\ pc[c] = "destroying"
    /\ DestroyFails(env[c], deployed')
    /\ emptied' = emptied \cup (deployed \ deployed')
    /\ Unlock
    /\ TeardownReturn(c, "fail")
    /\ UNCHANGED <<mapVars, expired, todo, stopChan>>

-----------------------------------------------------------------------------
(***************************************************************************)
(* HandlePRMerge and HandlePRClose differ in the recorded reason only.     *)
(* The loop ranges over the map under the read lock and gives it up around *)
(* each teardown.  Go visits every entry present when the loop begins, and *)
(* may visit entries added later; an entry that did not match when it was  *)
(* visited never matches later, since Ready is never entered twice, so the *)
(* entries the loop passes over need no step of their own.                 *)
(***************************************************************************)
HandlePR(c, pr) ==
    /\ pc[c] = "idle"
    /\ Goto(c, "rlock")
    /\ arg' = [arg EXCEPT ![c] = pr]
    /\ UNCHANGED <<mapVars, expired, emptied, deployed, lockVars, env, todo, stopChan>>

Matches(c, e) == phase[e] = "Ready" /\ request[e].pr = arg[c]

RangeBegin(c) ==
    /\ pc[c] = "rlock"
    /\ MayRLock
    /\ RLock(c)
    /\ todo' = [todo EXCEPT ![c] = Known]
    /\ Goto(c, "range")
    /\ UNCHANGED <<mapVars, expired, emptied, deployed, env, arg, stopChan>>

RangeVisit(c) ==
    /\ pc[c] = "range"
    /\ \E e \in EnvIDs : Matches(c, e) /\ env' = [env EXCEPT ![c] = e]
    /\ RUnlock(c)
    /\ Goto(c, "teardown")
    /\ UNCHANGED <<mapVars, expired, emptied, deployed, todo, arg, stopChan>>

RangeEnd(c) ==
    /\ pc[c] = "range"
    /\ ~\E e \in todo[c] : Matches(c, e)
    /\ RUnlock(c)
    /\ todo' = [todo EXCEPT ![c] = {}]
    /\ Return(c)
    /\ UNCHANGED <<mapVars, expired, emptied, deployed, stopChan>>

\* RLock after a teardown: the loop goes on, or the error is returned.
Relock(c) ==
    /\ pc[c] = "relock"
    /\ MayRLock
    /\ RLock(c)
    /\ Goto(c, "range")
    /\ UNCHANGED <<mapVars, expired, emptied, deployed, env, todo, arg, stopChan>>

RelockFail(c) ==
    /\ pc[c] = "fail"
    /\ MayRLock
    /\ todo' = [todo EXCEPT ![c] = {}]
    /\ Return(c)
    /\ UNCHANGED <<mapVars, expired, emptied, deployed, lockVars, stopChan>>

-----------------------------------------------------------------------------
\* Fault: the comparison with the expiry time is inverted.
DueEarly == {e \in EnvIDs : phase[e] = "Ready" /\ e \notin expired}

(***************************************************************************)
(* The cleaner: Manager.Start's loop and cleanupExpiredEnvironments.  A    *)
(* tick and a closed stopChan may both be ready, and select takes either.  *)
(***************************************************************************)
Due == {e \in EnvIDs : phase[e] = "Ready" /\ e \in expired}

\* Ticks that find nothing due change nothing and are left out.
CleanupTick ==
    /\ pc[Cleaner] = "idle"
    /\ Due # {}
    /\ Goto(Cleaner, "tick")
    /\ UNCHANGED <<mapVars, expired, emptied, deployed, lockVars, env, todo, arg, stopChan>>

CleanupBegin ==
    /\ pc[Cleaner] = "tick"
    /\ MayLock(Cleaner)
    /\ Lock(Cleaner)
    /\ todo' = [todo EXCEPT ![Cleaner] = Due]
    /\ Goto(Cleaner, "clean")
    /\ UNCHANGED <<mapVars, expired, emptied, deployed, env, arg, stopChan>>

CleanupOne ==
    /\ pc[Cleaner] = "clean"
    /\ \E e \in todo[Cleaner] :
        /\ phase' = [phase EXCEPT ![e] = "Terminating"]
        /\ env' = [env EXCEPT ![Cleaner] = e]
        /\ todo' = [todo EXCEPT ![Cleaner] = @ \ {e}]
    /\ Goto(Cleaner, "cleaning")
    /\ UNCHANGED <<request, reason, expired, emptied, deployed, lockVars, arg, stopChan>>

\* Fault: the error is not looked at.
CleanupIgnoresError ==
    /\ pc[Cleaner] = "cleaning"
    /\ DestroySucceeds(env[Cleaner], deployed') \/ DestroyFails(env[Cleaner], deployed')
    /\ reason' = [reason EXCEPT ![env[Cleaner]] = "TTL expired"]
    /\ phase' = [phase EXCEPT ![env[Cleaner]] = "Terminated"]
    /\ env' = [env EXCEPT ![Cleaner] = None]
    /\ Goto(Cleaner, "clean")
    /\ UNCHANGED <<request, expired, emptied, lockVars, todo, arg, stopChan>>

\* The environment is terminated whether Destroy succeeded or not.
CleanupDestroyed ==
    /\ pc[Cleaner] = "cleaning"
    /\ LET e == env[Cleaner] IN
        \/ /\ DestroySucceeds(e, deployed')
           /\ reason' = [reason EXCEPT ![e] = "TTL expired"]
        \/ /\ DestroyFails(e, deployed')
           /\ reason' = [reason EXCEPT ![e] = "cleanup failed"]
    /\ phase' = [phase EXCEPT ![env[Cleaner]] = "Terminated"]
    /\ env' = [env EXCEPT ![Cleaner] = None]
    /\ Goto(Cleaner, "clean")
    /\ UNCHANGED <<request, expired, emptied, lockVars, todo, arg, stopChan>>

CleanupEnd ==
    /\ pc[Cleaner] = "clean"
    /\ todo[Cleaner] = {}
    /\ Unlock
    /\ Goto(Cleaner, "idle")
    /\ UNCHANGED <<mapVars, expired, emptied, deployed, env, todo, arg, stopChan>>

Stop ==
    /\ stopChan = "open"
    /\ stopChan' = "closed"
    /\ UNCHANGED <<mapVars, expired, emptied, deployed, lockVars, callVars>>

CleanerExit ==
    /\ pc[Cleaner] = "idle"
    /\ stopChan = "closed"
    /\ Goto(Cleaner, "exited")
    /\ UNCHANGED <<mapVars, expired, emptied, deployed, lockVars, env, todo, arg, stopChan>>

\* Time passes an environment's ExpiresAt, which is looked at in the phase
\* Ready only.
Expire(e) ==
    /\ phase[e] = "Ready" /\ e \notin expired
    /\ expired' = expired \cup {e}
    /\ UNCHANGED <<mapVars, deployed, emptied, lockVars, callVars, stopChan>>

-----------------------------------------------------------------------------
PRs == {s.pr : s \in Specs} \ {None}

Call(c) ==
    \/ \E s \in Specs : CreateEnvironment(c, s)
    \/ \E e \in EnvIDs : TeardownEnvironment(c, e)
    \/ \E pr \in PRs : HandlePR(c, pr)

Acquire(c) ==
    \/ CreateAdmit(c) \/ CreateReject(c)
    \/ TeardownNothing(c) \/ TeardownBegin(c)
    \/ RangeBegin(c) \/ Relock(c) \/ RelockFail(c) \/ LockWaits(c)

DriverAnswers(c) ==
    \/ DeployOK(c) \/ DeployErr(c) \/ DestroyOK(c) \/ DestroyErr(c)

Iterate(c) == RangeVisit(c) \/ RangeEnd(c)

CleanerLocks == CleanupTick \/ CleanupBegin \/ LockWaits(Cleaner)

Clean == CleanupOne \/ CleanupDestroyed \/ CleanupEnd

Next ==
    \/ \E c \in Callers : Call(c) \/ Acquire(c) \/ DriverAnswers(c) \/ Iterate(c)
    \/ CleanerLocks \/ Clean \/ CleanerExit \/ Stop
    \/ \E e \in EnvIDs : Expire(e)

Spec == Init /\ [][Next]_vars

(***************************************************************************)
(* Driver calls return, loops advance and the ticker keeps firing; a       *)
(* goroutine that waits for the RWMutex is not passed over for ever, since *)
(* Go's implementation hands it over in turn.  No caller is obliged to     *)
(* call, and nobody is obliged to Stop.                                    *)
(***************************************************************************)
Fairness ==
    /\ \A c \in Callers : /\ SF_vars(Acquire(c))
                          /\ WF_vars(DriverAnswers(c))
                          /\ WF_vars(Iterate(c))
    /\ SF_vars(CleanerLocks)
    /\ WF_vars(Clean)

FairSpec == Spec /\ Fairness

-----------------------------------------------------------------------------
Labels == {"idle", "create", "deploying", "teardown", "destroying", "rlock", "range",
           "relock", "fail", "tick", "clean", "cleaning", "exited"}

\* Every variable holds a value of the Go type it stands for.
TypeOK ==
    /\ phase \in [EnvIDs -> Phases]
    /\ request \in [EnvIDs -> Specs \cup {None}]
    /\ reason \in [EnvIDs -> Reasons]
    /\ expired \subseteq EnvIDs
    /\ deployed \subseteq Places
    /\ emptied \subseteq Places
    /\ writer \in Threads \cup {None}
    /\ readers \subseteq Threads
    /\ pending \in Threads \cup {None}
    /\ pc \in [Threads -> Labels]
    /\ env \in [Threads -> EnvIDs \cup {None}]
    /\ todo \in [Threads -> SUBSET EnvIDs]
    /\ arg \in [Threads -> Specs \cup PRs \cup {None}]
    /\ stopChan \in {"open", "closed"}

\* mu is held as the program counters say: by one writer or by readers.
LockInv ==
    /\ \A t \in Threads :
        writer = t <=> pc[t] \in {"deploying", "destroying", "clean", "cleaning"}
    /\ readers = {t \in Threads : pc[t] = "range"}
    /\ writer # None => readers = {}
    /\ pending # None => writer = None /\ pc[pending] \in {"create", "teardown", "tick"}

\* What a goroutine established under the lock still holds when it acts on it.
CallInv ==
    /\ \A e \in EnvIDs : phase[e] # "Absent" => request[e] \in Specs
    /\ \A c \in Callers :
        /\ pc[c] \in {"create", "deploying"} => arg[c] \in Specs
        /\ pc[c] \in {"deploying", "teardown", "destroying"} => env[c] \in EnvIDs
        /\ pc[c] = "deploying" => /\ phase[env[c]] = "Creating"
                                  /\ request[env[c]] = arg[c]
        /\ pc[c] = "destroying" => phase[env[c]] = "Terminating"
        /\ pc[c] \notin {"tick", "clean", "cleaning", "exited"}
    /\ pc[Cleaner] \in {"idle", "tick", "clean", "cleaning", "exited"}
    /\ pc[Cleaner] = "clean" => \A e \in todo[Cleaner] : phase[e] = "Ready"
    /\ pc[Cleaner] = "cleaning" =>
        /\ env[Cleaner] \in EnvIDs
        /\ phase[env[Cleaner]] = "Terminating"
        /\ \A e \in todo[Cleaner] : phase[e] = "Ready"
    /\ \A e \in EnvIDs : phase[e] = "Creating" =>
        /\ writer \in Callers
        /\ pc[writer] = "deploying"
        /\ env[writer] = e

\* A goroutine acts only on what is still true: the lock protects, across the
\* driver's answer, the environment it chose before the call.
UnderLock == LockInv /\ CallInv

(***************************************************************************)
(* MaxEnvironments: however creations, failed deployments, teardowns and   *)
(* clean-ups interleave, no more environments are active at once than the  *)
(* largest limit any request carries.  Environments whose teardown failed  *)
(* count: they hold their slot.                                            *)
(***************************************************************************)
WithinLimit == MaxLimit > 0 => Cardinality(Active) <= MaxLimit

Held == {e \in EnvIDs : phase[e] \in {"Ready", "Terminating"}}

\* The held environments whose workload is at a place.
HeldAt(w) == {e \in Held : Workload(e) = w}

\* The caller named the workload after the environment: Destroy looks for the
\* workload that Deploy created.
NameMatches(e) == Target(e) = Workload(e)

\* Places where no failing teardown has removed a workload, and where no known
\* environment's Destroy looks although its own workload is elsewhere.
Undisturbed(w) ==
    /\ w \notin emptied
    /\ \A f \in Known : Target(f) = w => NameMatches(f)

(***************************************************************************)
(* An environment that is Ready, or whose teardown has not succeeded yet,  *)
(* has its workload on the backend and shares it with no other, although   *)
(* two environments of a pull request bear the same name.  There are two   *)
(* ways to lose it, and no other.  A teardown fails after its Destroy      *)
(* removed the workload: the next environment of that name is deployed in  *)
(* its place, and the repeated teardown of the first one destroys that.    *)
(* Or the name of an environment is the workload name of another.          *)
(***************************************************************************)
HeldIsDeployed ==
    \A w \in Places : Undisturbed(w) =>
        /\ HeldAt(w) # {} => w \in deployed
        /\ \A e, f \in HeldAt(w) : e = f

(***************************************************************************)
(* Nothing is left behind silently: a workload on the backend belongs to   *)
(* an environment that is still held, or the reason recorded at its end    *)
(* says that deploying or cleaning up failed.  The one exception is a      *)
(* workload that does not bear its environment's name: the teardown looks  *)
(* for another one, and what it reports says nothing of the first.         *)
(***************************************************************************)
LeaksAreRecorded ==
    \A w \in deployed : \E e \in Known :
        /\ Workload(e) = w
        /\ \/ e \in Held
           \/ reason[e] \in {"cleanup failed", "deployment failed"}
           \/ ~NameMatches(e)

PhaseOrder == [Absent |-> 0, Creating |-> 1, Ready |-> 2, Terminating |-> 3, Terminated |-> 4]

Forward(e) ==
    /\ PhaseOrder[phase[e]] <= PhaseOrder[phase'[e]]
    /\ phase[e] = "Terminated" => reason'[e] = reason[e]

(***************************************************************************)
(* An environment only moves forward, and what is recorded at its end is   *)
(* never rewritten: a late teardown, pull-request event or clean-up pass   *)
(* that raced with another one leaves a terminated environment alone.      *)
(***************************************************************************)
ForwardOnly == [][\A e \in EnvIDs : Forward(e)]_vars

\* The manager is a bounded pool of environments: a slot is taken when an
\* environment is admitted and given back when it is Terminated.
Pool == INSTANCE EnvironmentPool
            WITH Leases <- EnvIDs, Limit <- MaxLimit,
                 held <- Active, spent <- {e \in EnvIDs : phase[e] = "Terminated"}

PoolSpec == Pool!PoolSpec

\* No call of the manager blocks for ever, whoever else holds the lock.
CallsReturn == \A c \in Callers : pc[c] # "idle" ~> pc[c] = "idle"

\* While the cleaner runs, an expired environment does not stay Ready.
ExpiredLeavesReady ==
    \A e \in EnvIDs : (phase[e] = "Ready" /\ e \in expired) ~> (phase[e] # "Ready" \/ stopChan = "closed")

-----------------------------------------------------------------------------
(***************************************************************************)
(* A statement of the repository that the code does not keep.              *)
(***************************************************************************)

\* "Automatically teardown expired environments": while the cleaner runs, an
\* expired environment is eventually terminated.
ExpiredIsTerminated ==
    \A e \in EnvIDs : (phase[e] \in {"Ready", "Terminating"} /\ e \in expired)
                        ~> (phase[e] = "Terminated" \/ stopChan = "closed")
=============================================================================
