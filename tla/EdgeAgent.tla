------------------------------ MODULE EdgeAgent ------------------------------
(***************************************************************************)
(* The edge-node agent, internal/edge/agent.go: its connection phase, its  *)
(* heartbeat loops, and the RunningWorkloads counter of its status.        *)
(* sendHeartbeat builds a request, drops it and stamps LastHeartbeat, which*)
(* nothing reads: a tick changes no state of this module.                  *)
(*                                                                         *)
(* The counter is updated under the lock, and the driver is called outside *)
(* it, so that the calls of two goroutines may take effect on the backend  *)
(* in one order and on the counter in the other.                           *)
(***************************************************************************)
EXTENDS Naturals, FiniteSets, RuntimeDriver

CONSTANTS
    Workloads,
    Callers,          \* goroutines that deploy and destroy workloads
    Driver,           \* the backend of the node
    MaxCount,         \* bound on the counter
    MaxUnseen,        \* bound on the failing Deploys that leave a workload
    MaxStarts         \* bound on the calls of Start

ASSUME AgentAssumption ==
    /\ IsFiniteSet(Workloads) /\ IsFiniteSet(Callers)
    /\ Driver \in Backends
    /\ MaxCount \in Nat /\ MaxUnseen \in Nat /\ MaxStarts \in Nat

VARIABLES
    running,    \* workloads on the node
    counter,    \* status.RunningWorkloads
    unseen,     \* failing Deploys that left a workload (history)
    pc,         \* where each caller is
    phase,      \* status.Phase
    starts,     \* calls of Start so far
    starting,   \* calls of Start under way
    loops,      \* heartbeat loops alive
    stopChan

vars == <<running, counter, unseen, pc, phase, starts, starting, loops, stopChan>>

workVars  == <<running, counter, unseen, pc>>
agentVars == <<phase, starts, starting, loops, stopChan>>

Init ==
    /\ running = {}
    /\ counter = 0
    /\ unseen = 0
    /\ pc = [c \in Callers |-> "idle"]
    /\ phase = "Connecting"
    /\ starts = 0
    /\ starting = 0
    /\ loops = 0
    /\ stopChan = "open"

-----------------------------------------------------------------------------
(***************************************************************************)
(* DeployWorkload: the driver's Deploy, then the counter.  A call that the *)
(* driver fails returns without counting.                                  *)
(***************************************************************************)
DeployWorkload(c, w) ==
    /\ pc[c] = "idle"
    /\ counter + Cardinality({d \in Callers : pc[d] = "count"}) < MaxCount
    /\ ~DeployRefused(Driver, w, running)
    /\ running' = running \cup {w}
    /\ pc' = [pc EXCEPT ![c] = "count"]
    /\ UNCHANGED <<counter, unseen, agentVars>>

DeployWorkloadFails(w) ==
    /\ unseen < MaxUnseen
    /\ ~DeployRefused(Driver, w, running)
    /\ running' = running \cup {w}
    /\ unseen' = unseen + 1
    /\ UNCHANGED <<counter, pc, agentVars>>

CountDeployed(c) ==
    /\ pc[c] = "count"
    /\ counter' = counter + 1
    /\ pc' = [pc EXCEPT ![c] = "idle"]
    /\ UNCHANGED <<running, unseen, agentVars>>

(***************************************************************************)
(* DestroyWorkload: the driver's Destroy, then the counter, not below 0.   *)
(***************************************************************************)
DestroyWorkload(c, w) ==
    /\ pc[c] = "idle"
    /\ ~DestroyRefused(Driver, w, running)
    /\ running' = running \ {w}
    /\ pc' = [pc EXCEPT ![c] = "uncount"]
    /\ UNCHANGED <<counter, unseen, agentVars>>

\* Fault: the counter is lowered before the error is looked at.
DestroyFailureCounted(w) ==
    /\ counter' = IF counter > 0 THEN counter - 1 ELSE counter
    /\ UNCHANGED <<running, unseen, pc, agentVars>>

DestroyWorkloadFails(w) ==
    /\ running' = running \ {w}
    /\ UNCHANGED <<counter, unseen, pc, agentVars>>

\* Fault: the counter may go below zero.
CountUnclamped(c) ==
    /\ pc[c] = "uncount"
    /\ counter' = counter - 1
    /\ pc' = [pc EXCEPT ![c] = "idle"]
    /\ UNCHANGED <<running, unseen, agentVars>>

CountDestroyed(c) ==
    /\ pc[c] = "uncount"
    /\ counter' = IF counter > 0 THEN counter - 1 ELSE counter
    /\ pc' = [pc EXCEPT ![c] = "idle"]
    /\ UNCHANGED <<running, unseen, agentVars>>

-----------------------------------------------------------------------------
(***************************************************************************)
(* Start dials, registers and starts a heartbeat loop; nothing keeps it    *)
(* from being called again, while another Start is under way or after Stop *)
(* included.  Stop closes stopChan and the connection, and leaves the      *)
(* phase as it is.                                                         *)
(***************************************************************************)
Start ==
    /\ starts < MaxStarts
    /\ starts' = starts + 1
    /\ starting' = starting + 1
    /\ phase' = "Connecting"
    /\ UNCHANGED <<workVars, loops, stopChan>>

StartConnected ==
    /\ starting > 0
    /\ starting' = starting - 1
    /\ phase' = "Connected"
    /\ loops' = loops + 1
    /\ UNCHANGED <<workVars, starts, stopChan>>

StartFails ==
    /\ starting > 0
    /\ starting' = starting - 1
    /\ phase' = "Error"
    /\ UNCHANGED <<workVars, starts, loops, stopChan>>

Stop ==
    /\ stopChan = "open"
    /\ stopChan' = "closed"
    /\ UNCHANGED <<workVars, phase, starts, starting, loops>>

\* Fault: the loop looks at the phase as well as at stopChan.
LoopEndsUnconnected ==
    /\ loops > 0
    /\ stopChan = "closed" /\ phase # "Connected"
    /\ loops' = loops - 1
    /\ UNCHANGED <<workVars, phase, starts, starting, stopChan>>

\* A loop sees the closed channel.
HeartbeatLoopEnds ==
    /\ loops > 0
    /\ stopChan = "closed"
    /\ loops' = loops - 1
    /\ UNCHANGED <<workVars, phase, starts, starting, stopChan>>

\* The context a loop was started with is done.
HeartbeatLoopDone ==
    /\ loops > 0
    /\ loops' = loops - 1
    /\ UNCHANGED <<workVars, phase, starts, starting, stopChan>>

-----------------------------------------------------------------------------
Count(c) == CountDeployed(c) \/ CountDestroyed(c)

Next ==
    \/ \E c \in Callers :
        \/ \E w \in Workloads : DeployWorkload(c, w) \/ DestroyWorkload(c, w)
        \/ Count(c)
    \/ \E w \in Workloads : DeployWorkloadFails(w) \/ DestroyWorkloadFails(w)
    \/ Start \/ StartConnected \/ StartFails \/ Stop
    \/ HeartbeatLoopEnds \/ HeartbeatLoopDone

Spec == Init /\ [][Next]_vars

\* A loop is in its select between two ticks, and select does not ignore a closed
\* stopChan for ever.
FairSpec == Spec /\ WF_vars(HeartbeatLoopEnds)

-----------------------------------------------------------------------------
\* The agent's variables hold values of their Go types.
TypeOK ==
    /\ running \subseteq Workloads
    /\ counter \in Nat /\ unseen \in Nat
    /\ pc \in [Callers -> {"idle", "count", "uncount"}]
    /\ phase \in {"Connecting", "Connected", "Error"}
    /\ starts \in Nat /\ starting \in Nat /\ loops \in Nat
    /\ stopChan \in {"open", "closed"}

Uncounted == {c \in Callers : pc[c] = "count"}
Undone    == {c \in Callers : pc[c] = "uncount"}

(***************************************************************************)
(* The counter misses no workload but those a failing Deploy left behind:  *)
(* with these, and with the deployments still to be counted, it is at      *)
(* least the number of running workloads and of removals still to be       *)
(* counted.  The clamp at zero loses decrements when calls overlap, so the *)
(* counter may stay too high.                                              *)
(***************************************************************************)
NeverUnderReports ==
    counter + unseen + Cardinality(Uncounted) >= Cardinality(running) + Cardinality(Undone)

\* Stop ends every heartbeat loop, also those of a Start that was under way or
\* comes later.
StopEndsLoops == [](stopChan = "closed" => <>(loops = 0))
=============================================================================
