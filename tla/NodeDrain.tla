------------------------------ MODULE NodeDrain ------------------------------
(***************************************************************************)
(* DrainNode of internal/kubernetes/nodes.go: cordon a node, then delete   *)
(* the pods found on it.                                                   *)
(*                                                                         *)
(* A drain is a sequence of API calls.  Meanwhile other drains of the same *)
(* node run, other clients update the node object, the scheduler binds     *)
(* pods to nodes it chose earlier, and pods end by themselves.  The API    *)
(* server refuses an update made from an outdated copy of the node.        *)
(***************************************************************************)
EXTENDS Naturals, FiniteSets

CONSTANTS
    Pods,
    DaemonPods,    \* those a DaemonSet owns
    ProxyPods,     \* kube-proxy's static pods
    Tolerant,      \* those that tolerate the cordon and the taint
    Drainers,      \* goroutines calling DrainNode
    CallsFail,     \* API calls may fail without effect
    MaxVersion     \* bound on the updates of the node object

ASSUME DrainAssumption ==
    /\ DaemonPods \subseteq Pods /\ ProxyPods \subseteq Pods /\ Tolerant \subseteq Pods
    /\ IsFiniteSet(Pods)
    /\ CallsFail \in BOOLEAN /\ MaxVersion \in Nat

VARIABLES
    node,       \* the node object: version, cordon, and what others wrote to it
    pod,        \* state of each pod
    pc,         \* where each drain is, or the phase it returned
    copy,       \* the node object it read
    ignore,     \* its IgnoreDaemonSets
    listed,     \* the pods it listed
    todo,       \* those it has still to look at
    kept        \* those it counted as remaining

vars == <<node, pod, pc, copy, ignore, listed, todo, kept>>

drainVars == <<pc, copy, ignore, listed, todo, kept>>

Nodes == [version : 0 .. MaxVersion, cordoned : BOOLEAN, others : 0 .. MaxVersion]

\* A pod is bound to the node after the scheduler has chosen it.
PodStates == {"pending", "chosen", "running", "terminating", "gone"}

Returned == {"Drained", "Evicting", "Failed"}

NewNode == [version |-> 0, cordoned |-> FALSE, others |-> 0]

Init ==
    /\ node = NewNode
    /\ pod \in [Pods -> {"pending", "running"}]
    /\ pc = [d \in Drainers |-> "idle"]
    /\ copy = [d \in Drainers |-> NewNode]
    /\ ignore = [d \in Drainers |-> FALSE]
    /\ listed = [d \in Drainers |-> {}]
    /\ todo = [d \in Drainers |-> {}]
    /\ kept = [d \in Drainers |-> {}]

Goto(d, label) == pc' = [pc EXCEPT ![d] = label]

-----------------------------------------------------------------------------
\* Fault: the reason of the failure is stored as the phase.
DrainFailsText(d) ==
    /\ pc[d] = "cordon" /\ CallsFail
    /\ Goto(d, "cordon failed")
    /\ UNCHANGED <<node, pod, copy, ignore, listed, todo, kept>>

\* DrainNode reads the node.
DrainGet(d, ignoreDaemonSets) ==
    /\ pc[d] \in {"idle"} \cup Returned
    /\ copy' = [copy EXCEPT ![d] = node]
    /\ ignore' = [ignore EXCEPT ![d] = ignoreDaemonSets]
    /\ listed' = [listed EXCEPT ![d] = {}]
    /\ todo' = [todo EXCEPT ![d] = {}]
    /\ kept' = [kept EXCEPT ![d] = {}]
    /\ Goto(d, "cordon")
    /\ UNCHANGED <<node, pod>>

\* Fault: the update is made without the version that was read.
DrainCordonForced(d) ==
    /\ pc[d] = "cordon"
    /\ node.version < MaxVersion
    /\ node' = [copy[d] EXCEPT !.version = node.version + 1, !.cordoned = TRUE]
    /\ Goto(d, "list")
    /\ UNCHANGED <<pod, copy, ignore, listed, todo, kept>>

\* Fault: the label and the taint are written, Unschedulable is not.
DrainCordonUnset(d) ==
    /\ pc[d] = "cordon"
    /\ copy[d].version = node.version /\ node.version < MaxVersion
    /\ node' = [copy[d] EXCEPT !.version = @ + 1]
    /\ Goto(d, "list")
    /\ UNCHANGED <<pod, copy, ignore, listed, todo, kept>>

\* The copy, with Unschedulable, the label and the taint, replaces the object.
DrainCordon(d) ==
    /\ pc[d] = "cordon"
    /\ copy[d].version = node.version /\ node.version < MaxVersion
    /\ node' = [copy[d] EXCEPT !.version = @ + 1, !.cordoned = TRUE]
    /\ Goto(d, "list")
    /\ UNCHANGED <<pod, copy, ignore, listed, todo, kept>>

\* A conflict, or any failing call before the pods are known, ends the drain.
DrainFails(d) ==
    /\ \/ pc[d] = "cordon" /\ copy[d].version # node.version
       \/ pc[d] \in {"cordon", "list"} /\ CallsFail
    /\ Goto(d, "Failed")
    /\ UNCHANGED <<node, pod, copy, ignore, listed, todo, kept>>

\* Pods that are being deleted are listed too.
DrainList(d) ==
    /\ pc[d] = "list"
    /\ listed' = [listed EXCEPT ![d] = {p \in Pods : pod[p] \in {"running", "terminating"}}]
    /\ todo' = [todo EXCEPT ![d] = listed'[d]]
    /\ Goto(d, "evict")
    /\ UNCHANGED <<node, pod, copy, ignore, kept>>

\* Pods the loop passes over: DaemonSets' count as remaining, kube-proxy does not.
Skipped(d, p) == (ignore[d] /\ p \in DaemonPods) \/ p \in ProxyPods

DrainSkip(d, p) ==
    /\ pc[d] = "evict" /\ p \in todo[d]
    /\ Skipped(d, p)
    /\ todo' = [todo EXCEPT ![d] = @ \ {p}]
    /\ kept' = IF ignore[d] /\ p \in DaemonPods THEN [kept EXCEPT ![d] = @ \cup {p}] ELSE kept
    /\ UNCHANGED <<node, pod, pc, copy, ignore, listed>>

\* The grace period starts; a pod being deleted may be deleted again.
DrainDelete(d, p) ==
    /\ pc[d] = "evict" /\ p \in todo[d]
    /\ ~Skipped(d, p)
    /\ pod[p] # "gone"
    /\ pod' = [pod EXCEPT ![p] = "terminating"]
    /\ todo' = [todo EXCEPT ![d] = @ \ {p}]
    /\ UNCHANGED <<node, pc, copy, ignore, listed, kept>>

\* Fault: a pod that could not be deleted is not counted.
DrainDeleteForgets(d, p) ==
    /\ pc[d] = "evict" /\ p \in todo[d]
    /\ ~Skipped(d, p)
    /\ CallsFail \/ pod[p] = "gone"
    /\ todo' = [todo EXCEPT ![d] = @ \ {p}]
    /\ UNCHANGED <<node, pod, pc, copy, ignore, listed, kept>>

\* A pod that ended since it was listed is an error too.
DrainDeleteFails(d, p) ==
    /\ pc[d] = "evict" /\ p \in todo[d]
    /\ ~Skipped(d, p)
    /\ CallsFail \/ pod[p] = "gone"
    /\ todo' = [todo EXCEPT ![d] = @ \ {p}]
    /\ kept' = [kept EXCEPT ![d] = @ \cup {p}]
    /\ UNCHANGED <<node, pod, pc, copy, ignore, listed>>

DrainEnd(d) ==
    /\ pc[d] = "evict" /\ todo[d] = {}
    /\ Goto(d, IF kept[d] = {} THEN "Drained" ELSE "Evicting")
    /\ UNCHANGED <<node, pod, copy, ignore, listed, todo, kept>>

-----------------------------------------------------------------------------
(***************************************************************************)
(* The cluster: the scheduler chooses the node while it is schedulable, or *)
(* for pods that tolerate that it is not, and binds later; kubelets end    *)
(* pods; other clients update the node object, and cordon or uncordon it.  *)
(***************************************************************************)
Choose(p) ==
    /\ pod[p] = "pending"
    /\ node.cordoned => p \in Tolerant
    /\ pod' = [pod EXCEPT ![p] = "chosen"]
    /\ UNCHANGED <<node, drainVars>>

Bind(p) ==
    /\ pod[p] = "chosen"
    /\ pod' = [pod EXCEPT ![p] = "running"]
    /\ UNCHANGED <<node, drainVars>>

PodEnds(p) ==
    /\ pod[p] \in {"running", "terminating"}
    /\ pod' = [pod EXCEPT ![p] = "gone"]
    /\ UNCHANGED <<node, drainVars>>

OtherUpdate(cordoned) ==
    /\ node.version < MaxVersion
    /\ node' = [version |-> node.version + 1, cordoned |-> cordoned, others |-> node.others + 1]
    /\ UNCHANGED <<pod, drainVars>>

-----------------------------------------------------------------------------
Drain(d) ==
    \/ DrainCordon(d) \/ DrainFails(d) \/ DrainList(d) \/ DrainEnd(d)
    \/ \E p \in Pods : DrainSkip(d, p) \/ DrainDelete(d, p) \/ DrainDeleteFails(d, p)

Next ==
    \/ \E d \in Drainers : (\E i \in BOOLEAN : DrainGet(d, i)) \/ Drain(d)
    \/ \E p \in Pods : Choose(p) \/ Bind(p) \/ PodEnds(p)
    \/ \E cordoned \in BOOLEAN : OtherUpdate(cordoned)

Spec == Init /\ [][Next]_vars

-----------------------------------------------------------------------------
\* The API objects and the drains' locals hold values of their types.
TypeOK ==
    /\ node \in Nodes
    /\ pod \in [Pods -> PodStates]
    /\ pc \in [Drainers -> {"idle", "cordon", "list", "evict"} \cup Returned]
    /\ copy \in [Drainers -> Nodes]
    /\ ignore \in [Drainers -> BOOLEAN]
    /\ listed \in [Drainers -> SUBSET Pods]
    /\ todo \in [Drainers -> SUBSET Pods]
    /\ kept \in [Drainers -> SUBSET Pods]

(***************************************************************************)
(* No update of the node object is lost: a step that changes it is either  *)
(* another client's, or a drain's that cordons it and keeps all that other *)
(* clients have written, also between the drain's read and its write.      *)
(***************************************************************************)
NoLostUpdate ==
    [][node' # node =>
        \/ node'.others = node.others + 1
        \/ node'.others = node.others /\ node'.cordoned]_vars

(***************************************************************************)
(* What a drain has cordoned stays so until another client lifts it: past  *)
(* its update the node is cordoned, or somebody wrote it since the drain   *)
(* read it; no other drain, however old its copy, opens the node again.    *)
(***************************************************************************)
CordonKept ==
    \A d \in Drainers :
        pc[d] \in {"list", "evict", "Drained", "Evicting"} =>
            node.cordoned \/ node.others > copy[d].others

(***************************************************************************)
(* A drain that reports Drained has deleted every pod it found on the node *)
(* but kube-proxy's, DaemonSets' included, whatever failed on the way and  *)
(* whoever else deleted pods.                                              *)
(***************************************************************************)
DrainedIsDeleted ==
    \A d \in Drainers : pc[d] = "Drained" =>
        \A p \in listed[d] \ ProxyPods : pod[p] \in {"terminating", "gone"}
=============================================================================
