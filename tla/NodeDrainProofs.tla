--------------------------- MODULE NodeDrainProofs ---------------------------
(***************************************************************************)
(* Theorems about NodeDrain: any number of drains, pods and updates.       *)
(***************************************************************************)
EXTENDS NodeDrain, TLAPS

\* A copy of the node is outdated or exact: the version tells.
CopiesTell ==
    /\ node.others <= node.version
    /\ \A d \in Drainers :
        /\ copy[d].others <= copy[d].version
        /\ copy[d].version <= node.version /\ copy[d].others <= node.others
        /\ copy[d].version = node.version => copy[d] = node

\* A listed pod is to be looked at, counted as remaining, kube-proxy's, or deleted.
Evicted == \A d \in Drainers :
    /\ pc[d] \in {"evict", "Drained", "Evicting"} =>
        \A p \in listed[d] \ (todo[d] \cup kept[d] \cup ProxyPods) :
            pod[p] \in {"terminating", "gone"}
    /\ pc[d] = "Drained" => todo[d] = {} /\ kept[d] = {}

IInv == TypeOK /\ CopiesTell /\ CordonKept /\ Evicted

LEMMA InitIInv == Init => IInv
  <1> SUFFICES ASSUME Init PROVE IInv
    OBVIOUS
  <1>1. NewNode \in Nodes /\ NewNode.others <= NewNode.version
    BY DrainAssumption DEF NewNode, Nodes
  <1>2. TypeOK
    BY <1>1 DEF Init, TypeOK, PodStates
  <1>3. CopiesTell /\ CordonKept /\ Evicted
    BY <1>1 DEF Init, CopiesTell, CordonKept, Evicted, Nodes
  <1> QED
    BY <1>2, <1>3 DEF IInv

\* A drain reads the node.
LEMMA GetStep ==
    ASSUME IInv, NEW d \in Drainers, NEW i \in BOOLEAN, DrainGet(d, i)
    PROVE  IInv'
  <1> USE DEF IInv
  <1>1. ignore' \in [Drainers -> BOOLEAN]
    BY Zenon DEF DrainGet, TypeOK
  <1>2. TypeOK'
    BY <1>1 DEF DrainGet, TypeOK, Goto
  <1>3. CopiesTell'
    BY DEF DrainGet, TypeOK, CopiesTell, Nodes
  <1>4. CordonKept' /\ Evicted'
    BY DEF DrainGet, TypeOK, CordonKept, Evicted, Goto
  <1> QED
    BY <1>2, <1>3, <1>4

\* Its update is accepted only when the copy is the node itself.
LEMMA CordonStep ==
    ASSUME IInv, NEW d \in Drainers, DrainCordon(d)
    PROVE  /\ IInv'
           /\ node' = [node EXCEPT !.version = node.version + 1, !.cordoned = TRUE]
  <1> USE DEF IInv
  <1>1. copy[d] = node /\ node.version < MaxVersion
    BY DEF DrainCordon, CopiesTell
  <1>2. node' = [node EXCEPT !.version = node.version + 1, !.cordoned = TRUE]
    BY <1>1 DEF DrainCordon
  <1>3. /\ node' \in Nodes /\ node'.version = node.version + 1
        /\ node'.cordoned /\ node'.others = node.others
        /\ node.version \in Nat /\ node.others \in Nat
    <2>1. node \in Nodes /\ node.version \in Nat /\ node.others \in Nat
      BY DrainAssumption DEF TypeOK, Nodes
    <2>2. node.version + 1 \in 0 .. MaxVersion
      BY <1>1, <2>1, DrainAssumption
    <2> QED
      BY <1>2, <2>1, <2>2 DEF Nodes
  <1>4. TypeOK'
    BY <1>3 DEF DrainCordon, TypeOK, Goto
  <1>5. CopiesTell'
    <2>1. \A c \in Drainers : copy[c].version \in Nat /\ copy'[c] = copy[c]
      BY DrainAssumption DEF TypeOK, Nodes, DrainCordon
    <2> QED
      BY <1>3, <2>1 DEF CopiesTell
  <1>6. CordonKept' /\ Evicted'
    BY <1>3 DEF DrainCordon, TypeOK, CordonKept, Evicted, Goto
  <1> QED
    BY <1>2, <1>4, <1>5, <1>6

\* The rest of a drain leaves the node and the copies alone.
LEMMA DrainStep ==
    ASSUME IInv, NEW d \in Drainers,
           \/ DrainFails(d) \/ DrainList(d) \/ DrainEnd(d)
           \/ \E p \in Pods : DrainSkip(d, p) \/ DrainDelete(d, p) \/ DrainDeleteFails(d, p)
    PROVE  IInv' /\ UNCHANGED node
  <1> USE DEF IInv
  <1>1. UNCHANGED <<node, copy>>
    BY DEF DrainFails, DrainList, DrainEnd, DrainSkip, DrainDelete, DrainDeleteFails
  <1>2. CopiesTell'
    BY <1>1 DEF CopiesTell
  <1>3. CASE DrainFails(d)
    BY <1>1, <1>2, <1>3 DEF DrainFails, Goto, TypeOK, CordonKept, Evicted, Returned
  <1>4. CASE DrainList(d)
    <2>1. TypeOK'
      BY <1>4 DEF DrainList, Goto, TypeOK
    <2> QED
      BY <1>1, <1>2, <1>4, <2>1 DEF DrainList, Goto, TypeOK, CordonKept, Evicted, Returned
  <1>5. CASE DrainEnd(d)
    BY <1>1, <1>2, <1>5 DEF DrainEnd, Goto, TypeOK, CordonKept, Evicted, Returned
  <1>6. ASSUME NEW p \in Pods, DrainSkip(d, p) PROVE IInv'
    <2>1. TypeOK'
      BY <1>6 DEF DrainSkip, TypeOK
    <2>2. CordonKept'
      BY <1>6 DEF DrainSkip, CordonKept
    <2>3. Evicted'
      BY <1>6 DEF DrainSkip, Skipped, TypeOK, Evicted
    <2> QED
      BY <1>2, <2>1, <2>2, <2>3
  <1>7. ASSUME NEW p \in Pods, DrainDelete(d, p) PROVE IInv'
    <2>1. TypeOK'
      BY <1>7 DEF DrainDelete, TypeOK, PodStates
    <2>2. CordonKept'
      BY <1>7 DEF DrainDelete, CordonKept
    <2>3. Evicted'
      BY <1>7 DEF DrainDelete, TypeOK, Evicted
    <2> QED
      BY <1>2, <2>1, <2>2, <2>3
  <1>8. ASSUME NEW p \in Pods, DrainDeleteFails(d, p) PROVE IInv'
    <2>1. TypeOK'
      BY <1>8 DEF DrainDeleteFails, TypeOK
    <2>2. CordonKept'
      BY <1>8 DEF DrainDeleteFails, CordonKept
    <2>3. Evicted'
      BY <1>8 DEF DrainDeleteFails, TypeOK, Evicted
    <2> QED
      BY <1>2, <2>1, <2>2, <2>3
  <1> QED
    BY <1>1, <1>3, <1>4, <1>5, <1>6, <1>7, <1>8

\* Scheduler and kubelets change pods, and never bring one back.
LEMMA PodStep ==
    ASSUME IInv, NEW p \in Pods, Choose(p) \/ Bind(p) \/ PodEnds(p)
    PROVE  IInv' /\ UNCHANGED node
  <1> USE DEF IInv
  <1>1. UNCHANGED <<node, drainVars>> /\ pod' \in [Pods -> PodStates]
    BY DEF Choose, Bind, PodEnds, TypeOK, PodStates
  <1>2. \A q \in Pods : pod[q] \in {"terminating", "gone"} => pod'[q] \in {"terminating", "gone"}
    BY DEF Choose, Bind, PodEnds, TypeOK
  <1>3. TypeOK' /\ CopiesTell' /\ CordonKept'
    BY <1>1 DEF TypeOK, CopiesTell, CordonKept, drainVars
  <1>4. Evicted'
    BY <1>1, <1>2 DEF TypeOK, Evicted, drainVars
  <1> QED
    BY <1>1, <1>3, <1>4

LEMMA OtherStep ==
    ASSUME IInv, NEW cordoned \in BOOLEAN, OtherUpdate(cordoned)
    PROVE  IInv' /\ node'.others = node.others + 1
  <1> USE DEF IInv
  <1>1. /\ node.version \in Nat /\ node.others \in Nat
        /\ node.version + 1 \in 0 .. MaxVersion /\ node.others + 1 \in 0 .. MaxVersion
    BY DrainAssumption DEF TypeOK, Nodes, OtherUpdate, CopiesTell
  <1>2. /\ node'.version = node.version + 1 /\ node'.others = node.others + 1
        /\ node' \in Nodes
    BY <1>1 DEF OtherUpdate, Nodes
  <1>3. TypeOK'
    BY <1>2 DEF TypeOK, OtherUpdate, drainVars
  <1>4. \A c \in Drainers : /\ copy[c].version \in Nat /\ copy[c].others \in Nat
                            /\ copy'[c] = copy[c] /\ copy[c].others <= node.others
    BY DrainAssumption DEF TypeOK, Nodes, OtherUpdate, drainVars, CopiesTell
  <1>5. CopiesTell'
    BY <1>1, <1>2, <1>4 DEF CopiesTell
  <1>6. CordonKept' /\ Evicted'
    BY <1>1, <1>2, <1>4 DEF OtherUpdate, drainVars, CordonKept, Evicted
  <1> QED
    BY <1>2, <1>3, <1>5, <1>6

LEMMA NextIInv == IInv /\ [Next]_vars => IInv'
  <1> SUFFICES ASSUME IInv, [Next]_vars PROVE IInv'
    OBVIOUS
  <1>1. CASE UNCHANGED vars
    BY <1>1 DEF IInv, TypeOK, CopiesTell, CordonKept, Evicted, vars
  <1>2. CASE Next
    BY <1>2, GetStep, CordonStep, DrainStep, PodStep, OtherStep DEF Next, Drain
  <1> QED
    BY <1>1, <1>2

LEMMA Invariance == Spec => []IInv
  BY InitIInv, NextIInv, PTL DEF Spec

\* The API objects and the locals of all drains keep to their types; the versions
\* of the node count at least the updates of other clients.
THEOREM TypeCorrect == Spec => []TypeOK
  BY Invariance, PTL DEF IInv

\* DrainNode reports Drained only if every pod it listed, but kube-proxy's, has
\* been deleted, whatever failed and whoever else drains the node.
THEOREM DrainedDeleted == Spec => []DrainedIsDeleted
  <1>1. IInv => DrainedIsDeleted
    BY DEF IInv, Evicted, DrainedIsDeleted
  <1> QED
    BY <1>1, Invariance, PTL

\* What DrainNode has cordoned stays cordoned until another client writes the node:
\* no drain that read it earlier opens it again.
THEOREM CordonStays == Spec => []CordonKept
  BY Invariance, PTL DEF IInv

\* No drain undoes an update of the node made by another client: it only cordons.
THEOREM UpdatesSurvive == Spec => NoLostUpdate
  <1> DEFINE Ok == node' # node =>
                      \/ node'.others = node.others + 1
                      \/ node'.others = node.others /\ node'.cordoned
  <1>1. IInv /\ [Next]_vars => [Ok]_vars
    <2> SUFFICES ASSUME IInv, Next PROVE Ok
      OBVIOUS
    <2>1. node \in Nodes
      BY DEF IInv, TypeOK
    <2>2. CASE \E d \in Drainers : DrainCordon(d)
      <3>1. node' = [node EXCEPT !.version = node.version + 1, !.cordoned = TRUE]
        BY <2>2, CordonStep
      <3> QED
        BY <2>1, <3>1 DEF Nodes
    <2>3. CASE \E cordoned \in BOOLEAN : OtherUpdate(cordoned)
      BY <2>3, OtherStep
    <2>4. CASE UNCHANGED node
      BY <2>4
    <2> QED
      BY <2>2, <2>3, <2>4, DrainStep, PodStep DEF Next, Drain, DrainGet
  <1> QED
    BY <1>1, Invariance, PTL DEF Spec, NoLostUpdate
=============================================================================
