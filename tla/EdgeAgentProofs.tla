--------------------------- MODULE EdgeAgentProofs ---------------------------
(***************************************************************************)
(* Proofs about EdgeAgent, for any number of concurrent callers.           *)
(***************************************************************************)
EXTENDS EdgeAgent, FiniteSetTheorems, TLAPS

\* The agent's variables keep their Go types.
THEOREM TypeCorrect == Spec => []TypeOK
  <1>1. Init => TypeOK
    BY DEF Init, TypeOK
  <1>2. TypeOK /\ [Next]_vars => TypeOK'
    <2> SUFFICES ASSUME TypeOK, [Next]_vars PROVE TypeOK'
      OBVIOUS
    <2> USE DEF TypeOK, workVars, agentVars
    <2>1. ASSUME NEW c \in Callers, NEW w \in Workloads, DeployWorkload(c, w) PROVE TypeOK'
      BY <2>1 DEF DeployWorkload
    <2>2. ASSUME NEW c \in Callers, NEW w \in Workloads, DestroyWorkload(c, w) PROVE TypeOK'
      BY <2>2 DEF DestroyWorkload
    <2>3. ASSUME NEW c \in Callers, Count(c) PROVE TypeOK'
      BY <2>3 DEF Count, CountDeployed, CountDestroyed
    <2>4. ASSUME NEW w \in Workloads, DeployWorkloadFails(w) \/ DestroyWorkloadFails(w) PROVE TypeOK'
      BY <2>4 DEF DeployWorkloadFails, DestroyWorkloadFails
    <2>5. CASE Start \/ StartConnected \/ StartFails \/ Stop
      BY <2>5 DEF Start, StartConnected, StartFails, Stop
    <2>6. CASE HeartbeatLoopEnds \/ HeartbeatLoopDone
      BY <2>6 DEF HeartbeatLoopEnds, HeartbeatLoopDone
    <2>7. CASE UNCHANGED vars
      BY <2>7 DEF vars
    <2> QED
      BY <2>1, <2>2, <2>3, <2>4, <2>5, <2>6, <2>7 DEF Next
  <1> QED
    BY <1>1, <1>2, PTL DEF Spec

\* The sets the counter is compared with are finite.
LEMMA Finite ==
    ASSUME TypeOK
    PROVE  /\ IsFiniteSet(running) /\ Cardinality(running) \in Nat
           /\ IsFiniteSet(Uncounted) /\ Cardinality(Uncounted) \in Nat
           /\ IsFiniteSet(Undone) /\ Cardinality(Undone) \in Nat
  BY AgentAssumption, FS_Subset, FS_CardinalityType DEF TypeOK, Uncounted, Undone

(***************************************************************************)
(* The backend refuses to deploy what runs and to destroy what does not.   *)
(***************************************************************************)
Exact == Driver \in {"docker", "kubernetes"}

\* No step of DeployWorkload, DestroyWorkload or the loops makes the counter miss
\* a workload.
LEMMA ReportStep ==
    ASSUME Exact, TypeOK, NeverUnderReports, [Next]_vars
    PROVE  NeverUnderReports'
  <1> USE Finite
  <1>1. ASSUME NEW c \in Callers, NEW w \in Workloads, DeployWorkload(c, w)
        PROVE  NeverUnderReports'
    <2>1. w \notin running /\ running' = running \cup {w} /\ UNCHANGED <<counter, unseen>>
      BY <1>1 DEF DeployWorkload, DeployRefused, Exact
    <2>2. pc[c] = "idle" /\ pc' = [pc EXCEPT ![c] = "count"]
      BY <1>1 DEF DeployWorkload
    <2>3. c \notin Uncounted /\ Uncounted' = Uncounted \cup {c} /\ Undone' = Undone
      BY <2>2 DEF TypeOK, Uncounted, Undone
    <2>4. Cardinality(running') = Cardinality(running) + 1
      BY <2>1, FS_AddElement
    <2>5. Cardinality(Uncounted') = Cardinality(Uncounted) + 1
      BY <2>3, FS_AddElement
    <2> QED
      BY <2>1, <2>3, <2>4, <2>5 DEF NeverUnderReports, TypeOK
  <1>2. ASSUME NEW c \in Callers, NEW w \in Workloads, DestroyWorkload(c, w)
        PROVE  NeverUnderReports'
    <2>1. w \in running /\ running' = running \ {w} /\ UNCHANGED <<counter, unseen>>
      BY <1>2 DEF DestroyWorkload, DestroyRefused, Exact
    <2>2. pc[c] = "idle" /\ pc' = [pc EXCEPT ![c] = "uncount"]
      BY <1>2 DEF DestroyWorkload
    <2>3. c \notin Undone /\ Undone' = Undone \cup {c} /\ Uncounted' = Uncounted
      BY <2>2 DEF TypeOK, Uncounted, Undone
    <2>4. Cardinality(running') = Cardinality(running) - 1
      BY <2>1, FS_RemoveElement
    <2>5. Cardinality(Undone') = Cardinality(Undone) + 1
      BY <2>3, FS_AddElement
    <2> QED
      BY <2>1, <2>3, <2>4, <2>5 DEF NeverUnderReports, TypeOK
  <1>3. ASSUME NEW c \in Callers, CountDeployed(c) PROVE NeverUnderReports'
    <2>1. /\ pc[c] = "count" /\ pc' = [pc EXCEPT ![c] = "idle"]
          /\ counter' = counter + 1 /\ UNCHANGED <<running, unseen>>
      BY <1>3 DEF CountDeployed
    <2>2. c \in Uncounted /\ Uncounted' = Uncounted \ {c} /\ Undone' = Undone
      BY <2>1 DEF TypeOK, Uncounted, Undone
    <2>3. Cardinality(Uncounted') = Cardinality(Uncounted) - 1
      BY <2>2, FS_RemoveElement
    <2> QED
      BY <2>1, <2>2, <2>3 DEF NeverUnderReports, TypeOK
  <1>4. ASSUME NEW c \in Callers, CountDestroyed(c) PROVE NeverUnderReports'
    <2>1. /\ pc[c] = "uncount" /\ pc' = [pc EXCEPT ![c] = "idle"]
          /\ counter' = IF counter > 0 THEN counter - 1 ELSE counter
          /\ UNCHANGED <<running, unseen>>
      BY <1>4 DEF CountDestroyed
    <2>2. c \in Undone /\ Undone' = Undone \ {c} /\ Uncounted' = Uncounted
      BY <2>1 DEF TypeOK, Uncounted, Undone
    <2>3. Cardinality(Undone') = Cardinality(Undone) - 1
      BY <2>2, FS_RemoveElement
    <2> QED
      BY <2>1, <2>2, <2>3 DEF NeverUnderReports, TypeOK
  <1>5. ASSUME NEW w \in Workloads, DestroyWorkloadFails(w) PROVE NeverUnderReports'
    <2>1. /\ running' = running \ {w} /\ UNCHANGED <<counter, unseen>>
          /\ Uncounted' = Uncounted /\ Undone' = Undone
      BY <1>5 DEF DestroyWorkloadFails, Uncounted, Undone
    <2>2. Cardinality(running') <= Cardinality(running) /\ Cardinality(running') \in Nat
      BY <2>1, FS_Subset, FS_CardinalityType
    <2> QED
      BY <2>1, <2>2 DEF NeverUnderReports, TypeOK
  <1>6. ASSUME NEW w \in Workloads, DeployWorkloadFails(w) PROVE NeverUnderReports'
    <2>1. /\ w \notin running /\ running' = running \cup {w}
          /\ unseen' = unseen + 1 /\ UNCHANGED <<counter, pc>>
      BY <1>6 DEF DeployWorkloadFails, DeployRefused, Exact
    <2>2. Uncounted' = Uncounted /\ Undone' = Undone
      BY <2>1 DEF Uncounted, Undone
    <2>3. Cardinality(running') = Cardinality(running) + 1
      BY <2>1, FS_AddElement
    <2> QED
      BY <2>1, <2>2, <2>3 DEF NeverUnderReports, TypeOK
  <1>7. CASE \/ Start \/ StartConnected \/ StartFails \/ Stop
             \/ HeartbeatLoopEnds \/ HeartbeatLoopDone
    <2>1. UNCHANGED <<running, counter, unseen, pc>>
      BY <1>7 DEF Start, StartConnected, StartFails, Stop, HeartbeatLoopEnds,
                  HeartbeatLoopDone, workVars
    <2> QED
      BY <2>1 DEF NeverUnderReports, Uncounted, Undone
  <1>8. CASE UNCHANGED vars
    BY <1>8 DEF vars, NeverUnderReports, Uncounted, Undone
  <1> QED
    BY <1>1, <1>2, <1>3, <1>4, <1>5, <1>6, <1>7, <1>8 DEF Next, Count

\* DeployWorkload and DestroyWorkload may overlap in any way: RunningWorkloads
\* never falls below the workloads that run, short of those still to be counted
\* and of those a failing Deploy left.
THEOREM ReportsEveryWorkload == Exact => (Spec => []NeverUnderReports)
  <1> SUFFICES ASSUME Exact PROVE Spec => []NeverUnderReports
    OBVIOUS
  <1>1. Init => NeverUnderReports
    <2> SUFFICES ASSUME Init PROVE NeverUnderReports
      OBVIOUS
    <2>1. running = {} /\ Uncounted = {} /\ Undone = {} /\ counter = 0 /\ unseen = 0
      BY DEF Init, Uncounted, Undone
    <2> QED
      BY <2>1, FS_EmptySet DEF NeverUnderReports
  <1>2. TypeOK /\ NeverUnderReports /\ [Next]_vars => NeverUnderReports'
    BY ReportStep
  <1> QED
    BY <1>1, <1>2, TypeCorrect, PTL DEF Spec
=============================================================================
