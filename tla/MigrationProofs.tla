--------------------------- MODULE MigrationProofs ---------------------------
(***************************************************************************)
(* Proofs about MigrationOrchestrator, for any set of concurrent callers.  *)
(***************************************************************************)
EXTENDS MigrationOrchestrator, FiniteSetTheorems, TLAPS

\* A migration under way has a request with two different backends.
LEMMA Underway ==
    ASSUME TypeOK, NEW m \in Migrations, pc[m] # "idle", m \notin Ended
    PROVE  /\ req[m] \in Requests
           /\ req[m].source \in Hosts /\ req[m].target \in Hosts
  <1>1. req[m] # None
    BY DEF TypeOK, Ended
  <1>2. req[m] \in Requests
    BY <1>1 DEF TypeOK
  <1> QED
    BY <1>2 DEF Requests

\* A driver call leaves every other instance alone.
LEMMA CallType ==
    ASSUME TypeOK, NEW m \in Migrations, NEW n \in Names, NEW b \in Hosts,
           \/ Deploy(m, n, b) \/ DeployFails(m, n, b)
           \/ Destroy(m, n, b) \/ DestroyFails(m, n, b)
    PROVE  inst' \in [Names -> [Hosts -> InstStates]]
  <1>1. \/ inst' = inst
        \/ \E st \in InstStates : inst' = [inst EXCEPT ![n][b] = st]
    <2>1. CASE Deploy(m, n, b)
      BY <2>1 DEF Deploy, InstStates
    <2>2. CASE DeployFails(m, n, b)
      BY <2>2 DEF DeployFails, InstStates
    <2>3. CASE Destroy(m, n, b)
      BY <2>3 DEF Destroy, InstStates
    <2>4. CASE DestroyFails(m, n, b)
      BY <2>4 DEF DestroyFails, InstStates
    <2> QED
      BY <2>1, <2>2, <2>3, <2>4
  <1>2. inst \in [Names -> [Hosts -> InstStates]]
    BY DEF TypeOK
  <1> QED
    BY <1>1, <1>2

\* Moving to the next call keeps the types.
LEMMA GotoType ==
    ASSUME TypeOK, NEW m \in Migrations, NEW label \in Labels, Goto(m, label),
           pc[m] # "idle", m \notin Ended
    PROVE  /\ pc' \in [Migrations -> Labels]
           /\ req' \in [Migrations -> Requests \cup {None}]
           /\ \A k \in Migrations : req'[k] = None => pc'[k] \in {"idle", "completed", "failed"}
           /\ cancelled' \subseteq Migrations
  <1>1. req[m] # None
    BY DEF TypeOK, Ended
  <1> QED
    BY <1>1 DEF Goto, TypeOK

\* Each step of a migration is a driver call, or none, and a move.
LEMMA StepShape ==
    ASSUME NEW m \in Migrations, Step(m)
    PROVE  /\ pc[m] # "idle" /\ m \notin Ended
           /\ \E label \in Labels : Goto(m, label)
           /\ \/ UNCHANGED inst
              \/ \E n \in Names, b \in {req[m].source, req[m].target} :
                    \/ Deploy(m, n, b) \/ DeployFails(m, n, b)
                    \/ Destroy(m, n, b) \/ DestroyFails(m, n, b)
  <1> USE DEF Ended, Labels, Names
  <1>1. CASE LoadStatus(m)
    BY <1>1 DEF LoadStatus
  <1>2. CASE DeployShadow(m)
    BY <1>2 DEF DeployShadow
  <1>3. CASE WaitShadow(m)
    BY <1>3 DEF WaitShadow
  <1>4. CASE DeployFinal(m)
    BY <1>4 DEF DeployFinal
  <1>5. CASE WaitFinal(m)
    BY <1>5 DEF WaitFinal
  <1>6. CASE Cutover(m)
    BY <1>6 DEF Cutover
  <1>7. CASE UndoFinal(m)
    BY <1>7 DEF UndoFinal, TryDestroy
  <1>8. CASE UndoShadow(m)
    BY <1>8 DEF UndoShadow, TryDestroy
  <1>9. CASE DropShadow(m)
    BY <1>9 DEF DropShadow, TryDestroy
  <1> QED
    BY <1>1, <1>2, <1>3, <1>4, <1>5, <1>6, <1>7, <1>8, <1>9 DEF Step

\* Every step of MigrateWorkload keeps the variables' types.
LEMMA TypeStep == TypeOK /\ [Next]_vars => TypeOK'
  <1> SUFFICES ASSUME TypeOK, [Next]_vars PROVE TypeOK'
    OBVIOUS
  <1>1. ASSUME NEW m \in Migrations, Begin(m) PROVE TypeOK'
    <2>1. PICK r \in Requests, label \in {"load", "shadow", "final"} :
            req' = [req EXCEPT ![m] = r] /\ pc' = [pc EXCEPT ![m] = label]
      BY <1>1 DEF Begin
    <2> QED
      BY <1>1, <2>1, MigrationAssumption DEF Begin, TypeOK, Labels
  <1>2. ASSUME NEW m \in Migrations, Step(m) PROVE TypeOK'
    <2>1. PICK label \in Labels : Goto(m, label)
      BY <1>2, StepShape
    <2>2. pc[m] # "idle" /\ m \notin Ended
      BY <1>2, StepShape
    <2>3. inst' \in [Names -> [Hosts -> InstStates]]
      <3>1. req[m].source \in Hosts /\ req[m].target \in Hosts
        BY <2>2, Underway
      <3>2. CASE UNCHANGED inst
        BY <3>2 DEF TypeOK
      <3>3. ASSUME NEW n \in Names, NEW b \in {req[m].source, req[m].target},
                   \/ Deploy(m, n, b) \/ DeployFails(m, n, b)
                   \/ Destroy(m, n, b) \/ DestroyFails(m, n, b)
            PROVE  inst' \in [Names -> [Hosts -> InstStates]]
        BY <3>1, <3>3, CallType
      <3> QED
        BY <1>2, <3>2, <3>3, StepShape
    <2> QED
      BY <2>1, <2>2, <2>3, GotoType DEF TypeOK
  <1>3. ASSUME NEW m \in Migrations, Cancel(m) PROVE TypeOK'
    BY <1>3 DEF Cancel, TypeOK
  <1>4. ASSUME NEW n \in Names, NEW b \in Hosts, Start(n, b) \/ Exit(b) PROVE TypeOK'
    BY <1>4 DEF Start, Exit, TypeOK, InstStates, Names
  <1>5. CASE UNCHANGED vars
    BY <1>5 DEF vars, TypeOK
  <1> QED
    BY <1>1, <1>2, <1>3, <1>4, <1>5 DEF Next, Names

\* The backends and the migrations keep their types in every execution.
THEOREM TypeCorrect == Spec => []TypeOK
  <1>1. Init => TypeOK
    BY HostAssumption DEF Init, TypeOK, Labels, InstStates, Names
  <1> QED
    BY <1>1, TypeStep, PTL DEF Spec

-----------------------------------------------------------------------------
(***************************************************************************)
(* A set C of copies and a set O of migrations that owe a removal become D *)
(* and P: nothing is removed but by a migration whose copy was added, and  *)
(* it removes one.                                                         *)
(***************************************************************************)
Balanced(C, D, O, P) ==
    \/ C \subseteq D /\ P \subseteq O
    \/ \E m \in Migrations, b \in Hosts :
         \/ b \notin C /\ D = C \cup {b} /\ P \subseteq O \cup {m}
         \/ m \in O /\ C \ {b} \subseteq D /\ P \subseteq O \ {m}

\* A balanced change keeps one copy more than there are debts.
LEMMA Balance ==
    ASSUME NEW C \in SUBSET Hosts, NEW D \in SUBSET Hosts,
           NEW O \in SUBSET Migrations, NEW P \in SUBSET Migrations,
           Cardinality(C) >= 1 + Cardinality(O), Balanced(C, D, O, P)
    PROVE  Cardinality(D) >= 1 + Cardinality(P)
  <1>0. IsFiniteSet(C) /\ IsFiniteSet(D) /\ IsFiniteSet(O) /\ IsFiniteSet(P)
    BY HostAssumption, MigrationAssumption, FS_Subset
  <1>1. /\ Cardinality(C) \in Nat /\ Cardinality(D) \in Nat
        /\ Cardinality(O) \in Nat /\ Cardinality(P) \in Nat
    BY <1>0, FS_CardinalityType
  <1>2. CASE C \subseteq D /\ P \subseteq O
    <2>1. Cardinality(C) <= Cardinality(D) /\ Cardinality(P) <= Cardinality(O)
      BY <1>0, <1>2, FS_Subset
    <2> QED
      BY <1>1, <2>1
  <1>3. ASSUME NEW m \in Migrations, NEW b \in Hosts,
               b \notin C, D = C \cup {b}, P \subseteq O \cup {m}
        PROVE  Cardinality(D) >= 1 + Cardinality(P)
    <2>1. Cardinality(D) = Cardinality(C) + 1
      BY <1>0, <1>3, FS_AddElement
    <2>2. /\ IsFiniteSet(O \cup {m})
          /\ Cardinality(O \cup {m}) = Cardinality(O) \/ Cardinality(O \cup {m}) = Cardinality(O) + 1
      BY <1>0, FS_AddElement
    <2>3. Cardinality(P) <= Cardinality(O \cup {m})
      BY <1>3, <2>2, FS_Subset
    <2> QED
      BY <1>1, <2>1, <2>2, <2>3
  <1>4. ASSUME NEW m \in O, NEW b \in Hosts, C \ {b} \subseteq D, P \subseteq O \ {m}
        PROVE  Cardinality(D) >= 1 + Cardinality(P)
    <2>1. \/ Cardinality(C \ {b}) = Cardinality(C)
          \/ Cardinality(C \ {b}) = Cardinality(C) - 1
      BY <1>0, FS_RemoveElement
    <2>2. Cardinality(C \ {b}) <= Cardinality(D)
      BY <1>0, <1>4, FS_Subset
    <2>3. IsFiniteSet(O \ {m}) /\ Cardinality(O \ {m}) = Cardinality(O) - 1
      BY <1>0, FS_RemoveElement
    <2>4. Cardinality(P) <= Cardinality(O \ {m})
      BY <1>4, <2>3, FS_Subset
    <2> QED
      BY <1>1, <2>1, <2>2, <2>3, <2>4
  <1> QED
    BY <1>2, <1>3, <1>4 DEF Balanced

-----------------------------------------------------------------------------
(***************************************************************************)
(* The copies that count: started ones, and Deployments, which no call has *)
(* to start.  A container that was created and not started is none.        *)
(***************************************************************************)
Copies == Started("work") \cup {b \in Hosts : b = "kubernetes" /\ inst["work"][b] = "Created"}

\* Calls about the shadow do not touch the workload.
LEMMA ShadowCall ==
    ASSUME TypeOK, NEW m \in Migrations, NEW b \in Hosts,
           \/ Deploy(m, "shadow", b) \/ DeployFails(m, "shadow", b)
           \/ Destroy(m, "shadow", b) \/ DestroyFails(m, "shadow", b)
    PROVE  inst'["work"] = inst["work"]
  BY DEF Deploy, DeployFails, Destroy, DestroyFails, TypeOK, Names

\* Deploying the workload where it is refused when it exists adds a copy.
LEMMA DeployWork ==
    ASSUME TypeOK, NEW m \in Migrations, NEW b \in Hosts, b # "compose", Deploy(m, "work", b)
    PROVE  /\ b \notin Copies /\ Copies' = Copies \cup {b}
           /\ b \notin Started("work")
           /\ Started("work")' = IF b = "kubernetes" THEN Started("work") ELSE Started("work") \cup {b}
  <1>1. inst["work"][b] = "Absent"
    BY DEF Deploy, CanDeploy, DeployRefused, Present
  <1>2. inst' = [inst EXCEPT !["work"][b] = IF b = "kubernetes" THEN "Created" ELSE "Running"]
    BY DEF Deploy
  <1>3. \A h \in Hosts : inst'["work"][h] =
            IF h # b THEN inst["work"][h] ELSE IF b = "kubernetes" THEN "Created" ELSE "Running"
    BY <1>2 DEF TypeOK, Names
  <1> QED
    BY <1>1, <1>3 DEF Copies, Started

\* A failing Deploy of the workload takes no copy away.
LEMMA DeployWorkFails ==
    ASSUME TypeOK, NEW m \in Migrations, NEW b \in Hosts, DeployFails(m, "work", b)
    PROVE  Copies \subseteq Copies' /\ Started("work") \subseteq Started("work")'
  <1>1. \A h \in Hosts : inst'["work"][h] = inst["work"][h] \/ inst["work"][h] = "Absent"
    BY DEF DeployFails, Present, TypeOK, Names
  <1> QED
    BY <1>1 DEF Copies, Started

\* Destroying the workload on a backend takes away that copy at most.
LEMMA DestroyWork ==
    ASSUME TypeOK, NEW m \in Migrations, NEW b \in Hosts,
           Destroy(m, "work", b) \/ DestroyFails(m, "work", b)
    PROVE  /\ Copies \ {b} \subseteq Copies'
           /\ Started("work") \ {b} \subseteq Started("work")'
           /\ inst' = inst \/ inst'["work"][b] = "Absent"
  <1>1. inst' = inst \/ inst' = [inst EXCEPT !["work"][b] = "Absent"]
    BY DEF Destroy, DestroyFails
  <1>2. \A h \in Hosts : h # b => inst'["work"][h] = inst["work"][h]
    BY <1>1 DEF TypeOK, Names
  <1> QED
    BY <1>1, <1>2 DEF Copies, Started, TypeOK, Names

\* A process that starts or exits, and a pod that becomes ready, take no copy away.
LEMMA ProcessChange ==
    ASSUME TypeOK, NEW n \in Names, NEW b \in Hosts, Start(n, b) \/ Exit(b)
    PROVE  Copies \subseteq Copies' /\ Started("work") \subseteq Started("work")'
  <1>1. \A h \in Hosts :
          \/ inst'["work"][h] = inst["work"][h]
          \/ inst'["work"][h] \in {"Running", "Exited"}
    BY DEF Start, Exit, TypeOK, Names
  <1> QED
    BY <1>1 DEF Copies, Started

(***************************************************************************)
(* Debts that a started copy stands for: all but those of migrations whose *)
(* Deployment they have not seen ready, and which therefore remove nothing *)
(* but that Deployment.                                                    *)
(***************************************************************************)
Settled == {m \in Owing : pc[m] = "cutover" \/ req[m].target # "kubernetes"}

\* A Deployment of the workload exists that no pod came up for.
Pending == "kubernetes" \in Hosts /\ inst["work"]["kubernetes"] = "Created"

\* Every step changes copies and debts together; as long as a Deployment is
\* pending also started copies and settled debts.
LEMMA Changes ==
    ASSUME "compose" \notin Hosts, TypeOK, [Next]_vars
    PROVE  /\ Balanced(Copies, Copies', Owing, Owing')
           /\ Pending' => Balanced(Started("work"), Started("work")', Settled, Settled')
  <1> DEFINE Both == /\ Balanced(Copies, Copies', Owing, Owing')
                     /\ Pending' => Balanced(Started("work"), Started("work")', Settled, Settled')
  <1>0. ASSUME Copies \subseteq Copies', Started("work") \subseteq Started("work")',
               Owing' \subseteq Owing, Settled' \subseteq Settled
        PROVE  Both
    BY <1>0 DEF Balanced
  <1>1. ASSUME NEW m \in Migrations, Begin(m) PROVE Both
    <2>1. PICK label \in {"load", "shadow", "final"} : pc' = [pc EXCEPT ![m] = label]
      BY <1>1 DEF Begin
    <2>2. Owing' = Owing /\ m \notin Owing
      BY <1>1, <2>1 DEF Begin, Ended, TypeOK, Owing
    <2>3. Settled' \subseteq Settled
      BY <1>1, <2>1, <2>2 DEF Begin, TypeOK, Settled, Owing
    <2>4. Copies' = Copies /\ Started("work")' = Started("work")
      BY <1>1 DEF Begin, Copies, Started
    <2> QED
      BY <1>0, <2>2, <2>3, <2>4
  <1>2. ASSUME NEW m \in Migrations, Step(m) PROVE Both
    <2>1. /\ req[m].source \in Hosts /\ req[m].target \in Hosts
          /\ pc[m] # "idle" /\ m \notin Ended
      BY <1>2, StepShape, Underway
    <2>2. ASSUME NEW label \in Labels, Goto(m, label)
          PROVE  /\ pc' = [pc EXCEPT ![m] = label]
                 /\ label \notin {"completed", "failed"} => req' = req
                 /\ \A k \in Migrations : k # m => req'[k] = req[k] /\ pc'[k] = pc[k]
                 /\ pc'[m] = label
      BY <2>2 DEF Goto, TypeOK
    <2> USE DEF Labels
    <2>3. CASE LoadStatus(m) \/ WaitShadow(m)
      <3>1. Owing' \subseteq Owing /\ Settled' \subseteq Settled
        BY <2>2, <2>3 DEF LoadStatus, WaitShadow, Owing, Settled
      <3>2. Copies' = Copies /\ Started("work")' = Started("work")
        BY <2>3 DEF LoadStatus, WaitShadow, Copies, Started
      <3> QED
        BY <1>0, <3>1, <3>2
    <2>4. CASE DeployShadow(m) \/ UndoShadow(m) \/ DropShadow(m)
      <3>1. Owing' \subseteq Owing /\ Settled' \subseteq Settled
        BY <2>2, <2>4 DEF DeployShadow, UndoShadow, DropShadow, Owing, Settled
      <3>2. inst'["work"] = inst["work"]
        BY <2>1, <2>4, ShadowCall DEF DeployShadow, UndoShadow, DropShadow, TryDestroy
      <3>3. Copies' = Copies /\ Started("work")' = Started("work")
        BY <3>2 DEF Copies, Started
      <3> QED
        BY <1>0, <3>1, <3>3
    <2>5. CASE WaitFinal(m)
      <3>1. pc[m] = "waitFinal" /\ inst' = inst /\ req' = req
            /\ \/ pc'[m] = "undoFinal"
               \/ pc'[m] = "cutover" /\ ReportsRunning("work", req[m].target)
        BY <2>2, <2>5 DEF WaitFinal
      <3>2. Owing' \subseteq Owing
        BY <2>2, <2>5, <3>1 DEF WaitFinal, Owing
      <3>3. Copies' = Copies /\ Started("work")' = Started("work")
        BY <3>1 DEF Copies, Started
      <3>4. Pending' => Settled' \subseteq Settled
        <4>1. ASSUME Pending', pc'[m] = "cutover" PROVE req[m].target # "kubernetes"
          BY <3>1, <4>1 DEF Pending, ReportsRunning, Running
        <4>2. \A k \in Migrations : k # m => pc'[k] = pc[k] /\ req'[k] = req[k]
          BY <2>2, <2>5 DEF WaitFinal
        <4> QED
          BY <3>1, <3>2, <4>1, <4>2 DEF Settled, Owing
      <3> QED
        BY <3>2, <3>3, <3>4 DEF Balanced
    <2>6. CASE DeployFinal(m)
      <3>1. CASE Deploy(m, "work", req[m].target) /\ Goto(m, "waitFinal")
        <4>1. Owing' \subseteq Owing \cup {m} /\ Settled' \subseteq Settled \cup {m}
          BY <2>2, <3>1 DEF Owing, Settled
        <4>2. /\ req[m].target \notin Copies /\ Copies' = Copies \cup {req[m].target}
              /\ req[m].target \notin Started("work")
              /\ Started("work")' = IF req[m].target = "kubernetes" THEN Started("work")
                                    ELSE Started("work") \cup {req[m].target}
          BY <2>1, <3>1, DeployWork
        <4>3. req[m].target = "kubernetes" => Settled' \subseteq Settled
          BY <2>2, <3>1 DEF Owing, Settled
        <4>4. Balanced(Copies, Copies', Owing, Owing')
          BY <2>1, <4>1, <4>2 DEF Balanced
        <4>5. Balanced(Started("work"), Started("work")', Settled, Settled')
          BY <2>1, <4>1, <4>2, <4>3 DEF Balanced
        <4> QED
          BY <4>4, <4>5
      <3>2. CASE DeployFails(m, "work", req[m].target) /\ Goto(m, IF req[m].zero THEN "undoShadow" ELSE "failed")
        <4>1. Owing' \subseteq Owing /\ Settled' \subseteq Settled
          BY <2>2, <3>2 DEF Owing, Settled
        <4>2. Copies \subseteq Copies' /\ Started("work") \subseteq Started("work")'
          BY <2>1, <3>2, DeployWorkFails
        <4> QED
          BY <1>0, <4>1, <4>2
      <3> QED
        BY <2>6, <3>1, <3>2 DEF DeployFinal
    <2>7. CASE Cutover(m)
      <3>1. /\ m \in Owing /\ Owing' \subseteq Owing \ {m}
            /\ m \in Settled /\ Settled' \subseteq Settled \ {m}
        BY <2>2, <2>7 DEF Cutover, Owing, Settled
      <3>2. /\ Copies \ {req[m].source} \subseteq Copies'
            /\ Started("work") \ {req[m].source} \subseteq Started("work")'
        BY <2>1, <2>7, DestroyWork DEF Cutover
      <3> QED
        BY <2>1, <3>1, <3>2 DEF Balanced
    <2>8. CASE UndoFinal(m)
      <3>1. /\ m \in Owing /\ Owing' \subseteq Owing \ {m}
            /\ Settled' \subseteq Settled \ {m}
            /\ req[m].target # "kubernetes" => m \in Settled
        BY <2>2, <2>8 DEF UndoFinal, Owing, Settled
      <3>2. /\ Copies \ {req[m].target} \subseteq Copies'
            /\ Started("work") \ {req[m].target} \subseteq Started("work")'
            /\ inst' = inst \/ inst'["work"][req[m].target] = "Absent"
        BY <2>1, <2>8, DestroyWork DEF UndoFinal, TryDestroy
      <3>3. Balanced(Copies, Copies', Owing, Owing')
        BY <2>1, <3>1, <3>2 DEF Balanced
      <3>4. ASSUME Pending' PROVE Balanced(Started("work"), Started("work")', Settled, Settled')
        <4>1. CASE req[m].target # "kubernetes"
          BY <2>1, <3>1, <3>2, <4>1 DEF Balanced
        <4>2. CASE req[m].target = "kubernetes"
          <5>1. inst' = inst
            BY <3>2, <3>4, <4>2 DEF Pending
          <5>2. Started("work")' = Started("work")
            BY <5>1 DEF Started
          <5> QED
            BY <3>1, <5>2 DEF Balanced
        <4> QED
          BY <4>1, <4>2
      <3> QED
        BY <3>3, <3>4
    <2> QED
      BY <1>2, <2>3, <2>4, <2>5, <2>6, <2>7, <2>8 DEF Step
  <1>3. ASSUME NEW m \in Migrations, Cancel(m) PROVE Both
    BY <1>0, <1>3 DEF Cancel, Copies, Started, Owing, Settled
  <1>4. ASSUME NEW n \in Names, NEW b \in Hosts, Start(n, b) \/ Exit(b) PROVE Both
    <2>1. Owing' = Owing /\ Settled' = Settled
      BY <1>4 DEF Start, Exit, Owing, Settled
    <2> QED
      BY <1>0, <1>4, <2>1, ProcessChange
  <1>5. CASE UNCHANGED vars
    BY <1>0, <1>5 DEF vars, Copies, Started, Owing, Settled
  <1> QED
    BY <1>1, <1>2, <1>3, <1>4, <1>5 DEF Next, Names

\* Covered for the copies, and for those that were started.
CopiesCovered  == Cardinality(Copies) >= 1 + Cardinality(Owing)
StartedCovered == Cardinality(Started("work")) >= 1 + Cardinality(Settled)

LEMMA Subsets ==
    /\ Copies \in SUBSET Hosts /\ Copies' \in SUBSET Hosts
    /\ Started("work") \in SUBSET Hosts /\ Started("work")' \in SUBSET Hosts
    /\ Owing \in SUBSET Migrations /\ Owing' \in SUBSET Migrations
    /\ Settled \in SUBSET Migrations /\ Settled' \in SUBSET Migrations
  BY DEF Copies, Started, Owing, Settled

\* When no Deployment is pending, every copy has been started.
LEMMA NonePending == ASSUME CopiesCovered, ~Pending PROVE StartedCovered
  <1>1. Started("work") = Copies
    BY DEF Pending, Copies, Started
  <1>2. Settled \subseteq Owing /\ IsFiniteSet(Owing) /\ IsFiniteSet(Copies)
    BY Subsets, HostAssumption, MigrationAssumption, FS_Subset DEF Settled
  <1>3. Cardinality(Settled) <= Cardinality(Owing)
    BY <1>2, FS_Subset
  <1>4. Cardinality(Settled) \in Nat /\ Cardinality(Owing) \in Nat /\ Cardinality(Copies) \in Nat
    BY <1>2, FS_Subset, FS_CardinalityType
  <1> QED
    BY <1>1, <1>3, <1>4 DEF CopiesCovered, StartedCovered

\* No step leaves fewer copies than debts and one more.
LEMMA CoverStep ==
    ASSUME "compose" \notin Hosts, TypeOK, CopiesCovered, StartedCovered, [Next]_vars
    PROVE  CopiesCovered' /\ StartedCovered'
  <1>1. CopiesCovered'
    BY Changes, Balance, Subsets DEF CopiesCovered
  <1>2. CASE Pending'
    <2>1. StartedCovered'
      BY <1>2, Changes, Balance, Subsets DEF StartedCovered
    <2> QED
      BY <1>1, <2>1
  <1>3. CASE ~Pending'
    BY <1>1, <1>3, NonePending, PTL
  <1> QED
    BY <1>2, <1>3

LEMMA Cover == "compose" \notin Hosts => (Spec => [](CopiesCovered /\ StartedCovered))
  <1> SUFFICES ASSUME "compose" \notin Hosts PROVE Spec => [](CopiesCovered /\ StartedCovered)
    OBVIOUS
  <1>1. Init => CopiesCovered /\ StartedCovered
    <2> SUFFICES ASSUME Init PROVE CopiesCovered /\ StartedCovered
      OBVIOUS
    <2>1. Started("work") = {Home} /\ Copies = {Home} /\ ~Pending
      <3>1. \A b \in Hosts : inst["work"][b] = IF b = Home THEN "Running" ELSE "Absent"
        BY DEF Init, Names
      <3> QED
        BY <3>1, HostAssumption DEF Copies, Started, Pending
    <2>2. Owing = {}
      BY DEF Init, Owing
    <2>3. Cardinality({Home}) = 1
      BY FS_Singleton
    <2>4. Cardinality(Owing) = 0
      BY <2>2, FS_EmptySet
    <2>5. CopiesCovered
      BY <2>1, <2>3, <2>4 DEF CopiesCovered
    <2> QED
      BY <2>1, <2>5, NonePending
  <1>2. TypeOK /\ CopiesCovered /\ StartedCovered /\ [Next]_vars => CopiesCovered' /\ StartedCovered'
    BY CoverStep
  <1> QED
    BY <1>1, <1>2, TypeCorrect, PTL DEF Spec

\* Migrations that overlap, fail, time out, roll back or are cancelled always
\* leave one copy more than there are migrations about to remove one, when every
\* backend refuses to deploy over an existing workload.
THEOREM CoverHolds == "compose" \notin Hosts => (Spec => []Covered)
  <1>1. CopiesCovered => Covered
    <2> SUFFICES ASSUME CopiesCovered PROVE Covered
      OBVIOUS
    <2>1. Copies \subseteq Present("work") /\ IsFiniteSet(Present("work")) /\ IsFiniteSet(Owing)
      BY HostAssumption, MigrationAssumption, Subsets, FS_Subset DEF Copies, Started, Present
    <2>2. Cardinality(Copies) <= Cardinality(Present("work"))
      BY <2>1, FS_Subset
    <2>3. /\ Cardinality(Present("work")) \in Nat /\ Cardinality(Owing) \in Nat
          /\ Cardinality(Copies) \in Nat
      BY <2>1, FS_Subset, FS_CardinalityType
    <2> QED
      BY <2>2, <2>3 DEF CopiesCovered, Covered
  <1> QED
    BY <1>1, Cover, PTL

\* However many callers migrate the workload at once and whatever fails, no
\* cutover and no rollback removes the last copy that was started: the wait before
\* the cutover tells a Deployment that came up from one that was only stored.
THEOREM StartedCopyRemains == "compose" \notin Hosts => (Spec => []StartedRemains)
  <1>1. StartedCovered => StartedRemains
    <2> SUFFICES ASSUME StartedCovered, Started("work") = {} PROVE FALSE
      BY DEF StartedRemains
    <2>1. Cardinality(Started("work")) = 0
      BY FS_EmptySet
    <2>2. IsFiniteSet(Settled)
      BY Subsets, MigrationAssumption, FS_Subset
    <2>3. Cardinality(Settled) \in Nat
      BY <2>2, FS_CardinalityType
    <2> QED
      BY <2>1, <2>3 DEF StartedCovered
  <1> QED
    BY <1>1, Cover, PTL

\* MigrateWorkload never loses the workload, however many callers migrate it
\* at once and whatever the drivers answer.
THEOREM WorkloadNeverLost == "compose" \notin Hosts => (Spec => []NeverLost)
  <1> SUFFICES ASSUME "compose" \notin Hosts PROVE Spec => []NeverLost
    OBVIOUS
  <1>1. StartedRemains => NeverLost
    BY DEF StartedRemains, NeverLost, Started, Present
  <1> QED
    BY <1>1, StartedCopyRemains, PTL

-----------------------------------------------------------------------------
(***************************************************************************)
(* One caller.  From its deployment on, nobody else touches the target,    *)
(* and after the cutover nobody the source.                                *)
(***************************************************************************)
Moving ==
    \A m \in Migrations :
        /\ pc[m] = "waitFinal" /\ req[m].target # "kubernetes" => req[m].target \in Started("work")
        /\ pc[m] \in {"cutover", "dropShadow"} => req[m].target \in Started("work")
        /\ pc[m] = "dropShadow" => inst["work"][req[m].source] = "Absent"

\* Only the only caller's own steps disturb what it has moved.
LEMMA MovingStep ==
    ASSUME NEW m, Migrations = {m}, TypeOK, Moving, [Next]_vars
    PROVE  /\ Moving'
           /\ pc[m] # "completed" /\ pc'[m] = "completed" =>
                /\ inst'["work"][req[m].target] \in {"Running", "Exited"}
                /\ inst'["work"][req[m].source] = "Absent"
  <1> USE DEF Started
  <1>0. m \in Migrations /\ "work" \in Names /\ "shadow" \in Names
    BY DEF Names
  <1>1. CASE Begin(m)
    <2>1. pc'[m] \in {"load", "shadow", "final"}
      BY <1>0, <1>1 DEF Begin, TypeOK
    <2> QED
      BY <2>1 DEF Moving
  <1>2. CASE Step(m)
    <2>1. /\ pc[m] # "idle" /\ m \notin Ended /\ req[m] \in Requests
          /\ req[m].source \in Hosts /\ req[m].target \in Hosts
      BY <1>0, <1>2, StepShape, Underway
    <2>2. req[m].source # req[m].target
      BY <2>1 DEF Requests
    <2>3. ASSUME NEW label \in Labels, Goto(m, label)
          PROVE  pc'[m] = label /\ (label \notin {"completed", "failed"} => req' = req)
      BY <1>0, <2>3 DEF Goto, TypeOK
    <2> USE DEF Labels
    <2>4. CASE LoadStatus(m) \/ WaitShadow(m) \/ DeployShadow(m) \/ UndoFinal(m) \/ UndoShadow(m)
      <3>1. pc'[m] \in {"shadow", "final", "failed", "undoShadow", "waitShadow"}
        BY <2>3, <2>4 DEF LoadStatus, WaitShadow, DeployShadow, UndoFinal, UndoShadow
      <3> QED
        BY <3>1 DEF Moving
    <2>5. CASE DeployFinal(m)
      <3>1. CASE Deploy(m, "work", req[m].target) /\ Goto(m, "waitFinal")
        <4>1. req[m].target # "kubernetes" => inst'["work"][req[m].target] = "Running"
          BY <1>0, <2>1, <3>1 DEF Deploy, TypeOK
        <4> QED
          BY <2>1, <2>3, <3>1, <4>1 DEF Moving
      <3>2. CASE Goto(m, IF req[m].zero THEN "undoShadow" ELSE "failed")
        <4>1. pc'[m] \in {"undoShadow", "failed"}
          BY <2>3, <3>2
        <4> QED
          BY <4>1 DEF Moving
      <3> QED
        BY <2>5, <3>1, <3>2 DEF DeployFinal
    <2>6. CASE WaitFinal(m)
      <3>1. /\ req' = req /\ inst' = inst /\ pc[m] = "waitFinal"
            /\ \/ pc'[m] = "undoFinal"
               \/ pc'[m] = "cutover" /\ ReportsRunning("work", req[m].target)
        BY <2>3, <2>6 DEF WaitFinal
      <3>2. /\ req[m].target # "kubernetes" => req[m].target \in Started("work")
            /\ req[m].target = "kubernetes" /\ pc'[m] = "cutover" => req[m].target \in Started("work")
        BY <1>0, <3>1 DEF Moving, ReportsRunning, Running
      <3> QED
        BY <2>1, <3>1, <3>2 DEF Moving
    <2>7. CASE Cutover(m)
      <3>1. CASE Goto(m, "failed")
        <4>1. pc'[m] = "failed"
          BY <2>3, <3>1
        <4> QED
          BY <4>1 DEF Moving
      <3>2. CASE /\ Destroy(m, "work", req[m].source)
                 /\ Goto(m, IF req[m].zero THEN "dropShadow" ELSE "completed")
        <4>1. /\ inst'["work"][req[m].source] = "Absent"
              /\ inst'["work"][req[m].target] = inst["work"][req[m].target]
          BY <1>0, <2>1, <2>2, <3>2 DEF Destroy, TypeOK
        <4>2. inst["work"][req[m].target] \in {"Running", "Exited"}
          BY <1>0, <2>7 DEF Moving, Cutover
        <4>3. \/ pc'[m] = "completed"
              \/ pc'[m] = "dropShadow" /\ req' = req
          BY <2>3, <3>2
        <4> QED
          BY <2>1, <4>1, <4>2, <4>3 DEF Moving
      <3> QED
        BY <2>7, <3>1, <3>2 DEF Cutover
    <2>8. CASE DropShadow(m)
      <3>1. inst'["work"] = inst["work"]
        BY <1>0, <2>1, <2>8
           DEF DropShadow, TryDestroy, Destroy, DestroyFails, TypeOK
      <3>2. pc'[m] = "completed" /\ pc[m] = "dropShadow"
        BY <2>3, <2>8 DEF DropShadow
      <3> QED
        BY <1>0, <3>1, <3>2 DEF Moving
    <2> QED
      BY <1>2, <2>4, <2>5, <2>6, <2>7, <2>8 DEF Step
  <1>3. CASE Cancel(m)
    BY <1>3 DEF Cancel, Moving
  <1>4. ASSUME NEW n \in Names, NEW b \in Hosts, Start(n, b) \/ Exit(b)
        PROVE  UNCHANGED <<pc, req>> /\ Moving'
    <2>1. \A h \in Hosts :
            /\ inst["work"][h] \in {"Running", "Exited"} => inst'["work"][h] \in {"Running", "Exited"}
            /\ inst["work"][h] = "Absent" => inst'["work"][h] = "Absent"
      BY <1>0, <1>4 DEF Start, Exit, TypeOK
    <2>2. UNCHANGED <<pc, req>>
      BY <1>4 DEF Start, Exit
    <2>3. pc[m] = "dropShadow" => req[m].source \in Hosts
      BY <1>0, Underway DEF Ended
    <2> QED
      BY <2>1, <2>2, <2>3 DEF Moving
  <1>5. CASE UNCHANGED vars
    BY <1>5 DEF vars, Moving
  <1> QED
    BY <1>1, <1>2, <1>3, <1>4, <1>5 DEF Next, Names

\* MigrateWorkload calls do not overlap.
OneCaller == \E m : Migrations = {m}

\* When MigrateWorkload calls do not overlap, a call that reports completion has
\* the workload started on the target and gone from the source.
THEOREM CompletionIsMove == OneCaller => (Spec => CompletedIsMoved)
  <1> SUFFICES ASSUME OneCaller PROVE Spec => CompletedIsMoved
    OBVIOUS
  <1>1. Init => Moving
    BY DEF Init, Moving
  <1>2. TypeOK /\ Moving /\ [Next]_vars => Moving'
    BY MovingStep DEF OneCaller
  <1>3. TypeOK /\ Moving /\ [Next]_vars =>
            [\A m \in Migrations : pc[m] # "completed" /\ pc'[m] = "completed" =>
                /\ inst'["work"][req[m].target] \in {"Running", "Exited"}
                /\ inst'["work"][req[m].source] = "Absent"]_vars
    BY MovingStep DEF OneCaller
  <1> QED
    BY <1>1, <1>2, <1>3, TypeCorrect, PTL DEF Spec, CompletedIsMoved
=============================================================================
