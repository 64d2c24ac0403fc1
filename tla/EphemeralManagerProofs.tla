----------------------- MODULE EphemeralManagerProofs -----------------------
(***************************************************************************)
(* Proofs about EphemeralManager, for any set of callers, requests and     *)
(* identifiers.                                                            *)
(***************************************************************************)
EXTENDS EphemeralManager, FiniteSetTheorems, TLAPS

\* The inductive invariant behind every theorem below.
IInv == TypeOK /\ LockInv /\ CallInv

\* A new Manager satisfies the inductive invariant.
LEMMA InitIInv == Init => IInv
  <1> SUFFICES ASSUME Init PROVE IInv
    OBVIOUS
  <1>1. TypeOK
    BY DEF Init, TypeOK, Phases, Reasons, Labels
  <1>2. LockInv
    BY ThreadAssumption DEF Init, LockInv, Threads
  <1>3. CallInv
    BY ThreadAssumption DEF Init, CallInv, Threads
  <1> QED
    BY <1>1, <1>2, <1>3 DEF IInv

\* Every step of the manager keeps the variables' types.
LEMMA TypeStep == IInv /\ [Next]_vars => TypeOK'
  <1> SUFFICES ASSUME IInv, [Next]_vars PROVE TypeOK'
    OBVIOUS
  <1> USE DEF IInv, TypeOK, Goto, Labels, Threads, mapVars, lockVars, callVars,
              Lock, LockUnlock, Unlock, RLock, RUnlock
  <1>1. ASSUME NEW c \in Callers, NEW s \in Specs, CreateEnvironment(c, s) PROVE TypeOK'
    BY <1>1 DEF CreateEnvironment
  <1>2. ASSUME NEW c \in Callers, NEW e \in EnvIDs, TeardownEnvironment(c, e) PROVE TypeOK'
    BY <1>2 DEF TeardownEnvironment
  <1>3. ASSUME NEW c \in Callers, NEW pr \in PRs, HandlePR(c, pr) PROVE TypeOK'
    BY <1>3 DEF HandlePR
  <1>4. ASSUME NEW c \in Callers, Acquire(c) PROVE TypeOK'
    <2>1. CASE CreateAdmit(c)
      BY <2>1 DEF CreateAdmit, Phases, CallInv
    <2>2. CASE CreateReject(c)
      BY <2>2 DEF CreateReject
    <2>3. CASE TeardownNothing(c)
      BY <2>3 DEF TeardownNothing, TeardownReturn, Return
    <2>4. CASE TeardownBegin(c)
      BY <2>4 DEF TeardownBegin, Phases
    <2>5. CASE RangeBegin(c)
      BY <2>5 DEF RangeBegin, Known
    <2>6. CASE Relock(c)
      BY <2>6 DEF Relock
    <2>7. CASE RelockFail(c)
      BY <2>7 DEF RelockFail, Return
    <2>8. CASE LockWaits(c)
      BY <2>8 DEF LockWaits
    <2> QED
      BY <1>4, <2>1, <2>2, <2>3, <2>4, <2>5, <2>6, <2>7, <2>8 DEF Acquire
  <1>5. ASSUME NEW c \in Callers, DriverAnswers(c) PROVE TypeOK'
    <2>1. pc[c] = "deploying" => Workload(env[c]) \in Places
      BY DEF CallInv, Workload, Places
    <2>2. CASE DeployOK(c)
      BY <2>1, <2>2 DEF DeployOK, Return, Phases
    <2>3. CASE DeployErr(c)
      BY <2>1, <2>3 DEF DeployErr, Return, Phases, Reasons
    <2>4. CASE DestroyOK(c)
      BY <2>4 DEF DestroyOK, DestroySucceeds, TeardownReturn, Return, Phases, Reasons
    <2>5. CASE DestroyErr(c)
      BY <2>5 DEF DestroyErr, DestroyFails, TeardownReturn, Return
    <2> QED
      BY <1>5, <2>2, <2>3, <2>4, <2>5 DEF DriverAnswers
  <1>6. ASSUME NEW c \in Callers, Iterate(c) PROVE TypeOK'
    <2>1. CASE RangeVisit(c)
      BY <2>1 DEF RangeVisit
    <2>2. CASE RangeEnd(c)
      BY <2>2 DEF RangeEnd, Return
    <2> QED
      BY <1>6, <2>1, <2>2 DEF Iterate
  <1>7. CASE CleanerLocks
    BY <1>7 DEF CleanerLocks, CleanupTick, CleanupBegin, LockWaits, Due
  <1>8. CASE Clean
    <2>1. CASE CleanupOne
      BY <2>1 DEF CleanupOne, Phases
    <2>2. CASE CleanupDestroyed
      BY <2>2 DEF CleanupDestroyed, DestroySucceeds, DestroyFails, Phases, Reasons
    <2>3. CASE CleanupEnd
      BY <2>3 DEF CleanupEnd
    <2> QED
      BY <1>8, <2>1, <2>2, <2>3 DEF Clean
  <1>9. CASE CleanerExit \/ Stop
    BY <1>9 DEF CleanerExit, Stop
  <1>10. ASSUME NEW e \in EnvIDs, Expire(e) PROVE TypeOK'
    BY <1>10 DEF Expire
  <1>11. CASE UNCHANGED vars
    BY <1>11 DEF vars
  <1> QED
    <2> HIDE DEF IInv, TypeOK
    <2> QED
      BY <1>1, <1>2, <1>3, <1>4, <1>5, <1>6, <1>7, <1>8, <1>9, <1>10, <1>11 DEF Next, Call

\* The lock is taken and released where the program counters say.
LEMMA LockStep == IInv /\ [Next]_vars => LockInv'
  <1> SUFFICES ASSUME IInv, [Next]_vars PROVE LockInv'
    OBVIOUS
  <1> USE ThreadAssumption DEF IInv, TypeOK, LockInv, Goto, Threads, mapVars, lockVars,
              callVars, Lock, LockUnlock, Unlock, RLock, RUnlock, MayLock, MayRLock
  <1>1. ASSUME NEW c \in Callers, NEW s \in Specs, CreateEnvironment(c, s) PROVE LockInv'
    BY <1>1 DEF CreateEnvironment
  <1>2. ASSUME NEW c \in Callers, NEW e \in EnvIDs, TeardownEnvironment(c, e) PROVE LockInv'
    BY <1>2 DEF TeardownEnvironment
  <1>3. ASSUME NEW c \in Callers, NEW pr \in PRs, HandlePR(c, pr) PROVE LockInv'
    BY <1>3 DEF HandlePR
  <1>4. ASSUME NEW c \in Callers, Acquire(c) PROVE LockInv'
    <2>1. CASE CreateAdmit(c)
      BY <2>1 DEF CreateAdmit, LockFree, FreshID
    <2>2. CASE CreateReject(c)
      BY <2>2 DEF CreateReject, LockFree
    <2>3. CASE TeardownNothing(c)
      BY <2>3 DEF TeardownNothing, TeardownReturn, Return, LockFree
    <2>4. CASE TeardownBegin(c)
      BY <2>4 DEF TeardownBegin, LockFree
    <2>5. CASE RangeBegin(c)
      BY <2>5 DEF RangeBegin
    <2>6. CASE Relock(c)
      BY <2>6 DEF Relock
    <2>7. CASE RelockFail(c)
      BY <2>7 DEF RelockFail, Return
    <2>8. CASE LockWaits(c)
      BY <2>8 DEF LockWaits
    <2> QED
      BY <1>4, <2>1, <2>2, <2>3, <2>4, <2>5, <2>6, <2>7, <2>8 DEF Acquire
  <1>5. ASSUME NEW c \in Callers, DriverAnswers(c) PROVE LockInv'
    <2>1. CASE DeployOK(c)
      BY <2>1 DEF DeployOK, Return
    <2>2. CASE DeployErr(c)
      BY <2>2 DEF DeployErr, Return
    <2>3. CASE DestroyOK(c)
      BY <2>3 DEF DestroyOK, TeardownReturn, Return
    <2>4. CASE DestroyErr(c)
      BY <2>4 DEF DestroyErr, TeardownReturn, Return
    <2> QED
      BY <1>5, <2>1, <2>2, <2>3, <2>4 DEF DriverAnswers
  <1>6. ASSUME NEW c \in Callers, Iterate(c) PROVE LockInv'
    <2>1. CASE RangeVisit(c)
      BY <2>1 DEF RangeVisit, Matches
    <2>2. CASE RangeEnd(c)
      BY <2>2 DEF RangeEnd, Return
    <2> QED
      BY <1>6, <2>1, <2>2 DEF Iterate
  <1>7. CASE CleanerLocks
    <2>1. CASE CleanupTick
      BY <2>1 DEF CleanupTick
    <2>2. CASE CleanupBegin
      BY <2>2 DEF CleanupBegin, Due, LockFree
    <2>3. CASE LockWaits(Cleaner)
      BY <2>3 DEF LockWaits
    <2> QED
      BY <1>7, <2>1, <2>2, <2>3 DEF CleanerLocks
  <1>8. CASE Clean
    <2>1. CASE CleanupOne
      BY <2>1 DEF CleanupOne
    <2>2. CASE CleanupDestroyed
      BY <2>2 DEF CleanupDestroyed
    <2>3. CASE CleanupEnd
      BY <2>3 DEF CleanupEnd
    <2> QED
      BY <1>8, <2>1, <2>2, <2>3 DEF Clean
  <1>9. CASE CleanerExit \/ Stop
    BY <1>9 DEF CleanerExit, Stop
  <1>10. ASSUME NEW e \in EnvIDs, Expire(e) PROVE LockInv'
    BY <1>10 DEF Expire
  <1>11. CASE UNCHANGED vars
    BY <1>11 DEF vars
  <1> QED
    <2> HIDE DEF IInv, TypeOK, LockInv
    <2> QED
      BY <1>1, <1>2, <1>3, <1>4, <1>5, <1>6, <1>7, <1>8, <1>9, <1>10, <1>11 DEF Next, Call

\* What a goroutine knows about its environment survives the others' steps.
LEMMA CallStep == IInv /\ [Next]_vars => CallInv'
  <1> SUFFICES ASSUME IInv, [Next]_vars PROVE CallInv'
    OBVIOUS
  <1> USE ThreadAssumption DEF IInv, TypeOK, LockInv, CallInv, Goto, Threads, mapVars,
              lockVars, callVars, Lock, LockUnlock, Unlock, RLock, RUnlock, MayLock, MayRLock
  <1>1. ASSUME NEW c \in Callers, NEW s \in Specs, CreateEnvironment(c, s) PROVE CallInv'
    BY <1>1 DEF CreateEnvironment
  <1>2. ASSUME NEW c \in Callers, NEW e \in EnvIDs, TeardownEnvironment(c, e) PROVE CallInv'
    BY <1>2 DEF TeardownEnvironment
  <1>3. ASSUME NEW c \in Callers, NEW pr \in PRs, HandlePR(c, pr) PROVE CallInv'
    BY <1>3 DEF HandlePR
  <1>4. ASSUME NEW c \in Callers, Acquire(c) PROVE CallInv'
    <2>1. CASE CreateAdmit(c)
      BY <2>1 DEF CreateAdmit, LockFree, FreshID
    <2>2. CASE CreateReject(c)
      BY <2>2 DEF CreateReject, LockFree
    <2>3. CASE TeardownNothing(c)
      BY <2>3 DEF TeardownNothing, TeardownReturn, Return, LockFree
    <2>4. CASE TeardownBegin(c)
      BY <2>4 DEF TeardownBegin, LockFree
    <2>5. CASE RangeBegin(c)
      BY <2>5 DEF RangeBegin
    <2>6. CASE Relock(c)
      BY <2>6 DEF Relock
    <2>7. CASE RelockFail(c)
      BY <2>7 DEF RelockFail, Return
    <2>8. CASE LockWaits(c)
      BY <2>8 DEF LockWaits
    <2> QED
      BY <1>4, <2>1, <2>2, <2>3, <2>4, <2>5, <2>6, <2>7, <2>8 DEF Acquire
  <1>5. ASSUME NEW c \in Callers, DriverAnswers(c) PROVE CallInv'
    <2>1. CASE DeployOK(c)
      BY <2>1 DEF DeployOK, Return
    <2>2. CASE DeployErr(c)
      <3>1. /\ pc[c] = "deploying"
            /\ phase' = [phase EXCEPT ![env[c]] = "Terminated"]
            /\ pc' = [pc EXCEPT ![c] = "idle"]
            /\ env' = [env EXCEPT ![c] = None]
            /\ arg' = [arg EXCEPT ![c] = None]
            /\ writer' = None
            /\ UNCHANGED <<request, todo>>
        BY <2>2 DEF DeployErr, Return
      <3> QED
        BY <3>1
    <2>3. CASE DestroyOK(c)
      BY <2>3 DEF DestroyOK, TeardownReturn, Return
    <2>4. CASE DestroyErr(c)
      BY <2>4 DEF DestroyErr, TeardownReturn, Return
    <2> QED
      BY <1>5, <2>1, <2>2, <2>3, <2>4 DEF DriverAnswers
  <1>6. ASSUME NEW c \in Callers, Iterate(c) PROVE CallInv'
    <2>1. CASE RangeVisit(c)
      BY <2>1 DEF RangeVisit, Matches
    <2>2. CASE RangeEnd(c)
      BY <2>2 DEF RangeEnd, Return
    <2> QED
      BY <1>6, <2>1, <2>2 DEF Iterate
  <1>7. CASE CleanerLocks
    <2>1. CASE CleanupTick
      BY <2>1 DEF CleanupTick
    <2>2. CASE CleanupBegin
      BY <2>2 DEF CleanupBegin, Due, LockFree
    <2>3. CASE LockWaits(Cleaner)
      BY <2>3 DEF LockWaits
    <2> QED
      BY <1>7, <2>1, <2>2, <2>3 DEF CleanerLocks
  <1>8. CASE Clean
    <2>1. CASE CleanupOne
      BY <2>1 DEF CleanupOne
    <2>2. CASE CleanupDestroyed
      <3>1. /\ pc[Cleaner] = "cleaning"
            /\ phase' = [phase EXCEPT ![env[Cleaner]] = "Terminated"]
            /\ env' = [env EXCEPT ![Cleaner] = None]
            /\ pc' = [pc EXCEPT ![Cleaner] = "clean"]
            /\ UNCHANGED <<request, writer, todo, arg>>
        BY <2>2 DEF CleanupDestroyed
      <3> QED
        BY <3>1
    <2>3. CASE CleanupEnd
      BY <2>3 DEF CleanupEnd
    <2> QED
      BY <1>8, <2>1, <2>2, <2>3 DEF Clean
  <1>9. CASE CleanerExit \/ Stop
    BY <1>9 DEF CleanerExit, Stop
  <1>10. ASSUME NEW e \in EnvIDs, Expire(e) PROVE CallInv'
    BY <1>10 DEF Expire
  <1>11. CASE UNCHANGED vars
    BY <1>11 DEF vars
  <1> QED
    <2> HIDE DEF IInv, TypeOK, LockInv, CallInv
    <2> QED
      BY <1>1, <1>2, <1>3, <1>4, <1>5, <1>6, <1>7, <1>8, <1>9, <1>10, <1>11 DEF Next, Call

\* Types, the lock and what calls established hold throughout.
LEMMA IInvInvariant == Spec => []IInv
  <1>1. IInv /\ [Next]_vars => IInv'
    BY TypeStep, LockStep, CallStep DEF IInv
  <1> QED
    BY InitIInv, <1>1, PTL DEF Spec

\* Every variable of the manager keeps its Go type, in every execution.
THEOREM TypeCorrect == Spec => []TypeOK
  BY IInvInvariant, PTL DEF IInv

\* The RWMutex of lifecycle.go excludes as intended, and what a goroutine read
\* before a driver call is still true when the driver answers.
THEOREM UnderLockHolds == Spec => []UnderLock
  BY IInvInvariant, PTL DEF IInv, UnderLock

-----------------------------------------------------------------------------
(***************************************************************************)
(* What a step can do to the environments and to the backend, whichever    *)
(* operation takes it.                                                     *)
(***************************************************************************)
Quiet == UNCHANGED <<phase, request, reason, deployed, emptied>>

Admit(e, s) ==
    /\ phase[e] = "Absent" /\ Admitted(s)
    /\ phase' = [phase EXCEPT ![e] = "Creating"]
    /\ request' = [request EXCEPT ![e] = s]
    /\ UNCHANGED <<reason, deployed, emptied>>

Deployed(e) ==
    /\ phase[e] = "Creating"
    /\ ~DeployRefused(Driver, Workload(e), deployed)
    /\ phase' = [phase EXCEPT ![e] = "Ready"]
    /\ deployed' = deployed \cup {Workload(e)}
    /\ UNCHANGED <<request, reason, emptied>>

DeployFailed(e) ==
    /\ phase[e] = "Creating"
    /\ phase' = [phase EXCEPT ![e] = "Terminated"]
    /\ reason' = [reason EXCEPT ![e] = "deployment failed"]
    /\ deployed' \in {deployed, deployed \cup {Workload(e)}}
    /\ UNCHANGED <<request, emptied>>

DestroyBegun(e) ==
    /\ e \in Held
    /\ phase' = [phase EXCEPT ![e] = "Terminating"]
    /\ UNCHANGED <<request, reason, deployed, emptied>>

DestroyFailed(e) ==
    /\ phase[e] = "Terminating"
    /\ DestroyFails(e, deployed')
    /\ emptied' = emptied \cup (deployed \ deployed')
    /\ UNCHANGED <<phase, request, reason>>

Ended(e) ==
    /\ phase[e] = "Terminating"
    /\ phase' = [phase EXCEPT ![e] = "Terminated"]
    /\ \E r \in Reasons :
        /\ reason' = [reason EXCEPT ![e] = r]
        /\ \/ DestroySucceeds(e, deployed')
           \/ DestroyFails(e, deployed') /\ r = "cleanup failed"
    /\ UNCHANGED <<request, emptied>>

Effect(e) ==
    \/ \E s \in Specs : Admit(e, s)
    \/ Deployed(e) \/ DeployFailed(e) \/ DestroyBegun(e) \/ DestroyFailed(e) \/ Ended(e)

\* Seen from the map and the backend, a step of any goroutine is one of a few
\* effects on one environment, or none.
LEMMA Effects == IInv /\ [Next]_vars => Quiet \/ \E e \in EnvIDs : Effect(e)
  <1> SUFFICES ASSUME IInv, [Next]_vars PROVE Quiet \/ \E e \in EnvIDs : Effect(e)
    OBVIOUS
  <1> USE DEF IInv, mapVars, lockVars, callVars
  <1>1. ASSUME NEW c \in Callers, Call(c) PROVE Quiet
    BY <1>1 DEF Call, CreateEnvironment, TeardownEnvironment, HandlePR, Quiet
  <1>2. ASSUME NEW c \in Callers, CreateAdmit(c) PROVE \E e \in EnvIDs : Effect(e)
    <2>1. arg[c] \in Specs
      BY <1>2 DEF CreateAdmit, CallInv
    <2> QED
      BY <1>2, <2>1 DEF CreateAdmit, FreshID, Effect, Admit
  <1>3. ASSUME NEW c \in Callers,
               \/ CreateReject(c) \/ TeardownNothing(c) \/ RangeBegin(c)
               \/ Relock(c) \/ RelockFail(c) \/ LockWaits(c)
        PROVE  Quiet
    BY <1>3 DEF CreateReject, TeardownNothing, RangeBegin, Relock, RelockFail, LockWaits, Quiet
  <1>4. ASSUME NEW c \in Callers, TeardownBegin(c) PROVE \E e \in EnvIDs : Effect(e)
    <2>1. env[c] \in EnvIDs /\ phase[env[c]] \in Phases
      BY <1>4 DEF TeardownBegin, CallInv, TypeOK
    <2>2. phase[env[c]] # "Creating"
      BY <1>4, <2>1, ThreadAssumption DEF TeardownBegin, MayLock, LockFree, CallInv, Threads
    <2>3. DestroyBegun(env[c])
      BY <1>4, <2>1, <2>2 DEF TeardownBegin, DestroyBegun, Held, Phases
    <2> QED
      BY <2>1, <2>3 DEF Effect
  <1>5. ASSUME NEW c \in Callers, DeployOK(c) PROVE \E e \in EnvIDs : Effect(e)
    <2>1. env[c] \in EnvIDs /\ Deployed(env[c])
      BY <1>5 DEF DeployOK, CallInv, Deployed, Refused
    <2> QED
      BY <2>1 DEF Effect
  <1>6. ASSUME NEW c \in Callers, DeployErr(c) PROVE \E e \in EnvIDs : Effect(e)
    <2>1. deployed' \in {deployed, deployed \cup {Workload(env[c])}}
      BY <1>6 DEF DeployErr
    <2>2. env[c] \in EnvIDs /\ DeployFailed(env[c])
      BY <1>6, <2>1, Zenon DEF DeployErr, CallInv, DeployFailed
    <2> QED
      BY <2>2 DEF Effect
  <1>7. ASSUME NEW c \in Callers, DestroyOK(c) PROVE \E e \in EnvIDs : Effect(e)
    <2>1. env[c] \in EnvIDs /\ Ended(env[c])
      BY <1>7 DEF DestroyOK, CallInv, Ended, Reasons
    <2> QED
      BY <2>1 DEF Effect
  <1>8. ASSUME NEW c \in Callers, DestroyErr(c) PROVE \E e \in EnvIDs : Effect(e)
    <2>1. env[c] \in EnvIDs /\ DestroyFailed(env[c])
      BY <1>8 DEF DestroyErr, CallInv, DestroyFailed
    <2> QED
      BY <2>1 DEF Effect
  <1>9. ASSUME NEW c \in Callers, Iterate(c) PROVE Quiet
    BY <1>9 DEF Iterate, RangeVisit, RangeEnd, Quiet
  <1>10. CASE CleanerLocks \/ CleanupEnd \/ CleanerExit \/ Stop
    BY <1>10 DEF CleanerLocks, CleanupTick, CleanupBegin, LockWaits, CleanupEnd, CleanerExit, Stop, Quiet
  <1>11. CASE CleanupOne
    <2>1. PICK e \in todo[Cleaner] : phase' = [phase EXCEPT ![e] = "Terminating"]
      BY <1>11 DEF CleanupOne
    <2>2. e \in EnvIDs /\ phase[e] = "Ready"
      BY <1>11, <2>1 DEF CleanupOne, CallInv, TypeOK, Threads
    <2>3. DestroyBegun(e)
      BY <1>11, <2>1, <2>2 DEF CleanupOne, DestroyBegun, Held
    <2> QED
      BY <2>2, <2>3 DEF Effect
  <1>12. CASE CleanupDestroyed
    <2>1. env[Cleaner] \in EnvIDs /\ Ended(env[Cleaner])
      BY <1>12 DEF CleanupDestroyed, CallInv, Ended, Reasons
    <2> QED
      BY <2>1 DEF Effect
  <1>13. ASSUME NEW e \in EnvIDs, Expire(e) PROVE Quiet
    BY <1>13 DEF Expire, Quiet
  <1>14. CASE UNCHANGED vars
    BY <1>14 DEF vars, Quiet
  <1> QED
    BY <1>1, <1>2, <1>3, <1>4, <1>5, <1>6, <1>7, <1>8, <1>9, <1>10, <1>11, <1>12, <1>13, <1>14
       DEF Next, Acquire, DriverAnswers, Clean

(***************************************************************************)
(* The pool: admission is the only step that takes a slot.                 *)
(***************************************************************************)
\* The environments countActiveEnvironments counts are finitely many.
LEMMA ActiveFinite == IsFiniteSet(Active) /\ Cardinality(Active) \in Nat
  BY IDAssumption, FS_Subset, FS_CardinalityType DEF Active

\* The pool's cardinality is the manager's.
LEMMA PoolCardinality == Pool!Cardinality(Active) = Cardinality(Active)
  BY DEF Pool!Cardinality, Cardinality

\* Every step of the manager is a step of the pool, or leaves the pool alone.
LEMMA PoolStep ==
    ASSUME TypeOK, Quiet \/ \E e \in EnvIDs : Effect(e)
    PROVE  [Pool!PoolNext]_(Pool!poolVars)
  <1> DEFINE Done == {e \in EnvIDs : phase[e] = "Terminated"}
  <1>1. CASE Quiet
    BY <1>1 DEF Quiet, Pool!poolVars, Active
  <1>2. ASSUME NEW e \in EnvIDs, NEW s \in Specs, Admit(e, s) PROVE Pool!Acquire(e)
    <2>1. e \notin Active \cup Done
      BY <1>2 DEF Admit, Active
    <2>2. MaxLimit = 0 \/ Cardinality(Active) < MaxLimit
      BY <1>2, ActiveFinite, LimitAssumption, SpecAssumption DEF Admit, Admitted
    <2>3. Active' = Active \cup {e} /\ Done' = Done
      BY <1>2 DEF Admit, Active, TypeOK
    <2> QED
      BY <2>1, <2>2, <2>3, PoolCardinality DEF Pool!Acquire
  <1>3. ASSUME NEW e \in EnvIDs, DeployFailed(e) \/ Ended(e) PROVE Pool!Release(e)
    <2>1. /\ phase[e] \in {"Creating", "Terminating"}
          /\ phase' = [phase EXCEPT ![e] = "Terminated"]
      BY <1>3 DEF DeployFailed, Ended
    <2>2. e \in Active /\ Active' = Active \ {e} /\ Done' = Done \cup {e}
      BY <2>1 DEF Active, TypeOK
    <2> QED
      BY <2>2 DEF Pool!Release
  <1>4. ASSUME NEW e \in EnvIDs, Deployed(e) \/ DestroyBegun(e) \/ DestroyFailed(e)
        PROVE  UNCHANGED Pool!poolVars
    <2>1. Active' = Active /\ Done' = Done
      BY <1>4 DEF Deployed, DestroyBegun, DestroyFailed, Held, Active, TypeOK
    <2> QED
      BY <2>1 DEF Pool!poolVars
  <1> QED
    BY <1>1, <1>2, <1>3, <1>4 DEF Effect, Pool!PoolNext

\* The manager implements the bounded pool of EnvironmentPool: CreateEnvironment
\* takes a slot only below the limit, a slot is given back exactly once, and an
\* identifier is never used again.
THEOREM ImplementsPool == Spec => PoolSpec
  <1>1. Init => Pool!PoolInit
    <2> SUFFICES ASSUME Init PROVE Pool!PoolInit
      OBVIOUS
    <2>1. Active = {} /\ {e \in EnvIDs : phase[e] = "Terminated"} = {}
      BY DEF Init, Active
    <2> QED
      BY <2>1 DEF Pool!PoolInit
  <1>2. IInv /\ [Next]_vars => [Pool!PoolNext]_(Pool!poolVars)
    BY Effects, PoolStep DEF IInv
  <1> QED
    BY <1>1, <1>2, IInvInvariant, PTL DEF Spec, PoolSpec, Pool!PoolSpec

\* CreateEnvironment's check of MaxEnvironments bounds the active environments
\* in every execution.
THEOREM LimitHolds == Spec => []WithinLimit
  <1>1. Init => WithinLimit
    <2> SUFFICES ASSUME Init PROVE WithinLimit
      OBVIOUS
    <2>1. Active = {}
      BY DEF Init, Active
    <2> QED
      BY <2>1, FS_EmptySet, LimitAssumption DEF WithinLimit
  <1>2. IInv /\ WithinLimit /\ [Next]_vars => WithinLimit'
    <2> SUFFICES ASSUME IInv, WithinLimit, [Next]_vars, MaxLimit > 0
                 PROVE  Cardinality(Active') <= MaxLimit
      BY DEF WithinLimit
    <2>1. [Pool!PoolNext]_(Pool!poolVars)
      BY Effects, PoolStep DEF IInv
    <2>2. ASSUME NEW e \in EnvIDs, Pool!Acquire(e) PROVE Cardinality(Active') <= MaxLimit
      <3>1. e \notin Active /\ Active' = Active \cup {e} /\ Cardinality(Active) < MaxLimit
        BY <2>2, PoolCardinality DEF Pool!Acquire
      <3>2. Cardinality(Active') = Cardinality(Active) + 1
        BY <3>1, ActiveFinite, FS_AddElement
      <3> QED
        BY <3>1, <3>2, ActiveFinite, LimitAssumption
    <2>3. ASSUME NEW e \in EnvIDs, Pool!Release(e) PROVE Cardinality(Active') <= MaxLimit
      <3>1. e \in Active /\ Active' = Active \ {e}
        BY <2>3 DEF Pool!Release
      <3>2. Cardinality(Active') = Cardinality(Active) - 1
        BY <3>1, ActiveFinite, FS_RemoveElement
      <3> QED
        BY <3>2, ActiveFinite, LimitAssumption DEF WithinLimit
    <2> QED
      BY <2>1, <2>2, <2>3 DEF Pool!PoolNext, Pool!poolVars, WithinLimit
  <1> QED
    BY <1>1, <1>2, IInvInvariant, PTL DEF Spec

-----------------------------------------------------------------------------
\* Teardowns, handlers and clean-up passes that race never bring an environment
\* back, nor rewrite the reason it ended for.
THEOREM MovesForward == Spec => ForwardOnly
  <1>1. ASSUME IInv, Quiet \/ \E e \in EnvIDs : Effect(e), NEW f \in EnvIDs
        PROVE  Forward(f)
    <2> USE DEF Forward, PhaseOrder, Phases, IInv, TypeOK
    <2>1. CASE Quiet
      BY <1>1, <2>1 DEF Quiet
    <2>2. ASSUME NEW e \in EnvIDs, NEW s \in Specs, Admit(e, s) PROVE Forward(f)
      BY <1>1, <2>2 DEF Admit
    <2>3. ASSUME NEW e \in EnvIDs, Deployed(e) PROVE Forward(f)
      BY <1>1, <2>3 DEF Deployed
    <2>4. ASSUME NEW e \in EnvIDs, DeployFailed(e) PROVE Forward(f)
      <3>1. /\ phase[e] = "Creating"
            /\ phase' = [phase EXCEPT ![e] = "Terminated"]
            /\ reason' = [reason EXCEPT ![e] = "deployment failed"]
        BY <2>4 DEF DeployFailed
      <3>2. CASE f = e
        <4>1. phase[f] = "Creating" /\ phase'[f] = "Terminated"
          BY <1>1, <3>1, <3>2
        <4> QED
          BY <4>1
      <3>3. CASE f # e
        <4>1. phase'[f] = phase[f] /\ reason'[f] = reason[f] /\ phase[f] \in Phases
          BY <1>1, <3>1, <3>3
        <4> QED
          BY <4>1
      <3> QED
        BY <3>2, <3>3
    <2>5. ASSUME NEW e \in EnvIDs, DestroyBegun(e) PROVE Forward(f)
      BY <1>1, <2>5 DEF DestroyBegun, Held
    <2>6. ASSUME NEW e \in EnvIDs, DestroyFailed(e) PROVE Forward(f)
      BY <1>1, <2>6 DEF DestroyFailed
    <2>7. ASSUME NEW e \in EnvIDs, Ended(e) PROVE Forward(f)
      <3>1. PICK r \in Reasons : /\ phase[e] = "Terminating"
                                  /\ phase' = [phase EXCEPT ![e] = "Terminated"]
                                  /\ reason' = [reason EXCEPT ![e] = r]
        BY <2>7 DEF Ended
      <3> QED
        BY <1>1, <3>1
    <2> QED
      BY <1>1, <2>1, <2>2, <2>3, <2>4, <2>5, <2>6, <2>7 DEF Effect
  <1>2. IInv /\ [Next]_vars => \A e \in EnvIDs : Forward(e)
    BY <1>1, Effects
  <1> QED
    BY <1>2, IInvInvariant, PTL DEF Spec, ForwardOnly

-----------------------------------------------------------------------------
(***************************************************************************)
(* Ownership of workloads.  It rests on the backend's refusal of a name    *)
(* that is taken, which compose does not give.  A place that is disturbed  *)
(* stays so, since a step only adds to Known and to emptied.               *)
(***************************************************************************)
\* Whatever a step does, a place is undisturbed after it only if it was before.
LEMMA UndisturbedBefore ==
    ASSUME IInv, Quiet \/ \E e \in EnvIDs : Effect(e), NEW w, Undisturbed(w)'
    PROVE  Undisturbed(w)
  <1>1. /\ Known \subseteq Known' /\ emptied \subseteq emptied'
        /\ \A f \in Known : request'[f] = request[f]
    <2> USE DEF IInv, TypeOK, Known
    <2>1. CASE Quiet
      BY <2>1 DEF Quiet
    <2>2. ASSUME NEW e \in EnvIDs, Effect(e)
          PROVE  <1>1!:
      BY <2>2 DEF Effect, Admit, Deployed, DeployFailed, DestroyBegun, DestroyFailed, Ended
    <2> QED
      BY <2>1, <2>2
  <1> QED
    BY <1>1 DEF Undisturbed, Target, Workload, NameMatches

\* No step takes away the workload of an environment that holds one at an
\* undisturbed place, nor makes two environments share one there.
LEMMA HeldStep ==
    ASSUME Driver # "compose", IInv, HeldIsDeployed, Quiet \/ \E e \in EnvIDs : Effect(e)
    PROVE  HeldIsDeployed'
  <1> DEFINE Kept(w) == /\ HeldAt(w)' # {} => w \in deployed'
                        /\ \A e, f \in HeldAt(w)' : e = f
  <1> SUFFICES ASSUME NEW w \in Places, Undisturbed(w)' PROVE Kept(w)
    BY DEF HeldIsDeployed
  <1>0. Undisturbed(w)
    BY UndisturbedBefore
  <1>00. \A e \in HeldAt(w) : w \in deployed /\ \A f \in HeldAt(w) : e = f
    BY <1>0 DEF HeldIsDeployed
  <1> USE DEF IInv, TypeOK, Held, HeldAt
  <1>1. CASE Quiet
    BY <1>00, <1>1 DEF Quiet, Workload
  <1>2. ASSUME NEW e \in EnvIDs, NEW s \in Specs, Admit(e, s) PROVE Kept(w)
    <2>1. Held' = Held /\ e \notin Held
      BY <1>2 DEF Admit
    <2>2. \A f \in Held : Workload(f)' = Workload(f)
      BY <1>2, <2>1 DEF Admit, Workload
    <2> QED
      BY <1>00, <1>2, <2>1, <2>2 DEF Admit
  <1>3. ASSUME NEW e \in EnvIDs, Deployed(e) PROVE Kept(w)
    <2>1. Held' = Held \cup {e}
      BY <1>3 DEF Deployed
    <2>2. Workload(e) \notin deployed
      BY <1>3 DEF Deployed, DeployRefused
    <2>3. \A f \in EnvIDs : Workload(f)' = Workload(f)
      BY <1>3 DEF Deployed, Workload
    <2> QED
      BY <1>00, <1>3, <2>1, <2>2, <2>3 DEF Deployed
  <1>4. ASSUME NEW e \in EnvIDs, DeployFailed(e) PROVE Kept(w)
    <2>1. Held' = Held
      BY <1>4 DEF DeployFailed
    <2>2. \A f \in EnvIDs : Workload(f)' = Workload(f)
      BY <1>4 DEF DeployFailed, Workload
    <2>3. deployed \subseteq deployed'
      BY <1>4 DEF DeployFailed
    <2> QED
      BY <1>00, <2>1, <2>2, <2>3
  <1>5. ASSUME NEW e \in EnvIDs, DestroyBegun(e) PROVE Kept(w)
    <2>1. Held' = Held
      BY <1>5 DEF DestroyBegun
    <2>2. \A f \in EnvIDs : Workload(f)' = Workload(f)
      BY <1>5 DEF DestroyBegun, Workload
    <2> QED
      BY <1>00, <1>5, <2>1, <2>2 DEF DestroyBegun
  <1>6. ASSUME NEW e \in EnvIDs, DestroyFailed(e) PROVE Kept(w)
    <2>1. Held' = Held /\ \A f \in EnvIDs : Workload(f)' = Workload(f)
      BY <1>6 DEF DestroyFailed, Workload
    <2>2. w \notin deployed \ deployed'
      BY <1>6 DEF DestroyFailed, Undisturbed
    <2> QED
      BY <1>00, <2>1, <2>2
  <1>7. ASSUME NEW e \in EnvIDs, Ended(e) PROVE Kept(w)
    <2>1. Held' = Held \ {e} /\ e \in Held
      BY <1>7 DEF Ended
    <2>2. \A f \in EnvIDs : Workload(f)' = Workload(f)
      BY <1>7 DEF Ended, Workload
    <2>3. HeldAt(w)' = HeldAt(w) \ {e}
      BY <2>1, <2>2
    <2>4. ASSUME NEW g \in HeldAt(w)' PROVE w \in deployed'
      <3>1. w \in deployed /\ w # Workload(e)
        BY <1>00, <2>1, <2>3, <2>4
      <3>2. e \in Known
        BY <1>7 DEF Ended, Known
      <3>3. w # Target(e)
        BY <1>0, <3>1, <3>2 DEF Undisturbed, NameMatches
      <3>4. deployed \ {Target(e)} \subseteq deployed'
        BY <1>7 DEF Ended, DestroySucceeds, DestroyFails
      <3> QED
        BY <3>1, <3>3, <3>4
    <2> QED
      BY <1>00, <2>3, <2>4
  <1> QED
    BY <1>1, <1>2, <1>3, <1>4, <1>5, <1>6, <1>7 DEF Effect

\* An environment loses its workload to another one's TeardownEnvironment or
\* clean-up only where a failed teardown had removed a workload before, or where
\* a workload bears the name of a foreign environment.
THEOREM Ownership == Driver # "compose" => (Spec => []HeldIsDeployed)
  <1> SUFFICES ASSUME Driver # "compose" PROVE Spec => []HeldIsDeployed
    OBVIOUS
  <1>1. Init => HeldIsDeployed
    BY DEF Init, HeldIsDeployed, HeldAt, Held
  <1>2. IInv /\ HeldIsDeployed /\ [Next]_vars => HeldIsDeployed'
    BY Effects, HeldStep
  <1> QED
    BY <1>1, <1>2, IInvInvariant, PTL DEF Spec

-----------------------------------------------------------------------------
(***************************************************************************)
(* Leaks.  Any backend may fail in any way, and callers name workloads as  *)
(* they like.                                                              *)
(***************************************************************************)
\* The environment that answers for a workload.
Answers(e, w) ==
    /\ e \in Known /\ Workload(e) = w
    /\ \/ e \in Held
       \/ reason[e] \in {"cleanup failed", "deployment failed"}
       \/ ~NameMatches(e)

\* A step that leaves a workload on the backend leaves someone to answer for it.
LEMMA LeakStep ==
    ASSUME IInv, LeaksAreRecorded, Quiet \/ \E e \in EnvIDs : Effect(e)
    PROVE  LeaksAreRecorded'
  <1> SUFFICES ASSUME NEW w \in deployed' PROVE \E f \in EnvIDs : Answers(f, w)'
    BY DEF LeaksAreRecorded, Answers, Known
  <1>0. w \in deployed => \E f \in EnvIDs : Answers(f, w)
    BY DEF LeaksAreRecorded, Answers, Known
  <1> USE DEF IInv, TypeOK
  <1>1. CASE Quiet
    BY <1>0, <1>1 DEF Quiet, Answers, Workload, Target, NameMatches, Held, Known
  <1>2. ASSUME NEW e \in EnvIDs, NEW s \in Specs, Admit(e, s) PROVE \E f \in EnvIDs : Answers(f, w)'
    <2>1. PICK f \in EnvIDs : Answers(f, w)
      BY <1>0, <1>2 DEF Admit
    <2>2. f # e
      BY <1>2, <2>1 DEF Admit, Answers, Known
    <2> QED
      BY <1>2, <2>1, <2>2 DEF Admit, Answers, Workload, Target, NameMatches, Held, Known
  <1>3. ASSUME NEW e \in EnvIDs, Deployed(e) PROVE \E f \in EnvIDs : Answers(f, w)'
    <2>1. Workload(e)' = Workload(e) /\ e \in Held' /\ e \in Known'
      BY <1>3 DEF Deployed, Workload, Held, Known
    <2>2. CASE w = Workload(e)
      BY <2>1, <2>2 DEF Answers
    <2>3. CASE w # Workload(e)
      <3>1. PICK f \in EnvIDs : Answers(f, w)
        BY <1>0, <1>3, <2>3 DEF Deployed
      <3> QED
        BY <1>3, <3>1 DEF Deployed, Answers, Workload, Target, NameMatches, Held, Known
    <2> QED
      BY <2>2, <2>3
  <1>4. ASSUME NEW e \in EnvIDs, DeployFailed(e) PROVE \E f \in EnvIDs : Answers(f, w)'
    <2>1. Workload(e)' = Workload(e) /\ reason'[e] = "deployment failed" /\ e \in Known'
      <3>1. /\ request' = request /\ reason' = [reason EXCEPT ![e] = "deployment failed"]
            /\ phase' = [phase EXCEPT ![e] = "Terminated"]
        BY <1>4 DEF DeployFailed
      <3> QED
        BY <3>1 DEF Workload, Known
    <2>2. CASE w = Workload(e)
      BY <2>1, <2>2 DEF Answers
    <2>3. CASE w # Workload(e)
      <3>1. PICK f \in EnvIDs : Answers(f, w)
        BY <1>0, <1>4, <2>3 DEF DeployFailed
      <3>2. f # e
        BY <2>3, <3>1 DEF Answers
      <3>3. /\ phase'[f] = phase[f] /\ reason'[f] = reason[f] /\ request' = request
        BY <1>4, <3>2 DEF DeployFailed
      <3> QED
        BY <3>1, <3>3 DEF Answers, Workload, Target, NameMatches, Held, Known
    <2> QED
      BY <2>2, <2>3
  <1>5. ASSUME NEW e \in EnvIDs, DestroyBegun(e) PROVE \E f \in EnvIDs : Answers(f, w)'
    BY <1>0, <1>5 DEF DestroyBegun, Answers, Workload, Target, NameMatches, Held, Known
  <1>6. ASSUME NEW e \in EnvIDs, DestroyFailed(e) PROVE \E f \in EnvIDs : Answers(f, w)'
    <2>1. w \in deployed
      BY <1>6 DEF DestroyFailed, DestroyFails
    <2> QED
      BY <1>0, <1>6, <2>1 DEF DestroyFailed, Answers, Workload, Target, NameMatches, Held, Known
  <1>7. ASSUME NEW e \in EnvIDs, Ended(e) PROVE \E f \in EnvIDs : Answers(f, w)'
    <2>1. w \in deployed
      BY <1>7 DEF Ended, DestroyFails, DestroySucceeds
    <2>2. PICK f \in EnvIDs : Answers(f, w)
      BY <1>0, <2>1
    <2>3. CASE f # e
      <3>1. /\ phase'[f] = phase[f] /\ reason'[f] = reason[f] /\ request' = request
        BY <1>7, <2>3 DEF Ended
      <3> QED
        BY <2>2, <3>1 DEF Answers, Workload, Target, NameMatches, Held, Known
    <2>4. CASE f = e
      <3>1. e \in Known' /\ request' = request
        BY <1>7 DEF Ended, Known
      <3>2. CASE Target(e) = w
        <4>1. ~DestroySucceeds(e, deployed')
          BY <3>2 DEF DestroySucceeds
        <4>2. reason'[e] = "cleanup failed"
          BY <1>7, <4>1 DEF Ended
        <4> QED
          BY <2>2, <2>4, <3>1, <4>2 DEF Answers, Workload
      <3>3. CASE Target(e) # w
        BY <2>2, <2>4, <3>1, <3>3 DEF Answers, Workload, Target, NameMatches
      <3> QED
        BY <3>2, <3>3
    <2> QED
      BY <2>3, <2>4
  <1> QED
    BY <1>1, <1>2, <1>3, <1>4, <1>5, <1>6, <1>7 DEF Effect

\* However Deploy and Destroy fail, a workload that no environment holds is one
\* whose environment ended with a recorded failure, or whose name is not the one
\* that the teardown looked for.
THEOREM LeaksRecorded == Spec => []LeaksAreRecorded
  <1>1. Init => LeaksAreRecorded
    BY DEF Init, LeaksAreRecorded
  <1>2. IInv /\ LeaksAreRecorded /\ [Next]_vars => LeaksAreRecorded'
    BY Effects, LeakStep
  <1> QED
    BY <1>1, <1>2, IInvInvariant, PTL DEF Spec
=============================================================================
