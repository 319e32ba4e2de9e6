---------------------- MODULE SystemEnvironmentProofs ----------------------
(***************************************************************************)
(* Theorems about the start, crash and restart of a service, for any       *)
(* number of instances, operations, processes and interruptions.           *)
(***************************************************************************)
EXTENDS SystemEnvironment, TLAPS

(* Every variable keeps its type: in particular the tables never hold more *)
(* documents for a key than MaxRows, and phases, pids and keys stay in     *)
(* their sets through every step of init, run, crash and restart.          *)
THEOREM TypeCorrect == Spec => []TypeOK
<1>1. Init => TypeOK
  BY EnvironmentAssumption, MaxRowsIsPositive
  DEF Init, TypeOK, JournalInit, JournalTypeOK, Phases, Up, Initializing, Owners
<1>2. TypeOK /\ [Next]_vars => TypeOK'
  <2> SUFFICES ASSUME TypeOK, [Next]_vars
               PROVE  TypeOK'
    OBVIOUS
  <2> USE EnvironmentAssumption, MaxRowsIsPositive
      DEF TypeOK, JournalTypeOK, Phases, Up, Initializing, Owners
  <2>1. ASSUME NEW i \in Instances, Start(i)
        PROVE  TypeOK'
    BY <2>1 DEF Start, isApplicationInstanceUnique, journalVars, historyVars
  <2>2. ASSUME NEW i \in Instances, LeaveRefused(i)
        PROVE  TypeOK'
    BY <2>2 DEF LeaveRefused, journalVars, machineVars, historyVars
  <2>3. ASSUME NEW i \in Instances, InitStorage(i)
        PROVE  TypeOK'
    BY <2>3 DEF InitStorage, NextPhase, journalVars, machineVars, historyVars
  <2>4. ASSUME NEW i \in Instances, NEW done \in DatabaseOutcomes, CleanOperations(i, done)
        PROVE  TypeOK'
    BY <2>4 DEF CleanOperations, NextPhase, removeClientOperation, RowsAfterRemove,
                machineVars
  <2>5. ASSUME NEW i \in Instances, NEW done \in DatabaseOutcomes, CleanProcessEvents(i, done)
        PROVE  TypeOK'
    BY <2>5 DEF CleanProcessEvents, NextPhase, removeProcessEvent, RowsAfterRemove,
                machineVars
  <2>6. ASSUME NEW i \in Instances, ReadZombies(i)
        PROVE  TypeOK'
    BY <2>6 DEF ReadZombies, NextPhase, getNonClosedProcesses,
                getNonIntegrityProcessEvents, NonIntegrity,
                journalVars, machineVars, historyVars
  <2>7. ASSUME NEW i \in Instances, NEW p \in Pids, KillZombie(i, p)
        PROVE  TypeOK'
    BY <2>7 DEF KillZombie, Die, journalVars
  <2>8. ASSUME NEW i \in Instances, FinishInit(i)
        PROVE  TypeOK'
    BY <2>8 DEF FinishInit, NextPhase, journalVars, machineVars, historyVars
  <2>9. ASSUME NEW i \in Instances, OpenGateway(i)
        PROVE  TypeOK'
    BY <2>9 DEF OpenGateway, getInterruptedOperations, getNonIntegrityClientOperations,
                NonIntegrity, journalVars, machineVars, historyVars
  <2>10. ASSUME NEW i \in Instances, NEW k \in Keys, NEW done \in DatabaseOutcomes,
                BeginOperation(i, k, done)
         PROVE  TypeOK'
    BY <2>10 DEF BeginOperation, openOperation, writeClientOperation, machineVars
  <2>11. ASSUME NEW i \in Instances, NEW k \in Keys, NEW done \in DatabaseOutcomes,
                FinishOperation(i, k, done)
         PROVE  TypeOK'
    BY <2>11 DEF FinishOperation, closeClientOperation, endOperation,
                 removeClientOperation, RowsAfterRemove, machineVars
  <2>12. ASSUME NEW i \in Instances, NEW p \in Pids, NEW inherits \in InheritChoices,
                LaunchChild(i, p, inherits)
         PROVE  TypeOK'
    BY <2>12 DEF LaunchChild, journalVars, historyVars
  <2>13. ASSUME NEW i \in Instances, NEW p \in Pids, NEW done \in DatabaseOutcomes,
                JournalChild(i, p, done)
         PROVE  TypeOK'
    BY <2>13 DEF JournalChild, openProcessEvent, writeProcessEvent, machineVars
  <2>14. ASSUME NEW i \in Instances, NEW p \in Pids, NEW done \in DatabaseOutcomes,
                CloseChild(i, p, done)
         PROVE  TypeOK'
    BY <2>14 DEF CloseChild, closeProcessEvent, removeProcessEvent, RowsAfterRemove,
                 machineVars, historyVars
  <2>15. ASSUME NEW i \in Instances, NEW u \in Users, NEW done \in DatabaseOutcomes,
                RegisterUser(i, u, done)
         PROVE  TypeOK'
    BY <2>15 DEF RegisterUser, openUserRegistration, writeUserRegistration,
                 serviceVars, machineVars, historyVars
  <2>16. ASSUME NEW i \in Instances, NEW u \in Users, NEW done \in DatabaseOutcomes,
                UnregisterUser(i, u, done)
         PROVE  TypeOK'
    BY <2>16 DEF UnregisterUser, closeUserRegistration, removeUserRegistration,
                 RowsAfterRemove, serviceVars, machineVars, historyVars
  <2>17. ASSUME NEW i \in Instances, Crash(i)
         PROVE  TypeOK'
    BY <2>17 DEF Crash, Forget, journalVars
  <2>18. ASSUME NEW i \in Instances, Shutdown(i)
         PROVE  TypeOK'
    BY <2>18 DEF Shutdown, Forget, journalVars
  <2>19. ASSUME NEW p \in Pids, ProcessEnds(p)
         PROVE  TypeOK'
    BY <2>19 DEF ProcessEnds, Die, journalVars
  <2>20. ASSUME NEW p \in Pids, ForeignStarts(p)
         PROVE  TypeOK'
    BY <2>20 DEF ForeignStarts, journalVars, serviceVars, historyVars
  <2>21. CASE UNCHANGED vars
    BY <2>21 DEF vars, journalVars, serviceVars, machineVars, historyVars
  <2>. QED
    BY <2>1, <2>2, <2>3, <2>4, <2>5, <2>6, <2>7, <2>8, <2>9, <2>10, <2>11, <2>12,
       <2>13, <2>14, <2>15, <2>16, <2>17, <2>18, <2>19, <2>20, <2>21
    DEF Next, InitStep, ClientStep, ChildStep
<1>. QED
  BY <1>1, <1>2, PTL DEF Spec

-----------------------------------------------------------------------------
(* The lock.  What makes it work is that an instance past the lock file is *)
(* itself a holder of the locked descriptor, and is the only instance that *)
(* is: the other holders are children.                                     *)

LockInvariant ==
  /\ \A i \in Instances : phase[i] \in Up => i \in lockHolders
  /\ \A i, j \in Instances : i \in lockHolders /\ j \in lockHolders => i = j

LEMMA LockStep ==
  ASSUME ~LockErrors, TypeOK, LockInvariant, [Next]_vars
  PROVE  LockInvariant'
<1> USE EnvironmentAssumption DEF TypeOK, LockInvariant, Up, Initializing
<1>1. ASSUME NEW i \in Instances, Start(i)
      PROVE  LockInvariant'
  BY <1>1 DEF Start, isApplicationInstanceUnique
<1>2. ASSUME NEW i \in Instances, LeaveRefused(i)
      PROVE  LockInvariant'
  BY <1>2 DEF LeaveRefused, machineVars
<1>3. ASSUME NEW i \in Instances, InitStep(i)
      PROVE  LockInvariant'
  <2>1. CASE \E p \in Pids : KillZombie(i, p)
    BY <2>1 DEF KillZombie
  <2>2. CASE OpenGateway(i)
    BY <2>2 DEF OpenGateway, machineVars
  <2>3. CASE \/ InitStorage(i) \/ ReadZombies(i) \/ FinishInit(i)
             \/ \E done \in DatabaseOutcomes : CleanOperations(i, done)
             \/ \E done \in DatabaseOutcomes : CleanProcessEvents(i, done)
    <3>1. /\ phase[i] \in Initializing
          /\ \E next \in Initializing : phase' = [phase EXCEPT ![i] = next]
          /\ lockHolders' = lockHolders
      BY <2>3 DEF InitStorage, ReadZombies, FinishInit, CleanOperations,
                  CleanProcessEvents, NextPhase, machineVars
    <3>. QED
      BY <3>1
  <2>. QED
    BY <1>3, <2>1, <2>2, <2>3 DEF InitStep
<1>4. ASSUME NEW i \in Instances, ClientStep(i)
      PROVE  LockInvariant'
  BY <1>4 DEF ClientStep, BeginOperation, FinishOperation, RegisterUser,
              UnregisterUser, serviceVars, machineVars
<1>5. ASSUME NEW i \in Instances, ChildStep(i)
      PROVE  LockInvariant'
  BY <1>5 DEF ChildStep, LaunchChild, JournalChild, CloseChild, machineVars
<1>6. ASSUME NEW i \in Instances, Crash(i)
      PROVE  LockInvariant'
  BY <1>6 DEF Crash, Forget
<1>7. ASSUME NEW i \in Instances, Shutdown(i)
      PROVE  LockInvariant'
  BY <1>7 DEF Shutdown, Forget
<1>8. ASSUME NEW p \in Pids, ProcessEnds(p) \/ ForeignStarts(p)
      PROVE  LockInvariant'
  BY <1>8 DEF ProcessEnds, ForeignStarts, serviceVars
<1>9. CASE UNCHANGED vars
  BY <1>9 DEF vars, serviceVars, machineVars
<1>. QED
  BY <1>1, <1>2, <1>3, <1>4, <1>5, <1>6, <1>7, <1>8, <1>9 DEF Next

(* The lock file keeps a second instance out: where open and flock fail    *)
(* only by EWOULDBLOCK, two instances are never past                       *)
(* isApplicationInstanceUnique together, whatever the crashes and however  *)
(* many children have inherited the descriptor.                            *)
THEOREM OneInstance ==
  ASSUME ~LockErrors
  PROVE  Spec => []SingleInstance
<1>1. Init => LockInvariant
  BY DEF Init, LockInvariant, Up, Initializing
<1>2. TypeOK /\ LockInvariant /\ [Next]_vars => LockInvariant'
  BY LockStep
<1>3. LockInvariant => SingleInstance
  BY DEF LockInvariant, SingleInstance
<1>. QED
  BY <1>1, <1>2, <1>3, TypeCorrect, PTL DEF Spec

-----------------------------------------------------------------------------
(* The journal of client operations.  The property is not inductive by     *)
(* itself: a begin only finds its way into the query of a restart if no    *)
(* key ever has a second document, which the upsert sees to.               *)

OperationsInvariant ==
  /\ \A k \in Keys : operations[k] \in {0, 1}
  /\ \A k \in unfinished : operations[k] = 1

LEMMA OperationsStep ==
  ASSUME TypeOK, OperationsInvariant, [Next]_vars
  PROVE  OperationsInvariant'
<1> USE DEF TypeOK, JournalTypeOK, OperationsInvariant
<1>1. ASSUME NEW i \in Instances, NEW k \in Keys, NEW done \in DatabaseOutcomes,
             BeginOperation(i, k, done)
      PROVE  OperationsInvariant'
  BY <1>1 DEF BeginOperation, openOperation, writeClientOperation
<1>2. ASSUME NEW i \in Instances, NEW k \in Keys, NEW done \in DatabaseOutcomes,
             FinishOperation(i, k, done)
      PROVE  OperationsInvariant'
  <2>1. \A x \in Keys : operations'[x] \in {operations[x], 0}
                        /\ (x # k => operations'[x] = operations[x])
    BY <1>2, SentinelsAreNotKeys
    DEF FinishOperation, closeClientOperation, endOperation, removeClientOperation,
        RowsAfterRemove
  <2>. QED
    BY <1>2, <2>1 DEF FinishOperation
<1>3. ASSUME NEW i \in Instances, NEW done \in DatabaseOutcomes, CleanOperations(i, done)
      PROVE  OperationsInvariant'
  <2>1. \A x \in Keys : operations'[x] \in {operations[x], 0}
    BY <1>3 DEF CleanOperations, removeClientOperation, RowsAfterRemove
  <2>. QED
    BY <1>3, <2>1 DEF CleanOperations
<1>4. CASE UNCHANGED <<operations, unfinished>>
  BY <1>4
<1>5. ASSUME NEW i \in Instances,
             \/ Start(i) \/ LeaveRefused(i) \/ InitStorage(i) \/ ReadZombies(i)
             \/ FinishInit(i) \/ OpenGateway(i) \/ Crash(i) \/ Shutdown(i)
             \/ \E p \in Pids : KillZombie(i, p)
             \/ \E done \in DatabaseOutcomes : CleanProcessEvents(i, done)
      PROVE  UNCHANGED <<operations, unfinished>>
  BY <1>5 DEF Start, LeaveRefused, InitStorage, ReadZombies, FinishInit, OpenGateway,
              Crash, Shutdown, Forget, KillZombie, CleanProcessEvents,
              journalVars, historyVars
<1>6. ASSUME NEW i \in Instances,
             \/ ChildStep(i)
             \/ \E u \in Users, done \in DatabaseOutcomes :
                  RegisterUser(i, u, done) \/ UnregisterUser(i, u, done)
      PROVE  UNCHANGED <<operations, unfinished>>
  BY <1>6 DEF ChildStep, LaunchChild, JournalChild, CloseChild, RegisterUser,
              UnregisterUser, journalVars, historyVars
<1>7. ASSUME \/ \E p \in Pids : ProcessEnds(p) \/ ForeignStarts(p)
             \/ UNCHANGED vars
      PROVE  UNCHANGED <<operations, unfinished>>
  BY <1>7 DEF ProcessEnds, ForeignStarts, vars, journalVars, historyVars
<1>. QED
  BY <1>1, <1>2, <1>3, <1>4, <1>5, <1>6, <1>7 DEF Next, InitStep, ClientStep

LEMMA OperationsInvariantHolds == Spec => []OperationsInvariant
<1>1. Init => OperationsInvariant
  BY DEF Init, JournalInit, OperationsInvariant
<1>2. TypeOK /\ OperationsInvariant /\ [Next]_vars => OperationsInvariant'
  BY OperationsStep
<1>. QED
  BY <1>1, <1>2, TypeCorrect, PTL DEF Spec

(* No interrupted operation is lost: what openOperation journaled and no   *)
(* one ended is among the documents getInterruptedOperations asks for,     *)
(* after any number of crashes, restarts and repeated begins, and whatever *)
(* the database refuses.                                                   *)
THEOREM NoOperationIsLost == Spec => []InterruptedSurvive
<1>1. TypeOK /\ OperationsInvariant => InterruptedSurvive
  BY DEF TypeOK, JournalTypeOK, OperationsInvariant, InterruptedSurvive,
         getNonIntegrityClientOperations, NonIntegrity
<1>. QED
  BY <1>1, TypeCorrect, OperationsInvariantHolds, PTL

(* And none is kept back: the step by which a restoring service goes to    *)
(* work (CommunicationGatewayFacade::init) hands it all of them.           *)
THEOREM EveryInterruptedIsDelivered == Spec => InterruptedAreDelivered
<1> DEFINE Delivery ==
      \A i \in Instances :
        phase[i] = "ready" /\ phase'[i] = "running" /\ restore[i]
          => unfinished \subseteq arrived'[i]
<1>1. ASSUME TypeOK, InterruptedSurvive, [Next]_vars
      PROVE  [Delivery]_vars
  <2> USE DEF TypeOK
  <2> SUFFICES ASSUME NEW i \in Instances,
                      phase[i] = "ready", phase'[i] = "running", restore[i]
               PROVE  unfinished \subseteq arrived'[i]
    OBVIOUS
  <2>1. OpenGateway(i)
    <3>1. ~ UNCHANGED phase
      OBVIOUS
    <3>2. ASSUME NEW j \in Instances,
                 \/ Start(j) \/ LeaveRefused(j) \/ Crash(j) \/ Shutdown(j)
          PROVE  FALSE
      BY <1>1, <3>2 DEF Start, isApplicationInstanceUnique, LeaveRefused, Crash, Shutdown, Forget
    <3>3. ASSUME NEW j \in Instances, InitStep(j)
          PROVE  OpenGateway(i)
      BY <1>1, <3>1, <3>3 DEF InitStep, InitStorage, CleanOperations, CleanProcessEvents,
                  ReadZombies, KillZombie, FinishInit, OpenGateway, NextPhase
    <3>4. ASSUME NEW j \in Instances, ClientStep(j) \/ ChildStep(j)
          PROVE  UNCHANGED phase
      BY <3>4 DEF ClientStep, ChildStep, BeginOperation, FinishOperation, RegisterUser,
                  UnregisterUser, LaunchChild, JournalChild, CloseChild, serviceVars
    <3>5. ASSUME NEW p \in Pids, ProcessEnds(p) \/ ForeignStarts(p)
          PROVE  UNCHANGED phase
      BY <3>5 DEF ProcessEnds, ForeignStarts, serviceVars
    <3>6. UNCHANGED vars => UNCHANGED phase
      BY DEF vars, serviceVars
    <3>. QED
      BY <1>1, <3>1, <3>2, <3>3, <3>4, <3>5, <3>6 DEF Next
  <2>. QED
    BY <1>1, <2>1 DEF OpenGateway, getInterruptedOperations, InterruptedSurvive
<1>2. TypeOK /\ InterruptedSurvive /\ [Next]_vars => [Delivery]_vars
  BY <1>1
<1>. QED
  BY <1>2, TypeCorrect, NoOperationIsLost, PTL DEF Spec, InterruptedAreDelivered

-----------------------------------------------------------------------------
(* A database that obeys, and starts that restore: nothing is replayed     *)
(* that ended.                                                             *)

ObedientRestoring == RestoreChoices \subseteq {TRUE} /\ DatabaseOutcomes \subseteq {TRUE}

\* Such a start never cleans the journal, which would forget what is unfinished
\* without removing its documents.
ReplayInvariant ==
  /\ NothingElseIsReplayed
  /\ \A i \in Instances : phase[i] \in Up => restore[i] /\ phase[i] # "cleaning"

LEMMA ReplayStep ==
  ASSUME ObedientRestoring, TypeOK, ReplayInvariant, [Next]_vars
  PROVE  ReplayInvariant'
<1> USE DEF TypeOK, JournalTypeOK, ReplayInvariant, NothingElseIsReplayed, Up, Initializing
<1>1. ASSUME NEW i \in Instances, NEW k \in Keys, NEW done \in DatabaseOutcomes,
             BeginOperation(i, k, done)
      PROVE  ReplayInvariant'
  <2>1. done = TRUE /\ restore[i] = TRUE
    BY <1>1 DEF ObedientRestoring, BeginOperation
  <2>. QED
    BY <1>1, <2>1 DEF BeginOperation, openOperation, writeClientOperation
<1>2. ASSUME NEW i \in Instances, NEW k \in Keys, NEW done \in DatabaseOutcomes,
             FinishOperation(i, k, done)
      PROVE  ReplayInvariant'
  <2>1. done = TRUE /\ restore[i] = TRUE
    BY <1>2 DEF ObedientRestoring, FinishOperation
  <2>2. operations'[k] = 0 /\ \A x \in Keys : operations'[x] \in {operations[x], 0}
    BY <1>2, <2>1
    DEF FinishOperation, closeClientOperation, endOperation, removeClientOperation,
        RowsAfterRemove
  <2>. QED
    BY <1>2, <2>2 DEF FinishOperation
<1>3. ASSUME NEW i \in Instances, NEW done \in DatabaseOutcomes,
             CleanOperations(i, done) \/ CleanProcessEvents(i, done)
      PROVE  ReplayInvariant'
  BY <1>3 DEF CleanOperations, CleanProcessEvents, NextPhase
<1>4. ASSUME NEW i \in Instances, Start(i)
      PROVE  ReplayInvariant'
  BY <1>4 DEF Start, isApplicationInstanceUnique, ObedientRestoring, journalVars, historyVars
<1>5. ASSUME NEW i \in Instances,
             \/ LeaveRefused(i) \/ InitStorage(i) \/ ReadZombies(i) \/ FinishInit(i)
             \/ OpenGateway(i) \/ \E p \in Pids : KillZombie(i, p)
      PROVE  ReplayInvariant'
  BY <1>5 DEF LeaveRefused, InitStorage, ReadZombies, FinishInit, OpenGateway, KillZombie,
              NextPhase, journalVars, historyVars
<1>6. ASSUME NEW i \in Instances, Crash(i) \/ Shutdown(i)
      PROVE  ReplayInvariant'
  BY <1>6 DEF Crash, Shutdown, Forget, journalVars
<1>7. ASSUME NEW i \in Instances,
             \/ ChildStep(i)
             \/ \E u \in Users, done \in DatabaseOutcomes :
                  RegisterUser(i, u, done) \/ UnregisterUser(i, u, done)
      PROVE  UNCHANGED <<operations, unfinished, phase, restore>>
  BY <1>7 DEF ChildStep, LaunchChild, JournalChild, CloseChild, RegisterUser,
              UnregisterUser, journalVars, historyVars, serviceVars
<1>8. ASSUME \/ \E p \in Pids : ProcessEnds(p) \/ ForeignStarts(p)
             \/ UNCHANGED vars
      PROVE  UNCHANGED <<operations, unfinished, phase, restore>>
  BY <1>8 DEF ProcessEnds, ForeignStarts, vars, journalVars, historyVars, serviceVars
<1>9. CASE UNCHANGED <<operations, unfinished, phase, restore>>
  BY <1>9
<1>. QED
  BY <1>1, <1>2, <1>3, <1>4, <1>5, <1>6, <1>7, <1>8, <1>9 DEF Next, InitStep, ClientStep

(* With a database that does what it is asked (removeClientOperation), a   *)
(* document stands for an unfinished operation, for every number of keys,  *)
(* instances and interruptions.                                            *)
THEOREM OnlyInterruptedAreReplayed ==
  ASSUME ObedientRestoring
  PROVE  Spec => []NothingElseIsReplayed
<1>1. Init => ReplayInvariant
  BY DEF Init, JournalInit, ReplayInvariant, NothingElseIsReplayed, Up, Initializing
<1>2. TypeOK /\ ReplayInvariant /\ [Next]_vars => ReplayInvariant'
  BY ReplayStep
<1>3. ReplayInvariant => NothingElseIsReplayed
  BY DEF ReplayInvariant
<1>. QED
  BY <1>1, <1>2, <1>3, TypeCorrect, PTL DEF Spec

-----------------------------------------------------------------------------
(* The journal of child processes.  A document is removed only for a pid   *)
(* that belongs to nobody, which is why it can never be that of a live     *)
(* child.                                                                  *)

ChildInvariant ==
  /\ \A p \in tracked : processEvents[p] > 0
  /\ \A p \in tracked : process[p] \in Instances \union {"orphan"}
  /\ \A i \in Instances : \A p \in closing[i] : process[p] = "none"

\* The pid of a child that is closed is no sentinel, so the documents of the others stay.
LEMMA ClosingLeavesOthers ==
  ASSUME TypeOK, NEW i \in Instances, NEW p \in Pids, NEW done \in DatabaseOutcomes,
         CloseChild(i, p, done)
  PROVE  \A q \in Pids \ {p} : processEvents'[q] = processEvents[q]
<1>1. p # ALL_PIDS /\ p # ALL_PROCESS_EVENTS
  BY SentinelsAreNotKeys DEF ALL_PROCESS_EVENTS, ALL_PIDS
<1>2. \/ processEvents' = processEvents
      \/ processEvents' = RowsAfterRemove(processEvents, ALL_PROCESS_EVENTS, p)
  BY DEF CloseChild, closeProcessEvent, removeProcessEvent
<1>3. DOMAIN processEvents = Pids
  BY DEF TypeOK, JournalTypeOK
<1>. QED
  BY <1>1, <1>2, <1>3 DEF RowsAfterRemove

LEMMA ChildInvariantStep ==
  ASSUME TypeOK, ChildInvariant, [Next]_vars
  PROVE  ChildInvariant'
<1> USE EnvironmentAssumption DEF TypeOK, JournalTypeOK, ChildInvariant
<1>1. ASSUME NEW p \in Pids, Die({p}), UNCHANGED processEvents
      PROVE  ChildInvariant'
  BY <1>1 DEF Die
<1>2. ASSUME NEW i \in Instances, NEW p \in Pids, NEW inherits \in InheritChoices,
             LaunchChild(i, p, inherits)
      PROVE  ChildInvariant'
  BY <1>2 DEF LaunchChild, Available, journalVars, historyVars
<1>3. ASSUME NEW i \in Instances, NEW p \in Pids, NEW done \in DatabaseOutcomes,
             JournalChild(i, p, done)
      PROVE  ChildInvariant'
  BY <1>3 DEF JournalChild, openProcessEvent, writeProcessEvent, machineVars
<1>4. ASSUME NEW i \in Instances, NEW p \in Pids, NEW done \in DatabaseOutcomes,
             CloseChild(i, p, done)
      PROVE  ChildInvariant'
  <2>1. process[p] = "none" /\ p \notin tracked
    BY <1>4 DEF CloseChild
  <2>2. \A q \in Pids \ {p} : processEvents'[q] = processEvents[q]
    BY <1>4, ClosingLeavesOthers
  <2>. QED
    BY <1>4, <2>1, <2>2 DEF CloseChild, machineVars, historyVars
<1>5. ASSUME NEW i \in Instances, NEW done \in DatabaseOutcomes, CleanProcessEvents(i, done)
      PROVE  ChildInvariant'
  BY <1>5 DEF CleanProcessEvents, NextPhase, machineVars
<1>6. ASSUME NEW i \in Instances, Crash(i) \/ Shutdown(i)
      PROVE  ChildInvariant'
  BY <1>6, SMTT(30) DEF Crash, Shutdown, Forget, journalVars
<1>7. ASSUME NEW p \in Pids, ForeignStarts(p)
      PROVE  ChildInvariant'
  BY <1>7 DEF ForeignStarts, Available, journalVars, serviceVars, historyVars
<1>8. CASE UNCHANGED <<processEvents, process, closing, tracked>>
  BY <1>8
<1>9. ASSUME NEW i \in Instances,
             \/ Start(i) \/ LeaveRefused(i) \/ InitStorage(i) \/ ReadZombies(i)
             \/ FinishInit(i) \/ OpenGateway(i) \/ ClientStep(i)
             \/ \E done \in DatabaseOutcomes : CleanOperations(i, done)
      PROVE  UNCHANGED <<processEvents, process, closing, tracked>>
  BY <1>9 DEF Start, LeaveRefused, InitStorage, ReadZombies, FinishInit, OpenGateway,
              CleanOperations, NextPhase, ClientStep, BeginOperation, FinishOperation,
              RegisterUser, UnregisterUser, journalVars, serviceVars, machineVars,
              historyVars
<1>10. UNCHANGED vars => UNCHANGED <<processEvents, process, closing, tracked>>
  BY DEF vars, journalVars, serviceVars, machineVars, historyVars
<1>11. ASSUME NEW p \in Pids, ProcessEnds(p) \/ \E i \in Instances : KillZombie(i, p)
       PROVE  Die({p}) /\ UNCHANGED processEvents
  BY <1>11 DEF ProcessEnds, KillZombie, journalVars
<1>. QED
  BY <1>1, <1>2, <1>3, <1>4, <1>5, <1>6, <1>7, <1>8, <1>9, <1>10, <1>11
  DEF Next, InitStep, ChildStep

LEMMA ChildInvariantHolds == Spec => []ChildInvariant
<1>1. Init => ChildInvariant
  BY DEF Init, ChildInvariant
<1>2. TypeOK /\ ChildInvariant /\ [Next]_vars => ChildInvariant'
  BY ChildInvariantStep
<1>. QED
  BY <1>1, <1>2, TypeCorrect, PTL DEF Spec

(* The journal knows every live child whose launch it was told of, whether *)
(* its parent lives or has crashed, and whatever was closed meanwhile.     *)
THEOREM LiveChildrenAreJournaled == Spec => []LiveChildIsJournaled
<1>1. ChildInvariant => LiveChildIsJournaled
  BY DEF ChildInvariant, LiveChildIsJournaled
<1>. QED
  BY <1>1, ChildInvariantHolds, PTL

-----------------------------------------------------------------------------
(* The children an interrupted run left behind.  While a restoring service *)
(* works through its list, a journaled orphan is on the list or has more   *)
(* than one document.  No new orphan can join in, since the lock keeps any *)
(* other instance from running, and so from crashing.                      *)

OrphanInvariant ==
  \A i \in Instances, p \in tracked :
    restore[i] /\ phase[i] \in {"killing", "ready"} /\ process[p] = "orphan"
      => processEvents[p] > 1 \/ (phase[i] = "killing" /\ p \in zombies[i])

LEMMA OrphanInvariantStep ==
  ASSUME TypeOK, SingleInstance, ChildInvariant, OrphanInvariant, [Next]_vars
  PROVE  OrphanInvariant'
<1> USE EnvironmentAssumption DEF TypeOK, JournalTypeOK, OrphanInvariant
<1>1. ASSUME NEW i \in Instances, Start(i) \/ LeaveRefused(i)
      PROVE  OrphanInvariant'
  BY <1>1 DEF Start, isApplicationInstanceUnique, LeaveRefused, journalVars, machineVars,
              historyVars
<1>2. ASSUME NEW i \in Instances, InitStorage(i) \/ FinishInit(i)
      PROVE  OrphanInvariant'
  BY <1>2 DEF InitStorage, FinishInit, NextPhase, journalVars, machineVars, historyVars
<1>3. ASSUME NEW i \in Instances, NEW done \in DatabaseOutcomes,
             CleanOperations(i, done) \/ CleanProcessEvents(i, done)
      PROVE  OrphanInvariant'
  BY <1>3 DEF CleanOperations, CleanProcessEvents, NextPhase, machineVars
<1>4. ASSUME NEW i \in Instances, ReadZombies(i)
      PROVE  OrphanInvariant'
  BY <1>4 DEF ReadZombies, NextPhase, getNonClosedProcesses, getNonIntegrityProcessEvents,
              NonIntegrity, ChildInvariant, journalVars, machineVars, historyVars
<1>5. ASSUME NEW i \in Instances, NEW p \in Pids, KillZombie(i, p)
      PROVE  OrphanInvariant'
  BY <1>5 DEF KillZombie, Die, journalVars
<1>6. ASSUME NEW i \in Instances, OpenGateway(i)
      PROVE  OrphanInvariant'
  BY <1>6 DEF OpenGateway, journalVars, machineVars, historyVars
<1>7. ASSUME NEW i \in Instances, ClientStep(i)
      PROVE  OrphanInvariant'
  BY <1>7 DEF ClientStep, BeginOperation, FinishOperation, RegisterUser, UnregisterUser,
              serviceVars, machineVars, historyVars
<1>8. ASSUME NEW i \in Instances, NEW p \in Pids, NEW inherits \in InheritChoices,
             LaunchChild(i, p, inherits)
      PROVE  OrphanInvariant'
  BY <1>8 DEF LaunchChild, journalVars, historyVars
<1>9. ASSUME NEW i \in Instances, NEW p \in Pids, NEW done \in DatabaseOutcomes,
             JournalChild(i, p, done)
      PROVE  OrphanInvariant'
  BY <1>9 DEF JournalChild, openProcessEvent, writeProcessEvent, machineVars
<1>10. ASSUME NEW i \in Instances, NEW p \in Pids, NEW done \in DatabaseOutcomes,
             CloseChild(i, p, done)
       PROVE  OrphanInvariant'
  <2>1. p \notin tracked
    BY <1>10 DEF CloseChild, ChildInvariant
  <2>2. \A q \in Pids \ {p} : processEvents'[q] = processEvents[q]
    BY <1>10, ClosingLeavesOthers
  <2>. QED
    BY <1>10, <2>1, <2>2 DEF CloseChild, machineVars, historyVars
<1>11. ASSUME NEW i \in Instances, Crash(i)
       PROVE  OrphanInvariant'
  <2>1. \A j \in Instances : phase'[j] \notin {"killing", "ready"}
    BY <1>11 DEF Crash, Forget, SingleInstance, Up, Initializing
  <2>. QED
    BY <2>1
<1>12. ASSUME NEW i \in Instances, Shutdown(i)
       PROVE  OrphanInvariant'
  BY <1>12 DEF Shutdown, Forget, journalVars
<1>13. ASSUME NEW p \in Pids, ProcessEnds(p) \/ ForeignStarts(p)
       PROVE  OrphanInvariant'
  BY <1>13 DEF ProcessEnds, Die, ForeignStarts, journalVars, serviceVars, historyVars
<1>14. CASE UNCHANGED vars
  BY <1>14 DEF vars, journalVars, serviceVars, machineVars, historyVars
<1>. QED
  BY <1>1, <1>2, <1>3, <1>4, <1>5, <1>6, <1>7, <1>8, <1>9, <1>10, <1>11, <1>12, <1>13,
     <1>14 DEF Next, InitStep, ChildStep

(* A restoring start leaves no journaled child of an interrupted run alive *)
(* (zombieChildProcesses in SystemEnvironmentFacade::init), but for those  *)
(* whose pid the journal holds more than once.                             *)
THEOREM OrphansDie ==
  ASSUME ~LockErrors
  PROVE  Spec => []OrphansAreKilled
<1>1. Init => OrphanInvariant
  BY DEF Init, OrphanInvariant
<1>2. TypeOK /\ SingleInstance /\ ChildInvariant /\ OrphanInvariant /\ [Next]_vars
        => OrphanInvariant'
  BY OrphanInvariantStep
<1>3. OrphanInvariant => OrphansAreKilled
  BY DEF OrphanInvariant, OrphansAreKilled
<1>. QED
  BY <1>1, <1>2, <1>3, TypeCorrect, OneInstance, ChildInvariantHolds, PTL DEF Spec

=============================================================================
