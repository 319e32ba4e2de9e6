------------------------- MODULE SystemEnvironment -------------------------
(***************************************************************************)
(* Start, run, crash and restart of a microservice built on                *)
(* SystemEnvironmentFacade (system/system_environment_facade.cpp): the     *)
(* lock file that keeps a second instance out, the journal that says what  *)
(* the interrupted run was doing, the child processes it left behind and   *)
(* the client operations CommunicationGatewayFacade is handed to replay.   *)
(*                                                                         *)
(* An instance is a process of the service; the same instance starts again *)
(* after it has ended.  The journal, the lock file and the processes of    *)
(* the machine outlive it.                                                 *)
(***************************************************************************)
EXTENDS WriteAheadLog, FiniteSets

CONSTANTS
  Instances,         \* processes of the service
  RestoreChoices,    \* values SInitSettings::restoreSystemAfterInterrupt takes
  InheritChoices,    \* TRUE: a child may be launched with readOutput = false
  DatabaseOutcomes,  \* FALSE: MongoDB may refuse a write or a removal
  LockErrors,        \* TRUE: open or flock may fail other than by EWOULDBLOCK
  MaxInterrupts      \* bound on crashes, shutdowns and failed starts

ASSUME EnvironmentAssumption ==
  /\ Instances \cap Pids = {}
  /\ Instances \cap {"none", "foreign", "orphan"} = {}
  /\ RestoreChoices \subseteq BOOLEAN
  /\ InheritChoices \subseteq BOOLEAN
  /\ DatabaseOutcomes \subseteq BOOLEAN
  /\ LockErrors \in BOOLEAN
  /\ MaxInterrupts \in Nat

VARIABLES
  phase,        \* how far SystemEnvironmentFacade::init has got
  restore,      \* m_state.settings.restoreSystemAfterInterrupt
  zombies,      \* zombieChildProcesses that init has still to kill
  arrived,      \* m_arrivedCommands of the gateway, by operation key
  executing,    \* operations the service is carrying out
  unjournaled,  \* children whose openProcessEvent call is still to come
  closing,      \* dead children whose closeProcessEvent call is still to come
  process,      \* the machine's processes: what runs under each pid
  lockHolders,  \* processes with a descriptor of the locked open file
  unfinished,   \* history: operations journaled as begun and not ended since
  tracked,      \* history: live children whose launch the journal was told
  interrupts    \* history: crashes, shutdowns and failed starts so far

serviceVars == <<phase, restore, zombies, arrived, executing, unjournaled, closing>>
machineVars == <<process, lockHolders>>
historyVars == <<unfinished, tracked, interrupts>>
vars == <<journalVars, serviceVars, machineVars, historyVars>>

Initializing == {"unique", "cleaning", "cleaningEvents", "reading", "killing", "ready"}
Up == Initializing \union {"running"}
Phases == Up \union {"absent", "refused"}

Owners == Instances \union {"none", "foreign", "orphan"}

TypeOK ==
  /\ JournalTypeOK
  /\ phase \in [Instances -> Phases]
  /\ restore \in [Instances -> BOOLEAN]
  /\ zombies \in [Instances -> SUBSET Pids]
  /\ arrived \in [Instances -> SUBSET Keys]
  /\ executing \in [Instances -> SUBSET Keys]
  /\ unjournaled \in [Instances -> SUBSET Pids]
  /\ closing \in [Instances -> SUBSET Pids]
  /\ process \in [Pids -> Owners]
  /\ lockHolders \subseteq Instances \union Pids
  /\ unfinished \subseteq Keys
  /\ tracked \subseteq Pids
  /\ interrupts \in 0 .. MaxInterrupts

Init ==
  /\ JournalInit
  /\ phase = [i \in Instances |-> "absent"]
  /\ restore = [i \in Instances |-> FALSE]
  /\ zombies = [i \in Instances |-> {}]
  /\ arrived = [i \in Instances |-> {}]
  /\ executing = [i \in Instances |-> {}]
  /\ unjournaled = [i \in Instances |-> {}]
  /\ closing = [i \in Instances |-> {}]
  /\ process = [p \in Pids |-> "none"]
  /\ lockHolders = {}
  /\ unfinished = {}
  /\ tracked = {}
  /\ interrupts = 0

-----------------------------------------------------------------------------
(* SystemEnvironmentFacade::init.                                          *)

\* A faulty variant: the result of flock is not looked at.
UniqueAnyway(i) ==
  /\ lockHolders' = lockHolders \union {i}
  /\ phase' = [phase EXCEPT ![i] = "unique"]

\* open, then flock with LOCK_EX | LOCK_NB.  The lock belongs to the open file
\* description, so whoever has a copy of the descriptor holds it.  Any failure
\* but EWOULDBLOCK passes for uniqueness, and leaves this instance no lock.
isApplicationInstanceUnique(i) ==
  \/ /\ lockHolders = {}
     /\ lockHolders' = {i}
     /\ phase' = [phase EXCEPT ![i] = "unique"]
  \/ /\ lockHolders # {}
     /\ phase' = [phase EXCEPT ![i] = "refused"]
     /\ UNCHANGED lockHolders
  \/ /\ LockErrors
     /\ phase' = [phase EXCEPT ![i] = "unique"]
     /\ UNCHANGED lockHolders

Start(i) ==
  /\ phase[i] = "absent"
  /\ isApplicationInstanceUnique(i)
  /\ \E r \in RestoreChoices : restore' = [restore EXCEPT ![i] = r]
  /\ UNCHANGED <<journalVars, zombies, arrived, executing, unjournaled, closing,
                 process, historyVars>>

\* init returned false because of the lock; the service ends.
LeaveRefused(i) ==
  /\ phase[i] = "refused"
  /\ phase' = [phase EXCEPT ![i] = "absent"]
  /\ UNCHANGED <<journalVars, restore, zombies, arrived, executing, unjournaled,
                 closing, machineVars, historyVars>>

NextPhase(i, next) ==
  /\ phase' = [phase EXCEPT ![i] = next]
  /\ UNCHANGED <<restore, arrived, executing, unjournaled, closing>>

\* Umask, database and logger; then what the journal is for depends on restore.
InitStorage(i) ==
  /\ phase[i] = "unique"
  /\ NextPhase(i, IF restore[i] \/ isJournalEmpty THEN "reading" ELSE "cleaning")
  /\ UNCHANGED <<journalVars, zombies, machineVars, historyVars>>

\* cleanJournal, first removal: the sentinel is the logger's, not the table's.
CleanOperations(i, done) ==
  /\ phase[i] = "cleaning"
  /\ removeClientOperation(done, ALL_KEYS)
  /\ unfinished' = {}
  /\ NextPhase(i, "cleaningEvents")
  /\ UNCHANGED <<processEvents, registrations, zombies, machineVars, tracked,
                 interrupts>>

\* cleanJournal, second removal.
CleanProcessEvents(i, done) ==
  /\ phase[i] = "cleaningEvents"
  /\ removeProcessEvent(done, ALL_PIDS)
  /\ tracked' = {}
  /\ NextPhase(i, "reading")
  /\ UNCHANGED <<operations, registrations, zombies, machineVars, unfinished,
                 interrupts>>

ReadZombies(i) ==
  /\ phase[i] = "reading"
  /\ zombies' = [zombies EXCEPT ![i] = getNonClosedProcesses(restore[i])]
  /\ NextPhase(i, "killing")
  /\ UNCHANGED <<journalVars, machineVars, historyVars>>

\* What the machine does when processes die: descriptors are closed, and a
\* service that is their parent has their end to journal.
Die(dead) ==
  /\ process' = [p \in Pids |-> IF p \in dead THEN "none" ELSE process[p]]
  /\ closing' = [i \in Instances |->
                   closing[i] \union {p \in dead : process[p] = i}]
  /\ tracked' = tracked \ dead

\* PROCESS_LAUNCHER.kill(pid): SIGKILL to whatever has the pid now.  The
\* document stays in the table.
KillZombie(i, p) ==
  /\ phase[i] = "killing"
  /\ p \in zombies[i]
  /\ zombies' = [zombies EXCEPT ![i] = @ \ {p}]
  /\ Die({p})
  /\ lockHolders' = lockHolders \ {p}
  /\ UNCHANGED <<journalVars, phase, restore, arrived, executing, unjournaled,
                 unfinished, interrupts>>

\* writePidFile and initDerive.
FinishInit(i) ==
  /\ phase[i] = "killing"
  /\ zombies[i] = {}
  /\ NextPhase(i, "ready")
  /\ UNCHANGED <<journalVars, zombies, machineVars, historyVars>>

\* CommunicationGatewayFacade::init: requestsFromWAL become commands.
OpenGateway(i) ==
  /\ phase[i] = "ready"
  /\ phase' = [phase EXCEPT ![i] = "running"]
  /\ arrived' = [arrived EXCEPT ![i] = getInterruptedOperations(restore[i])]
  /\ UNCHANGED <<journalVars, restore, zombies, executing, unjournaled, closing,
                 machineVars, historyVars>>

-----------------------------------------------------------------------------
(* The running service.  Which client command or child process it is that  *)
(* an application journals is its own business; the order of the calls is  *)
(* the one the tables at the head of system/wal.cpp lay down.              *)

BeginOperation(i, k, done) ==
  /\ phase[i] = "running"
  /\ k \notin executing[i]
  /\ openOperation(restore[i], done, k)
  /\ executing' = [executing EXCEPT ![i] = @ \union {k}]
  /\ arrived' = [arrived EXCEPT ![i] = @ \ {k}]
  /\ unfinished' = IF restore[i] /\ done THEN unfinished \union {k} ELSE unfinished
  /\ UNCHANGED <<processEvents, registrations, phase, restore, zombies, unjournaled,
                 closing, machineVars, tracked, interrupts>>

FinishOperation(i, k, done) ==
  /\ phase[i] = "running"
  /\ k \in executing[i]
  /\ \/ closeClientOperation(done, k)
     \/ endOperation(restore[i], done, k)
  /\ executing' = [executing EXCEPT ![i] = @ \ {k}]
  /\ unfinished' = unfinished \ {k}
  /\ UNCHANGED <<processEvents, registrations, phase, restore, zombies, arrived,
                 unjournaled, closing, machineVars, tracked, interrupts>>

\* A pid is given out again only after its last owner has been journaled away:
\* the kernel goes round all the others first.
Available(p) ==
  /\ process[p] = "none"
  /\ \A i \in Instances : p \notin unjournaled[i] \union closing[i]

\* ProcessLauncher::launch.  With readOutput the child closes what it inherits.
LaunchChild(i, p, inherits) ==
  /\ phase[i] = "running"
  /\ Available(p)
  /\ process' = [process EXCEPT ![p] = i]
  /\ unjournaled' = [unjournaled EXCEPT ![i] = @ \union {p}]
  /\ lockHolders' = IF inherits /\ i \in lockHolders
                      THEN lockHolders \union {p} ELSE lockHolders
  /\ UNCHANGED <<journalVars, phase, restore, zombies, arrived, executing, closing,
                 historyVars>>

\* The pid is known only after the fork, so the child runs before it is journaled.
JournalChild(i, p, done) ==
  /\ p \in unjournaled[i]
  /\ openProcessEvent(restore[i], done, p)
  /\ unjournaled' = [unjournaled EXCEPT ![i] = @ \ {p}]
  /\ tracked' = IF restore[i] /\ done /\ process[p] = i
                  THEN tracked \union {p} ELSE tracked
  /\ UNCHANGED <<operations, registrations, phase, restore, zombies, arrived,
                 executing, closing, machineVars, unfinished, interrupts>>

\* callbackProcessCrashed reaches the application, perhaps before JournalChild.
CloseChild(i, p, done) ==
  /\ p \in closing[i]
  /\ closeProcessEvent(done, p)
  /\ closing' = [closing EXCEPT ![i] = @ \ {p}]
  /\ UNCHANGED <<operations, registrations, phase, restore, zombies, arrived,
                 executing, unjournaled, machineVars, historyVars>>

RegisterUser(i, u, done) ==
  /\ phase[i] = "running"
  /\ openUserRegistration(restore[i], done, u)
  /\ UNCHANGED <<operations, processEvents, serviceVars, machineVars, historyVars>>

UnregisterUser(i, u, done) ==
  /\ phase[i] = "running"
  /\ closeUserRegistration(done, u)
  /\ UNCHANGED <<operations, processEvents, serviceVars, machineVars, historyVars>>

-----------------------------------------------------------------------------
(* The end of a service, and the other processes of the machine.           *)

Forget(i) ==
  /\ interrupts < MaxInterrupts
  /\ interrupts' = interrupts + 1
  /\ phase' = [phase EXCEPT ![i] = "absent"]
  /\ restore' = [restore EXCEPT ![i] = FALSE]
  /\ zombies' = [zombies EXCEPT ![i] = {}]
  /\ arrived' = [arrived EXCEPT ![i] = {}]
  /\ executing' = [executing EXCEPT ![i] = {}]
  /\ unjournaled' = [unjournaled EXCEPT ![i] = {}]
  /\ UNCHANGED <<journalVars, unfinished>>

\* A crash, or init returning false: the children live on without a parent.
Crash(i) ==
  /\ phase[i] \in Up
  /\ Forget(i)
  /\ closing' = [closing EXCEPT ![i] = {}]
  /\ process' = [p \in Pids |-> IF process[p] = i THEN "orphan" ELSE process[p]]
  /\ lockHolders' = lockHolders \ {i}
  /\ UNCHANGED tracked

\* ProcessLauncher::shutdown kills the children; no one is told.
Shutdown(i) ==
  /\ phase[i] = "running"
  /\ Forget(i)
  /\ LET children == {p \in Pids : process[p] = i}
     IN  /\ process' = [p \in Pids |-> IF p \in children THEN "none" ELSE process[p]]
         /\ lockHolders' = lockHolders \ (children \union {i})
         /\ tracked' = tracked \ children
  /\ closing' = [closing EXCEPT ![i] = {}]

ProcessEnds(p) ==
  /\ process[p] # "none"
  /\ Die({p})
  /\ lockHolders' = lockHolders \ {p}
  /\ UNCHANGED <<journalVars, phase, restore, zombies, arrived, executing, unjournaled,
                 unfinished, interrupts>>

ForeignStarts(p) ==
  /\ Available(p)
  /\ process' = [process EXCEPT ![p] = "foreign"]
  /\ UNCHANGED <<journalVars, serviceVars, lockHolders, historyVars>>

-----------------------------------------------------------------------------
InitStep(i) ==
  \/ InitStorage(i)
  \/ \E done \in DatabaseOutcomes : CleanOperations(i, done)
  \/ \E done \in DatabaseOutcomes : CleanProcessEvents(i, done)
  \/ ReadZombies(i)
  \/ \E p \in Pids : KillZombie(i, p)
  \/ FinishInit(i)
  \/ OpenGateway(i)

ClientStep(i) ==
  \E done \in DatabaseOutcomes :
    \/ \E k \in Keys : BeginOperation(i, k, done)
    \/ \E k \in Keys : FinishOperation(i, k, done)
    \/ \E u \in Users : RegisterUser(i, u, done)
    \/ \E u \in Users : UnregisterUser(i, u, done)

ChildStep(i) ==
  \E p \in Pids :
    \/ \E inherits \in InheritChoices : LaunchChild(i, p, inherits)
    \/ \E done \in DatabaseOutcomes : JournalChild(i, p, done)
    \/ \E done \in DatabaseOutcomes : CloseChild(i, p, done)

Next ==
  \/ \E i \in Instances :
       \/ Start(i)
       \/ LeaveRefused(i)
       \/ InitStep(i)
       \/ ClientStep(i)
       \/ ChildStep(i)
       \/ Crash(i)
       \/ Shutdown(i)
  \/ \E p \in Pids : ProcessEnds(p) \/ ForeignStarts(p)

Spec == Init /\ [][Next]_vars

\* A supervisor starts the service again when it has ended, and a service that
\* has started goes on with its initialization.
FairSpec ==
  Spec /\ \A i \in Instances : WF_vars(Start(i) \/ LeaveRefused(i) \/ InitStep(i))

-----------------------------------------------------------------------------
(* What the start of a service is for.                                     *)

\* The lock file (isApplicationInstanceUnique): two instances are never past it
\* together, whatever crashes and whoever has inherited the descriptor.  Holds
\* as long as open and flock fail in no other way than by EWOULDBLOCK.
SingleInstance ==
  \A i, j \in Instances : phase[i] \in Up /\ phase[j] \in Up => i = j

\* The journal of client operations (openOperation, getInterruptedOperations):
\* an operation that was journaled and has not ended can be found by the query
\* of a restart, through every crash and restart, and however often it was
\* begun again.
InterruptedSurvive == unfinished \subseteq getNonIntegrityClientOperations

\* The journal of child processes (openProcessEvent, closeProcessEvent): a child
\* whose launch was journaled has a document as long as it lives, its parent
\* being alive or not and whatever became of its siblings.
LiveChildIsJournaled == \A p \in tracked : processEvents[p] > 0

\* init kills the left-over children before it lets the service go: no child of
\* an interrupted run is alive once a restoring start is over, unless its pid is
\* in the journal more than once.
OrphansAreKilled ==
  \A i \in Instances : phase[i] = "ready" /\ restore[i] =>
    \A p \in tracked : process[p] = "orphan" => processEvents[p] > 1

\* CommunicationGatewayFacade::init replays what was interrupted: a restoring
\* start hands every unfinished operation to the service when it goes to work.
InterruptedAreDelivered ==
  [][\A i \in Instances :
       phase[i] = "ready" /\ phase'[i] = "running" /\ restore[i]
         => unfinished \subseteq arrived'[i]]_vars

\* With a database that does what it is asked, nothing is replayed that did end:
\* a document of the table stands for an unfinished operation.
NothingElseIsReplayed ==
  \A k \in Keys : operations[k] > 0 => k \in unfinished

\* After an interruption every unfinished operation is, in the end, in the hands
\* of a service again (or ended), however many crashes there were on the way.
InterruptedReturn ==
  \A k \in Keys :
    (k \in unfinished) ~> \/ k \notin unfinished
                          \/ \E i \in Instances : k \in arrived[i] \union executing[i]

\* The message of isApplicationInstanceUnique (system_environment_facade.cpp:90):
\* "another instance of Video Server already is running" when it refuses.
RefusedOnlyWhileRunning ==
  [][\A i \in Instances :
       phase[i] = "absent" /\ phase'[i] = "refused"
         => \E j \in Instances : phase[j] \in Up]_vars

\* The table of child processes at the head of wal.cpp:22 and the name
\* zombieChildProcesses: what a start kills are children of an earlier run.
OnlyChildrenAreKilled ==
  [][\A i \in Instances, p \in Pids :
       p \in zombies[i] /\ p \notin zombies'[i] /\ phase'[i] = "killing"
         => process[p] # "foreign"]_vars

=============================================================================
