-------------------------- MODULE ProcessLauncher --------------------------
(***************************************************************************)
(* The child processes of a service: ProcessLauncher and ProcessHandle     *)
(* (system/process_launcher.cpp), the threads that launch, kill and close  *)
(* children, the thread that watches them and launches for other threads,  *)
(* and the kernel's part: children that die, SIGCHLD, zombies.             *)
(*                                                                         *)
(* Critical sections of m_muHandlesLock are single steps.  What launch     *)
(* does outside of them -- the notification, the fork, the assignment of   *)
(* the pid -- is a step of its own each.  A handle stands for its child;   *)
(* its pid is 0 until setRole.                                             *)
(***************************************************************************)
EXTENDS Naturals, Sequences, FiniteSets, SequencesExt

CONSTANTS
  Clients,      \* threads of the service that use the launcher
  Monitor,      \* the thread that runs threadChildProcessMonitoring
  Programs,     \* a program together with its arguments
  MaxLaunches   \* bound on the handles allocated and the tasks that wait for one

ASSUME LauncherAssumption ==
  /\ Monitor \notin Clients
  /\ MaxLaunches \in Nat

Threads == Clients \union {Monitor}
Handles == 1 .. MaxLaunches

VARIABLES
  handles,      \* m_handles
  program,      \* what each allocated handle is to run, in order of allocation
  launching,    \* how far each thread is in launch
  handle,       \* the handle each thread has allocated there
  pidKnown,     \* handles whose m_childPid is not 0 any more
  child,        \* the process behind each handle
  sigchld,      \* SIGCHLD is pending; a second one is not queued
  launchTasks,  \* m_launchTasks, the front first: what each task is to launch
  monitor,      \* where the monitoring thread is
  childsExist,  \* its local of that name
  diedProcesses,\* its local of that name, the handles still to be announced
  shutdown,     \* how far ProcessLauncher::shutdown has got
  closed,       \* history: handles a client's kill or close has removed
  announced     \* history: calls of callbackProcessCrashed for each handle

launchVars == <<program, launching, handle, pidKnown>>
kernelVars == <<child, sigchld>>
monitorVars == <<monitor, childsExist, diedProcesses>>
historyVars == <<closed, announced>>
vars == <<handles, launchVars, kernelVars, launchTasks, monitorVars, shutdown, historyVars>>

\* m_shutdown is set when the handles are gone and before the notification.
m_shutdown == shutdown \in {"flagged", "joining", "done"}

\* What the monitoring thread does between two iterations of its inner loop.
Watching == {"clock", "working", "scanning", "announcing"}

TypeOK ==
  /\ program \in Seq(Programs) /\ Len(program) <= MaxLaunches
  /\ handles \subseteq DOMAIN program
  /\ launching \in [Threads -> {"no", "allocated", "pushed", "notified", "forked"}]
  /\ handle \in [Threads -> 0 .. Len(program)]
  /\ pidKnown \subseteq DOMAIN program
  /\ child \in [Handles -> {"none", "alive", "zombie", "reaped"}]
  /\ sigchld \in BOOLEAN
  /\ launchTasks \in Seq(Programs)
  /\ monitor \in Watching \union {"checking", "dozing", "asleep", "awake", "exited"}
  /\ childsExist \in BOOLEAN
  /\ diedProcesses \subseteq Handles
  /\ shutdown \in {"no", "cleared", "flagged", "joining", "done", "killed"}
  /\ closed \subseteq Handles
  /\ announced \in [Handles -> Nat]

Init ==
  /\ handles = {}
  /\ program = <<>>
  /\ launching = [th \in Threads |-> "no"]
  /\ handle = [th \in Threads |-> 0]
  /\ pidKnown = {}
  /\ child = [h \in Handles |-> "none"]
  /\ sigchld = FALSE
  /\ launchTasks = <<>>
  /\ monitor = "checking"
  /\ childsExist = FALSE
  /\ diedProcesses = {}
  /\ shutdown = "no"
  /\ closed = {}
  /\ announced = [h \in Handles |-> 0]

-----------------------------------------------------------------------------
(* The kernel.                                                             *)

Dead(victims) ==
  /\ child' = [h \in Handles |-> IF h \in victims /\ child[h] = "alive"
                                   THEN "zombie" ELSE child[h]]
  /\ sigchld' = (sigchld \/ \E h \in victims : child[h] = "alive")

ChildDies(h) ==
  /\ child[h] = "alive"
  /\ Dead({h})
  /\ UNCHANGED <<handles, launchVars, launchTasks, monitorVars, shutdown, historyVars>>

\* signalChildDieHandler: one wait for one signal, so one zombie.
signalChildDieHandler ==
  /\ sigchld
  /\ shutdown # "killed"
  /\ sigchld' = FALSE
  /\ \E h \in Handles :
       /\ child[h] = "zombie"
       /\ child' = [child EXCEPT ![h] = "reaped"]
  /\ UNCHANGED <<handles, launchVars, launchTasks, monitorVars, shutdown, historyVars>>

\* A faulty variant: without a pid there is no process.
RunsWithPid(h) == child[h] \in {"alive", "zombie"}

\* kill(m_childPid, 0): a zombie still counts, and so does pid 0, which is the
\* process group of the service itself.
isRunning(h) == h \in pidKnown => child[h] \in {"alive", "zombie"}

\* notify_one on m_cvChildProcessMonitoring: the mutex of the wait is a local of
\* the waiting thread, so a thread on its way to sleep does not hear it.
Notify ==
  monitor' = IF monitor = "asleep" THEN "checking" ELSE monitor

-----------------------------------------------------------------------------
(* ProcessLauncher::launch, by a client or, for a task, by the monitor.    *)

\* The bound: one handle is kept back for every task in the queue.
HandleLeft == Len(program) + Len(launchTasks) < MaxLaunches

\* A faulty variant: the handle is the one after the one that was allocated.
AllocateNext(th, p) ==
  /\ program' = Append(program, p)
  /\ handle' = [handle EXCEPT ![th] = Len(program') + 1]
  /\ launching' = [launching EXCEPT ![th] = "allocated"]

Allocate(th, p) ==
  /\ program' = Append(program, p)
  /\ handle' = [handle EXCEPT ![th] = Len(program) + 1]
  /\ launching' = [launching EXCEPT ![th] = "allocated"]

\* The check for a duplicate is over before the handle is in the list.
AlreadyLaunched(p) == \E h \in handles : program[h] = p

\* launch(p, checkForDuplicate); with a duplicate it returns nullptr at once.
launch(c, p, checkForDuplicate) ==
  /\ shutdown = "no"
  /\ launching[c] = "no"
  /\ HandleLeft
  /\ ~(checkForDuplicate /\ AlreadyLaunched(p))
  /\ Allocate(c, p)
  /\ UNCHANGED <<handles, pidKnown, kernelVars, launchTasks, monitorVars, shutdown,
                 historyVars>>

Push(th) ==
  /\ launching[th] = "allocated"
  /\ handles' = handles \union {handle[th]}
  /\ launching' = [launching EXCEPT ![th] = "pushed"]
  /\ UNCHANGED <<program, handle, pidKnown, kernelVars, launchTasks, monitorVars, shutdown,
                 historyVars>>

NotifyLaunch(th) ==
  /\ launching[th] = "pushed"
  /\ Notify
  /\ launching' = [launching EXCEPT ![th] = "notified"]
  /\ UNCHANGED <<handles, program, handle, pidKnown, kernelVars, launchTasks, childsExist,
                 diedProcesses, shutdown, historyVars>>

\* When fork fails, launch returns and leaves the handle behind, its pid 0.
Fork(th) ==
  /\ launching[th] = "notified"
  /\ \/ /\ child' = [child EXCEPT ![handle[th]] = "alive"]
        /\ launching' = [launching EXCEPT ![th] = "forked"]
     \/ /\ launching' = [launching EXCEPT ![th] = "no"]
        /\ UNCHANGED child
  /\ UNCHANGED <<handles, program, handle, pidKnown, sigchld, launchTasks, monitorVars,
                 shutdown, historyVars>>

\* setRole in the parent.
SetRole(th) ==
  /\ launching[th] = "forked"
  /\ pidKnown' = pidKnown \union {handle[th]}
  /\ launching' = [launching EXCEPT ![th] = "no"]
  /\ UNCHANGED <<handles, program, handle, kernelVars, launchTasks, monitorVars, shutdown,
                 historyVars>>

LaunchStep(th) ==
  shutdown # "killed" /\ (Push(th) \/ NotifyLaunch(th) \/ Fork(th) \/ SetRole(th))

-----------------------------------------------------------------------------
(* The other calls of a client.                                            *)

\* A faulty variant: the child is killed and its handle stays in the list.
KillAndKeep(h) ==
  /\ shutdown = "no"
  /\ h \in pidKnown \intersect handles
  /\ Dead({h})
  /\ closed' = closed \union {h}
  /\ UNCHANGED <<handles, launchVars, launchTasks, monitorVars, shutdown, announced>>

\* kill(handle): nothing happens unless the handle is still in the list.
kill(h) ==
  /\ shutdown = "no"
  /\ h \in pidKnown \intersect handles
  /\ Dead({h})
  /\ handles' = handles \ {h}
  /\ closed' = closed \union {h}
  /\ UNCHANGED <<launchVars, launchTasks, monitorVars, shutdown, announced>>

\* close(handle): SIGTERM, which the child may take its time over.
close(h) ==
  /\ shutdown = "no"
  /\ h \in pidKnown \intersect handles
  /\ handles' = handles \ {h}
  /\ closed' = closed \union {h}
  /\ UNCHANGED <<launchVars, kernelVars, launchTasks, monitorVars, shutdown, announced>>

\* m_muLaunchTaskLock is held by runSystemClock from the look at the queue until
\* the task's launch is over.
addLaunchTask(p) ==
  /\ shutdown = "no"
  /\ monitor # "working"
  /\ HandleLeft
  /\ launchTasks' = Append(launchTasks, p)
  /\ Notify
  /\ UNCHANGED <<handles, launchVars, kernelVars, childsExist, diedProcesses, shutdown,
                 historyVars>>

\* ProcessLauncher::shutdown, once no client is in launch.  Every handle is
\* deleted, and its destructor sends SIGKILL to m_childPid, m_died being always
\* false.  If that is 0 the signal goes to the service's own process group.
Clear ==
  /\ shutdown = "no"
  /\ \A c \in Clients : launching[c] = "no"
  /\ handles' = {}
  /\ IF handles \subseteq pidKnown
       THEN Dead(handles) /\ shutdown' = "cleared"
       ELSE UNCHANGED kernelVars /\ shutdown' = "killed"
  /\ UNCHANGED <<launchVars, launchTasks, monitorVars, historyVars>>

SetShutdown ==
  /\ shutdown = "cleared"
  /\ shutdown' = "flagged"
  /\ UNCHANGED <<handles, launchVars, kernelVars, launchTasks, monitorVars, historyVars>>

NotifyShutdown ==
  /\ shutdown = "flagged"
  /\ Notify
  /\ shutdown' = "joining"
  /\ UNCHANGED <<handles, launchVars, kernelVars, launchTasks, childsExist, diedProcesses,
                 historyVars>>

Join ==
  /\ shutdown = "joining"
  /\ monitor = "exited"
  /\ shutdown' = "done"
  /\ UNCHANGED <<handles, launchVars, kernelVars, launchTasks, monitorVars, historyVars>>

-----------------------------------------------------------------------------
(* threadChildProcessMonitoring.                                           *)

\* The predicate of m_cvChildProcessMonitoring.wait.
WorkToDo == handles # {} \/ launchTasks # <<>>

CheckPredicate ==
  /\ monitor = "checking"
  /\ monitor' = IF WorkToDo \/ m_shutdown THEN "awake" ELSE "dozing"
  /\ UNCHANGED <<childsExist, diedProcesses, handles, launchVars, kernelVars,
                 launchTasks, announced>>

FallAsleep ==
  /\ monitor = "dozing"
  /\ monitor' = "asleep"
  /\ UNCHANGED <<childsExist, diedProcesses, handles, launchVars, kernelVars,
                 launchTasks, announced>>

WakeUp ==
  /\ monitor = "awake"
  /\ childsExist' = WorkToDo
  /\ monitor' = CASE m_shutdown -> "exited"
                  [] ~m_shutdown /\ WorkToDo -> "clock"
                  [] OTHER -> "checking"
  /\ UNCHANGED <<diedProcesses, handles, launchVars, kernelVars, launchTasks, announced>>

\* runSystemClock: the task launched is the back one, the task removed is the
\* front one.
runSystemClock ==
  /\ monitor = "clock"
  /\ IF launchTasks = <<>>
       THEN monitor' = "scanning" /\ UNCHANGED <<launchTasks, program, handle, launching>>
       ELSE LET p == Last(launchTasks) IN
            /\ launchTasks' = Tail(launchTasks)
            /\ \/ AlreadyLaunched(p) /\ monitor' = "scanning"
                  /\ UNCHANGED <<program, handle, launching>>
               \/ monitor' = "working" /\ Allocate(Monitor, p)
  /\ UNCHANGED <<childsExist, diedProcesses, handles, pidKnown, kernelVars, announced>>

TaskLaunched ==
  /\ monitor = "working"
  /\ launching[Monitor] = "no"
  /\ monitor' = "scanning"
  /\ UNCHANGED <<childsExist, diedProcesses, handles, launchVars, kernelVars,
                 launchTasks, announced>>

Scan(died) ==
  /\ monitor = "scanning"
  /\ handles' = handles \ died
  /\ childsExist' = (handles' # {})
  /\ monitor' = "announcing"
  /\ UNCHANGED <<launchVars, kernelVars, launchTasks, announced>>

\* A faulty variant: the dead leave the list and nobody is told.
ScanInSilence == Scan({h \in handles : ~isRunning(h)}) /\ diedProcesses' = {}

\* From the look at every child to the end of the critical section.
ScanHandles ==
  /\ diedProcesses' = {h \in handles : ~isRunning(h)}
  /\ Scan(diedProcesses')

\* A faulty variant: of the children that died in one pass one is announced.
AnnounceOne ==
  /\ monitor = "announcing"
  /\ \E h \in diedProcesses : announced' = [announced EXCEPT ![h] = @ + 1]
  /\ diedProcesses' = {}
  /\ UNCHANGED <<monitor, childsExist, handles, launchVars, kernelVars, launchTasks>>

\* callbackProcessCrashed of every observer.
Announce ==
  /\ monitor = "announcing"
  /\ \E h \in diedProcesses :
       /\ announced' = [announced EXCEPT ![h] = @ + 1]
       /\ diedProcesses' = diedProcesses \ {h}
  /\ UNCHANGED <<monitor, childsExist, handles, launchVars, kernelVars, launchTasks>>

\* The inner loop does not ask for m_shutdown, the outer one does.
EndIteration ==
  /\ monitor = "announcing"
  /\ diedProcesses = {}
  /\ monitor' = CASE childsExist -> "clock"
                  [] ~childsExist /\ m_shutdown -> "exited"
                  [] OTHER -> "checking"
  /\ UNCHANGED <<childsExist, diedProcesses, handles, launchVars, kernelVars,
                 launchTasks, announced>>

MonitorStep ==
  /\ shutdown # "killed"
  /\ \/ CheckPredicate
     \/ FallAsleep
     \/ WakeUp
     \/ runSystemClock
     \/ TaskLaunched
     \/ ScanHandles
     \/ Announce
     \/ EndIteration
  /\ UNCHANGED <<shutdown, closed>>

SpuriousWakeup ==
  /\ monitor = "asleep"
  /\ shutdown # "killed"
  /\ monitor' = "checking"
  /\ UNCHANGED <<childsExist, diedProcesses, handles, launchVars, kernelVars,
                 launchTasks, shutdown, historyVars>>

-----------------------------------------------------------------------------
Next ==
  \/ \E h \in Handles : ChildDies(h) \/ kill(h) \/ close(h)
  \/ signalChildDieHandler
  \/ \E c \in Clients, p \in Programs, checkForDuplicate \in BOOLEAN :
       launch(c, p, checkForDuplicate)
  \/ \E th \in Threads : LaunchStep(th)
  \/ \E p \in Programs : addLaunchTask(p)
  \/ Clear
  \/ SetShutdown
  \/ NotifyShutdown
  \/ Join
  \/ MonitorStep
  \/ SpuriousWakeup

Spec == Init /\ [][Next]_vars

\* Threads are scheduled and signals delivered.  No child has to die, no client
\* has to call anything, and no wakeup comes by itself.
FairSpec ==
  /\ Spec
  /\ WF_vars(signalChildDieHandler)
  /\ WF_vars(MonitorStep)
  /\ \A th \in Threads : WF_vars(LaunchStep(th))

-----------------------------------------------------------------------------
(* What the launcher promises.                                             *)

\* The observers and the client who kills or closes a child do not both get to
\* deal with its end (kill, close and the monitoring thread, all under
\* m_muHandlesLock), and the observers hear of it once.
HandledOnce ==
  \A h \in Handles : announced[h] <= 1 /\ (announced[h] = 1 => h \notin closed)

\* callbackProcessCrashed is about a process that has died and been reaped: not
\* about one that is still to be forked, and not about a zombie.
OnlyTheDeadAreAnnounced ==
  \A h \in Handles : announced[h] > 0 => child[h] = "reaped"

\* The monitoring thread loses no child: a process that runs is in m_handles
\* until a client has it killed or closed, or the launcher shuts down.
LiveChildrenAreWatched ==
  \A h \in Handles :
    child[h] = "alive" /\ h \notin closed /\ shutdown = "no" => h \in handles

\* Nobody's death is forgotten: a child that has died is still to be looked at, or about
\* to be announced, or has been announced, unless a client has closed it
\* (threadChildProcessMonitoring takes it from the list before it calls the observers).
NoDeathIsForgotten ==
  \A h \in Handles :
    child[h] \in {"zombie", "reaped"} /\ h \notin closed /\ shutdown = "no" =>
      h \in handles \union diedProcesses \/ announced[h] = 1

\* While the monitoring thread is at it, a child that has been reaped is announced.
DeathIsAnnounced ==
  \A h \in Handles :
    (child[h] = "reaped" /\ h \in handles /\ monitor \in Watching)
      ~> (announced[h] = 1 \/ h \in closed \/ shutdown # "no")

=============================================================================
