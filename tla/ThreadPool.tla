----------------------------- MODULE ThreadPool -----------------------------
(***************************************************************************)
(* The worker pool of system/thread_pool.cpp: a queue of tasks behind a    *)
(* mutex, a condition variable, workers, and the activity bits and current *)
(* tasks that each worker keeps without the mutex.                         *)
(*                                                                         *)
(* A step is a critical section or a step between two of them.  push and   *)
(* notify are two steps in enqueue and in shutdown, as in the code.        *)
(***************************************************************************)
EXTENDS Naturals, Sequences, FiniteSets, Functions

CONSTANTS
  Workers,  \* indices of m_pool
  Tasks,    \* tasks, each enqueued at most once
  NoTask

ASSUME PoolAssumption ==
  /\ Workers # {} /\ IsFiniteSet(Workers)
  /\ NoTask \notin Tasks

VARIABLES
  inputTasks,     \* m_inputTasks
  terminate,      \* m_terminate
  stopped,        \* m_stopped: shutdown has joined the workers
  pc,             \* where each worker is in Worker()
  task,           \* what each worker took and has not given up
  activity,       \* m_threadsActivity: the workers whose bit is set
  loaded,         \* the word of bits a worker has read and will write back
  notifications,  \* enqueue calls between push and notify_one
  broadcast,      \* shutdown is between m_terminate and notify_all
  finished,       \* history: tasks whose processInThread has returned
  accepted        \* history: tasks enqueued before shutdown

queueVars == <<inputTasks, terminate, stopped>>
workerVars == <<pc, task, activity, loaded>>
signalVars == <<notifications, broadcast>>
historyVars == <<finished, accepted>>
vars == <<queueVars, workerVars, signalVars, historyVars>>

\* Between these two a worker holds a task; "waiting" is the wait set of
\* m_condition.
Holding == {"taken", "marking", "running"}
Places == Holding \union {"checking", "waiting", "ended", "clearing", "exited"}

Held == {task[w] : w \in {v \in Workers : pc[v] \in Holding}}
Known == Range(inputTasks) \union Held \union finished

TypeOK ==
  /\ inputTasks \in Seq(Tasks)
  /\ terminate \in BOOLEAN
  /\ stopped \in BOOLEAN
  /\ pc \in [Workers -> Places]
  /\ task \in [Workers -> Tasks \union {NoTask}]
  /\ \A w \in Workers : pc[w] \in Holding => task[w] \in Tasks
  /\ activity \subseteq Workers
  /\ loaded \in [Workers -> SUBSET Workers]
  /\ notifications \in Nat
  /\ broadcast \in BOOLEAN
  /\ finished \subseteq Tasks
  /\ accepted \subseteq Tasks

\* The constructor has returned.
Init ==
  /\ inputTasks = <<>>
  /\ terminate = FALSE
  /\ stopped = FALSE
  /\ pc = [w \in Workers |-> "checking"]
  /\ task = [w \in Workers |-> NoTask]
  /\ activity = {}
  /\ loaded = [w \in Workers |-> {}]
  /\ notifications = 0
  /\ broadcast = FALSE
  /\ finished = {}
  /\ accepted = {}

-----------------------------------------------------------------------------
(* Clients.                                                                *)

\* A faulty variant: only a task that finds the queue empty is announced.
AnnounceTheFirst(t) ==
  /\ ~stopped
  /\ t \notin Known
  /\ inputTasks' = Append(inputTasks, t)
  /\ notifications' = IF inputTasks = <<>> THEN notifications + 1 ELSE notifications
  /\ accepted' = IF terminate THEN accepted ELSE accepted \union {t}
  /\ UNCHANGED <<terminate, stopped, workerVars, broadcast, finished>>

\* The critical section of enqueue.  It does not ask for m_terminate: a task
\* that arrives later is run only if a worker has not left yet.
enqueue(t) ==
  /\ ~stopped
  /\ t \notin Known
  /\ inputTasks' = Append(inputTasks, t)
  /\ notifications' = notifications + 1
  /\ accepted' = IF terminate THEN accepted ELSE accepted \union {t}
  /\ UNCHANGED <<terminate, stopped, workerVars, broadcast, finished>>

\* m_condition.notify_one, lost when nobody waits.
NotifyOne ==
  /\ notifications > 0
  /\ notifications' = notifications - 1
  /\ \/ \E w \in Workers :
          /\ pc[w] = "waiting"
          /\ pc' = [pc EXCEPT ![w] = "checking"]
     \/ /\ \A w \in Workers : pc[w] # "waiting"
        /\ UNCHANGED pc
  /\ UNCHANGED <<queueVars, task, activity, loaded, broadcast, historyVars>>

\* The critical section of shutdown, called once.
shutdown ==
  /\ ~terminate
  /\ terminate' = TRUE
  /\ broadcast' = TRUE
  /\ UNCHANGED <<inputTasks, stopped, workerVars, notifications, historyVars>>

\* A faulty variant: shutdown wakes one worker.
NotifyOnlyOne ==
  /\ broadcast
  /\ broadcast' = FALSE
  /\ \/ \E w \in Workers :
          /\ pc[w] = "waiting"
          /\ pc' = [pc EXCEPT ![w] = "checking"]
     \/ /\ \A w \in Workers : pc[w] # "waiting"
        /\ UNCHANGED pc
  /\ UNCHANGED <<queueVars, task, activity, loaded, notifications, historyVars>>

NotifyAll ==
  /\ broadcast
  /\ broadcast' = FALSE
  /\ pc' = [w \in Workers |-> IF pc[w] = "waiting" THEN "checking" ELSE pc[w]]
  /\ UNCHANGED <<queueVars, task, activity, loaded, notifications, historyVars>>

\* Every thread has been joined.
Join ==
  /\ terminate
  /\ ~broadcast
  /\ ~stopped
  /\ \A w \in Workers : pc[w] = "exited"
  /\ stopped' = TRUE
  /\ UNCHANGED <<inputTasks, terminate, workerVars, signalVars, historyVars>>

-----------------------------------------------------------------------------
(* Worker.                                                                 *)

\* A faulty variant: wait without a predicate, so a worker that was busy when
\* the notification came goes to sleep over a queue that is not empty.
WaitBlindly(w) ==
  /\ pc[w] = "checking"
  /\ ~terminate
  /\ pc' = [pc EXCEPT ![w] = "waiting"]
  /\ UNCHANGED <<queueVars, task, activity, loaded, signalVars, historyVars>>

\* m_condition.wait with its predicate false.
Wait(w) ==
  /\ pc[w] = "checking"
  /\ inputTasks = <<>>
  /\ ~terminate
  /\ pc' = [pc EXCEPT ![w] = "waiting"]
  /\ UNCHANGED <<queueVars, task, activity, loaded, signalVars, historyVars>>

SpuriousWakeup(w) ==
  /\ pc[w] = "waiting"
  /\ pc' = [pc EXCEPT ![w] = "checking"]
  /\ UNCHANGED <<queueVars, task, activity, loaded, signalVars, historyVars>>

\* A faulty variant: a worker leaves as soon as it is told to.
LeaveAtOnce(w) ==
  /\ pc[w] = "checking"
  /\ terminate
  /\ pc' = [pc EXCEPT ![w] = "exited"]
  /\ UNCHANGED <<queueVars, task, activity, loaded, signalVars, historyVars>>

Leave(w) ==
  /\ pc[w] = "checking"
  /\ inputTasks = <<>>
  /\ terminate
  /\ pc' = [pc EXCEPT ![w] = "exited"]
  /\ UNCHANGED <<queueVars, task, activity, loaded, signalVars, historyVars>>

\* A faulty variant: the task is looked at and not removed.
TakeFront(w) ==
  /\ pc[w] = "checking"
  /\ inputTasks # <<>>
  /\ task' = [task EXCEPT ![w] = Head(inputTasks)]
  /\ pc' = [pc EXCEPT ![w] = "taken"]
  /\ UNCHANGED <<queueVars, activity, loaded, signalVars, historyVars>>

\* A faulty variant: the pointer the worker runs with is not set.
TakeNothing(w) ==
  /\ pc[w] = "checking"
  /\ inputTasks # <<>>
  /\ inputTasks' = Tail(inputTasks)
  /\ pc' = [pc EXCEPT ![w] = "taken"]
  /\ UNCHANGED <<terminate, stopped, task, activity, loaded, signalVars, historyVars>>

Take(w) ==
  /\ pc[w] = "checking"
  /\ inputTasks # <<>>
  /\ task' = [task EXCEPT ![w] = Head(inputTasks)]
  /\ inputTasks' = Tail(inputTasks)
  /\ pc' = [pc EXCEPT ![w] = "taken"]
  /\ UNCHANGED <<terminate, stopped, activity, loaded, signalVars, historyVars>>

\* std::vector<bool> packs the bits into a word, so setting one reads and writes
\* them all, and the workers do it without the mutex.
ReadActivity(w) ==
  /\ \/ pc[w] = "taken" /\ pc' = [pc EXCEPT ![w] = "marking"]
     \/ pc[w] = "ended" /\ pc' = [pc EXCEPT ![w] = "clearing"]
  /\ loaded' = [loaded EXCEPT ![w] = activity]
  /\ UNCHANGED <<queueVars, task, activity, signalVars, historyVars>>

SetActive(w) ==
  /\ pc[w] = "marking"
  /\ activity' = loaded[w] \union {w}
  /\ pc' = [pc EXCEPT ![w] = "running"]
  /\ UNCHANGED <<queueVars, task, loaded, signalVars, historyVars>>

\* processInThread returns.
EndTask(w) ==
  /\ pc[w] = "running"
  /\ finished' = finished \union {task[w]}
  /\ task' = [task EXCEPT ![w] = NoTask]
  /\ pc' = [pc EXCEPT ![w] = "ended"]
  /\ UNCHANGED <<queueVars, activity, loaded, signalVars, accepted>>

ClearActive(w) ==
  /\ pc[w] = "clearing"
  /\ activity' = loaded[w] \ {w}
  /\ pc' = [pc EXCEPT ![w] = "checking"]
  /\ UNCHANGED <<queueVars, task, loaded, signalVars, historyVars>>

WorkerStep(w) ==
  \/ Wait(w)
  \/ Leave(w)
  \/ Take(w)
  \/ ReadActivity(w)
  \/ SetActive(w)
  \/ EndTask(w)
  \/ ClearActive(w)

Next ==
  \/ \E t \in Tasks : enqueue(t)
  \/ NotifyOne
  \/ shutdown
  \/ NotifyAll
  \/ Join
  \/ \E w \in Workers : WorkerStep(w) \/ SpuriousWakeup(w)

Spec == Init /\ [][Next]_vars

\* The scheduler runs every thread, processInThread returns, and a thread that
\* has begun enqueue or shutdown goes on with it.  Nobody has to call either.
FairSpec ==
  /\ Spec
  /\ WF_vars(NotifyOne)
  /\ WF_vars(NotifyAll)
  /\ WF_vars(Join)
  /\ \A w \in Workers : WF_vars(WorkerStep(w))

-----------------------------------------------------------------------------
(* What the pool is for.                                                   *)

\* enqueue and Worker: every task is started once, in order, by one worker.
Promise ==
  INSTANCE TaskQueue WITH pending <- inputTasks, running <- Held

RunsEachTaskOnceInOrder == Promise!Spec

\* shutdown: when it returns, no task that was enqueued before it was called is
\* still in the queue or with a worker.
ShutdownDrains == stopped => accepted \subseteq finished

\* No worker sleeps over a task that is for it (enqueue, Worker): while one does, each
\* task in the queue has a notification on its way, or a worker about to look; and none
\* sleeps through a shutdown but for its notify_all.
NobodySleepsOverWork ==
  (\E w \in Workers : pc[w] = "waiting") =>
    /\ Len(inputTasks) <= notifications + Cardinality({w \in Workers : pc[w] = "checking"})
    /\ terminate => broadcast

\* enqueue's notification is never lost on the workers: a task enqueued before
\* shutdown is run in the end, whoever was awake at the time.
EveryAcceptedTaskRuns == \A t \in Tasks : (t \in accepted) ~> (t \in finished)

\* shutdown returns: every worker hears of it, asleep or busy.
ShutdownReturns == terminate ~> stopped

\* The note on m_threadsActivity, "TODO std::atomic_bool" (thread_pool.h:34): the
\* bits are shared flags, so a pool at rest has none set, and allTasksDone says so.
allTasksDone == activity = {} /\ inputTasks = <<>>

RestIsSeen ==
  (\A w \in Workers : pc[w] = "waiting") /\ inputTasks = <<>> => allTasksDone

=============================================================================
