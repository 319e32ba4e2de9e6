# Verification of microservice_common

TLA+ specifications of *microservice_common*, the library that the services of a
video server are built on: the journal that lets a service resume after a crash, its
start and restart, the children it launches, its threads, its requests over AMQP, the
gateway its clients come in by, and the recorded sets it keeps in MongoDB.
Every module is written from the C++ of `src/`. TLC explores small instances; TLAPS
proves the most important properties for every value of the constants.

    tlc -workers 2 -config pool.cfg ThreadPool      # a run: PROJECT.json has the list
    tlapm ThreadPoolProofs.tla                      # a module of proofs

`PROJECT.json` says which lines of the source each definition stands for, which runs
there are, and which faulty variant of the code breaks each property. The variants are
in the modules, each in front of the definition it is a variant of, and marked
`A faulty variant`; no behaviour uses them.

## 1. The system

### Parts and how they interact

    application --- SystemEnvironmentFacade --- WriteAheadLogger --- DatabaseManagerBase (MongoDB)
        |                   | kill left-over children
        |            ProcessLauncher --- children, SIGCHLD
        |
        +------ CommunicationGatewayFacade --- AmqpClient, Shell, WebServer, WebsocketServer
        +------ ThreadPool, ThreadedMultitaskService (threads lent to the parts above)

A service starts with `SystemEnvironmentFacade::init`: it takes the lock file, opens the
journal, kills the children an interrupted run left behind and hands the gateway the
client operations that run had not ended. The gateway turns them, and what arrives
from the networks, into commands. The application runs the commands, journals their
beginning and end, and launches children whose death a thread of `ProcessLauncher`
announces through callbacks.

| Part | State it keeps | Operations | What is hard | What makes it correct |
|---|---|---|---|---|
| write-ahead journal: `system/wal`, three tables of `storage/database_manager_base` | documents per operation key, pid, user id; they outlive every process | open, close, query, clean | crash between any two calls; a write refused and not looked at; sentinels of two layers | what was begun and not ended is found after a crash, and nothing else is |
| environment: `system/system_environment_facade` | lock file, settings, list of left-over children | `init`, unwinding | instances that start together; descriptors that children inherit; pids given to someone else | one instance; orphans die; operations are handed on |
| child processes: `system/process_launcher` | `m_handles`, pids, `m_launchTasks`, named semaphores | `launch`, `kill`, `close`, `addLaunchTask`, `shutdown`, monitoring thread, SIGCHLD handler | the handle is visible before the fork; signals are not queued; lost notifications | a death is announced, once, to the one who is to deal with it |
| thread pool: `system/thread_pool` | queue, `m_terminate`, activity bits, current tasks | `enqueue`, worker, `shutdown`, `allTasksDone`, cancel | notification against a worker going to sleep; shutdown with a full queue | each task once, in order; none lost; shutdown drains and returns |
| AMQP client: `communication/amqp_client_c` | table of expected responses, refused ids, correlation ids | send, check, get, blocking send, reply, poll | the reply against the entry, the timeout and the check; repeats | one outcome for a request; a reply finds its request |
| gateway: `communication/communication_gateway_facade` | arrived commands, connections, callback thread | init, polling, hand-out of commands, `shutdown` | commands of the journal, of the configuration and of clients in one queue; a thread or the main loop polls; `shutdown` joins a thread that may block | what is replayed comes first; who asks is answered; `shutdown` returns |
| multitask service: `system/threaded_multitask_service` | clients of each of four threads | add, remove, run, shutdown | a client added or a shutdown while the thread goes to sleep; callbacks under the lock | an added client is run; shutdown returns |
| persistence metadata: `storage/database_manager_base` | metadata, payload tables, descriptions of sessions in MongoDB; references to the tables in memory | create, update, record, describe, clear | several tables in several queries, a recorder that goes on meanwhile, a crash in between | descriptions cover the payload; nothing is stored that no metadata leads to; a deletion keeps to its context |
| shell: `communication/shell` | one client, its descriptor, observers | accept, read, send, disconnect | one client at a time; a client that leaves before its answer; descriptors given out again | an answer goes to who asked; others get their turn |
| system monitor: `system/system_monitor` | leases of video cards, samples of `/proc` | next card, release, sample | choice and reservation are two critical sections | two callers do not get the same place |
| object pool: `system/object_pool` | instances with reference counts | `getInstance` | look and use without a lock | an instance has one user |
| websocket server, web server, HTTP client, AMQP controller | a flag, a map of connections | thin layers over libraries | threads of the library | nothing of their own to get wrong in time |
| objrepr listener and bus | handlers, one pending request | blocking request, callbacks | proprietary library | the answer wakes its requester |
| network splitter, shared memory server | none | stubs | - | - |
| commands, factories, convertor | what the application defines | interfaces | - | - |
| configuration, arguments, loggers, daemonizator, library loader, common types | set once at start | parse, print, fork | - | - |

Every component is also in `PROJECT.json`, with its status, and the hazards, each with
the line where it bites and the properties that would catch it. Section 8 says what is
not modelled, and why.

## 2. Modules

| Module | What it is |
|---|---|
| `WriteAheadLog` | tables and operations of the journal; no behaviour of its own |
| `SystemEnvironment` | EXTENDS `WriteAheadLog`: instances of the service start, work, crash, restart |
| `MCSystemEnvironment` | symmetry for TLC |
| `SystemEnvironmentProofs` | theorems about the two |
| `TaskQueue` | abstract: submit, start in order, finish |
| `ThreadPool`, `ThreadPoolProofs` | the pool, which implements `TaskQueue`; theorems |
| `ProcessLauncher`, `ProcessLauncherProofs` | threads that launch, the monitoring thread, the kernel's part; theorems |
| `AsyncRequests` | abstract: a request is answered or times out |
| `AmqpClient`, `AmqpClientProofs` | the client, which implements `AsyncRequests`; theorems |
| `CommunicationGateway`, `CommunicationGatewayProofs` | the gateway and the shell together: clients, the socket, the polling thread, the queue of commands; theorems |
| `MultitaskService`, `MultitaskServiceProofs` | a thread that runs its clients under their lock; theorems |
| `PersistenceSets`, `PersistenceSetsProofs` | a recorder, the refresh of descriptions and the clearing of a context over MongoDB; theorems about payload and clearing |
| `SessionDescriptionProofs` | EXTENDS `PersistenceSetsProofs`: theorems about types and the refresh of descriptions |
| `MCCommunicationGateway`, `MCPersistenceSets` | what the instances of the two consist of |

`ProcessLauncher`, `ThreadPool`, `AmqpClient` and `MultitaskService` need no module of their
own to be checked: their constants are sets given in the `.cfg` files.

### WriteAheadLog

A table is the number of documents per key, since nothing a start does depends on more:
`getNonIntegrity*` is a `$group` by key with `count: 1`, so a key with two documents is as
good as none. Client operations are upserted and have one document at most; process
events are inserted, so a pid that comes back gets a second one. `done` is whether
MongoDB did what it was asked to; the methods that call it do not look. The two
sentinels for "everything" of the logger and of the tables are kept apart, because they
differ for operations (`"all_keys"` against `""`) and agree for process events.

### SystemEnvironment

`phase[i]` is how far `init` of instance `i` has got; every step of `init` that reads or
changes something is an action, so a crash can come between any two of them. The
machine is modelled as far as the code depends on it: which process has which pid
(`process`: an instance's child, an orphan, a foreign process), and who has a descriptor of
the locked file (`lockHolders`). `flock` belongs to the open file description, so a child
launched with `readOutput = false`, which closes nothing, is a holder too. A pid is reused
only when its last owner's end is journaled: the kernel goes through all the others first.

The application decides when to begin an operation or launch a child. What the model
fixes is the order of the journal's calls: `LaunchChild` and `JournalChild` are two steps,
since the pid is only known afterwards, and `CloseChild` may come before `JournalChild`.

`unfinished`, `tracked` and `interrupts` are history: nothing reads them but properties
and the bound.

### ThreadPool

A step is a critical section of `m_mutexTasks` or a step between two. `push` and
`notify_one` are two steps, so are `m_terminate` and `notify_all`. `activity` is the word of
bits behind `std::vector<bool>`: setting a bit reads the word (`ReadActivity`) and writes it
back (`SetActive`, `ClearActive`), without the mutex. A waiting worker may wake by itself.

### ProcessLauncher

Critical sections of `m_muHandlesLock` are steps; the notification, the fork and the
assignment of the pid are steps of their own, each after the handle is already in the
list. A handle stands for its child (pids are not reused here; `SystemEnvironment` models
that). `isRunning` is `kill(pid, 0)`: true of a zombie, and true of pid 0, the process group
of the service. `sigchld` is one bit and its handler reaps one zombie. `shutdown =
"killed"` is the outcome of a shutdown that finds a handle whose pid is still 0: its
destructor sends SIGKILL to that group.

### AmqpClient

Messages are told apart by their correlation id, so an id is a request, and a message is
its id. The inbox is a count of messages for each id, taken in any order; the other side
replies up to `MaxReplies` times to what reached it, and messages expire on either side.
`sending` is whoever has published and not made its entry yet: the gap in
`sendPackageAsync` on which most of the module turns. The table is a `std::map` that
threads use without a lock. What two overlapping calls on it do cannot be written down as
anything but "anything"; what can is that calls of others come between those of one, and
so `poll` is in steps: the look for the entry (`FindEntry`), the look at the refused
(`LookAtRefused`), the storing or the erasing. By then the caller may have collected an
earlier reply or timed out. Finding and taking a response is one step (`getAsyncResponse`,
`EndBlocked`): a reply that comes between its calls is as good as one before or after it.
The notification that may end a blocking wait early is left out: it could only shorten
the wait.

### CommunicationGateway

The gateway with the shell as its one network, as a service composes them: the poller
takes a request off the socket and queues a command, the main loop executes commands,
and a command's answer goes out by the number of the descriptor its request came by.
`asyncNetwork` is a choice of the configuration: with it a thread polls and `poller` moves
beside the main loop, without it the main loop polls between commands (`MainIsFree`).

A pass of `runNetworkCallbacks` is a `select` (on the server's descriptor, or on the current
client's), a `recv` that blocks, and the callback or the closing. A client is another process: it
connects, asks, waits, and may be gone at any time. `peer` is the kernel's table of open
descriptors: a number that was closed is given out again, so an answer that is late
finds whoever has the number now. `send` is called without `MSG_NOSIGNAL`, so an answer to a client
that has gone is `service = "killed"`. This is the service without the web server: where
that is on, mongoose ignores SIGPIPE for the whole process (`mg_mgr_init`), `send` fails
and the failure is logged. The backlog of `listen` is 5, more than there are clients. An
error of `recv` is left out: it is logged, the thread sleeps a second, the descriptor is
kept and the next pass asks again. A command of a request the factory does not
know is none (`Garbled`): that client waits for ever unless it leaves, and everyone behind
it too. After `shutdown` the main loop executes nothing any more; that is the application's
order of things.

### MultitaskService

The code has the loop twice. `notifies` tells the template `RunnableTask`, which notifies its
thread of a new client and is never shut down, from the dump to the database, which is
shut down and notifies nobody. The wait has a mutex of its own, so a step lies between
the look at the predicate and the sleep (`Test`, `Sleep`). The thread has the lock of the table
for a whole pass, which is `LockIsFree`. `caller` is where the owner of a client is: `"out"` from
the moment `remove` has returned, when it may destroy the client. `init` and `shutdown` do not
ask for each other: a shutdown before `init` has no thread to join, and an `init` after it
starts a thread that finds the flag set and ends.

### PersistenceSets

`metadata`, `payload` and `description` are what is in MongoDB; `tables` is the map from an id to
a payload table in the memory of the service, filled from the metadata at a start and by
the creation of a set. The payload is the set of (session, step) pairs of each table, as no
more of a record is asked for. The scan of a session is two queries (`ScanMin`, `ScanMax`)
between which the recorder writes; `todo` is the set of sessions still to be scanned, of which
the least comes first (`distinct` over an indexed field); the order of updates and inserts,
and the comparison of the tail with the last stored description, are those of
`description_test_recorder`, the only caller in the repository. Assertions are on, and one that
fails is a crash (`Stop`).

What the application does is assumed, not the code's: it knows where each set is
(`Homes`), does not record while it clears, and keeps descriptions of set 1 (`Described`),
because the code tells descriptions of two sets with the same session number apart neither in
`isSessionExistInDescription` nor in the update. There is one `DatabaseManagerBase`, and
MongoDB does what it is asked.

Two things an application should see to are *not* assumed, because no code does: that a set
the service knows is not written with another source, nor one whose reference is still to
another table (`KeepsItsPlace`); and that only sets with metadata are recorded, since
`writeTrajectoryData` asks for a reference and one that a clearing has left will do. A set of
`Wanderers` may break both, and is in `strayed` from then on; `RecordedIsFound` is about every
set that has not strayed, beside any that have, and the other properties about runs in
which none has. The theorems allow every set to be a wanderer.

`promised`, `described`, `recorded` and `strayed` are history: what payload a refresh had
before it when it began, what the finished ones had, what was recorded of each set and not
cleared since, and which sets strayed. No action reads them.

## 3. Properties

Invariants are marked I, action properties A, liveness L, refinement R.

| Property | | Says |
|---|---|---|
| `SingleInstance` | I | two instances are never past the lock file together |
| `InterruptedSurvive` | I | a journaled, unfinished operation is found by a restart's query |
| `LiveChildIsJournaled` | I | a journaled child has a document as long as it lives |
| `OrphansAreKilled` | I | no journaled orphan is alive after a restoring start, unless its pid has two documents |
| `InterruptedAreDelivered` | A | the start that goes to work hands over every unfinished operation |
| `NothingElseIsReplayed` | I | a document stands for an unfinished operation, if the database obeys |
| `InterruptedReturn` | L | an unfinished operation gets back into the hands of a service |
| `RunsEachTaskOnceInOrder` | R | the pool is a `TaskQueue` |
| `ShutdownDrains` | I | after `shutdown`, all that was enqueued before has run |
| `NobodySleepsOverWork` | I | while a worker sleeps, each queued task has a notification on its way or a worker about to look, and a shutdown still has its broadcast to make |
| `EveryAcceptedTaskRuns` | L | no notification is lost on the workers |
| `ShutdownReturns` | L | every worker hears of the shutdown |
| `HandledOnce` | I | a death is dealt with by the observers or by the client, once |
| `OnlyTheDeadAreAnnounced` | I | no zombie and no child still to be forked is announced |
| `LiveChildrenAreWatched` | I | a running child is in the list until someone takes it out |
| `NoDeathIsForgotten` | I | a child that has died is in the list, about to be announced or announced, unless a client closed it |
| `DeathIsAnnounced` | L | while the monitoring thread is in its inner loop, a reaped child is announced |
| `AnswersOnce` | R | the client implements `AsyncRequests` |
| `ResponseIsThere` | I | a response that was promised is there to be collected |
| `AwaitedIsNotHanded` | A | a reply goes to the observers only if it beats the entry or repeats one already collected |
| `AnswersReachTheAsker` | I | an answer goes to the client that asked, or to one that got the number of a client that has left |
| `ReplayedComeFirst` | I | nobody is answered while a request of the journal or of the configuration waits |
| `KilledByTheImpatient` | I | SIGPIPE ends the service only if a client left without its answer |
| `NoRequestIsLost` | I | who waits is in the backlog or connected, and its request or its answer is in a socket, with the poller or among the commands |
| `AskedIsAnswered` | L | who asks and waits is answered, from the backlog too |
| `ShutdownReturns` (gateway) | L | the polling thread sees the flag, also out of the `recv` that blocks |
| `NoCallAfterRemove` | I | a client that was removed is not being run and will not be |
| `AddedIsRun` | L | a client in the table is run, unless the thread was asleep and not told |
| `ShutdownReturns` (multitask) | L | shutdown returns, unless the thread sleeps or has clients |
| `DescriptionsCoverPayload` | I | what a finished refresh had before it lies in the described range of its session, if no set strayed |
| `RecordedIsFound` | I | what was recorded of a set that keeps its place, and not cleared, is where the service looks for it |
| `WhatIsStoredIsReachable` | I | payload and descriptions have metadata that leads to them, if no set strayed |
| `DeletionStaysInContext` | A | a clearing takes payload only from tables of its context, if no set strayed |

Each module has one type invariant besides. Every property has a variant of the code
that TLC finds it violated by, under the run's own configuration.

## 4. Runs

| Run | Instance | States | Shows |
|---|---|---|---|
| `recovery` | 2 instances, 2 keys, 2 pids, 2 interruptions, MongoDB may refuse | 240,047 | the five safety properties of start and recovery, and that nothing gets stuck |
| `redelivery` | 1 restoring instance, obedient database, fairness | 69,438 | redelivery in the end, and of nothing else |
| `pool` | 2 workers, 3 tasks, shutdown at any time, fairness | 159,396 | all of the pool's properties |
| `launcher` | 1 client, the monitor, 3 children, fairness | 166,290 | all of the launcher's properties |
| `amqp` | 1 asynchronous and 1 blocking request, 1 initiative, 3 replies | 585,714 | all of the client's properties |
| `gateway` | 3 clients with 2 requests each, one of them garbled, 2 descriptors, 2 requests to replay, fairness | 280,867 | all of the gateway's properties |
| `multitask` | 3 clients, both loops, fairness | 1,611 | all of the multitask service's properties |
| `sets` | set 1 of two sessions of two steps in either of two contexts; set 2 of one record, which strays between the two | 1,284,490 | all properties of the recorded sets |
| `refused_start`, `foreign_kill`, `idle_pool`, `misrouted_reply` | as small as the behaviour allows | - | violations: section 6 |

**Bounds, and why they are enough.** Two instances are what it takes to contend for the
lock, with a third holder in the shape of a child. Two interruptions are a crash during
the recovery from a crash. Two keys and two pids let one be unaffected by what happens to
the other; `MaxRows = 2` is what it takes for a pid to vanish from the query. Users
(`registrations`) take no part in what a start does; they are in the run without symmetry
only. Two workers and three tasks: one running, one queued behind a busy worker, one
enqueued after shutdown. Three children: one dies while another's SIGCHLD is pending and a
third is being launched. `MaxReplies = 3`: early, on time, repeated. Larger instances that
passed once: two clients with three launches (608,000 states), and two asynchronous
requests and a blocking one with two replies each (2,365,875 states). Three clients: one served, one in the
backlog, one that gets the descriptor of the first; two descriptors, so that one is given
out again while another is open; `MaxAsks = 2`, for a second request over a connection
that has had its answer. Three multitask clients: one in a pass, one added, one removed.
Two sessions of set 1: one that is described, and has grown, or is followed by a new one; two
steps make a range. Set 2 has a record of its own, which no clearing of another context may
take; it is the one that strays, in some behaviours and not in others. Raw sets only: the
other kinds are found by no query that deletes (section 6), and the proofs say for which
properties that matters. `MaxInterrupts`, `MaxRows`, `MaxLaunches`, `MaxReplies`,
`MaxAsks`, `LastSession`, `LastStep` and `Wanderers` bound the models, not the code.

**Deadlock** is checked in `recovery`, `redelivery`, `sets` and the two runs of section 6 that
share the module of the first two: a service, or its supervisor, always has something to
do. The pool, the launcher, the requests, the gateway and the multitask service come to an
end, and their runs say so.

**Fairness.** `redelivery`: a supervisor restarts a service that has ended and a service
that has started goes on with `init`; no client has to call anything, no child has to die.
Interruptions are bounded, so there is a last start. `pool`: the scheduler runs every
thread and `processInThread` returns; a thread inside `enqueue` or `shutdown` goes on; no one
has to call them, no wakeup is spontaneous. `launcher`: threads are scheduled and pending
signals delivered; no child has to die. `multitask`: the thread is scheduled, a call that has
the lock behind it returns, and a join ends with its thread; no one has to add or remove.
Weak fairness suffices in all of these: what has to happen stays enabled until it does.
`gateway`: the poller is scheduled, and the main loop, which polls and executes in turns, does
not leave a command for ever (strong fairness, since without a polling thread each disables
the other); a client reads its answer, and in the end asks or leaves when it has
nothing to wait for. That last assumption is about other processes and not optional: a client that
connects and says nothing blocks the thread in `recv`, and everyone else with it.

`DeathIsAnnounced` is limited to the inner loop of the monitoring thread, and `AddedIsRun` and
`ShutdownReturns` of the multitask service to a thread that is awake, because the code
does not promise more (section 6).

## 5. What is proved

All for arbitrary constants, from the named assumptions next to the CONSTANTS (sets that
do not overlap, sentinels that are not keys, bounds that are naturals). `OneInstance` and
`OrphansDie` assume `~LockErrors`, that `open` and `flock` fail in no way but
`EWOULDBLOCK`; the code takes any other failure for uniqueness.

| Theorem | Establishes | By way of |
|---|---|---|
| `SystemEnvironmentProofs!TypeCorrect` | `TypeOK` | - |
| `OneInstance` | `SingleInstance` | `LockInvariant`: an instance past the lock holds the descriptor, and among the holders there is one instance. `SingleInstance` does not say who holds the lock, so it is not inductive |
| `NoOperationIsLost` | `InterruptedSurvive` | `OperationsInvariant`: a key has one document at most. Without it a second begin would hide a key from the query |
| `EveryInterruptedIsDelivered` | `InterruptedAreDelivered` | the same invariant, at the step of `OpenGateway` |
| `LiveChildrenAreJournaled` | `LiveChildIsJournaled` | `ChildInvariant`: a document is removed only for a pid that nobody has |
| `OrphansDie` | `OrphansAreKilled` | `OrphanInvariant`: while `init` works through its list, a journaled orphan is on the list or has two documents; no new orphan appears, since `OneInstance` lets nobody else run |
| `ThreadPoolProofs!TypeCorrect` | `TypeOK` | - |
| `PoolImplementsTaskQueue` | `RunsEachTaskOnceInOrder` | `OnePlace`: a task is in the queue once, with one worker, or finished. `HeldAfterTake`, `HeldAfterEnd`, `HeldWhenIdle` say what each step does to the mapped state; `TailWithoutRepetition` and `AppendWithoutRepetition` are about sequences |
| `ShutdownDrainsThePool` | `ShutdownDrains` | `ShutdownInvariant`: a worker leaves over an empty queue, after which no accepted task enters it |
| `NoWakeupIsLost` | `NobodySleepsOverWork` | inductive with `TypeOK`: `CountOfLooking` counts the workers about to look before and after each step. The count needs finitely many workers, as a constructor that takes their number has |
| `AmqpClientProofs!TypeCorrect` | `TypeOK` | - |
| `ResponseStays` | `ResponseIsThere` | inductive with `TypeOK` |
| `RepliesFindTheirRequest` | `AwaitedIsNotHanded` | `ReplyInvariant`: a request the other side can know of is past publishing, and has its entry, or its sender is about to make it, or it was answered |
| `RequestsAreAnsweredOnce` | `AnswersOnce` | `ReplyInvariant`: a reply in the inbox or in the table was sent by the other side |
| `ProcessLauncherProofs!TypesAreKept` | `TypeOK` | - |
| `EndsAreHandledOnce`, `AnnouncedAreDead`, `RunningAreWatched` | `HandledOnce`, `OnlyTheDeadAreAnnounced`, `LiveChildrenAreWatched` | one invariant that says where a handle can be: allocated by one thread, in the list, among those to be announced, closed, and what state its child is in there. Each property alone forgets who has the handle next |
| `DeathsAreNotForgotten` | `NoDeathIsForgotten` | `OneScanAtATime`: the list of the dead is empty when a scan begins, else the scan would overwrite it; `LiveChildrenAreWatched` for the moment of the death |
| `CommunicationGatewayProofs!TypesAreKept` | `TypeOK` | - |
| `AnswersGoBack` | `AnswersReachTheAsker` | `RequestsInv`: the descriptor of a request, queued or in the poller's hand, leads to its asker, or the asker has left |
| `ReplayedAreFirst` | `ReplayedComeFirst` | `OrderInv`: the replayed commands are the head of the queue |
| `PatientClientsAreHarmless` | `KilledByTheImpatient` | `PatienceInv`: a client that waits has its request in one place (socket, poller, queue) or its answer in its socket; one that has left in patience has none |
| `RequestsAreNotLost` | `NoRequestIsLost` | `KeepsClients` (who waits is in the backlog or has a descriptor) and `KeepsRequests` (something of its is under way); that an executed command's answer gets to it is `Traceable` of `RequestsInv` |
| `MultitaskServiceProofs!TypesAreKept` | `TypeOK` | - |
| `RemovedIsNotRun` | `NoCallAfterRemove` | `RunsTheTable`: what is to be run is in the table while the lock is held |
| `PersistenceSetsProofs!RecordedStaysFound` | `RecordedIsFound` | `PlaceInvariant` (`InPlace`: the reference of a set that has not strayed is to the table its metadata names, so a restart makes the same one again) and `FoundInvariant`: what was recorded is in the table the metadata names, also while there is no reference, and of a set without metadata there is nothing; `ReferencesAreOwn`: no other set's reference is to it, be that set one that strays or not. Assumes `OwnTables` |
| `DeletionIsConfined` | `DeletionStaysInContext` | `PlaceInvariant`: references agree with the metadata, and what a clearing has left are sets of its context |
| `StoredIsReachable` | `WhatIsStoredIsReachable` | `ClearedByStage`: what each stage of a clearing has already removed. Assumes `OwnTables`: raw sets, each in tables of its own |
| `SessionDescriptionProofs!TypesAreKept` | `TypeOK` | `RefreshShape`: what is still to be scanned is there, as nobody deletes meanwhile, so that a least and a greatest step exist to be stored |
| `DescriptionsAreComplete` | `DescriptionsCoverPayload` | `RefreshInvariant`, below. Assumes `OwnTables`, and `OneDescribed`: one set has descriptions |
| `SystemEnvironmentProofs!OnlyInterruptedAreReplayed` | `NothingElseIsReplayed` | `ReplayInvariant`: a start that restores never cleans. Assumes `ObedientRestoring`, the setting of `redelivery` |

**The refresh of descriptions.** `DescriptionsCoverPayload` speaks of finished refreshes only,
and is not inductive: nothing in it says what the infos a refresh has collected have to do
with the payload, or why replacing the last description loses nothing. `RefreshInvariant` is
four parts. `SessionsInOrder`: neither payload nor a description is of a session later than
the one the recorder is at. `DescribedIsCovered`: what finished refreshes saw is still
covered, and below a session that is described nothing is left out; this is why a refresh
may begin at the last description. `RefreshInHand`: infos are in the order of their
sessions, those to be scanned come after them, and each info covers what was promised of
its session: the two queries of a scan may see more than there was when the refresh began,
never less. `PromiseByStage`: what the stages to come will do covers the rest of the
promise: the sessions to be scanned, the infos in hand, the descriptions already written.
A crash forgets the promise and leaves the descriptions, which cover as much as before.
`Min` and `Max` of a set are `CHOOSE`s; that they exist is proved from the well-foundedness
of `<` on the naturals, and, for the greatest, on the sizes of finite sets. That
`OneDescribed` cannot be dropped is section 6 (`database_manager_base.cpp:1499`).

**The cores of the liveness properties.** `EveryAcceptedTaskRuns` of the pool,
`AskedIsAnswered` of the gateway and `DeathIsAnnounced` of the launcher each say that
something happens in the end. What the code can get wrong about them beyond scheduling is
to lose the thing that would make it happen, which is a safety property: a
notification (`NobodySleepsOverWork`), a request (`NoRequestIsLost`), a dead child
(`NoDeathIsForgotten`). These are proved for every value of the constants; that the thing
then happens under fairness is left to the runs.

Only model-checked: the liveness properties (`InterruptedReturn`, `EveryAcceptedTaskRuns`,
`DeathIsAnnounced`, `AskedIsAnswered`, `AddedIsRun` and the three `ShutdownReturns`),
which need fairness and ENABLED and are out of the prover's reach. Every invariant, every
action property and both refinements are proved.

## 6. Where the code does not do what it says

Each of these is a run that TLC ends with a counterexample:

- `refused_start`: a child that inherited the lock file keeps the next start out, with the
  message that another instance runs. The start is refused before it could kill the child.
- `foreign_kill`: documents of killed children stay, and a start kills whatever has their
  pid by now.
- `idle_pool`: two workers lose each other's bits in `std::vector<bool>`, and the pool says for
  good that it is busy.
- `misrouted_reply`: a reply that beats the entry, or belongs to a blocking request, is taken
  for an "initiative from other side".

These were met while modelling. The models have them as the code has them (unless said
otherwise), and the properties are stated for what is left; there is no run for them:

- `wal.cpp:236`: `cleanJournal` passes the logger's sentinel, which the table does not
  know, so client operations outlive "clean entire journal..." (`CleanOperations`).
- `process_launcher.cpp:597`: the wait's mutex is a local, so a notification between the
  predicate and the sleep is lost; the thread sleeps over a child it was just given. The
  same in `threaded_multitask_service` (`Test`, `Sleep`): a client added in between is not
  run.
- `threaded_multitask_service.cpp:46`: `shutdown` notifies nobody, so it joins a thread
  that may sleep for ever; `addRunnableClient` (line 57) notifies nobody either. The four
  `RunnableTask`s are private members no method leads to: a client given to the service
  goes to the dump thread, and they sleep until their condition variables are destroyed
  under them.
- `process_launcher.cpp:299`: with two launch tasks waiting, the newest is launched and
  the oldest removed.
- `process_launcher.cpp:753`: `releaseLock` leaves the name among those held, so the next
  `getLock` waits for nothing (not modelled).
- `shell.cpp:228`: an answer to a client that has gone ends the service by SIGPIPE,
  unless the web server is on, whose library ignores it (`setOutcomingMessage`).
- `shell.cpp:594`: `recv` after `accept` blocks; a client that connects and says nothing
  stops the thread, and `shutdown` with it.
- `communication_gateway_facade.cpp:93`: division by the number of external networks,
  which may be none (not modelled).
- `database_manager_base.cpp:1015`: `createNewPersistenceId` returns the invalid id for
  all sets but the first; the assertion that follows ends the service (`CreateSet`).
- `database_manager_base.cpp:272`: `insert` leaves an old reference alone, so a set that
  is cleared and created elsewhere is written to its old table until a restart, and what
  was written is not found afterwards (`createPayloadTableRef`). Through the same leftover
  reference a set without metadata can be recorded (line 276, `writeTrajectoryData`), and
  no clearing finds its payload. The model does both, for a set of `Wanderers`
  (`strayed`). A set that is given a new id by the application has no reference until a
  restart (`UpdateSet`, `writeTrajectoryData`).
- `process_launcher.cpp:47`: the handler reaps one child; of children that die while one
  signal is pending the others stay zombies, count as running and are never announced.
- `process_launcher.cpp:617`: the inner loop does not ask for `m_shutdown`, so a child
  launched for a task meanwhile keeps `shutdown` from ending.
- `thread_pool.cpp:26`: a task enqueued after the last worker has left stays in the queue.
- `database_manager_base.cpp:1829`: nobody looks at whether MongoDB took a write of the
  journal: an operation is carried out that no restart knows of.
- `amqp_client_c.cpp:437`: `operator[]` makes an entry anew if its reply was collected since
  the look at line 435; nobody takes it out again (`StoreResponse`).
- `shell.cpp:51`: a late answer goes by the number of a descriptor that may by then be
  another client's (`setOutcomingMessage`).
- `database_manager_base.cpp:1499`: a description is looked up, and updated, by its
  session number alone, whatever set it is of (`isSessionExistInDescription`); hence one
  described set.
- `getPersistenceSetMetadata(_ctxId)` returns raw sets only, so payload and descriptions
  of sets from DSS and video are never deleted (`getPersistenceSetMetadata`).
- `deleteDataRange` empties the table whatever the filter says (`deleteDataRange`); a
  stray `;` in line 504 leaves the name of a DSS table without its last part
  (`PayloadTable`); the minimum of a session's timestamps is the greatest of its first
  step; `splitSessionByGaps` returns no session at all (the last two not modelled).

## 7. Abstractions

- Critical sections are atomic. Where the code shares data without a lock the model has a
  step per access (bits of the pool) or per call (the table of the AMQP client in `poll`; the
  two or three calls that collect a response are one step).
- Keys, pids, users, programs and messages are model values. Texts, logging, time in
  numbers and layout are left out: a timeout is a step that may come at any time.
- What MongoDB, the broker, the kernel and the other side do is modelled as the code
  depends on it, with their failures: a refused write of the journal, a lost or repeated
  message, a signal that is not queued, a fork that fails, a client that leaves. The recorded
  sets are modelled with crashes but without refusals: no caller there could tell.
- The bulk write of a recorder is unordered and not atomic, so it is a step per document.
- A message over the unix socket arrives whole: the code reads it by one `recv` and assumes as
  much. A server's messages have no size in front (`Shell::init` asserts it).
- An error of the shell's `recv` (`shell.cpp:616`) changes nothing and is left out.
- The gateway has one external network, and the web server, which would ignore SIGPIPE
  for it, is off. Several would be polled one after the other by
  the same thread, each with a part of the timeout.
- `MaxRows` also limits an insert (the model does not take the step); the bound of two
  was chosen because the code tells one from more than one and nothing else.
- `launch` when `execv` fails returns in the child as well. That second copy of the service
  has its own memory and is not modelled.

## 8. Not modelled

What is left falls into these kinds. No module of it would show more than its source does.

- **Parts of modelled components.** `cancelPendingAndProcessTasks` of the pool: its
  first loop empties the queue, without the mutex, but the second has the size of the
  vector for its condition and runs past the end, so no call returns. The list of
  observers of the launcher, a child's output and `removeLaunchTask`: lists under a lock.
  Connection set-up and shutdown of the AMQP client: calls into the library. The shell's
  framing by size and its asynchronous requests: a client's modes, the server asserts that it
  has none (`shell.cpp:138`), and of the framing nothing holds once one message was too
  long (`shell.cpp:470`). `asyncServerMode`: a second thread in the same unguarded code that
  the gateway polls, so a data race over the whole shell. Reading payload, steps of a
  session and the tables of each source type: queries that change nothing, or writes
  that nothing modelled reads.
- **No property to state.** Named semaphores (`getLock`, `releaseLock`), video card leases
  (`getNextVideoCardIdx`, `releaseVideoCardIdx`), the object pool, `splitSessionByGaps`:
  what they are for does not hold of the code from the second call on, or of the first
  overlapping two, and follows from reading a few lines. The pool is used by one thread at a
  time.
- **Thin layers over libraries.** Web server (mongoose), websocket server (websocketpp),
  HTTP client (libcurl), AMQP controller, library loader: they hand calls on one by one.
- **Input.** System monitor: `/proc` and NVML are read and stored. Configuration and
  arguments: parsed once, in one thread. Loggers: output. Daemonizator: a fixed sequence
  of system calls.
- **Not here.** objrepr listener and bus: a proprietary library, compiled in
  conditionally. Commands, factories, convertor: interfaces that an application fills in.
  Network splitter, shared memory server: stubs.
- **Vendored code.** `src/3rd_party`: 21,500 lines of mongoose, and two helpers, more than
  half of all lines under `src/`.

What could be added: several described sets, once the queries of descriptions ask for the
set; the lease of video cards and the named locks against atomic ones, once they exclude;
a composition of `SystemEnvironment` with `CommunicationGateway`, whose interface is
`RequestsFromWAL`: the first says what is in it (`InterruptedAreDelivered`), the second
what becomes of it (`ReplayedComeFirst`).
