-------------------------- MODULE MultitaskService --------------------------
(***************************************************************************)
(* A thread that runs the clients registered with it, over and over        *)
(* (threaded_multitask_service.h, .cpp).  The code has the loop twice: in  *)
(* the template RunnableTask, which notifies the thread of a new client    *)
(* and is never shut down, and in ThreadedMultitaskService, for the dump   *)
(* to the database, which does not notify it and is.                       *)
(*                                                                         *)
(* The wait of the thread is on a mutex of its own, so nothing keeps a     *)
(* notification from falling between its look at the predicate and its     *)
(* sleep.  The clients are run with the lock of their table held.          *)
(***************************************************************************)
EXTENDS Naturals, FiniteSets

CONSTANTS
  Clients,    \* what may be registered
  NullClient  \* the null pointer

ASSUME MultitaskAssumption == NullClient \notin Clients

VARIABLES
  notifies,         \* RunnableTask, or the dump to the database
  service,          \* "new", "up", "closing" (shutdown joins the thread), "down"
  m_taskClients,    \* the table
  caller,           \* where the owner of each client is
  thread,           \* where the thread is
  todo,             \* clients of this pass that have not been run
  running           \* client that is being run, or NullClient

vars == <<notifies, service, m_taskClients, caller, thread, todo, running>>

TypeOK ==
  /\ notifies \in BOOLEAN
  /\ service \in {"new", "up", "closing", "down"}
  /\ m_taskClients \subseteq Clients
  /\ caller \in [Clients -> {"out", "adding", "in", "removing"}]
  /\ thread \in {"new", "test", "tested", "asleep", "woken", "pass", "run", "ended"}
  /\ todo \subseteq Clients
  /\ running \in Clients \union {NullClient}

Init ==
  /\ notifies \in BOOLEAN
  /\ service = IF notifies THEN "up" ELSE "new"    \* a RunnableTask starts its thread itself
  /\ thread = IF notifies THEN "test" ELSE "new"
  /\ m_taskClients = {}
  /\ caller = [c \in Clients |-> "out"]
  /\ todo = {} /\ running = NullClient

m_shutdownCalled == service \in {"closing", "down"}

\* A faulty variant: a pass does not exclude the others.
SharedLock == TRUE

\* m_muClientsLock (m_muDumpToDatabaseLock): the thread holds it for a whole pass.
LockIsFree == thread # "run"

-----------------------------------------------------------------------------
(* The owners of the clients.                                              *)

\* A faulty variant: a null pointer is taken.
TakeAnything(c) ==
  /\ c \in Clients => caller[c] = "out"
  /\ LockIsFree
  /\ m_taskClients' = m_taskClients \union {c}
  /\ caller' = [caller EXCEPT ![c] = IF notifies THEN "adding" ELSE "in"]
  /\ UNCHANGED <<notifies, service, thread, todo, running>>

\* addRunnableClient up to the unlock; of the dump thread, all of it.
addRunnableClient(c) ==
  \/ /\ c = NullClient     \* INVALID_CLIENT_ID
     /\ UNCHANGED vars
  \/ /\ c # NullClient /\ caller[c] = "out"
     /\ LockIsFree
     /\ m_taskClients' = m_taskClients \union {c}
     /\ caller' = [caller EXCEPT ![c] = IF notifies THEN "adding" ELSE "in"]
     /\ UNCHANGED <<notifies, service, thread, todo, running>>

\* m_cvClientsEvent.notify_one(): heard only by a thread that sleeps.
Notify(c) ==
  /\ caller[c] = "adding"
  /\ thread' = IF thread = "asleep" THEN "test" ELSE thread
  /\ caller' = [caller EXCEPT ![c] = "in"]
  /\ UNCHANGED <<notifies, service, m_taskClients, todo, running>>

\* removeRunnableClient is called, and waits for the lock.
Remove(c) ==
  /\ caller[c] = "in"
  /\ caller' = [caller EXCEPT ![c] = "removing"]
  /\ UNCHANGED <<notifies, service, m_taskClients, thread, todo, running>>

\* It returns: its owner may destroy the client now.
Removed(c) ==
  /\ caller[c] = "removing"
  /\ LockIsFree
  /\ m_taskClients' = m_taskClients \ {c}
  /\ caller' = [caller EXCEPT ![c] = "out"]
  /\ UNCHANGED <<notifies, service, thread, todo, running>>

-----------------------------------------------------------------------------
(* The service.                                                            *)

\* It does not ask for the flag: after a shutdown it starts a thread that will end.
init ==
  /\ thread = "new"
  /\ thread' = "test"
  /\ service' = IF m_shutdownCalled THEN service ELSE "up"
  /\ UNCHANGED <<notifies, m_taskClients, caller, todo, running>>

\* Nobody is notified.  Before init there is no thread to be joined.
shutdown ==
  /\ ~ m_shutdownCalled /\ ~ notifies
  /\ service' = IF thread = "new" THEN "down" ELSE "closing"
  /\ UNCHANGED <<notifies, m_taskClients, caller, thread, todo, running>>

Joined ==
  /\ service = "closing" /\ thread = "ended"
  /\ service' = "down"
  /\ UNCHANGED <<notifies, m_taskClients, caller, thread, todo, running>>

-----------------------------------------------------------------------------
(* threadTaskProcessing, threadDumpToDatabase.                             *)

\* The predicate of the wait; it takes the lock.
Test ==
  /\ thread = "test" /\ LockIsFree
  /\ thread' = IF m_taskClients # {} \/ m_shutdownCalled THEN "woken" ELSE "tested"
  /\ UNCHANGED <<notifies, service, m_taskClients, caller, todo, running>>

Sleep ==
  /\ thread = "tested"
  /\ thread' = "asleep"
  /\ UNCHANGED <<notifies, service, m_taskClients, caller, todo, running>>

\* A condition may also wake a thread for no reason.
SpuriousWakeup ==
  /\ thread = "asleep"
  /\ thread' = "test"
  /\ UNCHANGED <<notifies, service, m_taskClients, caller, todo, running>>

\* A faulty variant: the flag is not looked at after the wait.
WokenBlindly ==
  /\ thread = "woken"
  /\ thread' = IF m_taskClients # {} THEN "pass" ELSE "test"
  /\ UNCHANGED <<notifies, service, m_taskClients, caller, todo, running>>

\* After the wait: the flag, then the table.  The outer loop's own look at the
\* flag is part of the next Test, which goes on at once if it is set.
Woken ==
  /\ thread = "woken"
  /\ thread' = IF m_shutdownCalled THEN "ended"
               ELSE IF m_taskClients # {} THEN "pass" ELSE "test"
  /\ UNCHANGED <<notifies, service, m_taskClients, caller, todo, running>>

\* A faulty variant: a pass is for one client.
RunOne ==
  /\ thread = "pass"
  /\ thread' = "run"
  /\ todo' = IF m_taskClients = {} THEN {} ELSE {CHOOSE c \in m_taskClients : TRUE}
  /\ UNCHANGED <<notifies, service, m_taskClients, caller, running>>

\* The inner loop locks the table.
StartPass ==
  /\ thread = "pass"
  /\ thread' = "run"
  /\ todo' = m_taskClients
  /\ UNCHANGED <<notifies, service, m_taskClients, caller, running>>

runInThreadService(c) ==
  /\ thread = "run" /\ c \in todo
  /\ running' = c
  /\ todo' = todo \ {c}
  /\ UNCHANGED <<notifies, service, m_taskClients, caller, thread>>

\* And unlocks it; it is left only when there are no clients.
EndPass ==
  /\ thread = "run" /\ todo = {}
  /\ running' = NullClient
  /\ thread' = IF m_taskClients # {} THEN "pass" ELSE "test"
  /\ UNCHANGED <<notifies, service, m_taskClients, caller, todo>>

-----------------------------------------------------------------------------
Thread ==
  \/ Test
  \/ Sleep
  \/ Woken
  \/ StartPass
  \/ \E c \in Clients : runInThreadService(c)
  \/ EndPass

Next ==
  \/ \E c \in Clients \union {NullClient} : addRunnableClient(c)
  \/ \E c \in Clients : Notify(c) \/ Remove(c) \/ Removed(c)
  \/ init
  \/ shutdown
  \/ Joined
  \/ SpuriousWakeup
  \/ Thread

\* The thread is scheduled, and a call that has the lock behind it returns.  The
\* lock itself is not fair: the thread takes it again as soon as it has let it go.
Fairness ==
  /\ WF_vars(Thread)
  /\ WF_vars(Joined)
  /\ \A c \in Clients : WF_vars(Notify(c))

Spec == Init /\ [][Next]_vars /\ Fairness

-----------------------------------------------------------------------------
(* What the service promises.                                              *)

\* Once a client is removed it is not being run, and will not be before it is
\* added again: its owner may destroy it (removeRunnableClient takes the lock the
\* passes are made under).
NoCallAfterRemove ==
  \A c \in Clients : caller[c] = "out" => c # running /\ c \notin todo

\* What is in the table is run, unless it came while the thread was between its
\* look at the table and its sleep, or slept and was not told (Test, Sleep, Notify).
AddedIsRun ==
  \A c \in Clients :
    (/\ c \in m_taskClients /\ service = "up"
     /\ \/ thread \notin {"tested", "asleep"}
        \/ thread = "asleep" /\ caller[c] = "adding")
      ~> (running = c \/ c \notin m_taskClients \/ service # "up")

\* shutdown returns if the thread was not asleep, or about to be, and the clients
\* are gone (the inner loop does not look at m_shutdownCalled).
ShutdownReturns ==
  (service = "closing" /\ thread \notin {"tested", "asleep"})
    ~> (service = "down" \/ m_taskClients # {})

=============================================================================
