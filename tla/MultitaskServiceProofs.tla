----------------------- MODULE MultitaskServiceProofs -----------------------
(***************************************************************************)
(* Proofs about MultitaskService, for any set of clients: its types, and   *)
(* that a client that was removed is not run.                              *)
(***************************************************************************)
EXTENDS MultitaskService, TLAPS

\* What is still to be run, or is being run, is in the table; and nothing is to
\* be run, and nothing runs, but while the thread holds the lock.
RunsTheTable ==
  /\ todo \subseteq m_taskClients
  /\ running # NullClient => running \in m_taskClients
  /\ thread # "run" => todo = {} /\ running = NullClient

\* The owner of a client in the table knows that it is there.
TableIsKnown == \A c \in m_taskClients : caller[c] # "out"

IInv == TypeOK /\ RunsTheTable /\ TableIsKnown

\* The first states are of the invariant: nothing is registered.
LEMMA InitInv == Init => IInv
  BY MultitaskAssumption DEF Init, IInv, TypeOK, RunsTheTable, TableIsKnown

\* Every step keeps the invariant: the table only changes when the thread is not in
\* a pass (addRunnableClient, removeRunnableClient take its lock).
LEMMA NextInv == IInv /\ [Next]_vars => IInv'
<1> SUFFICES ASSUME IInv, [Next]_vars PROVE IInv'
  OBVIOUS
<1> USE MultitaskAssumption DEF IInv, TypeOK, RunsTheTable, TableIsKnown
<1>1. ASSUME NEW c \in Clients \union {NullClient}, addRunnableClient(c) PROVE IInv'
  <2>1. CASE c = NullClient
    BY <1>1, <2>1 DEF addRunnableClient, vars
  <2>2. CASE c # NullClient
    BY <1>1, <2>2 DEF addRunnableClient, LockIsFree
  <2> QED
    BY <2>1, <2>2
<1>2. ASSUME NEW c \in Clients, Notify(c) PROVE IInv'
  BY <1>2 DEF Notify
<1>3. ASSUME NEW c \in Clients, Remove(c) PROVE IInv'
  BY <1>3 DEF Remove
<1>4. ASSUME NEW c \in Clients, Removed(c) PROVE IInv'
  BY <1>4 DEF Removed, LockIsFree
<1>5. CASE init
  BY <1>5 DEF init
<1>6. CASE shutdown
  BY <1>6 DEF shutdown
<1>7. CASE Joined
  BY <1>7 DEF Joined
<1>8. CASE SpuriousWakeup
  BY <1>8 DEF SpuriousWakeup
<1>9. CASE Test
  BY <1>9 DEF Test, LockIsFree
<1>10. CASE Sleep
  BY <1>10 DEF Sleep
<1>11. CASE Woken
  BY <1>11 DEF Woken
<1>12. CASE StartPass
  BY <1>12 DEF StartPass
<1>13. ASSUME NEW c \in Clients, runInThreadService(c) PROVE IInv'
  BY <1>13 DEF runInThreadService
<1>14. CASE EndPass
  BY <1>14 DEF EndPass
<1>15. CASE UNCHANGED vars
  BY <1>15 DEF vars
<1> QED
  BY <1>1, <1>2, <1>3, <1>4, <1>5, <1>6, <1>7, <1>8, <1>9, <1>10, <1>11, <1>12, <1>13, <1>14,
     <1>15 DEF Next, Thread

\* The invariant holds of every reachable state.
LEMMA Invariance == Spec => []IInv
  BY InitInv, NextInv, PTL DEF Spec

\* The variables have their types, whatever the clients are
\* (threaded_multitask_service.h).
THEOREM TypesAreKept == Spec => []TypeOK
<1>1. IInv => TypeOK
  BY DEF IInv
<1> QED
  BY <1>1, Invariance, PTL

\* A client that is removed is not being run and will not be (removeRunnableClient),
\* for any number of clients and owners.
THEOREM RemovedIsNotRun == Spec => []NoCallAfterRemove
<1>1. IInv => NoCallAfterRemove
  BY MultitaskAssumption DEF IInv, TypeOK, RunsTheTable, TableIsKnown, NoCallAfterRemove
<1> QED
  BY <1>1, Invariance, PTL

=============================================================================
