---------------------------- MODULE WriteAheadLog ----------------------------
(***************************************************************************)
(* The write-ahead journal of a microservice: the three MongoDB tables of  *)
(* DatabaseManagerBase that hold it (storage/database_manager_base.cpp)    *)
(* and the operations of WriteAheadLogger on them (system/wal.cpp).        *)
(*                                                                         *)
(* A table is the number of documents it holds for each key.  The journal  *)
(* outlives the process that writes it, so nothing here is ever reset by a *)
(* crash.  The module has no behaviour of its own: SystemEnvironment says  *)
(* who calls these operations and when.                                    *)
(***************************************************************************)
EXTENDS Naturals

CONSTANTS
  Keys,     \* unique keys of client operations
  Pids,     \* process identifiers the kernel hands out
  Users,    \* ids of registered users
  MaxRows   \* bound on the documents one key of a table may have

\* The sentinels of common/ms_common_types and of database_manager_base.  The
\* logger's sentinel for "every operation" is not the one the tables know.
ALL_KEYS == "all_keys"
ALL_CLIENT_OPERATIONS == ""
ALL_PIDS == "pid 0"
ALL_PROCESS_EVENTS == "pid 0"
ALL_REGISTRATION_IDS == ""

ASSUME SentinelsAreNotKeys ==
  /\ {ALL_KEYS, ALL_CLIENT_OPERATIONS} \cap Keys = {}
  /\ ALL_PIDS \notin Pids
  /\ ALL_REGISTRATION_IDS \notin Users

ASSUME MaxRowsIsPositive == MaxRows \in Nat \ {0}

VARIABLES
  operations,     \* client operations:   Keys  -> documents
  processEvents,  \* child processes:     Pids  -> documents
  registrations   \* user registrations:  Users -> documents

journalVars == <<operations, processEvents, registrations>>

JournalTypeOK ==
  /\ operations \in [Keys -> 0 .. MaxRows]
  /\ processEvents \in [Pids -> 0 .. MaxRows]
  /\ registrations \in [Users -> 0 .. MaxRows]

JournalInit ==
  /\ operations = [k \in Keys |-> 0]
  /\ processEvents = [p \in Pids |-> 0]
  /\ registrations = [u \in Users |-> 0]

-----------------------------------------------------------------------------
(* The tables.  `done` is whether MongoDB did what it was asked to; no     *)
(* caller looks at it.                                                     *)

\* Every document whose key matches is removed; one sentinel means all of them.
RowsAfterRemove(table, everything, filter) ==
  [x \in DOMAIN table |-> IF filter \in {everything, x} THEN 0 ELSE table[x]]

\* A faulty variant: the keys that were written more than once.
RepeatedKeys(table) == {x \in DOMAIN table : table[x] > 1}

\* The $group / $match {count: 1} pipeline: keys written and not written again.
NonIntegrity(table) == {x \in DOMAIN table : table[x] = 1}

\* A faulty variant: an insert where the code upserts.
InsertClientOperation(k) ==
  operations' = [operations EXCEPT ![k] = @ + 1]

\* MONGOC_UPDATE_UPSERT by unique key: a second write changes the document.
writeClientOperation(k) ==
  operations' = [operations EXCEPT ![k] = IF @ = 0 THEN 1 ELSE @]

removeClientOperation(done, filter) ==
  operations' = IF done THEN RowsAfterRemove(operations, ALL_CLIENT_OPERATIONS, filter)
                        ELSE operations

getNonIntegrityClientOperations == NonIntegrity(operations)

\* Plain insert.  MaxRows bounds the model, not the table.
writeProcessEvent(p) ==
  /\ processEvents[p] < MaxRows
  /\ processEvents' = [processEvents EXCEPT ![p] = @ + 1]

removeProcessEvent(done, filter) ==
  processEvents' = IF done THEN RowsAfterRemove(processEvents, ALL_PROCESS_EVENTS, filter)
                           ELSE processEvents

getNonIntegrityProcessEvents == NonIntegrity(processEvents)

writeUserRegistration(u) ==
  /\ registrations[u] < MaxRows
  /\ registrations' = [registrations EXCEPT ![u] = @ + 1]

removeUserRegistration(done, filter) ==
  registrations' = IF done THEN RowsAfterRemove(registrations, ALL_REGISTRATION_IDS, filter)
                           ELSE registrations

-----------------------------------------------------------------------------
(* WriteAheadLogger.  `active` is SInitSettings::active of the run that    *)
(* calls.                                                                  *)

\* openOperation with begin = true.
openOperation(active, done, k) ==
  IF active /\ done THEN writeClientOperation(k) ELSE UNCHANGED operations

\* A faulty variant: an end that the journal never hears of.
ForgottenEnd(active, done, k) == UNCHANGED operations

\* openOperation with begin = false.
endOperation(active, done, k) ==
  IF active THEN removeClientOperation(done, k) ELSE UNCHANGED operations

\* Not conditional on active: it also clears what an earlier run has left.
closeClientOperation(done, k) == removeClientOperation(done, k)

\* A faulty variant: only the operations that were begun twice.
RewrittenOperations(active) == IF active THEN RepeatedKeys(operations) ELSE {}

getInterruptedOperations(active) ==
  IF active THEN getNonIntegrityClientOperations ELSE {}

openProcessEvent(active, done, p) ==
  IF active /\ done THEN writeProcessEvent(p) ELSE UNCHANGED processEvents

\* A faulty variant: the sentinel instead of the pid.
CloseEveryProcessEvent(done, p) == removeProcessEvent(done, ALL_PIDS)

closeProcessEvent(done, p) == removeProcessEvent(done, p)

getNonClosedProcesses(active) ==
  IF active THEN getNonIntegrityProcessEvents ELSE {}

openUserRegistration(active, done, u) ==
  IF active /\ done THEN writeUserRegistration(u) ELSE UNCHANGED registrations

closeUserRegistration(done, u) == removeUserRegistration(done, u)

\* The registrations take no part.
isJournalEmpty ==
  /\ \A p \in Pids : processEvents[p] = 0
  /\ \A k \in Keys : operations[k] = 0

=============================================================================
