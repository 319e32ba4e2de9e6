----------------------- MODULE PersistenceSetsProofs -----------------------
(***************************************************************************)
(* Proofs about PersistenceSets, for any ids, contexts, places and numbers *)
(* of sessions, of raw sets in tables of their own: what was recorded of a *)
(* set is found, whatever other sets do; and, if none strays, nothing is   *)
(* stored that no set leads to.  A deletion does not leave its context.    *)
(***************************************************************************)
EXTENDS PersistenceSets, TLAPS

\* A set with metadata, or with a table in memory, is where the application may
\* have it.
ByTheApplication ==
  /\ \A id \in DOMAIN metadata : <<id, metadata[id]>> \in Homes
  /\ \A id \in DOMAIN tables : \E m \in Source : <<id, m>> \in Homes /\ tables[id] = PayloadTable(m)
  /\ payload \in [Tables -> SUBSET Record]
  /\ recorded \in [Ids -> SUBSET Record]

\* One thing at a time: no set is refreshed or changed while a context is cleared,
\* and what is still to be dealt with is a set of the context.
OneAtATime ==
  /\ clearing \in {"no", "data", "descriptions", "metadata"}
  /\ clearing # "no" => service = "up" /\ refreshing = "no"
  /\ clearing = "data" => left \subseteq getPersistenceSetMetadata(context)

\* A set that has not strayed has its reference where its metadata says.
InPlace ==
  \A id \in DOMAIN metadata \intersect DOMAIN tables :
    id \in strayed \/ tables[id] = PayloadTable(metadata[id])

PlaceInvariant == ByTheApplication /\ OneAtATime /\ InPlace

\* With no reference in memory there is none that could be wrong (Crash, and every
\* assertion that does not hold).
LEMMA StopKeepsPlace ==
  ASSUME PlaceInvariant, Stop, UNCHANGED databaseVars
  PROVE  PlaceInvariant'
<1>1. DOMAIN tables' = {}
  BY DEF Stop
<1> QED
  BY <1>1 DEF Stop, databaseVars, historyVars, PlaceInvariant, ByTheApplication, OneAtATime,
       InPlace, getPersistenceSetMetadata

\* At first there is no set and no reference.
LEMMA InitPlace == Init => PlaceInvariant
  BY DEF Init, PlaceInvariant, ByTheApplication, OneAtATime, InPlace

\* Metadata and references change together, or not at all: a known set keeps its
\* place, or has strayed (KeepsItsPlace); a restart reads all references anew.
LEMMA NextPlace == PlaceInvariant /\ [Next]_vars => PlaceInvariant'
<1> SUFFICES ASSUME PlaceInvariant, [Next]_vars PROVE PlaceInvariant'
  OBVIOUS
<1> USE PersistenceAssumption DEF PlaceInvariant, ByTheApplication, OneAtATime,
      InPlace, getPersistenceSetMetadata
<1>1. CASE init
  BY <1>1 DEF init, initPayloadTableReferences, databaseVars, refreshVars, clearVars, historyVars
<1>2. CASE Crash
  BY <1>2, StopKeepsPlace DEF Crash
<1>3. ASSUME NEW m \in Source, CreateSet(m) PROVE PlaceInvariant'
  <2>1. CASE createNewPersistenceId = INVALID_PERSISTENCE_ID
    BY <1>3, <2>1, StopKeepsPlace DEF CreateSet, databaseVars
  <2>2. CASE createNewPersistenceId # INVALID_PERSISTENCE_ID
    <3>1. DOMAIN metadata = {} /\ createNewPersistenceId = 1
      BY <2>2 DEF createNewPersistenceId
    <3>2. metadata' = [id \in {1} |-> m] /\ <<1, m>> \in Homes
      BY <1>3, <2>2, <3>1 DEF CreateSet, Place, KeepsItsPlace
    <3>3. /\ DOMAIN tables' = DOMAIN tables \union {1}
          /\ \A i \in DOMAIN tables : tables'[i] = tables[i]
          /\ 1 \notin DOMAIN tables => tables'[1] = PayloadTable(m)
          /\ 1 \in strayed' \/ tables'[1] = PayloadTable(m)
      BY <1>3, <2>2, <3>1 DEF CreateSet, createPayloadTableRef, Place, KeepsItsPlace
    <3>4. ByTheApplication'
      <4>1. UNCHANGED <<payload, recorded>> /\ DOMAIN metadata' = {1} /\ metadata'[1] = m
        BY <1>3, <2>2, <3>2 DEF CreateSet, Place
      <4> QED
        BY <3>2, <3>3, <4>1
    <3>5. OneAtATime'
      BY <1>3, <2>2 DEF CreateSet, Idle, clearVars, historyVars, refreshVars
    <3> QED
      BY <3>2, <3>3, <3>4, <3>5
  <2> QED
    BY <2>1, <2>2
<1>4. ASSUME NEW id \in Ids, NEW m \in Source, UpdateSet(id, m) PROVE PlaceInvariant'
  BY <1>4 DEF UpdateSet, Place, KeepsItsPlace, Idle, databaseVars, refreshVars, clearVars,
               historyVars
<1>5. ASSUME NEW id \in Ids, NEW r \in Record, writeTrajectoryData(id, r) PROVE PlaceInvariant'
  <2>1. CASE id \notin DOMAIN tables
    BY <1>5, <2>1, StopKeepsPlace DEF writeTrajectoryData, databaseVars
  <2>2. CASE id \in DOMAIN tables
    <3>1. /\ UNCHANGED <<metadata, tables, service, refreshing, clearing, context, left>>
          /\ payload' = [payload EXCEPT ![tables[id]] = @ \union {r}]
          /\ recorded' = [recorded EXCEPT ![id] = @ \union {r}]
          /\ strayed \subseteq strayed'
      BY <1>5, <2>2 DEF writeTrajectoryData, refreshVars, clearVars
    <3>2. payload' \in [Tables -> SUBSET Record] /\ recorded' \in [Ids -> SUBSET Record]
      BY <3>1
    <3> QED
      BY <3>1, <3>2
  <2> QED
    BY <2>1, <2>2
<1>6. ASSUME NEW id \in Ids, StartRefresh(id) PROVE PlaceInvariant'
  BY <1>6 DEF StartRefresh, Idle, databaseVars, refreshVars, clearVars, historyVars
<1>7. CASE ScanMin
  BY <1>7 DEF ScanMin, Scanning, databaseVars, refreshVars, clearVars, historyVars
<1>8. CASE ScanMax
  BY <1>8 DEF ScanMax, Scanning, databaseVars, refreshVars, clearVars, historyVars
<1>9. CASE CompareTail
  BY <1>9 DEF CompareTail, databaseVars, refreshVars, clearVars, historyVars
<1>10. CASE RangeScanned
  BY <1>10 DEF RangeScanned, Scanning, databaseVars, refreshVars, clearVars, historyVars
<1>11. CASE updateSessionDescription
  BY <1>11 DEF updateSessionDescription, GiveUp, databaseVars, refreshVars, clearVars, historyVars
<1>12. CASE insertSessionDescription
  BY <1>12 DEF insertSessionDescription, GiveUp, databaseVars, refreshVars, clearVars, historyVars
<1>13. CASE RefreshDone
  BY <1>13 DEF RefreshDone, databaseVars, refreshVars, clearVars, historyVars
<1>14. ASSUME NEW c \in Contexts, deleteTotalData(c) PROVE PlaceInvariant'
  BY <1>14 DEF deleteTotalData, Idle, databaseVars, refreshVars, clearVars, historyVars
<1>15. ASSUME NEW id \in Ids, deleteDataRange(id) PROVE PlaceInvariant'
  <2>1. CASE id \notin DOMAIN tables
    BY <1>15, <2>1, StopKeepsPlace DEF deleteDataRange, databaseVars
  <2>2. CASE id \in DOMAIN tables
    BY <1>15, <2>2 DEF deleteDataRange, refreshVars
  <2> QED
    BY <2>1, <2>2
<1>16. CASE DataDeleted
  BY <1>16 DEF DataDeleted, databaseVars, refreshVars, clearVars, historyVars
<1>17. ASSUME NEW id \in Ids, deleteSessionDescription(id) PROVE PlaceInvariant'
  BY <1>17 DEF deleteSessionDescription, databaseVars, refreshVars, clearVars, historyVars
<1>18. CASE DescriptionsDeleted
  BY <1>18 DEF DescriptionsDeleted, databaseVars, refreshVars, clearVars, historyVars
<1>19. CASE deletePersistenceSetMetadata
  BY <1>19 DEF deletePersistenceSetMetadata, databaseVars, refreshVars, clearVars, historyVars
<1>20. CASE UNCHANGED vars
  BY <1>20 DEF vars, databaseVars, refreshVars, clearVars, historyVars
<1> QED
  BY <1>1, <1>2, <1>3, <1>4, <1>5, <1>6, <1>7, <1>8, <1>9, <1>10,
     <1>11, <1>12, <1>13, <1>14, <1>15, <1>16, <1>17, <1>18, <1>19, <1>20 DEF Next, Refresh, Clear

\* The invariant holds of every reachable state.
LEMMA PlaceInvariance == Spec => []PlaceInvariant
  BY InitPlace, NextPlace, PTL DEF Spec

Confined ==
  strayed = {} =>
    \A t \in Tables : payload[t] \ payload'[t] # {} =>
      \E id \in DOMAIN metadata : metadata[id].context = context /\ PayloadTable(metadata[id]) = t

\* Only deleteDataRange takes payload away, from the table of a set of the context.
LEMMA StepIsConfined == PlaceInvariant /\ [Next]_vars => [Confined]_vars
<1> SUFFICES ASSUME PlaceInvariant, [Next]_vars PROVE Confined
  OBVIOUS
<1> USE DEF PlaceInvariant, ByTheApplication, OneAtATime, InPlace,
      getPersistenceSetMetadata, Confined
<1>1. CASE init
  BY <1>1 DEF init, initPayloadTableReferences, databaseVars, refreshVars, clearVars, historyVars
<1>2. CASE Crash
  BY <1>2 DEF Crash, Stop, databaseVars, refreshVars, clearVars, historyVars
<1>3. ASSUME NEW m \in Source, CreateSet(m) PROVE Confined
  BY <1>3
  DEF CreateSet, createPayloadTableRef, Place, KeepsItsPlace, Stop, databaseVars, refreshVars,
      clearVars, historyVars
<1>4. ASSUME NEW id \in Ids, NEW m \in Source, UpdateSet(id, m) PROVE Confined
  BY <1>4 DEF UpdateSet, Place, KeepsItsPlace, Idle, databaseVars, refreshVars, clearVars,
               historyVars
<1>5. ASSUME NEW id \in Ids, NEW r \in Record, writeTrajectoryData(id, r) PROVE Confined
  BY <1>5 DEF writeTrajectoryData, Stop, databaseVars, refreshVars, clearVars, historyVars
<1>6. ASSUME NEW id \in Ids, StartRefresh(id) PROVE Confined
  BY <1>6 DEF StartRefresh, Idle, databaseVars, refreshVars, clearVars, historyVars
<1>7. CASE ScanMin
  BY <1>7 DEF ScanMin, Scanning, databaseVars, refreshVars, clearVars, historyVars
<1>8. CASE ScanMax
  BY <1>8 DEF ScanMax, Scanning, databaseVars, refreshVars, clearVars, historyVars
<1>9. CASE CompareTail
  BY <1>9 DEF CompareTail, databaseVars, refreshVars, clearVars, historyVars
<1>10. CASE RangeScanned
  BY <1>10 DEF RangeScanned, Scanning, databaseVars, refreshVars, clearVars, historyVars
<1>11. CASE updateSessionDescription
  BY <1>11 DEF updateSessionDescription, GiveUp, databaseVars, refreshVars, clearVars, historyVars
<1>12. CASE insertSessionDescription
  BY <1>12 DEF insertSessionDescription, GiveUp, databaseVars, refreshVars, clearVars, historyVars
<1>13. CASE RefreshDone
  BY <1>13 DEF RefreshDone, databaseVars, refreshVars, clearVars, historyVars
<1>14. ASSUME NEW c \in Contexts, deleteTotalData(c) PROVE Confined
  BY <1>14 DEF deleteTotalData, Idle, databaseVars, refreshVars, clearVars, historyVars
<1>15. ASSUME NEW id \in Ids, deleteDataRange(id) PROVE Confined
  BY <1>15 DEF deleteDataRange, Stop, databaseVars, refreshVars, clearVars, historyVars
<1>16. CASE DataDeleted
  BY <1>16 DEF DataDeleted, databaseVars, refreshVars, clearVars, historyVars
<1>17. ASSUME NEW id \in Ids, deleteSessionDescription(id) PROVE Confined
  BY <1>17 DEF deleteSessionDescription, databaseVars, refreshVars, clearVars, historyVars
<1>18. CASE DescriptionsDeleted
  BY <1>18 DEF DescriptionsDeleted, databaseVars, refreshVars, clearVars, historyVars
<1>19. CASE deletePersistenceSetMetadata
  BY <1>19 DEF deletePersistenceSetMetadata, databaseVars, refreshVars, clearVars, historyVars
<1>20. CASE UNCHANGED vars
  BY <1>20 DEF vars, databaseVars, refreshVars, clearVars, historyVars
<1> QED
  BY <1>1, <1>2, <1>3, <1>4, <1>5, <1>6, <1>7, <1>8, <1>9, <1>10,
     <1>11, <1>12, <1>13, <1>14, <1>15, <1>16, <1>17, <1>18, <1>19, <1>20 DEF Next, Refresh, Clear

\* As long as no set strays, clearing a context deletes no other context's payload,
\* however many sets, contexts and tables there are (deleteTotalData).
THEOREM DeletionIsConfined == Spec => DeletionStaysInContext
<1>1. [Confined]_vars =>
       [strayed = {} =>
          \A t \in Tables : payload[t] \ payload'[t] # {} =>
            \E id \in DOMAIN metadata :
              metadata[id].context = context /\ PayloadTable(metadata[id]) = t]_vars
  BY DEF Confined
<1> QED
  BY <1>1, StepIsConfined, PlaceInvariance, PTL DEF Spec, DeletionStaysInContext

-----------------------------------------------------------------------------
(* What was recorded is found, and nothing is stored out of reach.         *)

\* The sets are raw ones, and no two of them may have the same table.
OwnTables ==
  /\ Kinds = {"raw"}
  /\ \A g, h \in Homes : PayloadTable(g[2]) = PayloadTable(h[2]) => g[1] = h[1]

\* Then every set with metadata is among those that a deletion looks for.
LEMMA SourcesAreRaw == OwnTables => \A h \in Homes : h[2].kind = "raw"
<1>1. OwnTables => \A m \in Source : m.kind = "raw"
  BY DEF OwnTables, Source
<1> QED
  BY <1>1, PersistenceAssumption

\* No two sets have the same table.
LEMMA TableIsOwn ==
  ASSUME OwnTables, NEW i, NEW j, NEW m, NEW n,
         <<i, m>> \in Homes, <<j, n>> \in Homes, PayloadTable(m) = PayloadTable(n)
  PROVE  i = j
<1> DEFINE g == <<i, m>>  h == <<j, n>>
<1>1. g \in Homes /\ h \in Homes /\ PayloadTable(g[2]) = PayloadTable(h[2])
  OBVIOUS
<1> HIDE DEF g, h
<1>2. g[1] = h[1]
  BY <1>1 DEF OwnTables
<1> QED
  BY <1>2 DEF g, h

\* What is known of the source of a set that has metadata.
LEMMA SourceOfSet ==
  ASSUME OwnTables, PlaceInvariant, NEW i \in DOMAIN metadata
  PROVE  /\ i \in Ids /\ metadata[i] \in Source /\ metadata[i].kind = "raw"
         /\ PayloadTable(metadata[i]) \in Tables
<1> DEFINE h == <<i, metadata[i]>>
<1>1. h \in Homes
  BY DEF PlaceInvariant, ByTheApplication
<1>2. i \in Ids /\ metadata[i] \in Source
  BY <1>1, PersistenceAssumption
<1> HIDE DEF h
<1>3. h[2].kind = "raw"
  BY <1>1, SourcesAreRaw
<1> QED
  BY <1>2, <1>3 DEF h, Tables

\* A reference is never to the table where another set has its place.
LEMMA ReferencesAreOwn ==
  ASSUME OwnTables, PlaceInvariant, NEW id \in DOMAIN tables, NEW i \in DOMAIN metadata,
         i # id
  PROVE  PayloadTable(metadata[i]) # tables[id]
<1>1. PICK m \in Source : <<id, m>> \in Homes /\ tables[id] = PayloadTable(m)
  BY DEF PlaceInvariant, ByTheApplication
<1>2. <<i, metadata[i]>> \in Homes
  BY DEF PlaceInvariant, ByTheApplication
<1> QED
  BY <1>1, <1>2, TableIsOwn

\* A set that has strayed is never taken for one that has not.
LEMMA StrayedOnlyGrows == [Next]_vars => strayed \subseteq strayed'
<1> USE DEF historyVars, Stop
<1>1. ASSUME NEW m \in Source, NEW id \in Ids, CreateSet(m) \/ UpdateSet(id, m)
      PROVE  strayed \subseteq strayed'
  BY <1>1 DEF CreateSet, UpdateSet, Place
<1>2. ASSUME NEW id \in Ids, NEW r \in Record, writeTrajectoryData(id, r)
      PROVE  strayed \subseteq strayed'
  BY <1>2 DEF writeTrajectoryData
<1>3. CASE Refresh
  BY <1>3 DEF Refresh, ScanMin, ScanMax, CompareTail, RangeScanned, updateSessionDescription,
              insertSessionDescription, RefreshDone
<1>4. CASE Clear
  BY <1>4 DEF Clear, deleteDataRange, deleteSessionDescription, DataDeleted, DescriptionsDeleted,
              deletePersistenceSetMetadata
<1>5. CASE init \/ Crash \/ UNCHANGED vars
  BY <1>5 DEF init, Crash, vars
<1>6. ASSUME NEW c \in Contexts, deleteTotalData(c) PROVE strayed \subseteq strayed'
  BY <1>6 DEF deleteTotalData
<1>7. ASSUME NEW id \in Ids, StartRefresh(id) PROVE strayed \subseteq strayed'
  BY <1>7 DEF StartRefresh
<1>8. 1 \in Ids
  BY PersistenceAssumption
<1> QED
  BY <1>1, <1>2, <1>3, <1>4, <1>5, <1>6, <1>7, <1>8 DEF Next

\* What was recorded of a set that has not strayed is where its metadata says; of a
\* set without metadata nothing was; nor of one whose data the clearing has dealt with.
FoundInvariant ==
  \A id \in Ids \ strayed :
    /\ id \in DOMAIN metadata => recorded[id] \subseteq payload[PayloadTable(metadata[id])]
    /\ id \notin DOMAIN metadata => recorded[id] = {}
    /\ /\ id \in getPersistenceSetMetadata(context)
       /\ clearing \in {"descriptions", "metadata"} \/ (clearing = "data" /\ id \notin left)
       => recorded[id] = {}

\* A crash changes nothing that is stored.
LEMMA StopKeepsFound ==
  ASSUME FoundInvariant, Stop, UNCHANGED databaseVars
  PROVE  FoundInvariant'
  BY DEF Stop, databaseVars, historyVars, FoundInvariant, getPersistenceSetMetadata

\* No step takes from a set what was recorded of it but a deletion that is about it:
\* another set's reference is to another table, even if that set has strayed.
LEMMA NextFound ==
  OwnTables /\ PlaceInvariant /\ FoundInvariant /\ [Next]_vars => FoundInvariant'
<1> SUFFICES ASSUME OwnTables, PlaceInvariant, FoundInvariant, [Next]_vars PROVE FoundInvariant'
  OBVIOUS
<1>0. /\ payload \in [Tables -> SUBSET Record] /\ recorded \in [Ids -> SUBSET Record]
      /\ \A i \in DOMAIN metadata : i \in Ids /\ PayloadTable(metadata[i]) \in Tables
      /\ \A i \in DOMAIN metadata : metadata[i].kind = "raw"
      /\ \A i \in DOMAIN tables : tables[i] \in Tables
  BY SourceOfSet DEF PlaceInvariant, ByTheApplication, Tables
<1>1. ASSUME UNCHANGED <<metadata, payload, recorded, strayed, clearing, context, left>>
      PROVE  FoundInvariant'
  BY <1>1 DEF FoundInvariant, getPersistenceSetMetadata
<1>2. CASE init
  BY <1>1, <1>2 DEF init, databaseVars, clearVars, historyVars
<1>3. CASE Crash
  BY <1>3, StopKeepsFound DEF Crash
<1>4. ASSUME NEW m \in Source, CreateSet(m) PROVE FoundInvariant'
  <2>1. CASE createNewPersistenceId = INVALID_PERSISTENCE_ID
    BY <1>4, <2>1, StopKeepsFound DEF CreateSet, databaseVars
  <2>2. CASE createNewPersistenceId # INVALID_PERSISTENCE_ID
    <3>1. DOMAIN metadata = {} /\ clearing' = "no" /\ UNCHANGED <<payload, recorded>>
      BY <1>4, <2>2 DEF CreateSet, createNewPersistenceId, Idle, Place, clearVars
    <3>2. \A i \in Ids \ strayed' : recorded'[i] = {}
      BY <3>1, StrayedOnlyGrows DEF FoundInvariant
    <3> QED
      BY <3>1, <3>2 DEF FoundInvariant
  <2> QED
    BY <2>1, <2>2
<1>5. ASSUME NEW id \in Ids, NEW m \in Source, UpdateSet(id, m) PROVE FoundInvariant'
  <2>1. /\ UNCHANGED <<payload, recorded>> /\ clearing' = "no"
        /\ metadata' = [i \in DOMAIN metadata \union {id} |-> IF i = id THEN m ELSE metadata[i]]
    BY <1>5 DEF UpdateSet, Idle, Place, clearVars
  <2>2. id \notin strayed' => (id \in DOMAIN metadata => metadata[id] = m)
    BY <1>5 DEF UpdateSet, Place, KeepsItsPlace
  <2> QED
    BY <2>1, <2>2, StrayedOnlyGrows DEF FoundInvariant
<1>6. ASSUME NEW id \in Ids, NEW r \in Record, writeTrajectoryData(id, r) PROVE FoundInvariant'
  <2>1. CASE id \notin DOMAIN tables
    BY <1>6, <2>1, StopKeepsFound DEF writeTrajectoryData, databaseVars
  <2>2. CASE id \in DOMAIN tables
    <3>1. /\ UNCHANGED metadata /\ clearing' = "no"
          /\ payload' = [payload EXCEPT ![tables[id]] = @ \union {r}]
          /\ recorded' = [recorded EXCEPT ![id] = @ \union {r}]
          /\ id \in strayed' \/ (id \in DOMAIN metadata /\ id \notin strayed)
      BY <1>6, <2>2 DEF writeTrajectoryData, clearVars
    <3>2. id \in strayed' \/ tables[id] = PayloadTable(metadata[id])
      BY <2>2, <3>1 DEF PlaceInvariant, InPlace
    <3>3. \A t \in Tables : payload[t] \subseteq payload'[t]
      BY <1>0, <3>1
    <3>4. r \in payload'[tables[id]]
      BY <1>0, <2>2, <3>1
    <3>5. \A i \in Ids : recorded'[i] = IF i = id THEN recorded[i] \union {r} ELSE recorded[i]
      BY <1>0, <3>1
    <3> QED
      BY <1>0, <3>1, <3>2, <3>3, <3>4, <3>5, StrayedOnlyGrows DEF FoundInvariant
  <2> QED
    BY <2>1, <2>2
<1>7. ASSUME NEW id \in Ids, StartRefresh(id) PROVE FoundInvariant'
  BY <1>1, <1>7 DEF StartRefresh, databaseVars, clearVars, historyVars
<1>8. CASE Refresh
  BY <1>1, <1>8
  DEF Refresh, ScanMin, ScanMax, CompareTail, RangeScanned, updateSessionDescription,
      insertSessionDescription, RefreshDone, databaseVars, clearVars, historyVars
<1>9. ASSUME NEW c \in Contexts, deleteTotalData(c) PROVE FoundInvariant'
  <2>1. /\ UNCHANGED <<metadata, payload, recorded, strayed>>
        /\ clearing' = "data" /\ left' = getPersistenceSetMetadata(context')
    BY <1>9 DEF deleteTotalData, databaseVars, historyVars
  <2> QED
    BY <2>1 DEF FoundInvariant, getPersistenceSetMetadata
<1>10. ASSUME NEW id \in Ids, deleteDataRange(id) PROVE FoundInvariant'
  <2>1. CASE id \notin DOMAIN tables
    BY <1>10, <2>1, StopKeepsFound DEF deleteDataRange, databaseVars
  <2>2. CASE id \in DOMAIN tables
    <3>1. /\ UNCHANGED <<metadata, strayed, clearing, context>>
          /\ clearing = "data" /\ left' = left \ {id}
          /\ payload' = [payload EXCEPT ![tables[id]] = {}]
          /\ recorded' = [recorded EXCEPT ![id] = {}]
      BY <1>10, <2>2 DEF deleteDataRange
    <3>2. \A i \in Ids : recorded'[i] = IF i = id THEN {} ELSE recorded[i]
      BY <1>0, <3>1
    <3>3. ASSUME NEW i \in DOMAIN metadata, i # id
          PROVE  payload'[PayloadTable(metadata[i])] = payload[PayloadTable(metadata[i])]
      <4>1. PayloadTable(metadata[i]) # tables[id]
        BY <2>2, <3>3, ReferencesAreOwn
      <4> QED
        BY <1>0, <3>1, <4>1
    <3> QED
      BY <3>1, <3>2, <3>3 DEF FoundInvariant, getPersistenceSetMetadata
  <2> QED
    BY <2>1, <2>2
<1>11. CASE DataDeleted
  BY <1>11 DEF DataDeleted, FoundInvariant, getPersistenceSetMetadata, databaseVars, historyVars
<1>12. ASSUME NEW id \in Ids, deleteSessionDescription(id) PROVE FoundInvariant'
  BY <1>12 DEF deleteSessionDescription, FoundInvariant, getPersistenceSetMetadata, historyVars
<1>13. CASE DescriptionsDeleted
  BY <1>13
  DEF DescriptionsDeleted, FoundInvariant, getPersistenceSetMetadata, databaseVars, historyVars
<1>14. CASE deletePersistenceSetMetadata
  <2>1. /\ DOMAIN metadata' = {i \in DOMAIN metadata : metadata[i].context # context}
        /\ \A i \in DOMAIN metadata' : metadata'[i] = metadata[i]
        /\ UNCHANGED <<payload, recorded, strayed>>
        /\ clearing = "metadata" /\ clearing' = "no"
    BY <1>14 DEF deletePersistenceSetMetadata, historyVars
  <2>2. \A i \in (Ids \ strayed) \intersect (DOMAIN metadata \ DOMAIN metadata') :
          recorded[i] = {}
    BY <1>0, <2>1 DEF FoundInvariant, getPersistenceSetMetadata
  <2> QED
    BY <2>1, <2>2 DEF FoundInvariant
<1>15. CASE UNCHANGED vars
  BY <1>1, <1>15 DEF vars, databaseVars, clearVars, historyVars
<1> QED
  BY <1>2, <1>3, <1>4, <1>5, <1>6, <1>7, <1>8, <1>9, <1>10, <1>11, <1>12, <1>13, <1>14, <1>15
  DEF Next, Clear

\* What was recorded of a set that keeps its place, and was not cleared, is where the
\* service looks for it, after any crashes, restarts and clearings, and whatever becomes
\* of other sets: for any number of raw sets in tables of their own
\* (initPayloadTableReferences, createPayloadTableRef, deleteDataRange).
THEOREM RecordedStaysFound == OwnTables /\ Spec => []RecordedIsFound
<1> SUFFICES ASSUME OwnTables PROVE Spec => []RecordedIsFound
  OBVIOUS
<1>1. Init => FoundInvariant
  BY DEF Init, FoundInvariant
<1>2. PlaceInvariant /\ FoundInvariant /\ [Next]_vars => FoundInvariant'
  BY NextFound
<1>3. PlaceInvariant /\ FoundInvariant => RecordedIsFound
  <2> SUFFICES ASSUME PlaceInvariant, FoundInvariant, NEW id \in DOMAIN tables, id \notin strayed
               PROVE  recorded[id] \subseteq payload[tables[id]]
    BY DEF RecordedIsFound
  <2>1. id \in Ids
    BY PersistenceAssumption DEF PlaceInvariant, ByTheApplication
  <2> QED
    BY <2>1 DEF FoundInvariant, PlaceInvariant, InPlace
<1> QED
  BY <1>1, <1>2, <1>3, PlaceInvariance, PTL DEF Spec

\* Whether the payload of a context, and its descriptions, are gone by the stage
\* the clearing is in; and a refresh is about a set that has metadata.
ClearedByStage ==
  /\ \A id \in getPersistenceSetMetadata(context) :
       clearing \in {"descriptions", "metadata"} \/ (clearing = "data" /\ id \notin left) =>
         payload[PayloadTable(metadata[id])] = {}
  /\ \A d \in description :
       /\ clearing = "descriptions" =>
            d.id \in left \/ d.id \notin getPersistenceSetMetadata(context)
       /\ clearing = "metadata" => d.id \notin getPersistenceSetMetadata(context)
  /\ refreshing # "no" => subject \in DOMAIN metadata

ReachInvariant == ClearedByStage /\ WhatIsStoredIsReachable

\* At first nothing is stored.
LEMMA InitReach == OwnTables /\ Init => ReachInvariant
  BY DEF OwnTables, Init, ReachInvariant, ClearedByStage, WhatIsStoredIsReachable,
         getPersistenceSetMetadata

\* A crash changes nothing that is stored.
LEMMA StopKeepsReach ==
  ASSUME ReachInvariant, Stop, UNCHANGED databaseVars
  PROVE  ReachInvariant'
  BY DEF Stop, databaseVars, historyVars, ReachInvariant, ClearedByStage, WhatIsStoredIsReachable,
         getPersistenceSetMetadata

\* Metadata goes last (deleteTotalData, deleteSessionDescription,
\* deletePersistenceSetMetadata): by then there is nothing it would be missed for.
LEMMA NextReach ==
  OwnTables /\ PlaceInvariant /\ ReachInvariant /\ [Next]_vars /\ strayed' = {} => ReachInvariant'
<1> SUFFICES ASSUME OwnTables, PlaceInvariant, ReachInvariant, [Next]_vars, strayed' = {}
             PROVE  ReachInvariant'
  OBVIOUS
<1>0. strayed = {}
  BY StrayedOnlyGrows
<1>21. \A i \in DOMAIN metadata : PayloadTable(metadata[i]) \in Tables
  BY SourceOfSet
<1> USE <1>0
<1> USE PersistenceAssumption DEF OwnTables, PlaceInvariant, ByTheApplication, OneAtATime,
      InPlace, ReachInvariant, ClearedByStage, WhatIsStoredIsReachable,
      getPersistenceSetMetadata
<1>1. CASE init
  BY <1>1 DEF init, initPayloadTableReferences, databaseVars, refreshVars, clearVars, historyVars
<1>2. CASE Crash
  BY <1>2, StopKeepsReach DEF Crash
<1>3. ASSUME NEW m \in Source, CreateSet(m) PROVE ReachInvariant'
  <2>1. CASE createNewPersistenceId = INVALID_PERSISTENCE_ID
    BY <1>3, <2>1, StopKeepsReach DEF CreateSet, databaseVars
  <2>2. CASE createNewPersistenceId # INVALID_PERSISTENCE_ID
    <3>1. DOMAIN metadata = {}
      BY <2>2 DEF createNewPersistenceId
    <3>2. description = {} /\ \A t \in Tables : payload[t] = {}
      BY <3>1
    <3>3. /\ UNCHANGED <<description, payload, refreshing, clearing>>
          /\ clearing = "no" /\ refreshing = "no"
      BY <1>3, <2>2 DEF CreateSet, Idle, refreshVars, clearVars, historyVars
    <3> QED
      BY <3>2, <3>3
  <2> QED
    BY <2>1, <2>2
<1>4. ASSUME NEW id \in Ids, NEW m \in Source, UpdateSet(id, m) PROVE ReachInvariant'
  <2>1. KeepsItsPlace(id, m)
    BY <1>4 DEF UpdateSet, Place
  <2>2. /\ UNCHANGED <<payload, description, refreshing, subject, clearing, context, left>>
        /\ clearing = "no" /\ refreshing = "no"
        /\ metadata' = [i \in DOMAIN metadata \union {id} |-> IF i = id THEN m ELSE metadata[i]]
    BY <1>4 DEF UpdateSet, Idle, refreshVars, clearVars
  <2>3. \A i \in DOMAIN metadata : i \in DOMAIN metadata' /\ metadata'[i] = metadata[i]
    BY <2>1, <2>2 DEF KeepsItsPlace
  <2> QED
    BY <2>2, <2>3
<1>5. ASSUME NEW id \in Ids, NEW r \in Record, writeTrajectoryData(id, r) PROVE ReachInvariant'
  <2>1. CASE id \notin DOMAIN tables
    BY <1>5, <2>1, StopKeepsReach DEF writeTrajectoryData, databaseVars
  <2>2. CASE id \in DOMAIN tables
    <3>1. /\ id \in DOMAIN metadata /\ tables[id] = PayloadTable(metadata[id])
          /\ metadata[id].kind = "raw"
      <4>1. id \in DOMAIN metadata
        BY <1>5, <2>2 DEF writeTrajectoryData
      <4>2. tables[id] = PayloadTable(metadata[id])
        BY <2>2, <4>1
      <4>3. metadata[id].kind = "raw"
        BY <4>1, SourceOfSet
      <4> QED
        BY <4>1, <4>2, <4>3
    <3>2. /\ payload' = [payload EXCEPT ![tables[id]] = @ \union {r}]
          /\ UNCHANGED <<metadata, description, refreshing, subject, clearing, context, left>>
          /\ clearing = "no"
      BY <1>5, <2>2 DEF writeTrajectoryData, refreshVars, clearVars, historyVars
    <3>3. \A t \in Tables : t # tables[id] => payload'[t] = payload[t]
      BY <3>2
    <3>4. ClearedByStage'
      BY <3>2
    <3>5. WhatIsStoredIsReachable'
      BY <3>1, <3>2, <3>3
    <3> QED
      BY <3>4, <3>5
  <2> QED
    BY <2>1, <2>2
<1>6. ASSUME NEW id \in Ids, StartRefresh(id) PROVE ReachInvariant'
  <2>1. PICK h \in Source : <<id, h>> \in Homes /\ tables[id] = PayloadTable(h)
    BY <1>6 DEF StartRefresh
  <2>2. tables[id] \in Tables /\ payload[tables[id]] # {}
    BY <1>6, <2>1 DEF StartRefresh, Tables
  <2>3. PICK i \in DOMAIN metadata : PayloadTable(metadata[i]) = tables[id]
    BY <2>2
  <2>4. i = id
    <3> DEFINE g == <<id, h>>  f == <<i, metadata[i]>>
    <3>1. g \in Homes /\ f \in Homes
      BY <2>1, <2>3
    <3>2. PayloadTable(g[2]) = PayloadTable(f[2])
      BY <2>1, <2>3
    <3> HIDE DEF g, f
    <3>3. g[1] = f[1]
      BY <3>1, <3>2
    <3> QED
      BY <3>3 DEF g, f
  <2>5. /\ UNCHANGED <<metadata, payload, description, clearing, context, left>>
        /\ subject' = id /\ clearing = "no"
    BY <1>6 DEF StartRefresh, Idle, databaseVars, clearVars, historyVars
  <2> QED
    BY <2>3, <2>4, <2>5
<1>7. CASE ScanMin
  BY <1>7 DEF ScanMin, Scanning, databaseVars, refreshVars, clearVars, historyVars
<1>8. CASE ScanMax
  BY <1>8 DEF ScanMax, Scanning, databaseVars, refreshVars, clearVars, historyVars
<1>9. CASE CompareTail
  BY <1>9 DEF CompareTail, databaseVars, refreshVars, clearVars, historyVars
<1>10. CASE RangeScanned
  BY <1>10 DEF RangeScanned, Scanning, databaseVars, refreshVars, clearVars, historyVars
<1>11. CASE updateSessionDescription
  <2>1. /\ UNCHANGED <<metadata, payload, subject, clearing, context, left>>
        /\ clearing = "no" /\ subject \in DOMAIN metadata
    BY <1>11 DEF updateSessionDescription, clearVars, historyVars
  <2>2. \A d \in description' : d \in description \/ d.id = subject
    BY <1>11 DEF updateSessionDescription, GiveUp, Describe
  <2> QED
    BY <2>1, <2>2
<1>12. CASE insertSessionDescription
  <2>1. /\ UNCHANGED <<metadata, payload, subject, clearing, context, left>>
        /\ clearing = "no" /\ subject \in DOMAIN metadata
    BY <1>12 DEF insertSessionDescription, clearVars, historyVars
  <2>2. \A d \in description' : d \in description \/ d.id = subject
    BY <1>12 DEF insertSessionDescription, GiveUp, Describe
  <2> QED
    BY <2>1, <2>2
<1>13. CASE RefreshDone
  BY <1>13 DEF RefreshDone, databaseVars, refreshVars, clearVars, historyVars
<1>14. ASSUME NEW c \in Contexts, deleteTotalData(c) PROVE ReachInvariant'
  BY <1>14 DEF deleteTotalData, Idle, databaseVars, refreshVars, clearVars, historyVars
<1>15. ASSUME NEW id \in Ids, deleteDataRange(id) PROVE ReachInvariant'
  <2>1. CASE id \notin DOMAIN tables
    BY <1>15, <2>1, StopKeepsReach DEF deleteDataRange, databaseVars
  <2>2. CASE id \in DOMAIN tables
    <3>1. id \in DOMAIN metadata /\ tables[id] = PayloadTable(metadata[id]) /\ tables[id] \in Tables
      BY <1>15, <2>2 DEF deleteDataRange, Tables
    <3>2. /\ payload' = [payload EXCEPT ![tables[id]] = {}] /\ left' = left \ {id}
          /\ UNCHANGED <<metadata, description, refreshing, subject, clearing, context>>
          /\ clearing = "data"
      BY <1>15, <2>2 DEF deleteDataRange, refreshVars
    <3>3. \A t \in Tables : payload'[t] = IF t = tables[id] THEN {} ELSE payload[t]
      BY <3>2
    <3>4. ClearedByStage'
      BY <3>1, <3>2, <3>3, <1>21
    <3>5. WhatIsStoredIsReachable'
      BY <3>2, <3>3
    <3> QED
      BY <3>4, <3>5
  <2> QED
    BY <2>1, <2>2
<1>16. CASE DataDeleted
  BY <1>16 DEF DataDeleted, databaseVars, refreshVars, clearVars, historyVars
<1>17. ASSUME NEW id \in Ids, deleteSessionDescription(id) PROVE ReachInvariant'
  BY <1>17 DEF deleteSessionDescription, selectSessionDescriptions, refreshVars
<1>18. CASE DescriptionsDeleted
  BY <1>18 DEF DescriptionsDeleted, databaseVars, refreshVars, clearVars, historyVars
<1>19. CASE deletePersistenceSetMetadata
  <2>1. /\ DOMAIN metadata' = {i \in DOMAIN metadata : metadata[i].context # context}
        /\ \A i \in DOMAIN metadata' : metadata'[i] = metadata[i]
        /\ UNCHANGED <<payload, description>> /\ clearing = "metadata"
        /\ clearing' = "no" /\ refreshing' = "no"
    BY <1>19 DEF deletePersistenceSetMetadata, refreshVars
  <2>2. \A i \in DOMAIN metadata : metadata[i].kind = "raw"
    BY SourcesAreRaw
  <2>3. \A i \in DOMAIN metadata : metadata[i].context = context =>
          payload[PayloadTable(metadata[i])] = {} /\ \A d \in description : d.id # i
    BY <2>1, <2>2
  <2>4. ClearedByStage'
    BY <2>1
  <2>5. WhatIsStoredIsReachable'
    BY <2>1, <2>2, <2>3
  <2> QED
    BY <2>4, <2>5
<1>20. CASE UNCHANGED vars
  BY <1>20 DEF vars, databaseVars, refreshVars, clearVars, historyVars
<1> QED
  BY <1>1, <1>2, <1>3, <1>4, <1>5, <1>6, <1>7, <1>8, <1>9, <1>10,
     <1>11, <1>12, <1>13, <1>14, <1>15, <1>16, <1>17, <1>18, <1>19, <1>20 DEF Next, Refresh, Clear

\* As long as no set strays, what is stored is found through the metadata, whatever is
\* interrupted when, for any number of raw sets in tables of their own.
THEOREM StoredIsReachable == OwnTables /\ Spec => []WhatIsStoredIsReachable
<1> DEFINE Reachable == strayed = {} => ReachInvariant
<1>1. OwnTables /\ Init => Reachable
  BY InitReach
<1>2. OwnTables /\ PlaceInvariant /\ Reachable /\ [Next]_vars => Reachable'
  BY NextReach, StrayedOnlyGrows
<1>3. Reachable => WhatIsStoredIsReachable
  BY DEF ReachInvariant, WhatIsStoredIsReachable
<1> HIDE DEF Reachable
<1> SUFFICES ASSUME OwnTables PROVE Spec => []WhatIsStoredIsReachable
  OBVIOUS
<1> QED
  BY <1>1, <1>2, <1>3, PlaceInvariance, PTL DEF Spec

=============================================================================
