-------------------------- MODULE PersistenceSets --------------------------
(***************************************************************************)
(* Recorded sets of trajectories (storage/database_manager_base.cpp): the  *)
(* metadata of each set, the table its payload is in, and the descriptions *)
(* of its sessions, in MongoDB; and the references to payload tables, in   *)
(* the memory of the service.                                              *)
(*                                                                         *)
(* Three threads of the application work on them, in the way of the        *)
(* repository's own unit test: a recorder that writes payload, one that    *)
(* brings the descriptions up to date with the payload, and the same one   *)
(* when it clears a context.  The service may crash between any two        *)
(* queries; a failed assertion is a crash.                                 *)
(***************************************************************************)
EXTENDS Integers, Sequences, FiniteSets, FiniteSetsExt

CONSTANTS
  Ids,          \* persistence ids, 1 among them
  Contexts,     \* context ids
  Kinds,        \* source types the application records: "raw", "dss", "video"
  Places,       \* missions, for video sensors
  Homes,        \* which set the application may have where: pairs of id and source
  Described,    \* sets the application keeps descriptions of
  LastSession,  \* bound on the sessions of each set
  LastStep,     \* bound on the logic steps of a session, for each set
  Wanderers     \* bound: sets that the application may fail to keep in their place

\* SPersistenceMetadataDescr::INVALID_PERSISTENCE_ID
INVALID_PERSISTENCE_ID == -1

\* What tells one set's metadata from another's.
Source == [kind : Kinds, context : Contexts, place : Places]

ASSUME PersistenceAssumption ==
  /\ 1 \in Ids /\ Ids \subseteq Nat \ {0} /\ IsFiniteSet(Ids)
  /\ Homes \subseteq Ids \X Source
  /\ Described \subseteq Ids
  /\ LastSession \in [Ids -> Nat]
  /\ LastStep \in [Ids -> Nat]

\* payloadTableName: a video set is named by its sensor alone.
PayloadTable(m) ==
  IF m.kind = "video" THEN [kind |-> m.kind, of |-> <<m.place>>]
                      ELSE [kind |-> m.kind, of |-> <<m.context, m.place>>]

Tables == {PayloadTable(m) : m \in Source}
Sessions == UNION {1 .. LastSession[id] : id \in Ids}
Steps == UNION {0 .. LastStep[id] : id \in Ids}
Record == [session : Sessions, step : Steps]
SessionInfo == [session : Sessions, min : Steps, max : Steps]
Description == [id : Ids, session : Sessions, min : Steps, max : Steps]

VARIABLES
  metadata,     \* the global metadata: a source for each id that has a document
  payload,      \* the payload tables
  description,  \* documents of the session descriptions
  service,      \* "up" or "down"
  tables,       \* m_tablesByPersistenceId, and with it m_tableNameByPersistenceId
  recording,    \* session each set's recorder is in
  refreshing,   \* how far a refresh of descriptions has got
  subject,      \* the set it is about
  todo,         \* sessions it has still to scan, the least one first
  least,        \* first half of getSessionInfo: the least step, none being -1
  scanned,      \* infos it has scanned
  clearing,     \* how far the clearing of a context has got
  context,      \* the context
  left,         \* sets that its current stage has still to deal with
  promised,     \* history: payload there was when the refresh looked for sessions
  described,    \* history: payload that the finished refreshes had looked at
  recorded,     \* history: payload written of each set and not cleared since
  strayed       \* history: sets that the application did not keep in their place

databaseVars == <<metadata, payload, description>>
refreshVars == <<refreshing, subject, todo, least, scanned, promised>>
clearVars == <<clearing, context, left>>
historyVars == <<described, recorded, strayed>>
vars == <<databaseVars, service, tables, recording, refreshVars, clearVars, historyVars>>

TypeOK ==
  /\ DOMAIN metadata \subseteq Ids /\ \A id \in DOMAIN metadata : metadata[id] \in Source
  /\ payload \in [Tables -> SUBSET Record]
  /\ description \subseteq Description
  /\ service \in {"up", "down"}
  /\ DOMAIN tables \subseteq Ids /\ \A id \in DOMAIN tables : tables[id] \in Tables
  /\ recording \in [Ids -> {0} \union Sessions]
  /\ refreshing \in {"no", "create", "tail", "range", "update", "insert"}
  /\ subject \in Ids
  /\ todo \subseteq Sessions
  /\ least \in {-1} \union Steps
  /\ scanned \in Seq(SessionInfo)
  /\ clearing \in {"no", "data", "descriptions", "metadata"}
  /\ context \in Contexts
  /\ left \subseteq Ids
  /\ promised \subseteq Record
  /\ described \in [Ids -> SUBSET Record]
  /\ recorded \in [Ids -> SUBSET Record]
  /\ strayed \subseteq Ids

Init ==
  /\ metadata = <<>>
  /\ payload = [t \in Tables |-> {}]
  /\ description = {}
  /\ service = "down"
  /\ tables = <<>>
  /\ recording = [id \in Ids |-> 0]
  /\ refreshing = "no" /\ subject = 1 /\ todo = {} /\ least = -1 /\ scanned = <<>>
  /\ clearing = "no" /\ context \in Contexts /\ left = {}
  /\ promised = {}
  /\ described = [id \in Ids |-> {}]
  /\ recorded = [id \in Ids |-> {}]
  /\ strayed = {}

Idle == service = "up" /\ refreshing = "no" /\ clearing = "no"

-----------------------------------------------------------------------------
(* The service starts and ends.                                            *)

\* A faulty variant: a table is looked up under the first set's name.
RefsToTheFirst ==
  tables' = [id \in DOMAIN metadata |-> PayloadTable(metadata[Min(DOMAIN metadata)])]

initPayloadTableReferences ==
  tables' = [id \in DOMAIN metadata |-> PayloadTable(metadata[id])]

init ==
  /\ service = "down"
  /\ service' = "up"
  /\ initPayloadTableReferences
  /\ UNCHANGED <<databaseVars, recording, refreshVars, clearVars, historyVars>>

\* What is in memory is gone: a crash, or an assertion that does not hold.
Stop ==
  /\ service' = "down"
  /\ tables' = <<>>
  /\ refreshing' = "no" /\ todo' = {} /\ least' = -1 /\ scanned' = <<>> /\ promised' = {}
  /\ clearing' = "no" /\ left' = {}
  /\ UNCHANGED <<subject, context, recording, historyVars>>

Crash ==
  /\ service = "up"
  /\ Stop
  /\ UNCHANGED databaseVars

-----------------------------------------------------------------------------
(* Metadata.                                                               *)

\* getPersistenceSetMetadata(ALL_CONTEXT_ID) has a group for every context of
\* a document, even though it fills in none but the raw sets.
createNewPersistenceId == IF DOMAIN metadata # {} THEN INVALID_PERSISTENCE_ID ELSE 1

\* getPersistenceSetMetadata(_ctxId) returns the raw sets of the context only.
getPersistenceSetMetadata(c) ==
  {id \in DOMAIN metadata : metadata[id].context = c /\ metadata[id].kind = "raw"}

\* createPayloadTableRef: insert leaves the reference of a known id alone.
createPayloadTableRef(id, t) ==
  tables' = [i \in DOMAIN tables \union {id} |-> IF i \in DOMAIN tables THEN tables[i] ELSE t]

\* What an application should see to, because the code does not: a known set is not
\* written with another source, nor one whose reference is to another table.
KeepsItsPlace(id, m) ==
  /\ id \in DOMAIN metadata => metadata[id] = m
  /\ id \in DOMAIN tables => tables[id] = PayloadTable(m)

\* A set is given a place, by an application that may or may not see to that.
Place(id, m) ==
  /\ <<id, m>> \in Homes
  /\ KeepsItsPlace(id, m) \/ id \in Wanderers
  /\ strayed' = IF KeepsItsPlace(id, m) THEN strayed ELSE strayed \union {id}
  /\ UNCHANGED <<described, recorded>>

\* writePersistenceSetMetadata with INVALID_PERSISTENCE_ID.  The assertion of
\* writePersistenceMetadataGlobal does not hold of an invalid id.
CreateSet(m) ==
  /\ Idle
  /\ LET persId == createNewPersistenceId IN
       IF persId = INVALID_PERSISTENCE_ID
         THEN Stop /\ UNCHANGED databaseVars
         ELSE /\ Place(persId, m)
              /\ metadata' = [id \in DOMAIN metadata \union {persId} |->
                                IF id = persId THEN m ELSE metadata[id]]
              /\ createPayloadTableRef(persId, PayloadTable(m))
              /\ UNCHANGED <<payload, description, service, recording, refreshVars, clearVars>>

\* writePersistenceSetMetadata with the id of a set, known or not: the metadata
\* is written, isPersistenceMetadataValid is always true, and no reference made.
UpdateSet(id, m) ==
  /\ Idle
  /\ Place(id, m)
  /\ metadata' = [i \in DOMAIN metadata \union {id} |-> IF i = id THEN m ELSE metadata[i]]
  /\ UNCHANGED <<payload, description, service, tables, recording, refreshVars, clearVars>>

-----------------------------------------------------------------------------
(* The recorder.                                                           *)

\* One document of writeTrajectoryData.  The recorder stays in its session or
\* begins the next one; getPayloadTableRef asserts that there is a reference, and
\* one that a clearing has left will do.
writeTrajectoryData(id, r) ==
  /\ service = "up" /\ clearing = "no"
  /\ id \in DOMAIN metadata \union Wanderers
  /\ r.step \in 0 .. LastStep[id]
  /\ r.session \in {recording[id], recording[id] + 1} \intersect (1 .. LastSession[id])
  /\ IF id \notin DOMAIN tables
       THEN Stop /\ UNCHANGED databaseVars
       ELSE /\ payload' = [payload EXCEPT ![tables[id]] = @ \union {r}]
            /\ recording' = [recording EXCEPT ![id] = r.session]
            /\ recorded' = [recorded EXCEPT ![id] = @ \union {r}]
            /\ strayed' = IF id \in DOMAIN metadata THEN strayed ELSE strayed \union {id}
            /\ UNCHANGED <<metadata, description, service, tables, refreshVars, clearVars,
                           described>>

-----------------------------------------------------------------------------
(* Bringing the descriptions of a set up to date.                          *)

\* "distinct" over the session field, whose index gives the order.
DistinctSessions(t) == {r.session : r \in payload[t]}

StepsOf(t, s) == {r.step : r \in {x \in payload[t] : x.session = s}}

selectSessionDescriptions(id) == {d \in description : d.id = id}

\* The first look: the whole range if nothing is described, else the tail.
StartRefresh(id) ==
  /\ Idle
  /\ id \in Described \intersect DOMAIN tables
  /\ payload[tables[id]] # {}
  /\ subject' = id
  /\ promised' = payload[tables[id]]
  /\ LET all == DistinctSessions(tables[id]) IN
       IF selectSessionDescriptions(id) = {}
         THEN refreshing' = "create" /\ todo' = all
         ELSE refreshing' = "tail" /\ todo' = {Max(all)}
  /\ UNCHANGED <<databaseVars, service, tables, recording, least, scanned, clearVars,
                 historyVars>>

Scanning == service = "up" /\ refreshing \in {"create", "tail", "range"}

\* getSessionInfo, "get MIN value": the last one of the cursor, sorted downwards.
ScanMin ==
  /\ Scanning /\ todo # {} /\ least = -1
  /\ least' = Min(StepsOf(tables[subject], Min(todo)))
  /\ UNCHANGED <<databaseVars, service, tables, recording, refreshing, subject, todo, scanned,
                 promised, clearVars, historyVars>>

\* A faulty variant: the range ends after its last step.
ScanPastMax ==
  /\ Scanning /\ todo # {} /\ least # -1
  /\ scanned' = Append(scanned, [session |-> Min(todo), min |-> least,
                                 max |-> Max(StepsOf(tables[subject], Min(todo))) + 1])
  /\ todo' = todo \ {Min(todo)}
  /\ least' = -1
  /\ UNCHANGED <<databaseVars, service, tables, recording, refreshing, subject, promised,
                 clearVars, historyVars>>

\* "get MAX value": a second query.
ScanMax ==
  /\ Scanning /\ todo # {} /\ least # -1
  /\ scanned' = Append(scanned, [session |-> Min(todo), min |-> least,
                                 max |-> Max(StepsOf(tables[subject], Min(todo)))])
  /\ todo' = todo \ {Min(todo)}
  /\ least' = -1
  /\ UNCHANGED <<databaseVars, service, tables, recording, refreshing, subject, promised,
                 clearVars, historyVars>>

LastStored(id) == CHOOSE d \in selectSessionDescriptions(id) :
                    \A e \in selectSessionDescriptions(id) : e.session <= d.session

\* A faulty variant: the newest session is left out.
RangeBefore(t, first, second) ==
  {s \in DistinctSessions(t) : s >= first /\ s < second}

\* scanPayloadRangeForSessions
SessionRange(t, first, second) ==
  {s \in DistinctSessions(t) : s >= first /\ s <= second}

\* The tail against the last description that is stored.
CompareTail ==
  /\ service = "up" /\ refreshing = "tail" /\ todo = {}
  /\ LET tail == scanned[1]
         last == LastStored(subject) IN
       \/ /\ tail.session = last.session
          /\ tail.min # last.min \/ tail.max # last.max
          /\ refreshing' = "update"
          /\ UNCHANGED <<todo, scanned>>
       \/ /\ tail.session > last.session
          /\ refreshing' = "range"
          /\ todo' = SessionRange(tables[subject], last.session, tail.session)
          /\ scanned' = <<>>
       \/ /\ \/ tail.session < last.session
             \/ tail.session = last.session /\ tail.min = last.min /\ tail.max = last.max
          /\ refreshing' = "insert"
          /\ scanned' = <<>>
          /\ UNCHANGED todo
  /\ UNCHANGED <<databaseVars, service, tables, recording, subject, least, promised, clearVars,
                 historyVars>>

RangeScanned ==
  /\ Scanning /\ refreshing # "tail" /\ todo = {}
  /\ refreshing' = IF refreshing = "create" THEN "insert" ELSE "update"
  /\ UNCHANGED <<databaseVars, service, tables, recording, subject, todo, least, scanned,
                 promised, clearVars, historyVars>>

Describe(id, info) ==
  [id |-> id, session |-> info.session, min |-> info.min, max |-> info.max]

\* The test's ASSERT_TRUE: the refresh is given up.
GiveUp ==
  /\ refreshing' = "no" /\ scanned' = <<>> /\ promised' = {}
  /\ UNCHANGED description

\* Both queries go by the number of the session alone, whatever set it is of.
isSessionExistInDescription(s) == \E d \in description : d.session = s

updateSessionDescription ==
  /\ service = "up" /\ refreshing = "update"
  /\ LET info == Head(scanned) IN
       IF isSessionExistInDescription(info.session)
         THEN /\ \E d \in description :
                   /\ d.session = info.session
                   /\ description' = (description \ {d}) \union {Describe(subject, info)}
              /\ refreshing' = "insert"
              /\ scanned' = Tail(scanned)
              /\ UNCHANGED promised
         ELSE GiveUp
  /\ UNCHANGED <<metadata, payload, service, tables, recording, subject, todo, least, clearVars,
                 historyVars>>

insertSessionDescription ==
  /\ service = "up" /\ refreshing = "insert" /\ scanned # <<>>
  /\ LET info == Head(scanned) IN
       IF isSessionExistInDescription(info.session)
         THEN GiveUp
         ELSE /\ description' = description \union {Describe(subject, info)}
              /\ scanned' = Tail(scanned)
              /\ UNCHANGED <<refreshing, promised>>
  /\ UNCHANGED <<metadata, payload, service, tables, recording, subject, todo, least, clearVars,
                 historyVars>>

RefreshDone ==
  /\ service = "up" /\ refreshing = "insert" /\ scanned = <<>>
  /\ refreshing' = "no"
  /\ described' = [described EXCEPT ![subject] = promised]
  /\ promised' = {}
  /\ UNCHANGED <<databaseVars, service, tables, recording, subject, todo, least, scanned,
                 clearVars, recorded, strayed>>

-----------------------------------------------------------------------------
(* Clearing a context: deleteTotalData, deleteSessionDescription and       *)
(* deletePersistenceSetMetadata, in this order.  The first two go through  *)
(* the sets that the metadata names.                                       *)

\* A faulty variant: the metadata goes first, and takes the names of the sets
\* with it.
MetadataFirst(c) ==
  /\ Idle
  /\ context' = c
  /\ clearing' = "metadata"
  /\ UNCHANGED <<databaseVars, service, tables, recording, refreshVars, left, historyVars>>

deleteTotalData(c) ==
  /\ Idle
  /\ context' = c
  /\ clearing' = "data"
  /\ left' = getPersistenceSetMetadata(c)
  /\ UNCHANGED <<databaseVars, service, tables, recording, refreshVars, historyVars>>

\* A faulty variant: the table is looked up by the wrong set.
WipeAnother(id) ==
  /\ clearing = "data" /\ id \in left
  /\ IF id \notin DOMAIN tables
       THEN Stop /\ UNCHANGED databaseVars
       ELSE /\ payload' = [payload EXCEPT ![tables[Max(DOMAIN tables)]] = {}]
            /\ described' = [described EXCEPT ![id] = {}]
            /\ recorded' = [recorded EXCEPT ![id] = {}]
            /\ left' = left \ {id}
            /\ UNCHANGED <<metadata, description, service, tables, recording, refreshVars,
                           clearing, context, strayed>>

\* deleteDataRange, which empties the table whatever the filter says.
deleteDataRange(id) ==
  /\ clearing = "data" /\ id \in left
  /\ IF id \notin DOMAIN tables
       THEN Stop /\ UNCHANGED databaseVars
       ELSE /\ payload' = [payload EXCEPT ![tables[id]] = {}]
            /\ described' = [described EXCEPT ![id] = {}]
            /\ recorded' = [recorded EXCEPT ![id] = {}]
            /\ left' = left \ {id}
            /\ UNCHANGED <<metadata, description, service, tables, recording, refreshVars,
                           clearing, context, strayed>>

DataDeleted ==
  /\ clearing = "data" /\ left = {}
  /\ clearing' = "descriptions"
  /\ left' = getPersistenceSetMetadata(context)
  /\ UNCHANGED <<databaseVars, service, tables, recording, refreshVars, context, historyVars>>

\* deleteSessionDescription(_persId, ALL_SESSION_NUM)
deleteSessionDescription(id) ==
  /\ clearing = "descriptions" /\ id \in left
  /\ description' = description \ selectSessionDescriptions(id)
  /\ left' = left \ {id}
  /\ UNCHANGED <<metadata, payload, service, tables, recording, refreshVars, clearing, context,
                 historyVars>>

DescriptionsDeleted ==
  /\ clearing = "descriptions" /\ left = {}
  /\ clearing' = "metadata"
  /\ UNCHANGED <<databaseVars, service, tables, recording, refreshVars, context, left,
                 historyVars>>

\* deletePersistenceSetMetadata(_ctxId): every document of the context, raw or
\* not.  The references stay.  The next recorder begins with session 1.
deletePersistenceSetMetadata ==
  /\ clearing = "metadata"
  /\ metadata' = [id \in {i \in DOMAIN metadata : metadata[i].context # context} |-> metadata[id]]
  /\ recording' = [id \in Ids |-> IF id \in DOMAIN metadata' THEN recording[id] ELSE 0]
  /\ clearing' = "no"
  /\ UNCHANGED <<payload, description, service, tables, refreshVars, context, left,
                 historyVars>>

-----------------------------------------------------------------------------
Refresh ==
  \/ ScanMin
  \/ ScanMax
  \/ CompareTail
  \/ RangeScanned
  \/ updateSessionDescription
  \/ insertSessionDescription
  \/ RefreshDone

Clear ==
  \/ \E id \in Ids : deleteDataRange(id) \/ deleteSessionDescription(id)
  \/ DataDeleted
  \/ DescriptionsDeleted
  \/ deletePersistenceSetMetadata

Next ==
  \/ init
  \/ Crash
  \/ \E m \in Source : CreateSet(m) \/ \E id \in Ids : UpdateSet(id, m)
  \/ \E id \in Ids, r \in Record : writeTrajectoryData(id, r)
  \/ \E id \in Ids : StartRefresh(id)
  \/ Refresh
  \/ \E c \in Contexts : deleteTotalData(c)
  \/ Clear

Spec == Init /\ [][Next]_vars

-----------------------------------------------------------------------------
(* What the sets promise, to an application that keeps them in their place  *)
(* or, of each set, as long as it does so with that one.                   *)

\* checkDescriptionWithPayload of the unit test, with a recorder that goes on
\* writing and crashes in between: what was in the payload when a refresh looked
\* for sessions, and still is, lies in the described range of its session, as long as
\* no set has strayed.
DescriptionsCoverPayload ==
  strayed = {} =>
    \A id \in DOMAIN tables : \A r \in described[id] \intersect payload[tables[id]] :
      \E d \in selectSessionDescriptions(id) :
        d.session = r.session /\ d.min <= r.step /\ r.step <= d.max

\* What was recorded of a set, and not cleared since, is where the service looks for
\* it: after a crash and a restart (initPayloadTableReferences), an interrupted
\* clearing, and whatever becomes of other sets (createPayloadTableRef,
\* deleteDataRange).
RecordedIsFound ==
  \A id \in DOMAIN tables \ strayed : recorded[id] \subseteq payload[tables[id]]

\* Payload and descriptions are of sets that have metadata, even if a clearing was
\* interrupted: nothing else would find them to delete them (deleteTotalData,
\* deleteSessionDescription).  A set that strays leaves some behind.
WhatIsStoredIsReachable ==
  strayed = {} =>
    /\ \A t \in Tables : payload[t] # {} =>
         \E id \in DOMAIN metadata :
           id \in getPersistenceSetMetadata(metadata[id].context) /\ PayloadTable(metadata[id]) = t
    /\ \A d \in description : d.id \in DOMAIN metadata

\* Payload is only deleted where it belongs to the context that is cleared
\* (deleteTotalData, deleteDataRange through m_tablesByPersistenceId), as long as no
\* set has strayed.
DeletionStaysInContext ==
  [][strayed = {} =>
       \A t \in Tables : payload[t] \ payload'[t] # {} =>
         \E id \in DOMAIN metadata :
           metadata[id].context = context /\ PayloadTable(metadata[id]) = t]_vars

=============================================================================
