---------------------- MODULE SessionDescriptionProofs ----------------------
(***************************************************************************)
(* Proofs about the refresh of session descriptions in PersistenceSets,    *)
(* for any ids, contexts and places, any numbers of sessions and steps:    *)
(* the types, and that what finished refreshes have looked at lies in the  *)
(* described ranges, whatever a recorder writes and a crash interrupts.    *)
(***************************************************************************)
EXTENDS PersistenceSetsProofs, FiniteSetTheorems, WellFoundedInduction

\* What is still to be scanned is there, since nobody deletes while a refresh runs;
\* and there is an info where the next step takes one.
RefreshShape ==
  /\ refreshing = "no" => todo = {} /\ scanned = <<>>
  /\ todo = {} => least = -1
  /\ refreshing # "no" =>
       /\ service = "up"
       /\ subject \in DOMAIN tables
       /\ todo \subseteq DistinctSessions(tables[subject])
  /\ refreshing \in {"update", "insert"} => todo = {}
  /\ refreshing = "update" => scanned # <<>>
  /\ refreshing \in {"tail", "range"} =>
       /\ todo # {} \/ scanned # <<>>
       /\ \A i \in 1 .. Len(scanned) : scanned[i].session \in DistinctSessions(tables[subject])
  /\ refreshing = "tail" => selectSessionDescriptions(subject) # {}

-----------------------------------------------------------------------------
(* The least and the greatest of a set.                                    *)

\* Min finds the least one of any natural numbers.
LEMMA MinIsLeast ==
  ASSUME NEW S \in SUBSET Nat, S # {}
  PROVE  Min(S) \in S /\ \A x \in S : Min(S) <= x
<1> DEFINE Less == {p \in Nat \X Nat : p[1] < p[2]}
<1>1. OpToRel(<, Nat) = Less
  BY DEF OpToRel
<1>2. IsWellFoundedOn(Less, Nat)
  BY <1>1, NatLessThanWellFounded, Zenon
<1>3. PICK m \in S : \A x \in S : <<x, m>> \notin Less
  <2> HIDE DEF Less
  <2> QED
    BY <1>2, WFMin
<1>4. \A x, y \in Nat : x < y => <<x, y>> \in Less
  OBVIOUS
<1>5. \A x \in S : m <= x
  <2> HIDE DEF Less
  <2>1. ASSUME NEW x \in S PROVE ~ (x < m)
    <3>1. x \in Nat /\ m \in Nat
      OBVIOUS
    <3> QED
      BY <3>1, <1>3, <1>4, Zenon
  <2>2. S \subseteq Int
    OBVIOUS
  <2> QED
    BY <2>1, <2>2
<1> QED
  BY <1>5 DEF Min

\* Finitely many natural numbers have a greatest one: of the smallest set that had
\* none, take an element away.
LEMMA FiniteHasGreatest ==
  ASSUME NEW S \in SUBSET Nat, IsFiniteSet(S), S # {}
  PROVE  \E m \in S : \A x \in S : x <= m
<1> DEFINE Unbounded(T) == T # {} /\ \A x \in T : \E y \in T : x < y
           Sizes == {n \in Nat : \E T \in SUBSET Nat :
                                   IsFiniteSet(T) /\ Cardinality(T) = n /\ Unbounded(T)}
<1>1. ASSUME Sizes # {} PROVE FALSE
  <2>1. PICK n \in Sizes : \A m \in Sizes : n <= m
    BY <1>1, MinIsLeast
  <2>2. PICK T \in SUBSET Nat : IsFiniteSet(T) /\ Cardinality(T) = n /\ Unbounded(T)
    BY <2>1
  <2>3. PICK x \in T : TRUE
    BY <2>2
  <2>4. IsFiniteSet(T \ {x}) /\ Cardinality(T \ {x}) = n - 1
    BY <2>2, <2>3, FS_RemoveElement
  <2>5. Cardinality(T \ {x}) \in Nat
    BY <2>4, FS_CardinalityType
  <2>6. n - 1 \notin Sizes
    BY <2>1
  <2>7. ~ Unbounded(T \ {x})
    BY <2>4, <2>5, <2>6
  <2>8. T \ {x} # {}
    BY <2>2, <2>3
  <2>9. PICK z \in T \ {x} : \A y \in T \ {x} : ~ (z < y)
    BY <2>7, <2>8
  <2> QED
    BY <2>2, <2>3, <2>9
<1>2. Cardinality(S) \in Nat
  BY FS_CardinalityType
<1>3. ~ Unbounded(S)
  BY <1>1, <1>2
<1> QED
  BY <1>3

\* Max finds it.
LEMMA MaxIsGreatest ==
  ASSUME NEW S \in SUBSET Nat, IsFiniteSet(S), S # {}
  PROVE  Max(S) \in S /\ \A x \in S : x <= Max(S)
<1>1. \E m \in S : \A x \in S : m >= x
  BY FiniteHasGreatest
<1> QED
  BY <1>1 DEF Max

\* Finitely many of each set are finitely many.
LEMMA FinitelyManyPerSet ==
  ASSUME NEW of, \A id \in Ids : IsFiniteSet(of[id])
  PROVE  IsFiniteSet(UNION {of[id] : id \in Ids})
<1> DEFINE Ranges == {of[id] : id \in Ids}
           range == [id \in Ids |-> of[id]]
<1>1. range \in Surjection(Ids, Ranges)
  BY DEF Surjection
<1>2. IsFiniteSet(Ranges)
  BY <1>1, FS_Surjection, PersistenceAssumption
<1>3. \A T \in Ranges : IsFiniteSet(T)
  OBVIOUS
<1> QED
  BY <1>2, <1>3, FS_UNION

\* Sessions and steps are finitely many natural numbers.
LEMMA SessionsAndStepsAreFinite ==
  /\ Sessions \subseteq Nat \ {0} /\ IsFiniteSet(Sessions)
  /\ Steps \subseteq Nat /\ IsFiniteSet(Steps)
<1>1. IsFiniteSet(Sessions)
  <2> DEFINE of == [id \in Ids |-> 1 .. LastSession[id]]
  <2>1. Sessions = UNION {of[id] : id \in Ids}
    BY DEF Sessions
  <2>2. \A id \in Ids : IsFiniteSet(of[id])
    BY FS_Interval, PersistenceAssumption
  <2> HIDE DEF of
  <2> QED
    BY <2>1, <2>2, FinitelyManyPerSet
<1>2. IsFiniteSet(Steps)
  <2> DEFINE of == [id \in Ids |-> 0 .. LastStep[id]]
  <2>1. Steps = UNION {of[id] : id \in Ids}
    BY DEF Steps
  <2>2. \A id \in Ids : IsFiniteSet(of[id])
    BY FS_Interval, PersistenceAssumption
  <2> HIDE DEF of
  <2> QED
    BY <2>1, <2>2, FinitelyManyPerSet
<1>3. Sessions \subseteq Nat \ {0} /\ Steps \subseteq Nat
  BY PersistenceAssumption DEF Sessions, Steps
<1> QED
  BY <1>1, <1>2, <1>3

-----------------------------------------------------------------------------
(* Types.                                                                  *)

TypeInvariant == TypeOK /\ RefreshShape

\* At first nothing is stored, and nothing runs.
LEMMA InitTypes == Init => TypeInvariant
<1> SUFFICES ASSUME Init PROVE TypeInvariant
  OBVIOUS
<1>1. TypeOK
  BY PersistenceAssumption DEF Init, TypeOK
<1>2. RefreshShape
  BY DEF Init, RefreshShape
<1> QED
  BY <1>1, <1>2 DEF TypeInvariant

\* A crash takes what is in memory and leaves what is stored.
LEMMA StopKeepsTypes ==
  ASSUME TypeInvariant, Stop, UNCHANGED databaseVars
  PROVE  TypeInvariant'
<1>1. TypeOK'
  BY DEF Stop, databaseVars, TypeInvariant, TypeOK, historyVars
<1>2. RefreshShape'
  BY DEF Stop, RefreshShape
<1> QED
  BY <1>1, <1>2 DEF TypeInvariant

\* The sessions that a table has, and their steps.
LEMMA WhatATableHas ==
  ASSUME TypeOK, NEW t \in Tables
  PROVE  /\ DistinctSessions(t) \subseteq Sessions
         /\ \A s \in DistinctSessions(t) :
              LET steps == StepsOf(t, s) IN
                /\ Min(steps) \in Steps /\ \A n \in steps : Min(steps) <= n
                /\ Max(steps) \in Steps /\ \A n \in steps : n <= Max(steps)
<1>1. payload[t] \subseteq Record
  BY DEF TypeOK
<1>2. DistinctSessions(t) \subseteq Sessions
  BY <1>1 DEF DistinctSessions, Record
<1>3. ASSUME NEW s \in DistinctSessions(t)
      PROVE  /\ StepsOf(t, s) \subseteq Nat /\ IsFiniteSet(StepsOf(t, s))
             /\ StepsOf(t, s) \subseteq Steps /\ StepsOf(t, s) # {}
  <2>1. StepsOf(t, s) \subseteq Steps
    BY <1>1 DEF StepsOf, Record
  <2>2. StepsOf(t, s) # {}
    BY DEF DistinctSessions, StepsOf
  <2> QED
    BY <2>1, <2>2, SessionsAndStepsAreFinite, FS_Subset
<1> QED
  BY <1>2, <1>3, MinIsLeast, MaxIsGreatest

\* The least of the sessions that are still to be scanned.
LEMMA LeastToScan ==
  ASSUME TypeInvariant, refreshing # "no", todo # {}
  PROVE  /\ Min(todo) \in todo /\ \A s \in todo : Min(todo) <= s
         /\ Min(todo) \in Sessions
         /\ tables[subject] \in Tables /\ Min(todo) \in DistinctSessions(tables[subject])
<1>1. todo \subseteq Nat /\ todo \subseteq Sessions
  BY SessionsAndStepsAreFinite DEF TypeInvariant, TypeOK
<1>2. Min(todo) \in todo /\ \A s \in todo : Min(todo) <= s
  BY <1>1, MinIsLeast
<1> QED
  BY <1>1, <1>2 DEF TypeInvariant, TypeOK, RefreshShape

\* The last description of a set that has any.
LEMMA LastStoredIsLast ==
  ASSUME TypeOK, NEW id, selectSessionDescriptions(id) # {}
  PROVE  /\ LastStored(id) \in selectSessionDescriptions(id)
         /\ \A d \in selectSessionDescriptions(id) : d.session <= LastStored(id).session
<1> DEFINE stored == selectSessionDescriptions(id)
           numbers == {d.session : d \in stored}
<1>1. stored \subseteq Description
  BY DEF TypeOK, selectSessionDescriptions
<1>2. numbers \subseteq Sessions /\ numbers # {}
  BY <1>1 DEF Description
<1>3. numbers \subseteq Nat /\ IsFiniteSet(numbers)
  BY <1>2, SessionsAndStepsAreFinite, FS_Subset
<1>4. \E d \in stored : \A e \in stored : e.session <= d.session
  <2> HIDE DEF stored
  <2>1. PICK m \in numbers : \A n \in numbers : n <= m
    BY <1>2, <1>3, FiniteHasGreatest
  <2> QED
    BY <2>1
<1> QED
  BY <1>4 DEF LastStored

\* Every step keeps the types; a refresh finds the session it asks for, and its steps,
\* because nobody deletes beside it.
LEMMA NextTypes == PlaceInvariant /\ TypeInvariant /\ [Next]_vars => TypeInvariant'
<1> SUFFICES ASSUME PlaceInvariant, TypeInvariant, [Next]_vars PROVE TypeInvariant'
  OBVIOUS
<1>0. OneAtATime /\ TypeOK /\ RefreshShape
  BY DEF PlaceInvariant, TypeInvariant
<1> USE DEF TypeInvariant
<1>1. CASE init
  <2>1. TypeOK'
    BY <1>0, <1>1 DEF init, initPayloadTableReferences, Tables, TypeOK, databaseVars, refreshVars,
                      clearVars, historyVars
  <2>2. RefreshShape'
    BY <1>0, <1>1 DEF init, RefreshShape, databaseVars, refreshVars, clearVars, historyVars
  <2> QED
    BY <2>1, <2>2
<1>2. CASE Crash
  BY <1>2, StopKeepsTypes DEF Crash
<1>3. ASSUME NEW m \in Source, CreateSet(m) PROVE TypeInvariant'
  <2>1. CASE createNewPersistenceId = INVALID_PERSISTENCE_ID
    BY <1>3, <2>1, StopKeepsTypes DEF CreateSet, databaseVars
  <2>2. CASE createNewPersistenceId # INVALID_PERSISTENCE_ID
    <3>1. createNewPersistenceId = 1 /\ 1 \in Ids
      BY <2>2, PersistenceAssumption DEF createNewPersistenceId
    <3>2. /\ metadata' = [i \in DOMAIN metadata \union {1} |-> IF i = 1 THEN m ELSE metadata[i]]
          /\ tables' = [i \in DOMAIN tables \union {1} |->
                         IF i \in DOMAIN tables THEN tables[i] ELSE PayloadTable(m)]
      BY <1>3, <2>2, <3>1 DEF CreateSet, createPayloadTableRef
    <3>3. /\ DOMAIN metadata' \subseteq Ids /\ \A i \in DOMAIN metadata' : metadata'[i] \in Source
          /\ DOMAIN tables' \subseteq Ids /\ \A i \in DOMAIN tables' : tables'[i] \in Tables
      <4>1. PayloadTable(m) \in Tables
        BY DEF Tables
      <4> QED
        BY <1>0, <3>1, <3>2, <4>1 DEF TypeOK
    <3>4. /\ UNCHANGED <<payload, description, service, recording, refreshVars, clearVars>>
          /\ UNCHANGED <<described, recorded>> /\ strayed' \subseteq strayed \union {1}
      BY <1>3, <2>2, <3>1 DEF CreateSet, Place
    <3>5. TypeOK'
      BY <1>0, <3>1, <3>3, <3>4 DEF TypeOK, refreshVars, clearVars, historyVars
    <3>6. RefreshShape'
      BY <1>0, <1>3, <3>4 DEF CreateSet, Idle, RefreshShape, refreshVars
    <3> QED
      BY <3>5, <3>6
  <2> QED
    BY <2>1, <2>2
<1>4. ASSUME NEW id \in Ids, NEW m \in Source, UpdateSet(id, m) PROVE TypeInvariant'
  <2>1. TypeOK'
    BY <1>0, <1>4 DEF UpdateSet, Place, TypeOK, databaseVars, refreshVars, clearVars
  <2>2. RefreshShape'
    BY <1>0, <1>4 DEF UpdateSet, RefreshShape, Idle, databaseVars, refreshVars, clearVars
  <2> QED
    BY <2>1, <2>2
<1>5. ASSUME NEW id \in Ids, NEW r \in Record, writeTrajectoryData(id, r) PROVE TypeInvariant'
  <2>1. CASE id \notin DOMAIN tables
    BY <1>5, <2>1, StopKeepsTypes DEF writeTrajectoryData, databaseVars
  <2>2. CASE id \in DOMAIN tables
    <3>1. r.session \in Sessions
      BY DEF Record
    <3>2. /\ payload' = [payload EXCEPT ![tables[id]] = @ \union {r}]
          /\ recording' = [recording EXCEPT ![id] = r.session]
          /\ recorded' = [recorded EXCEPT ![id] = @ \union {r}]
          /\ strayed' \subseteq strayed \union {id}
          /\ UNCHANGED <<metadata, description, service, tables, refreshVars, clearVars, described>>
      BY <1>5, <2>2 DEF writeTrajectoryData
    <3>3. TypeOK'
      BY <1>0, <3>1, <3>2 DEF TypeOK, refreshVars, clearVars, historyVars
    <3>4. \A t \in Tables : DistinctSessions(t) \subseteq DistinctSessions(t)'
      BY <1>0, <3>2 DEF TypeOK, DistinctSessions
    <3>5. RefreshShape'
      BY <1>0, <3>2, <3>4 DEF TypeOK, RefreshShape, selectSessionDescriptions, refreshVars
    <3> QED
      BY <3>3, <3>5
  <2> QED
    BY <2>1, <2>2
<1>6. ASSUME NEW id \in Ids, StartRefresh(id) PROVE TypeInvariant'
  <2> DEFINE all == DistinctSessions(tables[id])
  <2>1. tables[id] \in Tables /\ payload[tables[id]] \subseteq Record /\ all # {}
        /\ all \subseteq Sessions
    BY <1>0, <1>6, WhatATableHas DEF StartRefresh, TypeOK, DistinctSessions
  <2>2. Max(all) \in all
    <3>1. all \subseteq Nat /\ IsFiniteSet(all)
      BY <2>1, SessionsAndStepsAreFinite, FS_Subset
    <3> QED
      BY <2>1, <3>1, MaxIsGreatest
  <2>3. /\ refreshing = "no" /\ service = "up" /\ id \in DOMAIN tables
        /\ refreshing' \in {"create", "tail"}
        /\ subject' = id /\ promised' = payload[tables[id]]
        /\ todo' \subseteq all /\ todo' # {}
        /\ UNCHANGED <<databaseVars, service, tables, recording, least, scanned, clearVars,
                       historyVars>>
    BY <1>6, <2>1, <2>2 DEF StartRefresh, Idle
  <2>6. refreshing' = "tail" => selectSessionDescriptions(id) # {}
    BY <1>6 DEF StartRefresh
  <2>4. TypeOK'
    BY <1>0, <2>1, <2>3 DEF TypeOK, databaseVars, clearVars, historyVars
  <2>5. RefreshShape'
    <3>1. Len(scanned') = 0 /\ least = -1 /\ scanned' = <<>>
      BY <1>0, <2>3 DEF RefreshShape
    <3>2. DistinctSessions(tables[id])' = all
          /\ selectSessionDescriptions(id)' = selectSessionDescriptions(id)
      BY <2>3 DEF DistinctSessions, selectSessionDescriptions, databaseVars
    <3> QED
      BY <2>3, <2>6, <3>1, <3>2 DEF RefreshShape
  <2> QED
    BY <2>4, <2>5
<1>7. CASE ScanMin
  <2>1. least' \in Steps
    BY <1>0, <1>7, LeastToScan, WhatATableHas DEF ScanMin, Scanning
  <2>2. TypeOK'
    BY <1>0, <1>7, <2>1 DEF ScanMin, TypeOK, databaseVars, refreshVars, clearVars, historyVars
  <2>3. RefreshShape'
    BY <1>0, <1>7 DEF ScanMin, Scanning, RefreshShape, DistinctSessions, selectSessionDescriptions,
         databaseVars, refreshVars, clearVars, historyVars
  <2> QED
    BY <2>2, <2>3
<1>8. CASE ScanMax
  <2> DEFINE s == Min(todo)
             info == [session |-> s, min |-> least, max |-> Max(StepsOf(tables[subject], s))]
  <2>1. /\ s \in todo /\ s \in Sessions /\ s \in DistinctSessions(tables[subject])
        /\ Max(StepsOf(tables[subject], s)) \in Steps
    BY <1>0, <1>8, LeastToScan, WhatATableHas DEF ScanMax, Scanning
  <2>2. info \in SessionInfo
    BY <1>0, <1>8, <2>1 DEF ScanMax, SessionInfo, TypeOK
  <2>3. /\ scanned' = Append(scanned, info) /\ todo' = todo \ {s} /\ least' = -1
        /\ UNCHANGED <<databaseVars, service, tables, recording, refreshing, subject, promised,
                       clearVars, historyVars>>
        /\ refreshing \in {"create", "tail", "range"}
    BY <1>8 DEF ScanMax, Scanning
  <2> HIDE DEF s, info
  <2>4. TypeOK'
    BY <1>0, <2>2, <2>3 DEF TypeOK, databaseVars, clearVars, historyVars
  <2>5. /\ scanned' # <<>> /\ Len(scanned') = Len(scanned) + 1
        /\ \A i \in 1 .. Len(scanned) : scanned'[i] = scanned[i]
        /\ scanned'[Len(scanned) + 1] = info
        /\ Len(scanned) \in Nat
    BY <1>0, <2>2, <2>3 DEF TypeOK
  <2>6. info.session = s
    BY DEF info
  <2>7. DistinctSessions(tables[subject])' = DistinctSessions(tables[subject])
    BY <2>3 DEF DistinctSessions, databaseVars
  <2>8. RefreshShape'
    BY <1>0, <2>1, <2>3, <2>5, <2>6, <2>7 DEF RefreshShape, selectSessionDescriptions, databaseVars
  <2> QED
    BY <2>4, <2>8
<1>9. CASE CompareTail
  <2> DEFINE last == LastStored(subject)
  <2>1. /\ refreshing = "tail" /\ todo = {} /\ service = "up" /\ subject \in DOMAIN tables
        /\ scanned # <<>> /\ Len(scanned) \in Nat /\ 1 \in 1 .. Len(scanned)
        /\ tables[subject] \in Tables
        /\ least \in {-1} \union Steps
    BY <1>0, <1>9 DEF CompareTail, RefreshShape, TypeOK
  <2>2. scanned[1].session \in DistinctSessions(tables[subject])
    BY <1>0, <2>1 DEF RefreshShape
  <2>3. scanned[1].session \in Sessions
    BY <1>0, <2>1, <2>2, WhatATableHas
  <2>4. UNCHANGED <<databaseVars, service, tables, recording, subject, least, promised, clearVars,
                 historyVars>>
    BY <1>9 DEF CompareTail
  <2>5. DistinctSessions(tables[subject])' = DistinctSessions(tables[subject])
    BY <2>4 DEF DistinctSessions, databaseVars
  <2>6. \/ refreshing' = "update" /\ UNCHANGED <<todo, scanned>>
        \/ /\ scanned[1].session > last.session /\ refreshing' = "range" /\ scanned' = <<>>
           /\ todo' = SessionRange(tables[subject], last.session, scanned[1].session)
        \/ refreshing' = "insert" /\ scanned' = <<>> /\ UNCHANGED todo
    BY <1>9 DEF CompareTail
  <2> HIDE DEF last
  <2>7. last \in description
    <3>1. selectSessionDescriptions(subject) # {}
      BY <1>0, <2>1 DEF RefreshShape
    <3> QED
      BY <1>0, <3>1, LastStoredIsLast DEF selectSessionDescriptions, last
  <2>8. last.session \in Sessions
    BY <1>0, <2>7 DEF TypeOK, Description
  <2>9. todo' \subseteq DistinctSessions(tables[subject])
    BY <2>1, <2>6 DEF SessionRange
  <2>10. refreshing' = "range" => scanned[1].session \in todo'
    <3>1. last.session \in Int /\ scanned[1].session \in Int
      <4>1. Sessions \subseteq Int
        BY SessionsAndStepsAreFinite
      <4> QED
        BY <2>3, <2>8, <4>1
    <3>2. last.session < scanned[1].session =>
            scanned[1].session \in SessionRange(tables[subject], last.session, scanned[1].session)
      BY <2>2, <3>1 DEF SessionRange
    <3> QED
      BY <2>6, <3>2
  <2>11. TypeOK'
    <3>1. todo' \subseteq Sessions
      BY <1>0, <2>1, <2>9, WhatATableHas
    <3>2. scanned' \in Seq(SessionInfo)
      <4>1. <<>> \in Seq(SessionInfo)
        OBVIOUS
      <4> QED
        BY <1>0, <2>6, <4>1 DEF TypeOK
    <3> QED
      BY <1>0, <2>1, <2>4, <2>6, <3>1, <3>2 DEF TypeOK, databaseVars, clearVars, historyVars
  <2>12. RefreshShape'
    BY <1>0, <2>1, <2>4, <2>5, <2>6, <2>9, <2>10 DEF RefreshShape
  <2> QED
    BY <2>11, <2>12
<1>10. CASE RangeScanned
  <2>1. TypeOK'
    BY <1>0, <1>10 DEF RangeScanned, TypeOK, databaseVars, refreshVars, clearVars, historyVars
  <2>2. RefreshShape'
    BY <1>0, <1>10 DEF RangeScanned, Scanning, RefreshShape, DistinctSessions,
                       selectSessionDescriptions,
         databaseVars, refreshVars, clearVars, historyVars
  <2> QED
    BY <2>1, <2>2
<1>11. CASE updateSessionDescription \/ insertSessionDescription
  <2>1. /\ refreshing \in {"update", "insert"} /\ scanned # <<>> /\ todo = {}
        /\ least \in {-1} \union Steps
        /\ UNCHANGED <<metadata, payload, service, tables, recording, subject, todo, least,
                       clearVars, historyVars>>
    BY <1>0, <1>11 DEF updateSessionDescription, insertSessionDescription, RefreshShape, TypeOK
  <2>2. Head(scanned) \in SessionInfo /\ Tail(scanned) \in Seq(SessionInfo)
    BY <1>0, <2>1 DEF TypeOK
  <2>3. Describe(subject, Head(scanned)) \in Description
    BY <1>0, <2>2 DEF TypeOK, Describe, SessionInfo, Description
  <2>4. /\ description' \subseteq description \union {Describe(subject, Head(scanned))}
        /\ \/ refreshing' = "no" /\ scanned' = <<>> /\ promised' = {}
           \/ refreshing' = "insert" /\ scanned' = Tail(scanned) /\ UNCHANGED promised
    BY <1>11 DEF updateSessionDescription, insertSessionDescription, GiveUp
  <2>5. TypeOK'
    <3>1. scanned' \in Seq(SessionInfo) /\ promised' \subseteq Record
      <4>1. <<>> \in Seq(SessionInfo) /\ {} \subseteq Record
        OBVIOUS
      <4> QED
        BY <1>0, <2>2, <2>4, <4>1 DEF TypeOK
    <3>2. description' \subseteq Description
      BY <1>0, <2>3, <2>4 DEF TypeOK
    <3> QED
      BY <1>0, <2>1, <2>4, <3>1, <3>2 DEF TypeOK, clearVars, historyVars
  <2>6. least = -1
    BY <1>0, <2>1 DEF RefreshShape
  <2>7. RefreshShape'
    BY <1>0, <2>1, <2>4, <2>6 DEF RefreshShape, DistinctSessions
  <2> QED
    BY <2>5, <2>7
<1>12. CASE RefreshDone
  <2>1. TypeOK'
    BY <1>0, <1>12 DEF RefreshDone, TypeOK, databaseVars, refreshVars, clearVars, historyVars
  <2>2. RefreshShape'
    BY <1>0, <1>12 DEF RefreshDone, RefreshShape, databaseVars, refreshVars, clearVars, historyVars
  <2> QED
    BY <2>1, <2>2
<1>13. ASSUME NEW c \in Contexts, deleteTotalData(c) PROVE TypeInvariant'
  <2>1. TypeOK'
    BY <1>0, <1>13 DEF deleteTotalData, getPersistenceSetMetadata, TypeOK, databaseVars, refreshVars,
         historyVars
  <2>2. RefreshShape'
    BY <1>0, <1>13 DEF deleteTotalData, Idle, RefreshShape, databaseVars, refreshVars
  <2> QED
    BY <2>1, <2>2
<1>14. ASSUME NEW id \in Ids, deleteDataRange(id) PROVE TypeInvariant'
  <2>1. CASE id \notin DOMAIN tables
    BY <1>14, <2>1, StopKeepsTypes DEF deleteDataRange, databaseVars
  <2>2. CASE id \in DOMAIN tables
    <3>1. TypeOK'
      BY <1>0, <1>14, <2>2 DEF deleteDataRange, TypeOK, refreshVars
    <3>2. RefreshShape'
      BY <1>0, <1>14, <2>2 DEF deleteDataRange, OneAtATime, RefreshShape, refreshVars
    <3> QED
      BY <3>1, <3>2
  <2> QED
    BY <2>1, <2>2
<1>15. ASSUME NEW id \in Ids, deleteSessionDescription(id) PROVE TypeInvariant'
  <2>1. TypeOK'
    BY <1>0, <1>15 DEF deleteSessionDescription, TypeOK, refreshVars, clearVars, historyVars
  <2>2. RefreshShape'
    BY <1>0, <1>15 DEF deleteSessionDescription, OneAtATime, RefreshShape, databaseVars,
                       refreshVars, clearVars, historyVars
  <2> QED
    BY <2>1, <2>2
<1>16. CASE DataDeleted \/ DescriptionsDeleted
  <2>1. TypeOK'
    BY <1>0, <1>16 DEF DataDeleted, DescriptionsDeleted, getPersistenceSetMetadata, TypeOK,
                       databaseVars, refreshVars, clearVars, historyVars
  <2>2. RefreshShape'
    BY <1>0, <1>16 DEF DataDeleted, DescriptionsDeleted, OneAtATime, RefreshShape, databaseVars,
                       refreshVars, clearVars, historyVars
  <2> QED
    BY <2>1, <2>2
<1>17. CASE deletePersistenceSetMetadata
  <2>1. TypeOK'
    BY <1>0, <1>17 DEF deletePersistenceSetMetadata, TypeOK, refreshVars, clearVars, historyVars
  <2>2. RefreshShape'
    BY <1>0, <1>17 DEF deletePersistenceSetMetadata, OneAtATime, RefreshShape, databaseVars,
                       refreshVars, clearVars, historyVars
  <2> QED
    BY <2>1, <2>2
<1>18. CASE UNCHANGED vars
  <2>1. TypeOK'
    BY <1>0, <1>18 DEF vars, TypeOK, databaseVars, refreshVars, clearVars, historyVars
  <2>2. RefreshShape'
    BY <1>0, <1>18 DEF vars, RefreshShape, DistinctSessions, selectSessionDescriptions,
         databaseVars, refreshVars, clearVars, historyVars
  <2> QED
    BY <2>1, <2>2
<1> QED
  BY <1>1, <1>2, <1>3, <1>4, <1>5, <1>6, <1>7, <1>8, <1>9, <1>10, <1>11, <1>12, <1>13, <1>14, <1>15,
     <1>16, <1>17, <1>18 DEF Next, Refresh, Clear

\* It holds of every reachable state.
LEMMA TypeInvariance == Spec => []TypeInvariant
  BY InitTypes, NextTypes, PlaceInvariance, PTL DEF Spec

\* Every variable keeps its type: the scan of a session always finds its first and its
\* last step, and no description is of a session that was not recorded (getSessionInfo).
THEOREM TypesAreKept == Spec => []TypeOK
<1>1. TypeInvariant => TypeOK
  BY DEF TypeInvariant
<1> QED
  BY <1>1, TypeInvariance, PTL

-----------------------------------------------------------------------------
(* What a refresh promises.                                                *)

\* The application keeps descriptions of one set: the queries of an update and of an
\* insert go by the session's number alone (isSessionExistInDescription).
OneDescribed == \A i, j \in Described : i = j

\* What is in the table of a set.
PayloadOf(id) == payload[PayloadTable(metadata[id])]

Covers(d, r) == d.session = r.session /\ d.min <= r.step /\ r.step <= d.max
IsCovered(id, r) == \E d \in selectSessionDescriptions(id) : Covers(d, r)

\* Sessions are recorded in order, and described only after they have begun.
SessionsInOrder ==
  /\ \A id \in DOMAIN metadata : \A r \in PayloadOf(id) : r.session <= recording[id]
  /\ \A d \in description : d.id \in Described /\ d.session <= recording[d.id]
  /\ clearing = "descriptions" => left \subseteq getPersistenceSetMetadata(context)

\* Each session has one description.  What a finished refresh has looked at is
\* covered, and so are all sessions before one that is described, however far an
\* interrupted refresh got.
DescribedIsCovered ==
  /\ \A d, e \in description : d.session = e.session => d = e
  /\ \A id \in Ids : described[id] # {} =>
       /\ id \in Described \intersect DOMAIN metadata
       /\ described[id] \subseteq PayloadOf(id)
  /\ \A id \in Ids : \A r \in described[id] : IsCovered(id, r)
  /\ \A d \in description : \A r \in PayloadOf(d.id) : r.session < d.session => IsCovered(d.id, r)

\* The sessions a refresh still has in hand.
InHand(s) == s \in todo \/ \E i \in 1 .. Len(scanned) : scanned[i].session = s

\* What a refresh has in hand are sessions it was promised, in order; each info
\* covers what was promised of its session; what has been written since belongs to
\* the last session or to later ones.
RefreshInHand ==
  refreshing # "no" =>
    /\ subject \in Described \intersect DOMAIN metadata
    /\ promised # {} /\ promised \subseteq PayloadOf(subject)
    /\ described[subject] \subseteq promised
    /\ \A r \in PayloadOf(subject) \ promised : \A p \in promised : p.session <= r.session
    /\ \A s \in Sessions : InHand(s) => \E p \in promised : p.session = s
    /\ \A i, j \in 1 .. Len(scanned) : i < j => scanned[i].session < scanned[j].session
    /\ \A i \in 1 .. Len(scanned) : \A s \in todo : scanned[i].session < s
    /\ \A i \in 1 .. Len(scanned) : \A p \in promised :
         p.session = scanned[i].session => Covers(scanned[i], p)
    /\ least # -1 => todo # {} /\ \A p \in promised : p.session = Min(todo) => least <= p.step

\* How much of the promise each stage has left.
PromiseByStage ==
  LET stored == selectSessionDescriptions(subject) IN
    /\ refreshing = "create" => stored = {} /\ \A p \in promised : InHand(p.session)
    /\ refreshing = "tail" =>
         stored # {} /\ \A s \in Sessions : InHand(s) => \A p \in promised : p.session <= s
    /\ refreshing \in {"range", "update"} =>
         /\ stored # {}
         /\ \A s \in Sessions : InHand(s) => \A d \in stored : d.session <= s
         /\ \A p \in promised : InHand(p.session) \/ \E d \in stored : p.session < d.session
    /\ refreshing = "insert" =>
         /\ \A s \in Sessions : InHand(s) => \A d \in stored : d.session < s
         /\ \A p \in promised : InHand(p.session) \/ IsCovered(subject, p)

RefreshInvariant ==
  SessionsInOrder /\ DescribedIsCovered /\ RefreshInHand /\ PromiseByStage

\* What the steps below start from: an application that has let no set stray so far.
Standing ==
  /\ OwnTables /\ OneDescribed /\ strayed = {}
  /\ PlaceInvariant /\ ReachInvariant /\ TypeInvariant /\ RefreshInvariant

\* A table in memory that is the place of a set with metadata is that set's.
LEMMA ReferenceIsOwn ==
  ASSUME Standing, NEW id \in DOMAIN tables, NEW i \in DOMAIN metadata,
         tables[id] = PayloadTable(metadata[i])
  PROVE  id = i
  BY ReferencesAreOwn DEF Standing

\* Where payload is, there is a set, and it is the one whose place that is.
LEMMA PayloadHasItsSet ==
  ASSUME Standing, NEW id, NEW m \in Source, <<id, m>> \in Homes,
         payload[PayloadTable(m)] # {}
  PROVE  id \in DOMAIN metadata /\ PayloadTable(metadata[id]) = PayloadTable(m)
<1>1. PayloadTable(m) \in Tables
  BY DEF Tables
<1>2. PICK i \in DOMAIN metadata : PayloadTable(metadata[i]) = PayloadTable(m)
  BY <1>1 DEF Standing, ReachInvariant, WhatIsStoredIsReachable
<1>3. <<i, metadata[i]>> \in Homes
  BY DEF Standing, PlaceInvariant, ByTheApplication
<1> QED
  BY <1>2, <1>3, TableIsOwn DEF Standing

\* What is stored keeps the invariant as long as nobody touches it.
LEMMA StoredIsKept ==
  ASSUME RefreshInvariant,
         UNCHANGED <<metadata, payload, description, recording, described>>,
         clearing' = "descriptions" => left' \subseteq getPersistenceSetMetadata(context)'
  PROVE  SessionsInOrder' /\ DescribedIsCovered'
<1>1. SessionsInOrder'
  BY DEF RefreshInvariant, SessionsInOrder, PayloadOf
<1>2. DescribedIsCovered'
  BY DEF RefreshInvariant, DescribedIsCovered, PayloadOf, IsCovered, selectSessionDescriptions
<1> QED
  BY <1>1, <1>2

\* A crash ends the refresh; what it has stored so far stays.
LEMMA StopKeepsRefresh ==
  ASSUME RefreshInvariant, Stop, UNCHANGED databaseVars
  PROVE  RefreshInvariant'
<1>1. SessionsInOrder' /\ DescribedIsCovered'
  BY StoredIsKept DEF Stop, databaseVars, historyVars
<1>2. refreshing' = "no"
  BY DEF Stop
<1> QED
  BY <1>1, <1>2 DEF RefreshInvariant, RefreshInHand, PromiseByStage

\* Nor does it matter to a refresh, or to what is stored, what else goes on.
LEMMA OthersKeepRefresh ==
  ASSUME RefreshInvariant,
         UNCHANGED <<metadata, payload, description, recording, described, refreshVars>>,
         clearing' = "descriptions" => left' \subseteq getPersistenceSetMetadata(context)'
  PROVE  RefreshInvariant'
<1>1. SessionsInOrder' /\ DescribedIsCovered'
  BY StoredIsKept
<1>2. \A s : InHand(s)' <=> InHand(s)
  BY DEF InHand, refreshVars
<1>3. RefreshInHand'
  BY <1>2 DEF RefreshInvariant, RefreshInHand, PayloadOf, refreshVars
<1>4. PromiseByStage'
  BY <1>2 DEF RefreshInvariant, PromiseByStage, IsCovered, selectSessionDescriptions, refreshVars
<1> QED
  BY <1>1, <1>3, <1>4 DEF RefreshInvariant

\* The set that a refresh is about, and its table.
LEMMA SubjectOfRefresh ==
  ASSUME Standing, refreshing # "no"
  PROVE  /\ service = "up" /\ clearing = "no"
         /\ subject \in Ids /\ subject \in DOMAIN metadata /\ subject \in Described
         /\ tables[subject] \in Tables /\ tables[subject] = PayloadTable(metadata[subject])
         /\ promised \subseteq PayloadOf(subject) /\ promised \subseteq Record
         /\ PayloadOf(subject) \subseteq Record
<1>1. /\ clearing = "no" /\ service = "up"
      /\ subject \in DOMAIN tables /\ tables[subject] \in Tables /\ subject \in Ids
      /\ payload \in [Tables -> SUBSET Record] /\ promised \subseteq Record
  BY DEF Standing, PlaceInvariant, OneAtATime, TypeInvariant, TypeOK, RefreshShape
<1>2. /\ subject \in DOMAIN metadata /\ subject \in Described
      /\ promised \subseteq PayloadOf(subject)
  BY DEF Standing, RefreshInvariant, RefreshInHand
<1>3. tables[subject] = PayloadTable(metadata[subject])
  BY <1>1, <1>2 DEF Standing, PlaceInvariant, InPlace
<1> QED
  BY <1>1, <1>2, <1>3 DEF PayloadOf

\* A recorder beside a refresh writes to the last session or begins the next one, so it
\* adds nothing to a session that others follow.
LEMMA RecordingKeepsRefresh ==
  ASSUME Standing, NEW id \in Ids, NEW r \in Record,
         writeTrajectoryData(id, r), id \in DOMAIN tables, strayed' = {}
  PROVE  RefreshInvariant'
<1>1. /\ clearing = "no" /\ id \in DOMAIN metadata
      /\ r.session = recording[id] \/ r.session = recording[id] + 1
      /\ payload' = [payload EXCEPT ![tables[id]] = @ \union {r}]
      /\ recording' = [recording EXCEPT ![id] = r.session]
      /\ UNCHANGED <<metadata, description, service, tables, refreshVars, clearVars, described>>
  BY DEF writeTrajectoryData
<1>2. /\ payload \in [Tables -> SUBSET Record]
      /\ tables[id] \in Tables /\ tables[id] = PayloadTable(metadata[id])
      /\ recording \in [Ids -> {0} \union Sessions]
      /\ DOMAIN metadata \subseteq Ids
  BY <1>1 DEF Standing, PlaceInvariant, InPlace, TypeInvariant, TypeOK
<1>3. \A i \in Ids : recording[i] \in Int
  <2>1. Sessions \subseteq Int
    BY SessionsAndStepsAreFinite
  <2>2. \A i \in Ids : recording[i] = 0 \/ recording[i] \in Sessions
    BY <1>2
  <2>3. 0 \in Int
    OBVIOUS
  <2> QED
    BY <2>1, <2>2, <2>3, Zenon
<1>4. PayloadOf(id)' = PayloadOf(id) \union {r}
  BY <1>1, <1>2 DEF PayloadOf
<1>5. ASSUME NEW i \in DOMAIN metadata, i # id PROVE PayloadOf(i)' = PayloadOf(i)
  <2>1. PayloadTable(metadata[i]) # tables[id]
    BY <1>5, ReferenceIsOwn
  <2>2. PayloadTable(metadata[i]) \in Tables
    BY DEF Standing, TypeInvariant, TypeOK, Tables
  <2> QED
    BY <1>1, <1>2, <2>1, <2>2 DEF PayloadOf
<1>6. recording[id] <= r.session /\ recording'[id] = r.session /\ r.session \in Int
  BY <1>1, <1>2, <1>3
<1>7. \A i \in Ids : i # id => recording'[i] = recording[i]
  BY <1>1, <1>2
<1>8. \A d \in description : d.id \in DOMAIN metadata /\ d.session <= recording[d.id]
      /\ d.session \in Int
  <2>1. \A d \in description : d.session \in Sessions
    BY DEF Standing, TypeInvariant, TypeOK, Description
  <2>2. Sessions \subseteq Int
    BY SessionsAndStepsAreFinite
  <2>3. \A d \in description : d.id \in DOMAIN metadata
    BY DEF Standing, ReachInvariant, WhatIsStoredIsReachable
  <2> QED
    BY <2>1, <2>2, <2>3 DEF Standing, RefreshInvariant, SessionsInOrder
<1>9. \A i \in DOMAIN metadata : PayloadOf(i) \subseteq Record
      /\ \A x \in PayloadOf(i) : x.session \in Int
  <2>1. \A x \in Record : x.session \in Int
    <3>1. Sessions \subseteq Int
      BY SessionsAndStepsAreFinite
    <3> QED
      BY <3>1 DEF Record
  <2>2. \A i \in DOMAIN metadata : PayloadTable(metadata[i]) \in Tables
    BY DEF Standing, TypeInvariant, TypeOK, Tables
  <2> QED
    BY <1>2, <2>1, <2>2 DEF PayloadOf
<1>10. SessionsInOrder'
  <2>1. \A i \in DOMAIN metadata : \A x \in PayloadOf(i)' : x.session <= recording'[i]
    <3>1. \A i \in DOMAIN metadata : \A x \in PayloadOf(i) : x.session <= recording[i]
      BY DEF Standing, RefreshInvariant, SessionsInOrder
    <3>2. \A x \in PayloadOf(id) : x.session <= r.session
      BY <1>1, <1>2, <1>3, <1>6, <1>9, <3>1
    <3> QED
      BY <1>2, <1>4, <1>5, <1>6, <1>7, <3>1, <3>2
  <2>2. \A d \in description : d.id \in Described /\ d.session <= recording'[d.id]
    BY <1>2, <1>3, <1>6, <1>7, <1>8 DEF Standing, RefreshInvariant, SessionsInOrder
  <2> QED
    BY <1>1, <2>1, <2>2 DEF SessionsInOrder, clearVars, historyVars
<1>11. DescribedIsCovered'
  <2>1. \A i, x : IsCovered(i, x)' <=> IsCovered(i, x)
    BY <1>1 DEF IsCovered, selectSessionDescriptions
  <2>2. \A i \in Ids : described[i] # {} =>
          i \in Described \intersect DOMAIN metadata /\ described[i] \subseteq PayloadOf(i)'
    BY <1>4, <1>5 DEF Standing, RefreshInvariant, DescribedIsCovered
  <2>3. ASSUME NEW d \in description, NEW x \in PayloadOf(d.id)', x.session < d.session
        PROVE  IsCovered(d.id, x)
    <3>1. x \in PayloadOf(d.id)
      BY <1>1, <1>2, <1>3, <1>4, <1>5, <1>6, <1>8, <2>3
    <3> QED
      BY <2>3, <3>1 DEF Standing, RefreshInvariant, DescribedIsCovered
  <2> QED
    BY <1>1, <2>1, <2>2, <2>3 DEF Standing, RefreshInvariant, DescribedIsCovered, historyVars
<1>12. \A s : InHand(s)' <=> InHand(s)
  BY <1>1 DEF InHand, refreshVars
<1>13. RefreshInHand'
  <2> SUFFICES ASSUME refreshing # "no" PROVE RefreshInHand'
    BY <1>1 DEF RefreshInHand, refreshVars
  <2>4. UNCHANGED <<refreshing, subject, todo, least, scanned, promised, metadata, described>>
    BY <1>1 DEF refreshVars, historyVars
  <2>1. PayloadOf(subject) \subseteq PayloadOf(subject)'
    BY <1>4, <1>5, <2>4, SubjectOfRefresh
  <2>2. \A x \in PayloadOf(subject)' \ promised : \A p \in promised : p.session <= x.session
    <3>1. \A x \in PayloadOf(subject)' : x \in PayloadOf(subject) \/ (subject = id /\ x = r)
      <4>1. CASE subject = id
        BY <1>4, <2>4, <4>1
      <4>2. CASE subject # id
        <5>1. PayloadOf(subject)' = PayloadOf(subject)
          BY <1>5, <2>4, <4>2, SubjectOfRefresh
        <5> QED
          BY <5>1
      <4> QED
        BY <4>1, <4>2
    <3>2. subject = id => \A p \in promised : p.session <= r.session
      <4>1. subject = id => \A p \in promised : p.session <= recording[id] /\ p.session \in Int
        BY <1>9, SubjectOfRefresh DEF Standing, RefreshInvariant, SessionsInOrder
      <4> QED
        BY <1>3, <1>6, <4>1
    <3> QED
      BY <3>1, <3>2 DEF Standing, RefreshInvariant, RefreshInHand
  <2>3. promised \subseteq PayloadOf(subject)'
    BY <2>1, SubjectOfRefresh
  <2> QED
    BY <1>12, <2>2, <2>3, <2>4 DEF Standing, RefreshInvariant, RefreshInHand
<1>14. PromiseByStage'
  BY <1>1, <1>12 DEF Standing, RefreshInvariant, PromiseByStage, IsCovered,
       selectSessionDescriptions, refreshVars
<1> QED
  BY <1>10, <1>11, <1>13, <1>14 DEF RefreshInvariant

\* A refresh promises what is there when it looks for sessions.
LEMMA StartKeepsRefresh ==
  ASSUME Standing, NEW id \in Ids, StartRefresh(id)
  PROVE  RefreshInvariant'
<1> DEFINE all == DistinctSessions(tables[id])
<1>1. /\ refreshing = "no" /\ clearing = "no"
      /\ id \in Described /\ id \in DOMAIN tables /\ payload[tables[id]] # {}
      /\ subject' = id /\ promised' = payload[tables[id]]
      /\ \/ /\ selectSessionDescriptions(id) = {}
            /\ refreshing' = "create" /\ todo' = all
         \/ /\ selectSessionDescriptions(id) # {}
            /\ refreshing' = "tail" /\ todo' = {Max(all)}
      /\ UNCHANGED <<databaseVars, service, tables, recording, least, scanned, clearVars,
                     historyVars>>
  BY DEF StartRefresh, Idle
<1>2. PICK m \in Source : <<id, m>> \in Homes /\ tables[id] = PayloadTable(m)
  BY <1>1 DEF Standing, PlaceInvariant, ByTheApplication
<1>3. id \in DOMAIN metadata /\ payload[tables[id]] = PayloadOf(id)
  BY <1>1, <1>2, PayloadHasItsSet DEF PayloadOf
<1>4. least = -1 /\ scanned = <<>> /\ Len(scanned) = 0
  BY <1>1 DEF Standing, TypeInvariant, RefreshShape
<1>5. \A s : s \in all <=> \E p \in PayloadOf(id) : p.session = s
  BY <1>3 DEF DistinctSessions
<1>6. Max(all) \in all /\ \A s \in all : s <= Max(all)
  <2>1. tables[id] \in Tables /\ all # {}
    BY <1>1, <1>2, <1>3, <1>5 DEF Tables
  <2>2. all \subseteq Sessions
    BY <2>1, WhatATableHas DEF Standing, TypeInvariant
  <2>3. all \subseteq Nat /\ IsFiniteSet(all)
    BY <2>2, SessionsAndStepsAreFinite, FS_Subset
  <2> HIDE DEF all
  <2> QED
    BY <2>1, <2>3, MaxIsGreatest
<1> HIDE DEF all
<1>7. \A s : InHand(s)' <=> s \in todo'
  BY <1>1, <1>4 DEF InHand
<1>8. SessionsInOrder' /\ DescribedIsCovered'
  BY <1>1, StoredIsKept DEF Standing, databaseVars, clearVars, historyVars
<1>9. PayloadOf(id)' = PayloadOf(id)
      /\ selectSessionDescriptions(id)' = selectSessionDescriptions(id)
  BY <1>1 DEF PayloadOf, selectSessionDescriptions, databaseVars
<1>10. described[id] \subseteq PayloadOf(id)
  BY DEF Standing, RefreshInvariant, DescribedIsCovered
<1>11. RefreshInHand'
  <2>1. PayloadOf(id) # {} /\ promised' = PayloadOf(id)
    BY <1>1, <1>3
  <2>2. \A s : InHand(s)' => \E p \in promised' : p.session = s
    BY <1>1, <1>5, <1>6, <1>7, <2>1
  <2>3. DOMAIN metadata' = DOMAIN metadata
    BY <1>1 DEF databaseVars
  <2> QED
    BY <1>1, <1>3, <1>4, <1>9, <1>10, <2>1, <2>2, <2>3 DEF RefreshInHand, historyVars
<1>12. PromiseByStage'
  BY <1>1, <1>3, <1>5, <1>6, <1>7, <1>9 DEF PromiseByStage
<1> QED
  BY <1>8, <1>11, <1>12 DEF RefreshInvariant

\* The numbers of promised and described sessions can be compared.
LEMMA SessionsAreNumbers ==
  ASSUME TypeOK
  PROVE  /\ \A s \in Sessions : s \in Int
         /\ \A p \in promised : p \in Record /\ p.session \in Sessions /\ p.session \in Int
               /\ p.step \in Int
         /\ \A d \in description : d.session \in Sessions /\ d.session \in Int
         /\ Len(scanned) \in Nat
         /\ \A i \in 1 .. Len(scanned) :
              /\ scanned[i] \in SessionInfo
              /\ scanned[i].session \in Sessions /\ scanned[i].session \in Int
         /\ \A s \in todo : s \in Sessions /\ s \in Int
         /\ \A s : InHand(s) => s \in Sessions
<1>1. Sessions \subseteq Int /\ Steps \subseteq Int
  BY SessionsAndStepsAreFinite
<1>2. \A s \in Sessions : s \in Int
  BY <1>1
<1>3. \A p \in promised : p \in Record /\ p.session \in Sessions /\ p.session \in Int
      /\ p.step \in Int
  BY <1>1 DEF TypeOK, Record
<1>4. \A d \in description : d.session \in Sessions /\ d.session \in Int
  BY <1>1 DEF TypeOK, Description
<1>5. \A i \in 1 .. Len(scanned) : scanned[i] \in SessionInfo
  BY DEF TypeOK
<1>6. \A i \in 1 .. Len(scanned) : scanned[i].session \in Sessions /\ scanned[i].session \in Int
  BY <1>1, <1>5 DEF SessionInfo
<1>7. \A s \in todo : s \in Sessions /\ s \in Int
  BY <1>1 DEF TypeOK
<1>8. Len(scanned) \in Nat
  BY DEF TypeOK
<1>9. \A s : InHand(s) => s \in Sessions
  BY <1>6, <1>7 DEF InHand
<1> QED
  BY <1>2, <1>3, <1>4, <1>5, <1>6, <1>7, <1>8, <1>9

\* The first query finds no step that is later than a promised one.
LEMMA ScanMinKeepsRefresh == Standing /\ ScanMin => RefreshInvariant'
<1> SUFFICES ASSUME Standing, ScanMin PROVE RefreshInvariant'
  OBVIOUS
<1>1. /\ refreshing # "no" /\ todo # {}
      /\ least' = Min(StepsOf(tables[subject], Min(todo)))
      /\ UNCHANGED <<databaseVars, service, tables, recording, refreshing, subject, todo, scanned,
                     promised, clearVars, historyVars>>
  BY DEF ScanMin, Scanning
<1>2. SessionsInOrder' /\ DescribedIsCovered'
  BY <1>1, StoredIsKept DEF Standing, RefreshInvariant, SessionsInOrder,
       getPersistenceSetMetadata, databaseVars, clearVars, historyVars
<1>3. \A s : InHand(s)' <=> InHand(s)
  BY <1>1 DEF InHand
<1>4. \A p \in promised : p.session = Min(todo) => least' <= p.step
  <2>1. \A p \in promised : p \in payload[tables[subject]]
    BY <1>1, SubjectOfRefresh DEF PayloadOf
  <2>2. \A p \in promised : p.session = Min(todo) => p.step \in StepsOf(tables[subject], Min(todo))
    BY <2>1 DEF StepsOf
  <2> QED
    BY <1>1, <2>2, LeastToScan, WhatATableHas DEF Standing, TypeInvariant
<1>5. RefreshInHand'
  BY <1>1, <1>3, <1>4 DEF Standing, RefreshInvariant, RefreshInHand, PayloadOf, databaseVars,
       historyVars
<1>6. PromiseByStage'
  BY <1>1, <1>3 DEF Standing, RefreshInvariant, PromiseByStage, IsCovered,
       selectSessionDescriptions, databaseVars
<1> QED
  BY <1>2, <1>5, <1>6 DEF RefreshInvariant

\* Nor the second one a step that is earlier: the info covers what was promised of its
\* session, even if the recorder has gone on in between.
LEMMA ScanMaxKeepsRefresh == Standing /\ ScanMax => RefreshInvariant'
<1> SUFFICES ASSUME Standing, ScanMax PROVE RefreshInvariant'
  OBVIOUS
<1> DEFINE s == Min(todo)
           info == [session |-> s, min |-> least, max |-> Max(StepsOf(tables[subject], s))]
           n == Len(scanned)
<1>1. /\ refreshing # "no" /\ todo # {} /\ least # -1
      /\ scanned' = Append(scanned, info)
      /\ todo' = todo \ {s} /\ least' = -1
      /\ UNCHANGED <<databaseVars, service, tables, recording, refreshing, subject, promised,
                     clearVars, historyVars>>
  BY DEF ScanMax, Scanning
<1>2. SessionsInOrder' /\ DescribedIsCovered'
  BY <1>1, StoredIsKept DEF Standing, RefreshInvariant, SessionsInOrder,
       getPersistenceSetMetadata, databaseVars, clearVars, historyVars
<1>3. /\ s \in todo /\ \A z \in todo : s <= z
      /\ s \in DistinctSessions(tables[subject]) /\ tables[subject] \in Tables
  BY <1>1, LeastToScan DEF Standing
<1>4. \A p \in promised : p.session = s => Covers(info, p)
  <2>1. \A p \in promised : p \in payload[tables[subject]]
    BY <1>1, SubjectOfRefresh DEF PayloadOf
  <2>2. \A p \in promised : p.session = s => p.step \in StepsOf(tables[subject], s)
    BY <2>1 DEF StepsOf
  <2>3. \A p \in promised : p.session = s => p.step <= Max(StepsOf(tables[subject], s))
    BY <2>2, <1>3, WhatATableHas DEF Standing, TypeInvariant
  <2>4. \A p \in promised : p.session = s => least <= p.step
    BY <1>1 DEF Standing, RefreshInvariant, RefreshInHand
  <2> HIDE DEF s
  <2> QED
    BY <2>3, <2>4 DEF Covers
<1>5. info.session = s /\ s \in Int
  BY <1>3, SessionsAreNumbers DEF Standing, TypeInvariant
<1>6. /\ n \in Nat /\ Len(scanned') = n + 1
      /\ \A i \in 1 .. n : scanned'[i] = scanned[i]
      /\ scanned'[n + 1] = info
  BY <1>1 DEF Standing, TypeInvariant, TypeOK
<1> HIDE DEF info, n, s
<1>7. \A z : InHand(z)' <=> InHand(z)
  <2>1. \A z : (\E i \in 1 .. n + 1 : scanned'[i].session = z) <=>
               z = s \/ \E i \in 1 .. n : scanned[i].session = z
    BY <1>5, <1>6
  <2> QED
    BY <1>1, <1>3, <1>6, <2>1 DEF InHand, n
<1>8. RefreshInHand'
  <2>1. \A i, j \in 1 .. Len(scanned') : i < j => scanned'[i].session < scanned'[j].session
    <3>1. \A i, j \in 1 .. n : i < j => scanned[i].session < scanned[j].session
      BY <1>1 DEF Standing, RefreshInvariant, RefreshInHand, n
    <3>2. \A i \in 1 .. n : scanned[i].session < s
      BY <1>1, <1>3 DEF Standing, RefreshInvariant, RefreshInHand, n
    <3> QED
      BY <1>5, <1>6, <3>1, <3>2
  <2>2. \A i \in 1 .. Len(scanned') : \A z \in todo' : scanned'[i].session < z
    <3>1. \A i \in 1 .. n : \A z \in todo : scanned[i].session < z
      BY <1>1 DEF Standing, RefreshInvariant, RefreshInHand, n
    <3>2. \A z \in todo' : s < z
      BY <1>1, <1>3, <1>5, SessionsAreNumbers DEF Standing, TypeInvariant
    <3> QED
      BY <1>1, <1>5, <1>6, <3>1, <3>2
  <2>3. \A i \in 1 .. Len(scanned') : \A p \in promised :
          p.session = scanned'[i].session => Covers(scanned'[i], p)
    <3>1. \A i \in 1 .. n : \A p \in promised :
            p.session = scanned[i].session => Covers(scanned[i], p)
      BY <1>1 DEF Standing, RefreshInvariant, RefreshInHand, n
    <3> QED
      BY <1>4, <1>5, <1>6, <3>1
  <2> QED
    BY <1>1, <1>7, <2>1, <2>2, <2>3
    DEF Standing, RefreshInvariant, RefreshInHand, PayloadOf, databaseVars, historyVars
<1>9. PromiseByStage'
  BY <1>1, <1>7 DEF Standing, RefreshInvariant, PromiseByStage, IsCovered,
       selectSessionDescriptions, databaseVars
<1> QED
  BY <1>2, <1>8, <1>9 DEF RefreshInvariant

\* Either the tail is covered by its description, and so is all that comes before, or
\* the sessions from the last description on are scanned, or the tail alone.
LEMMA CompareTailKeepsRefresh == Standing /\ CompareTail => RefreshInvariant'
<1> SUFFICES ASSUME Standing, CompareTail PROVE RefreshInvariant'
  OBVIOUS
<1> DEFINE tail == scanned[1]
           last == LastStored(subject)
           stored == selectSessionDescriptions(subject)
<1>1. /\ refreshing = "tail" /\ todo = {}
      /\ \/ /\ tail.session = last.session
            /\ refreshing' = "update"
            /\ UNCHANGED <<todo, scanned>>
         \/ /\ tail.session > last.session
            /\ refreshing' = "range"
            /\ todo' = SessionRange(tables[subject], last.session, tail.session)
            /\ scanned' = <<>>
         \/ /\ \/ tail.session < last.session
               \/ tail.session = last.session /\ tail.min = last.min /\ tail.max = last.max
            /\ refreshing' = "insert"
            /\ scanned' = <<>>
            /\ UNCHANGED todo
      /\ UNCHANGED <<databaseVars, service, tables, recording, subject, least, promised, clearVars,
                     historyVars>>
  BY DEF CompareTail
<1>2. SessionsInOrder' /\ DescribedIsCovered'
  BY <1>1, StoredIsKept DEF Standing, RefreshInvariant, SessionsInOrder,
       getPersistenceSetMetadata, databaseVars, clearVars, historyVars
<1>3. stored # {} /\ last \in stored /\ \A d \in stored : d.session <= last.session
  BY <1>1, LastStoredIsLast DEF Standing, TypeInvariant, RefreshShape
<1>4. /\ 1 \in 1 .. Len(scanned) /\ least = -1
      /\ tail \in SessionInfo /\ tail.session \in Int /\ tail.session \in Sessions
      /\ last.session \in Int
      /\ \A p \in promised : p.session \in Int /\ p.session \in Sessions
  BY <1>1, <1>3, SessionsAreNumbers
  DEF Standing, TypeInvariant, RefreshShape, TypeOK, selectSessionDescriptions
<1>5. InHand(tail.session) /\ \A p \in promised : p.session <= tail.session
  BY <1>1, <1>4 DEF Standing, RefreshInvariant, PromiseByStage, InHand
<1>6. PICK q \in promised : q.session = tail.session
  BY <1>1, <1>4, <1>5 DEF Standing, RefreshInvariant, RefreshInHand
<1>7. \A i \in 1 .. Len(scanned) : scanned[i].session = tail.session
  <2>1. \A i \in 1 .. Len(scanned) : InHand(scanned[i].session) /\ scanned[i].session \in Sessions
    BY SessionsAreNumbers DEF InHand, Standing, TypeInvariant
  <2>2. \A s \in Sessions : InHand(s) => tail.session <= s /\ s <= tail.session
    BY <1>1, <1>5, <1>6 DEF Standing, RefreshInvariant, RefreshInHand, PromiseByStage
  <2> QED
    BY <1>4, <2>1, <2>2, SessionsAreNumbers DEF Standing, TypeInvariant
<1>8. \A p \in promised : p.session = tail.session => Covers(tail, p)
  BY <1>1, <1>4 DEF Standing, RefreshInvariant, RefreshInHand
<1>9. \A p \in promised : p \in PayloadOf(subject)
      /\ (p.session < last.session => IsCovered(subject, p))
  <2>1. \A p \in promised : p \in PayloadOf(subject)
    BY <1>1, SubjectOfRefresh
  <2>2. last \in description /\ last.id = subject
    BY <1>3 DEF selectSessionDescriptions
  <2> QED
    BY <2>1, <2>2 DEF Standing, RefreshInvariant, DescribedIsCovered
<1>10. stored' = stored /\ PayloadOf(subject)' = PayloadOf(subject)
  BY <1>1 DEF selectSessionDescriptions, PayloadOf, databaseVars
<1>11. \A p : IsCovered(subject, p)' <=> IsCovered(subject, p)
  BY <1>1 DEF IsCovered, selectSessionDescriptions, databaseVars
<1>12. CASE refreshing' = "update"
  <2>1. tail.session = last.session /\ UNCHANGED <<todo, scanned>>
    BY <1>1, <1>12
  <2>2. \A s : InHand(s)' <=> InHand(s)
    BY <2>1 DEF InHand
  <2>3. RefreshInHand'
    BY <1>1, <1>10, <2>1, <2>2 DEF Standing, RefreshInvariant, RefreshInHand, databaseVars,
         historyVars
  <2>4. \A p \in promised : InHand(p.session) \/ p.session < last.session
    BY <1>4, <1>5, <2>1
  <2>5. \A s \in Sessions : InHand(s) => \A d \in stored : d.session <= s
    <3>1. \A s \in Sessions : InHand(s) => s = tail.session
      BY <1>1, <1>7 DEF InHand
    <3> QED
      BY <1>3, <2>1, <3>1
  <2> HIDE DEF last, stored, tail
  <2>6. PromiseByStage'
    BY <1>1, <1>3, <1>10, <1>12, <2>2, <2>4, <2>5 DEF PromiseByStage, stored
  <2> QED
    BY <1>2, <2>3, <2>6 DEF RefreshInvariant
<1>13. CASE refreshing' = "range"
  <2>1. /\ last.session < tail.session /\ scanned' = <<>> /\ Len(scanned') = 0
        /\ todo' = SessionRange(tables[subject], last.session, tail.session)
    BY <1>1, <1>13
  <2>2. \A s : InHand(s)' <=> s \in todo'
    BY <2>1 DEF InHand
  <2>3. \A s \in todo' : last.session <= s /\ s <= tail.session
    BY <1>4, <2>1 DEF SessionRange
  <2>4. \A s \in todo' : \E p \in promised : p.session = s
    <3> TAKE s \in todo'
    <3>1. PICK r \in PayloadOf(subject) : r.session = s
      BY <1>1, <2>1, SubjectOfRefresh DEF SessionRange, DistinctSessions, PayloadOf
    <3>2. r \in promised \/ q.session <= r.session
      BY <1>1, <1>6 DEF Standing, RefreshInvariant, RefreshInHand
    <3>3. r.session \in Int
      <4>1. r \in Record
        BY <1>1, SubjectOfRefresh
      <4> QED
        BY <4>1, SessionsAreNumbers DEF Record, Standing, TypeInvariant
    <3> QED
      BY <1>4, <1>6, <2>3, <3>1, <3>2, <3>3
  <2>5. \A p \in promised : p.session \in todo' \/ p.session < last.session
    <3>1. \A p \in promised : p.session \in DistinctSessions(tables[subject])
      BY <1>1, SubjectOfRefresh DEF DistinctSessions, PayloadOf
    <3> QED
      BY <1>4, <1>5, <2>1, <3>1 DEF SessionRange
  <2> HIDE DEF last, stored, tail
  <2>6. RefreshInHand'
    BY <1>1, <1>4, <1>10, <2>1, <2>2, <2>4 DEF Standing, RefreshInvariant, RefreshInHand,
                                               databaseVars, historyVars
  <2>7. \A s \in todo' : \A d \in stored : d.session <= s
    <3>1. \A s \in todo' : s \in Int
      BY <1>4, <2>4
    <3>2. \A d \in stored : d.session \in Int
      BY SessionsAreNumbers DEF stored, selectSessionDescriptions, Standing, TypeInvariant
    <3> QED
      BY <1>3, <1>4, <2>3, <3>1, <3>2
  <2>8. PromiseByStage'
    BY <1>1, <1>3, <1>10, <1>13, <2>2, <2>5, <2>7 DEF PromiseByStage, stored
  <2> QED
    BY <1>2, <2>6, <2>8 DEF RefreshInvariant
<1>14. CASE refreshing' = "insert"
  <2>1. /\ scanned' = <<>> /\ Len(scanned') = 0 /\ todo' = {}
        /\ \/ tail.session < last.session
           \/ tail.session = last.session /\ tail.min = last.min /\ tail.max = last.max
    BY <1>1, <1>14
  <2>2. \A s : ~ InHand(s)'
    BY <2>1 DEF InHand
  <2>3. \A p \in promised : IsCovered(subject, p)
    <3> TAKE p \in promised
    <3>1. CASE p.session < last.session
      BY <1>9, <3>1
    <3>2. CASE ~ (p.session < last.session)
      <4>1. p.session = tail.session /\ tail.session = last.session /\ Covers(tail, p)
        BY <1>4, <1>5, <1>8, <2>1, <3>2
      <4>2. Covers(last, p)
        BY <1>4, <2>1, <4>1 DEF Covers
      <4> QED
        BY <1>3, <4>2 DEF IsCovered
    <3> QED
      BY <3>1, <3>2
  <2> HIDE DEF last, stored, tail
  <2>4. RefreshInHand'
    BY <1>1, <1>4, <1>10, <2>1, <2>2 DEF Standing, RefreshInvariant, RefreshInHand, databaseVars,
         historyVars
  <2>5. PromiseByStage'
    BY <1>1, <1>11, <1>14, <2>2, <2>3 DEF PromiseByStage
  <2> QED
    BY <1>2, <2>4, <2>5 DEF RefreshInvariant
<1> QED
  BY <1>1, <1>12, <1>13, <1>14

\* What is left when the first of the scanned infos has been dealt with.
LEMMA RestOfScanned ==
  ASSUME Standing, refreshing \in {"update", "insert"}, scanned # <<>>,
         scanned' = Tail(scanned), UNCHANGED todo
  PROVE  LET info == Head(scanned) IN
           /\ info \in SessionInfo /\ info.session \in Sessions /\ info.session \in Int
           /\ info = scanned[1] /\ 1 \in 1 .. Len(scanned)
           /\ InHand(info.session)
           /\ \A s : InHand(s) <=> s = info.session \/ InHand(s)'
           /\ \A s : InHand(s)' => s \in Int /\ info.session < s
           /\ \A p \in promised : p.session = info.session => Covers(info, p)
           /\ Len(scanned') \in Nat
           /\ \A i, j \in 1 .. Len(scanned') : i < j => scanned'[i].session < scanned'[j].session
           /\ \A i \in 1 .. Len(scanned') : \A p \in promised :
                p.session = scanned'[i].session => Covers(scanned'[i], p)
<1> DEFINE info == Head(scanned)
           n == Len(scanned)
<1>1. /\ n \in Nat /\ n >= 1 /\ info = scanned[1]
      /\ Len(scanned') = n - 1 /\ \A i \in 1 .. n - 1 : scanned'[i] = scanned[i + 1]
  BY DEF Standing, TypeInvariant, TypeOK
<1>2. /\ \A i \in 1 .. n : scanned[i] \in SessionInfo
      /\ \A i \in 1 .. n : scanned[i].session \in Sessions /\ scanned[i].session \in Int
  BY SessionsAreNumbers DEF Standing, TypeInvariant
<1>3. todo = {} /\ todo' = {}
  BY DEF Standing, TypeInvariant, RefreshShape
<1>4. /\ \A i, j \in 1 .. n : i < j => scanned[i].session < scanned[j].session
      /\ \A i \in 1 .. n : \A p \in promised : p.session = scanned[i].session
            => Covers(scanned[i], p)
  BY DEF Standing, RefreshInvariant, RefreshInHand
<1>5. \A s : InHand(s) <=> \E i \in 1 .. n : scanned[i].session = s
  BY <1>3 DEF InHand
<1>6. \A s : InHand(s)' <=> \E i \in 1 .. n - 1 : scanned[i + 1].session = s
  BY <1>1, <1>3 DEF InHand
<1> HIDE DEF n, info
<1>7. \A i \in 1 .. n : i = 1 \/ (i - 1 \in 1 .. n - 1 /\ (i - 1) + 1 = i)
  BY <1>1
<1>8. \A i \in 1 .. n - 1 : i + 1 \in 1 .. n /\ 1 < i + 1 /\ 1 \in 1 .. n
  BY <1>1
<1>9. \A s : InHand(s) <=> s = info.session \/ InHand(s)'
  <2>1. ASSUME NEW s, InHand(s) PROVE s = info.session \/ InHand(s)'
    BY <1>1, <1>5, <1>6, <1>7, <2>1
  <2>2. ASSUME NEW s, InHand(s)' PROVE InHand(s)
    BY <1>5, <1>6, <1>8, <2>2
  <2>3. InHand(info.session)
    BY <1>1, <1>5
  <2> QED
    BY <2>1, <2>2, <2>3
<1>10. \A s : InHand(s)' => s \in Int /\ info.session < s
  BY <1>1, <1>2, <1>4, <1>6, <1>8
<1>11. \A i, j \in 1 .. n - 1 : i < j => scanned'[i].session < scanned'[j].session
  BY <1>1, <1>4, <1>8
<1>12. \A i \in 1 .. n - 1 : \A p \in promised :
         p.session = scanned'[i].session => Covers(scanned'[i], p)
  BY <1>1, <1>4, <1>8
<1>13. info \in SessionInfo /\ info.session \in Sessions /\ info.session \in Int /\ 1 \in 1 .. n
  BY <1>1, <1>2
<1> QED
  BY <1>1, <1>4, <1>9, <1>10, <1>11, <1>12, <1>13 DEF info, n

\* A refresh that is given up leaves what is stored as it was.
LEMMA GivingUpKeepsRefresh ==
  ASSUME Standing, GiveUp,
         UNCHANGED <<metadata, payload, recording, described, clearing, left, context>>
  PROVE  RefreshInvariant'
<1>1. SessionsInOrder' /\ DescribedIsCovered'
  BY StoredIsKept DEF GiveUp, Standing, RefreshInvariant, SessionsInOrder, getPersistenceSetMetadata
<1>2. refreshing' = "no"
  BY DEF GiveUp
<1> QED
  BY <1>1, <1>2 DEF RefreshInvariant, RefreshInHand, PromiseByStage

\* The info that is updated belongs to the last description, which it replaces.
LEMMA UpdateKeepsRefresh == Standing /\ updateSessionDescription => RefreshInvariant'
<1> SUFFICES ASSUME Standing, updateSessionDescription PROVE RefreshInvariant'
  OBVIOUS
<1> DEFINE info == Head(scanned)
           new == Describe(subject, info)
           stored == selectSessionDescriptions(subject)
<1>1. /\ refreshing = "update" /\ scanned # <<>>
      /\ UNCHANGED <<metadata, payload, service, tables, recording, subject, todo, least, clearVars,
                     historyVars>>
  BY DEF updateSessionDescription, Standing, TypeInvariant, RefreshShape
<1>2. CASE GiveUp
  BY <1>1, <1>2, GivingUpKeepsRefresh DEF clearVars, historyVars
<1>3. ASSUME NEW d \in description, d.session = info.session,
             description' = (description \ {d}) \union {new},
             refreshing' = "insert", scanned' = Tail(scanned), UNCHANGED promised
      PROVE  RefreshInvariant'
  <2>1. /\ info \in SessionInfo /\ info.session \in Sessions /\ info.session \in Int
        /\ InHand(info.session)
        /\ \A s : InHand(s) <=> s = info.session \/ InHand(s)'
        /\ \A s : InHand(s)' => s \in Int /\ info.session < s
        /\ \A p \in promised : p.session = info.session => Covers(info, p)
        /\ \A i, j \in 1 .. Len(scanned') : i < j => scanned'[i].session < scanned'[j].session
        /\ \A i \in 1 .. Len(scanned') : \A p \in promised :
             p.session = scanned'[i].session => Covers(scanned'[i], p)
    BY <1>1, <1>3, RestOfScanned
  <2>2. new.id = subject /\ new.session = info.session
    BY DEF Describe
  <2>3. \A r : Covers(new, r) <=> Covers(info, r)
    BY DEF Covers, Describe
  <2> HIDE DEF info, new
  <2>4. /\ \A e \in description : e.id = subject /\ e.id \in DOMAIN metadata
        /\ \A e \in description : e.session \in Int /\ e.session <= info.session
    <3>1. \A e \in description : e.id = subject
      BY <1>1, SubjectOfRefresh DEF Standing, OneDescribed, RefreshInvariant, SessionsInOrder
    <3>2. \A e \in description : e.session <= info.session
      BY <1>1, <2>1, <3>1 DEF Standing, RefreshInvariant, PromiseByStage, selectSessionDescriptions
    <3> QED
      BY <1>1, <3>1, <3>2, SubjectOfRefresh, SessionsAreNumbers DEF Standing, TypeInvariant
  <2>5. \A e \in description : e.session = info.session => e = d
    BY <1>3 DEF Standing, RefreshInvariant, DescribedIsCovered
  <2>6. /\ \A e \in description' : e = new \/ (e \in description /\ e # d)
        /\ new \in description' /\ \A e \in description : e # d => e \in description'
    BY <1>3
  <2>7. ASSUME NEW r, IsCovered(subject, r), r.session = info.session => r \in promised
        PROVE  IsCovered(subject, r)'
    <3>1. PICK e \in description : e.id = subject /\ Covers(e, r)
      BY <2>7 DEF IsCovered, selectSessionDescriptions
    <3>2. CASE e = d
      <4>1. Covers(new, r)
        BY <1>3, <2>1, <2>3, <2>7, <3>1, <3>2 DEF Covers
      <4> QED
        BY <1>1, <2>2, <2>6, <4>1 DEF IsCovered, selectSessionDescriptions, Covers
    <3>3. CASE e # d
      BY <1>1, <2>6, <3>1, <3>3 DEF IsCovered, selectSessionDescriptions, Covers
    <3> QED
      BY <3>2, <3>3
  <2>8. \A r \in PayloadOf(subject) : r.session < info.session => IsCovered(subject, r)'
    <3>1. \A r \in PayloadOf(subject) : r.session < d.session => IsCovered(subject, r)
      BY <2>4 DEF Standing, RefreshInvariant, DescribedIsCovered
    <3>2. \A r \in PayloadOf(subject) : r.session \in Int
      <4>1. PayloadOf(subject) \subseteq Record
        BY <1>1, SubjectOfRefresh
      <4> QED
        BY <4>1, SessionsAreNumbers DEF Record, Standing, TypeInvariant
    <3> QED
      BY <1>3, <2>1, <2>7, <3>1, <3>2
  <2>9. SessionsInOrder'
    <3>1. info.session <= recording[subject]
      BY <1>3, <2>4 DEF Standing, RefreshInvariant, SessionsInOrder
    <3>2. \A e \in description' : e.id \in Described /\ e.session <= recording[e.id]
      BY <1>1, <2>2, <2>6, <3>1, SubjectOfRefresh DEF Standing, RefreshInvariant, SessionsInOrder
    <3> QED
      BY <1>1, <3>2 DEF Standing, RefreshInvariant, SessionsInOrder, PayloadOf,
           getPersistenceSetMetadata, clearVars, historyVars
  <2>10. DescribedIsCovered'
    <3>1. \A e, f \in description' : e.session = f.session => e = f
      BY <2>2, <2>5, <2>6 DEF Standing, RefreshInvariant, DescribedIsCovered
    <3>2. ASSUME NEW i \in Ids, NEW r \in described[i] PROVE IsCovered(i, r)'
      <4>1. i = subject
        BY <1>1, SubjectOfRefresh DEF Standing, OneDescribed, RefreshInvariant, DescribedIsCovered
      <4>2. r \in promised /\ IsCovered(subject, r)
        BY <1>1, <4>1 DEF Standing, RefreshInvariant, RefreshInHand, DescribedIsCovered
      <4>3. IsCovered(subject, r)'
        BY <2>7, <4>2
      <4> QED
        BY <1>1, <4>1, <4>3
    <3>3. ASSUME NEW e \in description', NEW r \in PayloadOf(e.id)', r.session < e.session
          PROVE  IsCovered(e.id, r)'
      <4>1. e.id = subject /\ e.session \in Int /\ e.session <= info.session
        BY <2>1, <2>2, <2>4, <2>6
      <4>2. r \in PayloadOf(subject) /\ r.session \in Int
        <5>1. r \in PayloadOf(subject)
          BY <1>1, <3>3, <4>1 DEF PayloadOf
        <5>2. PayloadOf(subject) \subseteq Record
          BY <1>1, SubjectOfRefresh
        <5> QED
          BY <5>1, <5>2, SessionsAreNumbers DEF Record, Standing, TypeInvariant
      <4>3. r.session < info.session
        BY <2>1, <3>3, <4>1, <4>2
      <4>4. IsCovered(subject, r)'
        BY <2>8, <4>2, <4>3
      <4> QED
        BY <1>1, <4>1, <4>4
    <3>4. \A i \in Ids : described'[i] # {} =>
            i \in Described \intersect DOMAIN metadata' /\ described'[i] \subseteq PayloadOf(i)'
      BY <1>1 DEF Standing, RefreshInvariant, DescribedIsCovered, PayloadOf, historyVars
    <3> QED
      BY <1>1, <3>1, <3>2, <3>3, <3>4 DEF DescribedIsCovered, historyVars
  <2>11. RefreshInHand'
    <3>1. todo = {} /\ least = -1
      BY <1>1 DEF Standing, TypeInvariant, RefreshShape
    <3>2. \A s \in Sessions : InHand(s)' => \E p \in promised : p.session = s
      BY <1>1, <2>1 DEF Standing, RefreshInvariant, RefreshInHand
    <3> QED
      BY <1>1, <1>3, <2>1, <3>1, <3>2 DEF Standing, RefreshInvariant, RefreshInHand, PayloadOf,
           historyVars
  <2>12. PromiseByStage'
    <3>1. \A s \in Sessions : InHand(s)' => \A e \in description' : e.session < s
      BY <2>1, <2>2, <2>4, <2>6
    <3>2. ASSUME NEW p \in promised PROVE InHand(p.session)' \/ IsCovered(subject, p)'
      <4>1. p \in PayloadOf(subject) /\ p.session \in Int
        BY <1>1, SubjectOfRefresh, SessionsAreNumbers DEF Standing, TypeInvariant
      <4>2. CASE p.session = info.session
        <5>1. Covers(new, p)
          BY <2>1, <2>3, <4>2
        <5> QED
          BY <1>1, <2>2, <2>6, <5>1 DEF IsCovered, selectSessionDescriptions, Covers
      <4>3. CASE p.session # info.session /\ InHand(p.session)
        BY <2>1, <4>3
      <4>4. CASE ~ InHand(p.session)
        <5>1. p.session < info.session
          BY <1>1, <2>1, <2>4, <4>1, <4>4
          DEF Standing, RefreshInvariant, PromiseByStage, selectSessionDescriptions
        <5> QED
          BY <2>8, <4>1, <5>1
      <4> QED
        BY <4>2, <4>3, <4>4
    <3> QED
      BY <1>1, <1>3, <3>1, <3>2 DEF PromiseByStage, selectSessionDescriptions
  <2> QED
    BY <2>9, <2>10, <2>11, <2>12 DEF RefreshInvariant
<1> QED
  BY <1>2, <1>3 DEF updateSessionDescription

\* The info that is inserted is of a session after all that are described: those in
\* between have been inserted before it.
LEMMA InsertKeepsRefresh == Standing /\ insertSessionDescription => RefreshInvariant'
<1> SUFFICES ASSUME Standing, insertSessionDescription PROVE RefreshInvariant'
  OBVIOUS
<1> DEFINE info == Head(scanned)
           new == Describe(subject, info)
<1>1. /\ refreshing = "insert" /\ scanned # <<>>
      /\ UNCHANGED <<metadata, payload, service, tables, recording, subject, todo, least, clearVars,
                     historyVars>>
  BY DEF insertSessionDescription
<1>2. CASE GiveUp
  BY <1>1, <1>2, GivingUpKeepsRefresh DEF clearVars, historyVars
<1>3. ASSUME \A d \in description : d.session # info.session,
             description' = description \union {new},
             scanned' = Tail(scanned), UNCHANGED <<refreshing, promised>>
      PROVE  RefreshInvariant'
  <2>1. /\ info.session \in Sessions /\ info.session \in Int
        /\ InHand(info.session)
        /\ \A s : InHand(s) <=> s = info.session \/ InHand(s)'
        /\ \A s : InHand(s)' => s \in Int /\ info.session < s
        /\ \A p \in promised : p.session = info.session => Covers(info, p)
        /\ \A i, j \in 1 .. Len(scanned') : i < j => scanned'[i].session < scanned'[j].session
        /\ \A i \in 1 .. Len(scanned') : \A p \in promised :
             p.session = scanned'[i].session => Covers(scanned'[i], p)
    BY <1>1, <1>3, RestOfScanned
  <2>2. new.id = subject /\ new.session = info.session
    BY DEF Describe
  <2>3. \A r : Covers(new, r) <=> Covers(info, r)
    BY DEF Covers, Describe
  <2> HIDE DEF info, new
  <2>4. \A e \in description : e.id = subject /\ e.session \in Int /\ e.session < info.session
    <3>1. \A e \in description : e.id = subject
      BY <1>1, SubjectOfRefresh DEF Standing, OneDescribed, RefreshInvariant, SessionsInOrder
    <3>2. \A e \in description : e.session < info.session
      BY <1>1, <2>1, <3>1 DEF Standing, RefreshInvariant, PromiseByStage, selectSessionDescriptions
    <3> QED
      BY <3>1, <3>2, SessionsAreNumbers DEF Standing, TypeInvariant
  <2>5. \A r : IsCovered(subject, r) => IsCovered(subject, r)'
    BY <1>1, <1>3 DEF IsCovered, selectSessionDescriptions, Covers
  <2>6. /\ PayloadOf(subject)' = PayloadOf(subject)
        /\ \A r \in PayloadOf(subject) : r.session \in Int
    <3>1. PayloadOf(subject) \subseteq Record
      BY <1>1, SubjectOfRefresh
    <3> QED
      BY <1>1, <3>1, SessionsAreNumbers DEF PayloadOf, Record, Standing, TypeInvariant
  <2>7. PICK q \in promised : q.session = info.session
    BY <1>1, <2>1 DEF Standing, RefreshInvariant, RefreshInHand
  <2>8. \A r \in PayloadOf(subject) : r.session < info.session => IsCovered(subject, r)
    <3> SUFFICES ASSUME NEW r \in PayloadOf(subject), r.session < info.session
                 PROVE  IsCovered(subject, r)
      OBVIOUS
    <3>1. r \in promised
      <4>1. r \notin promised => q.session <= r.session
        BY <1>1 DEF Standing, RefreshInvariant, RefreshInHand
      <4> QED
        BY <2>1, <2>6, <2>7, <4>1
    <3>2. ~ InHand(r.session)
      BY <2>1, <2>6
    <3> QED
      BY <1>1, <3>1, <3>2 DEF Standing, RefreshInvariant, PromiseByStage
  <2>9. SessionsInOrder'
    <3>1. q \in PayloadOf(subject) /\ subject \in DOMAIN metadata /\ subject \in Described
      BY <1>1, SubjectOfRefresh
    <3>2. info.session <= recording[subject]
      BY <2>7, <3>1 DEF Standing, RefreshInvariant, SessionsInOrder
    <3>3. \A e \in description' : e.id \in Described /\ e.session <= recording[e.id]
      BY <1>3, <2>2, <3>1, <3>2 DEF Standing, RefreshInvariant, SessionsInOrder
    <3> QED
      BY <1>1, <3>3 DEF Standing, RefreshInvariant, SessionsInOrder, PayloadOf,
           getPersistenceSetMetadata, clearVars, historyVars
  <2>10. DescribedIsCovered'
    <3>1. \A e, f \in description' : e.session = f.session => e = f
      BY <1>3, <2>2 DEF Standing, RefreshInvariant, DescribedIsCovered
    <3>2. ASSUME NEW i \in Ids, NEW r \in described[i] PROVE IsCovered(i, r)'
      <4>1. i = subject
        BY <1>1, SubjectOfRefresh DEF Standing, OneDescribed, RefreshInvariant, DescribedIsCovered
      <4>2. IsCovered(subject, r)
        BY <4>1 DEF Standing, RefreshInvariant, DescribedIsCovered
      <4>3. IsCovered(subject, r)'
        BY <2>5, <4>2
      <4> QED
        BY <1>1, <4>1, <4>3
    <3>3. ASSUME NEW e \in description', NEW r \in PayloadOf(e.id)', r.session < e.session
          PROVE  IsCovered(e.id, r)'
      <4>1. e.id = subject /\ e.session \in Int /\ e.session <= info.session
        BY <1>3, <2>1, <2>2, <2>4
      <4>2. r \in PayloadOf(subject)
        BY <1>1, <2>6, <3>3, <4>1 DEF PayloadOf
      <4>3. IsCovered(subject, r)'
        BY <2>1, <2>5, <2>6, <2>8, <3>3, <4>1, <4>2
      <4> QED
        BY <1>1, <4>1, <4>3
    <3>4. \A i \in Ids : described'[i] # {} =>
            i \in Described \intersect DOMAIN metadata' /\ described'[i] \subseteq PayloadOf(i)'
      BY <1>1 DEF Standing, RefreshInvariant, DescribedIsCovered, PayloadOf, historyVars
    <3> QED
      BY <1>1, <3>1, <3>2, <3>3, <3>4 DEF DescribedIsCovered, historyVars
  <2>11. RefreshInHand'
    <3>1. todo = {} /\ least = -1
      BY <1>1 DEF Standing, TypeInvariant, RefreshShape
    <3>2. \A s \in Sessions : InHand(s)' => \E p \in promised : p.session = s
      BY <1>1, <2>1 DEF Standing, RefreshInvariant, RefreshInHand
    <3> QED
      BY <1>1, <1>3, <2>1, <3>1, <3>2 DEF Standing, RefreshInvariant, RefreshInHand, PayloadOf,
           historyVars
  <2>12. PromiseByStage'
    <3>1. \A s \in Sessions : InHand(s)' => \A e \in description' : e.session < s
      BY <1>3, <2>1, <2>2, <2>4
    <3>2. ASSUME NEW p \in promised PROVE InHand(p.session)' \/ IsCovered(subject, p)'
      <4>1. CASE p.session = info.session
        <5>1. Covers(new, p)
          BY <2>1, <2>3, <4>1
        <5> QED
          BY <1>1, <1>3, <2>2, <5>1 DEF IsCovered, selectSessionDescriptions, Covers
      <4>2. CASE p.session # info.session /\ InHand(p.session)
        BY <2>1, <4>2
      <4>3. CASE ~ InHand(p.session)
        BY <1>1, <2>5, <4>3 DEF Standing, RefreshInvariant, PromiseByStage
      <4> QED
        BY <4>1, <4>2, <4>3
    <3> QED
      BY <1>1, <1>3, <3>1, <3>2 DEF PromiseByStage, selectSessionDescriptions
  <2> QED
    BY <2>9, <2>10, <2>11, <2>12 DEF RefreshInvariant
<1> QED
  BY <1>2, <1>3 DEF insertSessionDescription, isSessionExistInDescription

\* What is scanned, of nothing described, is inserted; otherwise its first is updated.
LEMMA RangeKeepsRefresh == Standing /\ RangeScanned => RefreshInvariant'
<1> SUFFICES ASSUME Standing, RangeScanned PROVE RefreshInvariant'
  OBVIOUS
<1>1. /\ refreshing \in {"create", "range"} /\ todo = {}
      /\ refreshing' = IF refreshing = "create" THEN "insert" ELSE "update"
      /\ UNCHANGED <<databaseVars, service, tables, recording, subject, todo, least, scanned,
                     promised, clearVars, historyVars>>
  BY DEF RangeScanned, Scanning
<1>2. SessionsInOrder' /\ DescribedIsCovered'
  BY <1>1, StoredIsKept DEF Standing, RefreshInvariant, SessionsInOrder,
       getPersistenceSetMetadata, databaseVars, clearVars, historyVars
<1>3. \A s : InHand(s)' <=> InHand(s)
  BY <1>1 DEF InHand
<1>4. RefreshInHand'
  BY <1>1, <1>3 DEF Standing, RefreshInvariant, RefreshInHand, PayloadOf, databaseVars,
       historyVars
<1>5. PromiseByStage'
  BY <1>1, <1>3 DEF Standing, RefreshInvariant, PromiseByStage, IsCovered,
       selectSessionDescriptions, databaseVars
<1> QED
  BY <1>2, <1>4, <1>5 DEF RefreshInvariant

\* A refresh that has nothing left in hand has kept its promise.
LEMMA DoneKeepsRefresh == Standing /\ RefreshDone => RefreshInvariant'
<1> SUFFICES ASSUME Standing, RefreshDone PROVE RefreshInvariant'
  OBVIOUS
<1>1. /\ refreshing = "insert" /\ scanned = <<>> /\ refreshing' = "no"
      /\ described' = [described EXCEPT ![subject] = promised]
      /\ UNCHANGED <<databaseVars, service, tables, recording, subject, todo, least, scanned,
                     clearVars>>
  BY DEF RefreshDone
<1>2. todo = {} /\ Len(scanned) = 0
  BY <1>1 DEF Standing, TypeInvariant, RefreshShape
<1>3. \A p \in promised : IsCovered(subject, p)
  <2>1. \A s : ~ InHand(s)
    BY <1>2 DEF InHand
  <2> QED
    BY <1>1, <2>1 DEF Standing, RefreshInvariant, PromiseByStage
<1>4. \A i \in Ids : described'[i] = IF i = subject THEN promised ELSE described[i]
  BY <1>1 DEF Standing, TypeInvariant, TypeOK
<1>5. SessionsInOrder'
  BY <1>1 DEF Standing, RefreshInvariant, SessionsInOrder, PayloadOf,
       getPersistenceSetMetadata, databaseVars, clearVars, historyVars
<1>6. DescribedIsCovered'
  <2>1. \A i, r : IsCovered(i, r)' <=> IsCovered(i, r)
    BY <1>1 DEF IsCovered, selectSessionDescriptions, databaseVars
  <2>2. \A i : PayloadOf(i)' = PayloadOf(i)
    BY <1>1 DEF PayloadOf, databaseVars
  <2>3. subject \in Described \intersect DOMAIN metadata /\ promised \subseteq PayloadOf(subject)
    BY <1>1, SubjectOfRefresh
  <2> QED
    BY <1>1, <1>3, <1>4, <2>1, <2>2, <2>3
    DEF Standing, RefreshInvariant, DescribedIsCovered, databaseVars
<1> QED
  BY <1>1, <1>5, <1>6 DEF RefreshInvariant, RefreshInHand, PromiseByStage

-----------------------------------------------------------------------------
(* The steps of the application.                                           *)

\* The first set comes when there is nothing: without metadata, nothing is stored.
LEMMA CreateKeepsRefresh ==
  ASSUME Standing, NEW m \in Source, CreateSet(m), strayed' = {}
  PROVE  RefreshInvariant'
<1>1. CASE createNewPersistenceId = INVALID_PERSISTENCE_ID
  BY <1>1, StopKeepsRefresh DEF CreateSet, databaseVars, Standing
<1>2. CASE createNewPersistenceId # INVALID_PERSISTENCE_ID
  <2>1. DOMAIN metadata = {} /\ createNewPersistenceId = 1
    BY <1>2 DEF createNewPersistenceId
  <2>2. description = {} /\ \A t \in Tables : payload[t] = {}
    BY <2>1 DEF Standing, ReachInvariant, WhatIsStoredIsReachable
  <2>3. \A i \in Ids : described[i] = {}
    BY <2>1 DEF Standing, RefreshInvariant, DescribedIsCovered
  <2>4. /\ metadata' = [i \in {1} |-> m]
        /\ refreshing = "no" /\ clearing = "no"
        /\ UNCHANGED <<payload, description, recording, refreshing, clearing, described>>
    BY <1>2, <2>1 DEF CreateSet, Place, Idle, refreshVars, clearVars
  <2>5. \A i \in DOMAIN metadata' : PayloadOf(i)' = {}
    BY <2>2, <2>4 DEF PayloadOf, Tables
  <2>6. SessionsInOrder'
    BY <2>2, <2>4, <2>5 DEF SessionsInOrder
  <2>7. DescribedIsCovered'
    BY <2>2, <2>3, <2>4 DEF DescribedIsCovered
  <2> QED
    BY <2>4, <2>6, <2>7 DEF RefreshInvariant, RefreshInHand, PromiseByStage
<1> QED
  BY <1>1, <1>2

\* A set that is new to the metadata has nothing in its table.
LEMMA UpdateSetKeepsRefresh ==
  ASSUME Standing, NEW id \in Ids, NEW m \in Source, UpdateSet(id, m), strayed' = {}
  PROVE  RefreshInvariant'
<1>1. /\ refreshing = "no" /\ clearing = "no"
      /\ <<id, m>> \in Homes /\ (id \in DOMAIN metadata => metadata[id] = m)
      /\ metadata' = [i \in DOMAIN metadata \union {id} |-> IF i = id THEN m ELSE metadata[i]]
      /\ UNCHANGED <<payload, description, recording, refreshing, clearing, described>>
  BY DEF UpdateSet, Place, KeepsItsPlace, Idle, refreshVars, clearVars
<1>2. /\ DOMAIN metadata' = DOMAIN metadata \union {id}
      /\ \A i \in DOMAIN metadata : PayloadOf(i)' = PayloadOf(i)
  BY <1>1 DEF PayloadOf
<1>3. id \notin DOMAIN metadata => PayloadOf(id)' = {}
  BY <1>1, PayloadHasItsSet DEF PayloadOf
<1>4. \A d \in description : d.id \in DOMAIN metadata
  BY DEF Standing, ReachInvariant, WhatIsStoredIsReachable
<1>5. \A i, r : IsCovered(i, r)' <=> IsCovered(i, r)
  BY <1>1 DEF IsCovered, selectSessionDescriptions
<1>6. SessionsInOrder'
  BY <1>1, <1>2, <1>3 DEF Standing, RefreshInvariant, SessionsInOrder
<1>7. DescribedIsCovered'
  BY <1>1, <1>2, <1>4, <1>5 DEF Standing, RefreshInvariant, DescribedIsCovered
<1> QED
  BY <1>1, <1>6, <1>7 DEF RefreshInvariant, RefreshInHand, PromiseByStage

\* With the payload of a set goes what its refreshes have looked at, and no other
\* set's.
LEMMA DeleteDataKeepsRefresh ==
  ASSUME Standing, NEW id \in Ids, deleteDataRange(id)
  PROVE  RefreshInvariant'
<1>1. CASE id \notin DOMAIN tables
  BY <1>1, StopKeepsRefresh DEF deleteDataRange, databaseVars, Standing
<1>2. CASE id \in DOMAIN tables
  <2>1. /\ clearing = "data" /\ id \in left
        /\ payload' = [payload EXCEPT ![tables[id]] = {}]
        /\ described' = [described EXCEPT ![id] = {}]
        /\ UNCHANGED <<metadata, description, recording, refreshing, clearing>>
    BY <1>2 DEF deleteDataRange, refreshVars
  <2>2. /\ refreshing = "no" /\ id \in DOMAIN metadata
        /\ tables[id] = PayloadTable(metadata[id]) /\ tables[id] \in Tables
    BY <1>2, <2>1 DEF Standing, PlaceInvariant, OneAtATime, getPersistenceSetMetadata,
         InPlace, TypeInvariant, TypeOK
  <2>3. PayloadOf(id)' = {}
    BY <2>1, <2>2 DEF PayloadOf, Standing, TypeInvariant, TypeOK
  <2>4. ASSUME NEW i \in DOMAIN metadata, i # id PROVE PayloadOf(i)' = PayloadOf(i)
    <3>1. PayloadTable(metadata[i]) # tables[id]
      BY <1>2, <2>4, ReferenceIsOwn
    <3>2. PayloadTable(metadata[i]) \in Tables
      BY DEF Standing, TypeInvariant, TypeOK, Tables
    <3> QED
      BY <2>1, <3>1, <3>2 DEF PayloadOf, Standing, TypeInvariant, TypeOK
  <2>5. \A i \in Ids : described'[i] = IF i = id THEN {} ELSE described[i]
    BY <2>1 DEF Standing, TypeInvariant, TypeOK
  <2>6. \A i, r : IsCovered(i, r)' <=> IsCovered(i, r)
    BY <2>1 DEF IsCovered, selectSessionDescriptions
  <2>7. \A d \in description : d.id \in DOMAIN metadata
    BY DEF Standing, ReachInvariant, WhatIsStoredIsReachable
  <2>8. SessionsInOrder'
    BY <2>1, <2>3, <2>4 DEF Standing, RefreshInvariant, SessionsInOrder
  <2>9. DescribedIsCovered'
    <3>1. \A i \in DOMAIN metadata : PayloadOf(i)' = {} \/ PayloadOf(i)' = PayloadOf(i)
      BY <2>3, <2>4
    <3> QED
      BY <2>1, <2>4, <2>5, <2>6, <2>7, <3>1 DEF Standing, RefreshInvariant, DescribedIsCovered
  <2> QED
    BY <2>1, <2>2, <2>8, <2>9 DEF RefreshInvariant, RefreshInHand, PromiseByStage
<1> QED
  BY <1>1, <1>2

\* By the time its descriptions are deleted, a set has no payload that they cover.
LEMMA DeleteDescriptionKeepsRefresh ==
  ASSUME Standing, NEW id \in Ids, deleteSessionDescription(id)
  PROVE  RefreshInvariant'
<1>1. /\ clearing = "descriptions" /\ id \in left /\ left' = left \ {id}
      /\ description' = description \ selectSessionDescriptions(id)
      /\ UNCHANGED <<metadata, payload, recording, refreshing, clearing, context, described>>
  BY DEF deleteSessionDescription, refreshVars, historyVars
<1>2. /\ refreshing = "no"
      /\ left \subseteq getPersistenceSetMetadata(context)
  BY <1>1 DEF Standing, PlaceInvariant, OneAtATime, RefreshInvariant, SessionsInOrder
<1>3. PayloadOf(id) = {}
  BY <1>1, <1>2 DEF Standing, ReachInvariant, ClearedByStage, PayloadOf
<1>4. described[id] = {}
  BY <1>3 DEF Standing, RefreshInvariant, DescribedIsCovered
<1>5. \A d \in description' : d \in description /\ d.id # id
  BY <1>1 DEF selectSessionDescriptions
<1>6. \A i, r : i # id /\ IsCovered(i, r) => IsCovered(i, r)'
  BY <1>1 DEF IsCovered, selectSessionDescriptions, Covers
<1>7. SessionsInOrder'
  BY <1>1, <1>2, <1>5 DEF Standing, RefreshInvariant, SessionsInOrder, PayloadOf,
       getPersistenceSetMetadata
<1>8. DescribedIsCovered'
  BY <1>1, <1>4, <1>5, <1>6 DEF Standing, RefreshInvariant, DescribedIsCovered, PayloadOf
<1> QED
  BY <1>1, <1>2, <1>7, <1>8 DEF RefreshInvariant, RefreshInHand, PromiseByStage

\* The metadata that goes is of sets with nothing stored; the others' recorders go on.
LEMMA DeleteMetadataKeepsRefresh ==
  Standing /\ deletePersistenceSetMetadata => RefreshInvariant'
<1> SUFFICES ASSUME Standing, deletePersistenceSetMetadata PROVE RefreshInvariant'
  OBVIOUS
<1>1. /\ clearing = "metadata" /\ clearing' = "no"
      /\ DOMAIN metadata' = {i \in DOMAIN metadata : metadata[i].context # context}
      /\ \A i \in DOMAIN metadata' : metadata'[i] = metadata[i]
      /\ recording' = [id \in Ids |-> IF id \in DOMAIN metadata' THEN recording[id] ELSE 0]
      /\ UNCHANGED <<payload, description, refreshing, described>>
  BY DEF deletePersistenceSetMetadata, refreshVars, historyVars
<1>2. refreshing = "no" /\ DOMAIN metadata \subseteq Ids
  BY <1>1 DEF Standing, PlaceInvariant, OneAtATime, TypeInvariant, TypeOK
<1>3. \A i \in DOMAIN metadata : metadata[i].kind = "raw"
  BY SourcesAreRaw DEF Standing, PlaceInvariant, ByTheApplication
<1>4. \A i \in DOMAIN metadata \ DOMAIN metadata' : PayloadOf(i) = {}
  BY <1>1, <1>3
  DEF Standing, ReachInvariant, ClearedByStage, PayloadOf, getPersistenceSetMetadata
<1>5. \A d \in description : d.id \in DOMAIN metadata'
  BY <1>1, <1>3
  DEF Standing, ReachInvariant, ClearedByStage, WhatIsStoredIsReachable, getPersistenceSetMetadata
<1>6. \A i \in DOMAIN metadata' : PayloadOf(i)' = PayloadOf(i) /\ recording'[i] = recording[i]
  BY <1>1, <1>2 DEF PayloadOf
<1>7. \A i, r : IsCovered(i, r)' <=> IsCovered(i, r)
  BY <1>1 DEF IsCovered, selectSessionDescriptions
<1>8. \A i \in Ids : described[i] # {} => i \in DOMAIN metadata'
  BY <1>4 DEF Standing, RefreshInvariant, DescribedIsCovered
<1>9. SessionsInOrder'
  BY <1>1, <1>5, <1>6 DEF Standing, RefreshInvariant, SessionsInOrder
<1>10. DescribedIsCovered'
  <2>1. \A d, e \in description' : d.session = e.session => d = e
    BY <1>1 DEF Standing, RefreshInvariant, DescribedIsCovered
  <2>2. \A i \in Ids : described'[i] # {} =>
          i \in Described \intersect DOMAIN metadata' /\ described'[i] \subseteq PayloadOf(i)'
    BY <1>1, <1>6, <1>8 DEF Standing, RefreshInvariant, DescribedIsCovered
  <2>3. \A i \in Ids : \A r \in described'[i] : IsCovered(i, r)'
    BY <1>1, <1>7 DEF Standing, RefreshInvariant, DescribedIsCovered
  <2>4. ASSUME NEW d \in description', NEW r \in PayloadOf(d.id)', r.session < d.session
        PROVE  IsCovered(d.id, r)'
    <3>1. d \in description
      BY <1>1
    <3>2. r \in PayloadOf(d.id)
      BY <1>5, <1>6, <3>1
    <3>3. IsCovered(d.id, r)
      BY <2>4, <3>1, <3>2 DEF Standing, RefreshInvariant, DescribedIsCovered
    <3> QED
      BY <1>7, <3>3
  <2> QED
    BY <2>1, <2>2, <2>3, <2>4 DEF DescribedIsCovered
<1> QED
  BY <1>1, <1>2, <1>9, <1>10 DEF RefreshInvariant, RefreshInHand, PromiseByStage

\* At first nothing is described, and nothing was promised.
LEMMA InitRefresh == Init => RefreshInvariant
<1> SUFFICES ASSUME Init PROVE RefreshInvariant
  OBVIOUS
<1>1. /\ DOMAIN metadata = {} /\ description = {} /\ refreshing = "no" /\ clearing = "no"
      /\ \A id \in Ids : described[id] = {}
  BY DEF Init
<1> QED
  BY <1>1 DEF RefreshInvariant, SessionsInOrder, DescribedIsCovered, RefreshInHand, PromiseByStage

\* Every step keeps what the refreshes have promised.
LEMMA NextRefresh == Standing /\ [Next]_vars /\ strayed' = {} => RefreshInvariant'
<1> SUFFICES ASSUME Standing, [Next]_vars, strayed' = {} PROVE RefreshInvariant'
  OBVIOUS
<1>0. RefreshInvariant
      /\ (clearing = "descriptions" => left \subseteq getPersistenceSetMetadata(context))
  BY DEF Standing, RefreshInvariant, SessionsInOrder
<1>1. CASE init
  BY <1>0, <1>1, OthersKeepRefresh
  DEF init, getPersistenceSetMetadata, databaseVars, clearVars, historyVars
<1>2. CASE Crash
  BY <1>0, <1>2, StopKeepsRefresh DEF Crash
<1>3. ASSUME NEW m \in Source, CreateSet(m) PROVE RefreshInvariant'
  BY <1>3, CreateKeepsRefresh
<1>4. ASSUME NEW id \in Ids, NEW m \in Source, UpdateSet(id, m) PROVE RefreshInvariant'
  BY <1>4, UpdateSetKeepsRefresh
<1>5. ASSUME NEW id \in Ids, NEW r \in Record, writeTrajectoryData(id, r) PROVE RefreshInvariant'
  <2>1. CASE id \notin DOMAIN tables
    BY <1>0, <1>5, <2>1, StopKeepsRefresh DEF writeTrajectoryData, databaseVars
  <2>2. CASE id \in DOMAIN tables
    BY <1>5, <2>2, RecordingKeepsRefresh
  <2> QED
    BY <2>1, <2>2
<1>6. ASSUME NEW id \in Ids, StartRefresh(id) PROVE RefreshInvariant'
  BY <1>6, StartKeepsRefresh
<1>7. CASE Refresh
  BY <1>7, ScanMinKeepsRefresh, ScanMaxKeepsRefresh, CompareTailKeepsRefresh, RangeKeepsRefresh,
     UpdateKeepsRefresh, InsertKeepsRefresh, DoneKeepsRefresh DEF Refresh
<1>8. ASSUME NEW c \in Contexts, deleteTotalData(c) PROVE RefreshInvariant'
  BY <1>0, <1>8, OthersKeepRefresh DEF deleteTotalData, databaseVars, historyVars
<1>9. ASSUME NEW id \in Ids, deleteDataRange(id) PROVE RefreshInvariant'
  BY <1>9, DeleteDataKeepsRefresh
<1>10. CASE DataDeleted
  BY <1>0, <1>10, OthersKeepRefresh DEF DataDeleted, getPersistenceSetMetadata, databaseVars,
       historyVars
<1>11. ASSUME NEW id \in Ids, deleteSessionDescription(id) PROVE RefreshInvariant'
  BY <1>11, DeleteDescriptionKeepsRefresh
<1>12. CASE DescriptionsDeleted
  BY <1>0, <1>12, OthersKeepRefresh DEF DescriptionsDeleted, databaseVars, historyVars
<1>13. CASE deletePersistenceSetMetadata
  BY <1>13, DeleteMetadataKeepsRefresh
<1>14. CASE UNCHANGED vars
  BY <1>0, <1>14, OthersKeepRefresh
  DEF vars, getPersistenceSetMetadata, databaseVars, clearVars, historyVars
<1> QED
  BY <1>1, <1>2, <1>3, <1>4, <1>5, <1>6, <1>7, <1>8, <1>9, <1>10,
     <1>11, <1>12, <1>13, <1>14 DEF Next, Clear

\* What a finished refresh had looked at, and what is still there, lies in the described
\* range of its session: for any numbers of sets, sessions and steps, with a recorder
\* that goes on writing and a crash between any two queries
\* (checkDescriptionWithPayload), as long as one set is described, all are raw sets
\* with tables of their own, and no set strays.
THEOREM DescriptionsAreComplete ==
  OwnTables /\ OneDescribed /\ Spec => []DescriptionsCoverPayload
<1> SUFFICES ASSUME OwnTables, OneDescribed PROVE Spec => []DescriptionsCoverPayload
  OBVIOUS
<1> DEFINE Complete == strayed = {} => ReachInvariant /\ RefreshInvariant
<1>1. Init => Complete
  BY InitReach, InitRefresh
<1>2. PlaceInvariant /\ TypeInvariant /\ Complete /\ [Next]_vars => Complete'
  BY NextReach, NextRefresh, StrayedOnlyGrows DEF Standing
<1>3. TypeInvariant /\ Complete => DescriptionsCoverPayload
  <2> SUFFICES ASSUME TypeInvariant, RefreshInvariant, NEW id \in DOMAIN tables,
                      NEW r \in described[id] \intersect payload[tables[id]]
               PROVE  \E d \in selectSessionDescriptions(id) :
                        d.session = r.session /\ d.min <= r.step /\ r.step <= d.max
    BY DEF DescriptionsCoverPayload
  <2>1. id \in Ids
    BY DEF TypeInvariant, TypeOK
  <2> QED
    BY <2>1 DEF RefreshInvariant, DescribedIsCovered, IsCovered, Covers
<1> HIDE DEF Complete
<1> QED
  BY <1>1, <1>2, <1>3, PlaceInvariance, TypeInvariance, PTL DEF Spec

=============================================================================
