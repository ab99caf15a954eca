--------------------------- MODULE MemStoreProofs ---------------------------
(***************************************************************************)
(* memoryStore keeps its map and its pointers sound under any number of    *)
(* goroutines, and implements CertStorer although GetRevoked reads the     *)
(* records without the mutex.                                              *)
(***************************************************************************)
EXTENDS MemStore, TLAPS

\* The map of a sound store stands for a table.
LEMMA MapIsTable ==
    ASSUME MemTypeOK
    PROVE  Table \in Tables
  BY DEF MemTypeOK, Table, Tables

\* SetRecord of a fresh pointer sets one row of the table.
LEMMA SetRecordSetsRow ==
    ASSUME MemTypeOK, PointersValid,
           NEW p \in Procs, NEW k \in KeyIDs, NEW s \in Serials,
           NEW m \in Messages, NEW e \in Expiries, SetRecord(p, k, s, m, e)
    PROVE  /\ Table' = WithRecord(Table, k, [serial |-> s, message |-> m,
                                             expires |-> e, revoked |-> FALSE])
           /\ \A j \in KeyIDs : certs[j] # s
<1> DEFINE new == [serial |-> s, message |-> m, expires |-> e, revoked |-> FALSE]
<1>1. certs \in [KeyIDs -> Serials \cup {Nil}] /\ heap \in [Serials -> Record \cup {Absent}]
  BY DEF MemTypeOK
<1>2. heap[s] = Absent /\ s # Nil
  BY MemAssumption DEF SetRecord
<1>3. \A j \in KeyIDs : certs[j] # s
  BY <1>2 DEF PointersValid
<1>4. /\ certs' = [certs EXCEPT ![k] = s]
      /\ heap' = [heap EXCEPT ![s] = new]
  BY DEF SetRecord
<1> HIDE DEF new
<1>5. Table' = [j \in KeyIDs |-> IF certs'[j] = Nil THEN Absent ELSE heap'[certs'[j]]]
  BY DEF Table
<1>6. ASSUME NEW j \in KeyIDs
      PROVE  (IF certs'[j] = Nil THEN Absent ELSE heap'[certs'[j]])
               = (IF j = k THEN new ELSE Table[j])
  BY <1>1, <1>2, <1>3, <1>4 DEF Table
<1>7. Table' = WithRecord(Table, k, new)
  BY <1>5, <1>6 DEF Table, WithRecord
<1>8. QED
  BY <1>3, <1>7 DEF new

\* Writing through a pointer flags the one row whose pointer it is.
LEMMA RevokeOneFlagsRow ==
    ASSUME MemTypeOK, PointersValid, PointersOwned,
           NEW p \in Procs, NEW id \in KeyIDs, RevokeOne(p, id)
    PROVE  /\ Table' = WithFlags(Table, {id})
           /\ heap[certs[id]] \in Record
           /\ id \in Known(Table)
<1>1. certs \in [KeyIDs -> Serials \cup {Nil}] /\ heap \in [Serials -> Record \cup {Absent}]
  BY DEF MemTypeOK
<1>2. certs[id] # Nil /\ certs[id] \in Serials /\ heap[certs[id]] \in Record
  BY <1>1 DEF RevokeOne, PointersValid
<1>3. id \in Known(Table)
  BY <1>2, RecordAssumption DEF Known, Table
<1>4. \A j \in KeyIDs : certs[j] = certs[id] => j = id
  BY <1>2 DEF PointersOwned
<1>5. /\ certs' = certs
      /\ heap' = [heap EXCEPT ![certs[id]] = [heap[certs[id]] EXCEPT !.revoked = TRUE]]
  BY <1>1, <1>2 DEF RevokeOne
<1>6. Table' = [j \in KeyIDs |-> IF certs'[j] = Nil THEN Absent ELSE heap'[certs'[j]]]
  BY DEF Table
<1>7. ASSUME NEW j \in KeyIDs
      PROVE  (IF certs'[j] = Nil THEN Absent ELSE heap'[certs'[j]])
               = (IF j \in {id} \cap Known(Table)
                  THEN [Table[j] EXCEPT !.revoked = TRUE] ELSE Table[j])
  BY <1>1, <1>2, <1>3, <1>4, <1>5 DEF Table
<1>8. Table' = WithFlags(Table, {id})
  BY <1>6, <1>7 DEF WithFlags
<1>9. QED
  BY <1>2, <1>3, <1>8

\* Close and a restart leave the empty table.
LEMMA EmptyMapIsEmptyTable ==
    ASSUME certs' = [k \in KeyIDs |-> Nil]
    PROVE  Table' = EmptyTable
  BY DEF Table, EmptyTable

-----------------------------------------------------------------------------
(***************************************************************************)
(* The inductive invariant, part by part.                                  *)
(***************************************************************************)
\* Every step keeps the variables in their types.
LEMMA TypeStep ==
    ASSUME MemTypeOK, PointersValid, LocalsMatch, [Next]_vars
    PROVE  MemTypeOK'
<1> USE DEF MemTypeOK
<1>1. \A d, t : /\ Listed(d, t) \subseteq KeyIDs
                /\ Flagged(d) \subseteq KeyIDs
                /\ Known(d) \subseteq KeyIDs
  BY DEF Listed, Flagged, Known
<1>2. Observe => /\ must' \in [Procs -> SUBSET KeyIDs]
                 /\ may' \in [Procs -> SUBSET KeyIDs]
  <2>1. Flagged(Table') \subseteq KeyIDs
    BY <1>1
  <2>2. QED
    BY <2>1 DEF Observe
<1>3. ASSUME NEW p \in Procs, Return(p)
      PROVE  /\ op' \in [Procs -> {"none", "Revoke", "List", "GetRevoked"}]
             /\ pc' \in [Procs -> {"idle", "lock", "loop", "filter"}]
             /\ all' \in [Procs -> BOOLEAN]
             /\ pend' \in [Procs -> SUBSET KeyIDs]
             /\ acc' \in [Procs -> SUBSET KeyIDs]
             /\ must' \in [Procs -> SUBSET KeyIDs] /\ may' \in [Procs -> SUBSET KeyIDs]
             /\ recs' \in [Procs -> SUBSET (KeyIDs \X Serials)]
  BY <1>3 DEF Return
<1>4. ASSUME NEW p \in Procs, NEW k \in KeyIDs, NEW s \in Serials,
             NEW m \in Messages, NEW e \in Expiries, SetRecord(p, k, s, m, e)
      PROVE  MemTypeOK'
  <2>1. heap' \in [Serials -> Record \cup {Absent}]
    BY <1>4 DEF SetRecord, Record
  <2>2. QED
    BY <1>2, <1>4, <2>1 DEF SetRecord, Returns
<1>5. ASSUME NEW p \in Procs, SetRecordPanic(p) PROVE MemTypeOK'
  BY <1>5 DEF SetRecordPanic, Returns
<1>6. ASSUME NEW p \in Procs, NEW ids \in SUBSET KeyIDs, RevokeCall(p, ids) PROVE MemTypeOK'
  BY <1>6 DEF RevokeCall, Call, NoReturn
<1>7. ASSUME NEW p \in Procs, NEW b \in BOOLEAN, ListCall(p, b) PROVE MemTypeOK'
  BY <1>7 DEF ListCall, Call, NoReturn
<1>8. ASSUME NEW p \in Procs, GetRevokedCall(p) PROVE MemTypeOK'
  BY <1>1, <1>8 DEF GetRevokedCall, Call, NoReturn
<1>9. ASSUME NEW p \in Procs, Lock(p) PROVE MemTypeOK'
  BY <1>1, <1>9 DEF Lock, NoReturn
<1>10. ASSUME NEW p \in Procs, NEW id \in KeyIDs, RevokeOne(p, id) PROVE MemTypeOK'
  <2>1. heap' \in [Serials -> Record \cup {Absent}]
    <3>1. heap[certs[id]] \in Record
      BY <1>10 DEF RevokeOne, PointersValid
    <3>2. [heap[certs[id]] EXCEPT !.revoked = TRUE] \in Record
      BY <3>1 DEF Record
    <3>3. heap' = [heap EXCEPT ![certs[id]] = [heap[certs[id]] EXCEPT !.revoked = TRUE]]
      BY <1>10 DEF RevokeOne
    <3>4. QED
      BY <3>2, <3>3
  <2>2. pend' \in [Procs -> SUBSET KeyIDs]
    BY <1>10 DEF RevokeOne
  <2>3. QED
    BY <1>2, <1>10, <2>1, <2>2 DEF RevokeOne, NoReturn
<1>11. ASSUME NEW p \in Procs, NEW id \in KeyIDs, RevokePanic(p, id) PROVE MemTypeOK'
  BY <1>3, <1>11 DEF RevokePanic, Unlock, Returns
<1>12. ASSUME NEW p \in Procs, RevokeReturn(p) PROVE MemTypeOK'
  BY <1>3, <1>12 DEF RevokeReturn, Unlock, Returns
<1>13. ASSUME NEW p \in Procs, NEW k \in KeyIDs, ListOne(p, k) PROVE MemTypeOK'
  <2>1. certs[k] \in Serials
    BY <1>13 DEF ListOne, PointersValid
  <2>2. recs' \in [Procs -> SUBSET (KeyIDs \X Serials)]
    BY <1>13, <2>1 DEF ListOne
  <2>3. QED
    BY <1>13, <2>2 DEF ListOne, NoReturn
<1>14. ASSUME NEW p \in Procs, ListReturn(p) PROVE MemTypeOK'
  BY <1>3, <1>14 DEF ListReturn, Unlock, NoReturn
<1>15. ASSUME NEW p \in Procs, ListReturnToGetRevoked(p) PROVE MemTypeOK'
  BY <1>15 DEF ListReturnToGetRevoked, Unlock, NoReturn
<1>16. ASSUME NEW p \in Procs, NEW r \in KeyIDs \X Serials, FilterOne(p, r) PROVE MemTypeOK'
  <2>1. acc' \in [Procs -> SUBSET KeyIDs]
    BY <1>16 DEF FilterOne
  <2>2. recs' \in [Procs -> SUBSET (KeyIDs \X Serials)]
    BY <1>16 DEF FilterOne
  <2>3. QED
    BY <1>16, <2>1, <2>2 DEF FilterOne, NoReturn
<1>17. ASSUME NEW p \in Procs, GetRevokedReturn(p) PROVE MemTypeOK'
  <2>1. ret' \in SUBSET [proc : Procs, ok : BOOLEAN, ids : SUBSET KeyIDs]
    BY <1>17 DEF GetRevokedReturn, Returns
  <2>2. QED
    BY <1>3, <1>17, <2>1 DEF GetRevokedReturn
<1>18. ASSUME NEW p \in Procs, Close(p) PROVE MemTypeOK'
  BY <1>2, <1>18 DEF Close, NoReturn
<1>19. CASE Tick
  BY <1>2, <1>19, MemTimeAssumption DEF Tick, NoReturn
<1>20. CASE Restart
  BY <1>20 DEF Restart, Empty, NoReturn
<1>21. CASE UNCHANGED vars
  BY <1>21 DEF vars
<1>22. QED
  BY <1>4, <1>5, <1>6, <1>7, <1>8, <1>9, <1>10, <1>11, <1>12, <1>13, <1>14, <1>15,
     <1>16, <1>17, <1>18, <1>19, <1>20, <1>21
  DEF Next, Proceed


\* A loop starts with the mutex taken and ends with it given back.
LEMMA LoopsStep ==
    ASSUME MemTypeOK, LoopsExclude, LocalsMatch, [Next]_vars
    PROVE  LoopsExclude'
<1> USE DEF LoopsExclude
<1>1. /\ pc \in [Procs -> {"idle", "lock", "loop", "filter"}]
      /\ Nil \notin Procs
  BY MemAssumption DEF MemTypeOK
<1>2. ASSUME NEW p \in Procs, NEW m, Call(p, m) PROVE LoopsExclude'
  BY <1>1, <1>2 DEF Call
<1>3. ASSUME NEW p \in Procs, Lock(p) PROVE LoopsExclude'
  BY <1>1, <1>3 DEF Lock
<1>4. ASSUME NEW p \in Procs, pc[p] = "loop", Unlock(p), Return(p) PROVE LoopsExclude'
  BY <1>1, <1>4 DEF Unlock, Return
<1>5. ASSUME NEW p \in Procs, ListReturnToGetRevoked(p) PROVE LoopsExclude'
  BY <1>1, <1>5 DEF ListReturnToGetRevoked, Unlock
<1>6. ASSUME NEW p \in Procs, GetRevokedReturn(p) PROVE LoopsExclude'
  BY <1>1, <1>6 DEF GetRevokedReturn, Return
<1>7. CASE Restart
  BY <1>1, <1>7 DEF Restart
<1>8. ASSUME NEW p \in Procs, NEW ids, NEW b,
             RevokeCall(p, ids) \/ ListCall(p, b) \/ GetRevokedCall(p)
      PROVE  LoopsExclude'
  BY <1>2, <1>8 DEF RevokeCall, ListCall, GetRevokedCall
<1>9. ASSUME NEW p \in Procs, NEW id,
             RevokePanic(p, id) \/ RevokeReturn(p) \/ ListReturn(p)
      PROVE  LoopsExclude'
  BY <1>4, <1>9 DEF RevokePanic, RevokeReturn, ListReturn
<1>10. ASSUME UNCHANGED <<mu, pc>> PROVE LoopsExclude'
  BY <1>10
<1>11. ASSUME NEW p \in Procs, NEW k, NEW s, NEW m, NEW e, NEW r,
              \/ SetRecord(p, k, s, m, e) \/ SetRecordPanic(p) \/ RevokeOne(p, k)
              \/ ListOne(p, k) \/ FilterOne(p, r) \/ Close(p)
       PROVE  UNCHANGED <<mu, pc>>
  BY <1>11 DEF SetRecord, SetRecordPanic, RevokeOne, ListOne, FilterOne, Close
<1>12. ASSUME Tick \/ UNCHANGED vars PROVE UNCHANGED <<mu, pc>>
  BY <1>12 DEF Tick, vars
<1>13. QED
  BY <1>3, <1>5, <1>6, <1>7, <1>8, <1>9, <1>10, <1>11, <1>12 DEF Next, Proceed

\* A method takes up its locals on the way in and drops them on the way out.
LEMMA LocalsStep ==
    ASSUME MemTypeOK, LocalsMatch, [Next]_vars
    PROVE  LocalsMatch'
<1> USE DEF LocalsMatch
<1>1. /\ op \in [Procs -> {"none", "Revoke", "List", "GetRevoked"}]
      /\ pc \in [Procs -> {"idle", "lock", "loop", "filter"}]
      /\ all \in [Procs -> BOOLEAN]
      /\ pend \in [Procs -> SUBSET KeyIDs] /\ todo \in [Procs -> SUBSET KeyIDs]
      /\ acc \in [Procs -> SUBSET KeyIDs]
      /\ recs \in [Procs -> SUBSET (KeyIDs \X Serials)]
  BY DEF MemTypeOK
<1>2. ASSUME NEW p \in Procs, NEW ids, RevokeCall(p, ids) PROVE LocalsMatch'
  BY <1>1, <1>2 DEF RevokeCall, Call
<1>3. ASSUME NEW p \in Procs, NEW b, ListCall(p, b) PROVE LocalsMatch'
  BY <1>1, <1>3 DEF ListCall, Call
<1>4. ASSUME NEW p \in Procs, GetRevokedCall(p) PROVE LocalsMatch'
  BY <1>1, <1>4 DEF GetRevokedCall, Call
<1>5. ASSUME NEW p \in Procs, Lock(p) PROVE LocalsMatch'
  BY <1>1, <1>5 DEF Lock
<1>6. ASSUME NEW p \in Procs, NEW id, RevokeOne(p, id) PROVE LocalsMatch'
  BY <1>1, <1>6 DEF RevokeOne
<1>7. ASSUME NEW p \in Procs, Return(p), todo[p] = {}, UNCHANGED todo PROVE LocalsMatch'
  BY <1>1, <1>7 DEF Return
<1>8. ASSUME NEW p \in Procs, NEW id,
             \/ RevokePanic(p, id) \/ RevokeReturn(p) \/ ListReturn(p)
             \/ GetRevokedReturn(p)
      PROVE  LocalsMatch'
  BY <1>7, <1>8 DEF RevokePanic, RevokeReturn, ListReturn, GetRevokedReturn
<1>9. ASSUME NEW p \in Procs, NEW k, ListOne(p, k) PROVE LocalsMatch'
  BY <1>1, <1>9 DEF ListOne
<1>10. ASSUME NEW p \in Procs, ListReturnToGetRevoked(p) PROVE LocalsMatch'
  BY <1>1, <1>10 DEF ListReturnToGetRevoked
<1>11. ASSUME NEW p \in Procs, NEW r, FilterOne(p, r) PROVE LocalsMatch'
  BY <1>1, <1>11 DEF FilterOne
<1>12. CASE Restart
  BY <1>12 DEF Restart, Empty
<1>13. ASSUME UNCHANGED <<op, pc, all, pend, todo, recs, acc>> PROVE LocalsMatch'
  BY <1>13
<1>14. ASSUME NEW p \in Procs, NEW k, NEW s, NEW m, NEW e,
              SetRecord(p, k, s, m, e) \/ SetRecordPanic(p) \/ Close(p)
       PROVE  UNCHANGED <<op, pc, all, pend, todo, recs, acc>>
  BY <1>14 DEF SetRecord, SetRecordPanic, Close
<1>15. ASSUME Tick \/ UNCHANGED vars
       PROVE  UNCHANGED <<op, pc, all, pend, todo, recs, acc>>
  BY <1>15 DEF Tick, vars
<1>16. QED
  BY <1>2, <1>3, <1>4, <1>5, <1>6, <1>8, <1>9, <1>10, <1>11, <1>12, <1>13, <1>14, <1>15
  DEF Next, Proceed


\* No record goes away while a pointer to it is in the map or in a list, and
\* no key while a loop that has still to visit it holds the mutex.
LEMMA PointersValidStep ==
    ASSUME MemTypeOK, LoopsExclude, LocalsMatch, PointersValid, [Next]_vars
    PROVE  PointersValid'
<1> USE DEF PointersValid
<1>1. /\ certs \in [KeyIDs -> Serials \cup {Nil}]
      /\ heap \in [Serials -> Record \cup {Absent}]
      /\ todo \in [Procs -> SUBSET KeyIDs]
      /\ recs \in [Procs -> SUBSET (KeyIDs \X Serials)]
      /\ Nil \notin Serials \cup Procs
  BY MemAssumption DEF MemTypeOK
<1>2. \A p \in Procs : \A r \in recs[p] : r \in KeyIDs \X Serials /\ r[2] \in Serials
  BY <1>1
<1>3. mu = Nil => \A p \in Procs : todo[p] = {}
  BY <1>1 DEF LoopsExclude, LocalsMatch
<1>4. ASSUME NEW p \in Procs, NEW k \in KeyIDs, NEW s \in Serials,
             NEW m \in Messages, NEW e \in Expiries, SetRecord(p, k, s, m, e)
      PROVE  PointersValid'
  <2>1. heap' = [heap EXCEPT ![s] = [serial |-> s, message |-> m,
                                     expires |-> e, revoked |-> FALSE]]
    BY <1>4 DEF SetRecord
  <2>2. [serial |-> s, message |-> m, expires |-> e, revoked |-> FALSE] \in Record
    BY DEF Record
  <2>3. \A x \in Serials : heap[x] # Absent \/ x = s => heap'[x] # Absent
    BY <1>1, <2>1, <2>2, RecordAssumption
  <2>4. QED
    BY <1>1, <1>2, <1>4, <2>3 DEF SetRecord
<1>5. ASSUME NEW p \in Procs, NEW id \in KeyIDs, RevokeOne(p, id) PROVE PointersValid'
  <2>1. heap[certs[id]] \in Record
    BY <1>1, <1>5 DEF RevokeOne
  <2>2. [heap[certs[id]] EXCEPT !.revoked = TRUE] # Absent
    BY <2>1, RecordAssumption DEF Record
  <2>3. \A x \in Serials : heap[x] # Absent => heap'[x] # Absent
    BY <1>1, <1>5, <2>2 DEF RevokeOne
  <2>4. QED
    BY <1>1, <1>2, <1>5, <2>3 DEF RevokeOne
<1>6. ASSUME NEW p \in Procs, Lock(p) PROVE PointersValid'
  <2>1. \A k \in Known(Table) : certs[k] # Nil
    BY DEF Known, Table
  <2>2. QED
    BY <1>1, <1>6, <2>1 DEF Lock
<1>7. ASSUME NEW p \in Procs, NEW k \in KeyIDs, ListOne(p, k) PROVE PointersValid'
  <2>1. certs[k] # Nil /\ heap[certs[k]] # Absent
    BY <1>7 DEF ListOne
  <2>2. \A r \in {<<k, certs[k]>>} : heap[r[2]] # Absent
    BY <2>1
  <2>3. QED
    BY <1>1, <1>7, <2>2 DEF ListOne
<1>8. ASSUME NEW p \in Procs, NEW r, FilterOne(p, r) PROVE PointersValid'
  BY <1>1, <1>8 DEF FilterOne
<1>9. ASSUME NEW p \in Procs, Close(p) PROVE PointersValid'
  BY <1>3, <1>9 DEF Close
<1>10. CASE Restart
  BY <1>10 DEF Restart, Empty
<1>11. ASSUME NEW p \in Procs, Return(p), UNCHANGED <<certs, heap, open, todo>>
       PROVE  PointersValid'
  BY <1>1, <1>11 DEF Return
<1>12. ASSUME NEW p \in Procs, NEW id,
              \/ RevokePanic(p, id) \/ RevokeReturn(p) \/ ListReturn(p)
              \/ GetRevokedReturn(p)
       PROVE  PointersValid'
  BY <1>11, <1>12 DEF RevokePanic, RevokeReturn, ListReturn, GetRevokedReturn
<1>13. ASSUME UNCHANGED <<certs, heap, open, todo, recs>> PROVE PointersValid'
  BY <1>13
<1>14. ASSUME NEW p \in Procs, NEW ids, NEW b,
              \/ SetRecordPanic(p) \/ RevokeCall(p, ids) \/ ListCall(p, b)
              \/ GetRevokedCall(p) \/ ListReturnToGetRevoked(p)
       PROVE  UNCHANGED <<certs, heap, open, todo, recs>>
  BY <1>14 DEF SetRecordPanic, RevokeCall, ListCall, GetRevokedCall, Call,
               ListReturnToGetRevoked
<1>15. ASSUME Tick \/ UNCHANGED vars
       PROVE  UNCHANGED <<certs, heap, open, todo, recs>>
  BY <1>15 DEF Tick, vars
<1>16. QED
  BY <1>4, <1>5, <1>6, <1>7, <1>8, <1>9, <1>10, <1>12, <1>13, <1>14, <1>15
  DEF Next, Proceed

\* A pointer is never put under a second key.
LEMMA PointersOwnedStep ==
    ASSUME MemTypeOK, PointersValid, PointersOwned, [Next]_vars
    PROVE  PointersOwned'
<1> USE DEF PointersOwned
<1>1. /\ certs \in [KeyIDs -> Serials \cup {Nil}]
      /\ recs \in [Procs -> SUBSET (KeyIDs \X Serials)]
      /\ Nil \notin Serials
  BY MemAssumption DEF MemTypeOK
<1>2. \A p \in Procs : \A r \in recs[p] : r[2] \in Serials
  BY <1>1
<1>3. ASSUME NEW p \in Procs, NEW k \in KeyIDs, NEW s \in Serials,
             NEW m \in Messages, NEW e \in Expiries, SetRecord(p, k, s, m, e)
      PROVE  PointersOwned'
  <2>1. \A j \in KeyIDs : certs[j] # s
    BY <1>3, SetRecordSetsRow
  <2>2. \A q \in Procs : \A r \in recs[q] : r[2] # s
    BY <1>3 DEF SetRecord, PointersValid
  <2>3. QED
    BY <1>1, <1>3, <2>1, <2>2 DEF SetRecord
<1>4. ASSUME NEW p \in Procs, NEW k \in KeyIDs, ListOne(p, k) PROVE PointersOwned'
  <2>1. certs[k] # Nil
    BY <1>4 DEF ListOne, PointersValid
  <2>2. \A r \in {<<k, certs[k]>>} : \A j \in KeyIDs : certs[j] = r[2] => j = r[1]
    BY <2>1
  <2>3. QED
    BY <1>1, <1>4, <2>2 DEF ListOne
<1>5. ASSUME NEW p \in Procs, NEW r, FilterOne(p, r) PROVE PointersOwned'
  BY <1>1, <1>5 DEF FilterOne
<1>6. ASSUME NEW p \in Procs, Close(p) PROVE PointersOwned'
  BY <1>1, <1>2, <1>6 DEF Close
<1>7. CASE Restart
  BY <1>7 DEF Restart, Empty
<1>8. ASSUME NEW p \in Procs, Return(p), UNCHANGED certs PROVE PointersOwned'
  BY <1>1, <1>8 DEF Return
<1>9. ASSUME NEW p \in Procs, NEW id,
             \/ RevokePanic(p, id) \/ RevokeReturn(p) \/ ListReturn(p)
             \/ GetRevokedReturn(p)
      PROVE  PointersOwned'
  BY <1>8, <1>9 DEF RevokePanic, RevokeReturn, ListReturn, GetRevokedReturn
<1>10. ASSUME UNCHANGED <<certs, recs>> PROVE PointersOwned'
  BY <1>10
<1>11. ASSUME NEW p \in Procs, NEW ids, NEW b, NEW id,
              \/ SetRecordPanic(p) \/ RevokeCall(p, ids) \/ ListCall(p, b)
              \/ GetRevokedCall(p) \/ Lock(p) \/ RevokeOne(p, id)
              \/ ListReturnToGetRevoked(p)
       PROVE  UNCHANGED <<certs, recs>>
  BY <1>11 DEF SetRecordPanic, RevokeCall, ListCall, GetRevokedCall, Call, Lock,
               RevokeOne, ListReturnToGetRevoked
<1>12. ASSUME Tick \/ UNCHANGED vars PROVE UNCHANGED <<certs, recs>>
  BY <1>12 DEF Tick, vars
<1>13. QED
  BY <1>3, <1>4, <1>5, <1>6, <1>7, <1>9, <1>10, <1>11, <1>12 DEF Next, Proceed


\* The table is a function of the map and the records.
LEMMA SameMapSameTable ==
    ASSUME UNCHANGED <<certs, heap>>
    PROVE  Table' = Table
  BY DEF Table

\* The bounds move with the table and the clock.
LEMMA BoundsStep ==
    ASSUME MemTypeOK, LocalsMatch, BoundsTrack, [Next]_vars
    PROVE  BoundsTrack'
<1> USE DEF BoundsTrack
<1>1. /\ op \in [Procs -> {"none", "Revoke", "List", "GetRevoked"}]
      /\ must \in [Procs -> SUBSET KeyIDs] /\ may \in [Procs -> SUBSET KeyIDs]
  BY DEF MemTypeOK
<1>2. ASSUME Observe, op' = op PROVE BoundsTrack'
  BY <1>1, <1>2 DEF Observe
<1>3. ASSUME NEW p \in Procs, NEW k, NEW s, NEW m, NEW e,
             SetRecord(p, k, s, m, e) \/ RevokeOne(p, k) \/ Close(p)
      PROVE  Observe /\ op' = op
  BY <1>3 DEF SetRecord, RevokeOne, Close
<1>4. CASE Tick
  BY <1>2, <1>4 DEF Tick
<1>5. ASSUME NEW p \in Procs, NEW ids, NEW b, RevokeCall(p, ids) \/ ListCall(p, b)
      PROVE  BoundsTrack'
  <2>1. /\ Table' = Table /\ now' = now /\ must' = must /\ may' = may
        /\ op[p] = "none"
        /\ op' = [op EXCEPT ![p] = "Revoke"] \/ op' = [op EXCEPT ![p] = "List"]
    BY <1>5, SameMapSameTable DEF RevokeCall, ListCall, Call, LocalsMatch
  <2>2. QED
    BY <1>1, <2>1
<1>6. ASSUME NEW p \in Procs, GetRevokedCall(p) PROVE BoundsTrack'
  <2>1. Table' = Table /\ now' = now /\ op' = [op EXCEPT ![p] = "GetRevoked"]
    BY <1>6, SameMapSameTable DEF GetRevokedCall, Call
  <2>2. QED
    BY <1>1, <1>6, <2>1 DEF GetRevokedCall
<1>7. ASSUME NEW p \in Procs, Return(p), UNCHANGED <<certs, heap, now>>
      PROVE  BoundsTrack'
  <2>1. Table' = Table
    BY <1>7, SameMapSameTable
  <2>2. QED
    BY <1>1, <1>7, <2>1 DEF Return
<1>8. ASSUME NEW p \in Procs, NEW id,
             \/ RevokePanic(p, id) \/ RevokeReturn(p) \/ ListReturn(p)
             \/ GetRevokedReturn(p)
      PROVE  BoundsTrack'
  BY <1>7, <1>8 DEF RevokePanic, RevokeReturn, ListReturn, GetRevokedReturn
<1>9. CASE Restart
  BY <1>9 DEF Restart, Empty
<1>10. ASSUME UNCHANGED <<certs, heap, now, op, must, may>> PROVE BoundsTrack'
  BY <1>10, SameMapSameTable
<1>11. ASSUME NEW p \in Procs, NEW k, NEW r,
              \/ SetRecordPanic(p) \/ Lock(p) \/ ListOne(p, k)
              \/ ListReturnToGetRevoked(p) \/ FilterOne(p, r)
       PROVE  UNCHANGED <<certs, heap, now, op, must, may>>
  BY <1>11 DEF SetRecordPanic, Lock, ListOne, ListReturnToGetRevoked, FilterOne
<1>12. CASE UNCHANGED vars
  BY <1>10, <1>12 DEF vars
<1>13. QED
  BY <1>2, <1>3, <1>4, <1>5, <1>6, <1>8, <1>9, <1>10, <1>11, <1>12 DEF Next, Proceed


\* A GetRevoked passes over no key it owes, and takes up no pointer whose
\* record is flagged unless the key is one it may name.
LEMMA GatherStep ==
    ASSUME MemStoreInv, [Next]_vars
    PROVE  LoopsGather'
<1> USE DEF LoopsGather
<1>1. /\ MemTypeOK /\ PointersValid /\ PointersOwned /\ LocalsMatch /\ BoundsTrack
      /\ LoopsGather
  BY DEF MemStoreInv
<1>2. /\ certs \in [KeyIDs -> Serials \cup {Nil}]
      /\ heap \in [Serials -> Record \cup {Absent}]
      /\ op \in [Procs -> {"none", "Revoke", "List", "GetRevoked"}]
      /\ pc \in [Procs -> {"idle", "lock", "loop", "filter"}]
      /\ todo \in [Procs -> SUBSET KeyIDs] /\ acc \in [Procs -> SUBSET KeyIDs]
      /\ recs \in [Procs -> SUBSET (KeyIDs \X Serials)]
      /\ must \in [Procs -> SUBSET KeyIDs] /\ may \in [Procs -> SUBSET KeyIDs]
      /\ now \in Int
  BY <1>1, MemTimeAssumption DEF MemTypeOK
<1>3. \A p \in Procs : \A r \in recs[p] :
          /\ r \in KeyIDs \X Serials
          /\ r[1] \in KeyIDs /\ r[2] \in Serials /\ r = <<r[1], r[2]>>
          /\ heap[r[2]] # Absent
  BY <1>1, <1>2 DEF PointersValid
<1>4. \A k \in KeyIDs : certs[k] # Nil =>
          Table[k] = heap[certs[k]] /\ Table[k] \in Record /\ Table[k].expires \in Int
  BY <1>1, <1>2, RecordAssumption DEF PointersValid, Table, Record
<1>5. \A p \in Procs : \A k \in must[p] :
          /\ k \in KeyIDs /\ certs[k] # Nil
          /\ heap[certs[k]].revoked /\ heap[certs[k]].expires >= now
  <2>1. \A k \in Listed(Table, now) : /\ k \in KeyIDs /\ certs[k] # Nil
                                      /\ Table[k].revoked /\ Table[k].expires >= now
    BY DEF Listed, Flagged, Known, Table
  <2>2. QED
    BY <1>1, <1>4, <2>1 DEF BoundsTrack
<1>6. \A p \in Procs : \A k \in KeyIDs :
          op[p] = "GetRevoked" /\ certs[k] # Nil /\ heap[certs[k]].revoked => k \in may[p]
  BY <1>1, <1>4, RecordAssumption DEF BoundsTrack, Flagged, Known
<1>7. Observe => \A p \in Procs : /\ must'[p] \subseteq must[p] \cap Listed(Table', now')
                                  /\ may[p] \subseteq may'[p]
                                  /\ op[p] = "GetRevoked" => Flagged(Table') \subseteq may'[p]
  BY <1>2 DEF Observe
<1>8. ASSUME NEW p \in Procs, NEW k \in KeyIDs, NEW s \in Serials,
             NEW m \in Messages, NEW e \in Expiries, SetRecord(p, k, s, m, e)
      PROVE  LoopsGather'
  <2> DEFINE new == [serial |-> s, message |-> m, expires |-> e, revoked |-> FALSE]
  <2>1. Table' = WithRecord(Table, k, new)
    BY <1>1, <1>8, SetRecordSetsRow
  <2>2. Table'[k] = new /\ ~new.revoked
    BY <2>1 DEF WithRecord, Table
  <2>3. \A q \in Procs : k \notin must'[q]
    BY <1>7, <1>8, <2>2 DEF SetRecord, Listed, Flagged
  <2>4. \A j \in KeyIDs \ {k} : certs'[j] = certs[j]
    BY <1>2, <1>8 DEF SetRecord
  <2>5. \A q \in Procs : \A r \in recs[q] : heap'[r[2]] = heap[r[2]]
    BY <1>2, <1>3, <1>8 DEF SetRecord
  <2>6. UNCHANGED <<op, pc, todo, recs, acc>> /\ Observe
    BY <1>8 DEF SetRecord
  <2>7. QED
    BY <1>1, <1>5, <1>7, <2>3, <2>4, <2>5, <2>6
<1>9. ASSUME NEW p \in Procs, NEW id \in KeyIDs, RevokeOne(p, id) PROVE LoopsGather'
  <2>1. UNCHANGED <<certs, op, pc, todo, recs, acc>> /\ Observe
    BY <1>9 DEF RevokeOne
  <2>2. \A x \in Serials : heap'[x] = heap[x] \/ x = certs[id]
    BY <1>2, <1>9 DEF RevokeOne
  <2>3. Table' = WithFlags(Table, {id}) /\ id \in Known(Table) /\ Table[id] \in Record
    BY <1>1, <1>4, <1>9, RevokeOneFlagsRow DEF RevokeOne
  <2>4. Table'[id] = [Table[id] EXCEPT !.revoked = TRUE]
    BY <2>3 DEF WithFlags
  <2>5. Table'[id] \in Record /\ Table'[id].revoked
    BY <2>3, <2>4 DEF Record
  <2>6. id \in Flagged(Table')
    BY <2>5, RecordAssumption DEF Flagged, Known
  <2>7. \A q \in Procs : \A r \in recs[q] :
           op[q] = "GetRevoked" /\ heap'[r[2]].revoked => r[1] \in may'[q]
    <3> SUFFICES ASSUME NEW q \in Procs, NEW r \in recs[q],
                        op[q] = "GetRevoked", heap'[r[2]].revoked
                 PROVE  r[1] \in may'[q]
      OBVIOUS
    <3>1. CASE r[2] = certs[id]
      BY <1>1, <1>7, <2>1, <2>6, <3>1 DEF PointersOwned
    <3>2. CASE r[2] # certs[id]
      BY <1>1, <1>3, <1>7, <2>1, <2>2, <3>2
    <3>3. QED
      BY <3>1, <3>2
  <2>8. QED
    BY <1>1, <1>7, <2>1, <2>7
<1>10. ASSUME NEW p \in Procs, Close(p) PROVE LoopsGather'
  <2>1. UNCHANGED <<heap, op, pc, todo, recs, acc>> /\ Observe
    BY <1>10 DEF Close
  <2>2. Table' = EmptyTable
    BY <1>10, EmptyMapIsEmptyTable DEF Close
  <2>3. Listed(Table', now') = {}
    BY <2>2 DEF Listed, Flagged, Known, EmptyTable
  <2>4. QED
    BY <1>1, <1>7, <2>1, <2>3
<1>11. CASE Tick
  <2>1. UNCHANGED <<certs, heap, op, pc, todo, recs, acc>> /\ Observe
    BY <1>11 DEF Tick
  <2>2. QED
    BY <1>1, <1>7, <2>1
<1>12. ASSUME NEW p \in Procs, NEW m, Call(p, m),
              \A q \in Procs : q # p => must'[q] = must[q] /\ may'[q] = may[q]
       PROVE  LoopsGather'
  <2>1. recs[p] = {} /\ acc[p] = {}
    BY <1>1, <1>12 DEF Call, LocalsMatch
  <2>2. QED
    BY <1>1, <1>2, <1>12, <2>1 DEF Call
<1>13. ASSUME NEW p \in Procs, NEW ids, NEW b,
              RevokeCall(p, ids) \/ ListCall(p, b) \/ GetRevokedCall(p)
       PROVE  LoopsGather'
  BY <1>2, <1>12, <1>13 DEF RevokeCall, ListCall, GetRevokedCall
<1>14. ASSUME NEW p \in Procs, Lock(p) PROVE LoopsGather'
  <2>1. \A k \in must[p] : k \in Known(Table)
    BY <1>1 DEF BoundsTrack, Listed, Flagged
  <2>2. QED
    BY <1>1, <1>2, <1>14, <2>1 DEF Lock
<1>15. ASSUME NEW p \in Procs, NEW k \in KeyIDs, ListOne(p, k) PROVE LoopsGather'
  <2>1. certs[k] # Nil
    BY <1>1, <1>15 DEF ListOne, PointersValid
  <2>2. op[p] = "GetRevoked" /\ k \in must[p] => ~all[p] /\ ~Expired(heap[certs[k]])
    BY <1>1, <1>2, <1>4, <1>5 DEF LocalsMatch, Expired
  <2>3. op[p] = "GetRevoked" /\ k \in must[p] => <<k, certs[k]>> \in recs'[p]
    BY <1>2, <1>15, <2>2 DEF ListOne
  <2>4. /\ recs[p] \subseteq recs'[p] /\ recs'[p] \subseteq recs[p] \cup {<<k, certs[k]>>}
        /\ \A q \in Procs : q # p => recs'[q] = recs[q]
        /\ todo'[p] = todo[p] \ {k}
        /\ \A q \in Procs : q # p => todo'[q] = todo[q]
    BY <1>2, <1>15 DEF ListOne
  <2>5. op[p] = "GetRevoked" =>
           \A r \in {<<k, certs[k]>>} : heap[r[2]].revoked => r[1] \in may[p]
    BY <1>6, <2>1
  <2>6. UNCHANGED <<certs, heap, op, pc, acc, must, may>>
    BY <1>15 DEF ListOne
  <2>7. QED
    BY <1>1, <1>2, <2>3, <2>4, <2>5, <2>6
<1>16. ASSUME NEW p \in Procs, NEW r, FilterOne(p, r) PROVE LoopsGather'
  <2>1. r \in recs[p] /\ r \in KeyIDs \X Serials
    BY <1>3, <1>16 DEF FilterOne
  <2>2. UNCHANGED <<certs, heap, op, pc, todo, must, may>>
    BY <1>16 DEF FilterOne
  <2>3. /\ recs'[p] = recs[p] \ {r}
        /\ acc'[p] = IF heap[r[2]].revoked THEN acc[p] \cup {r[1]} ELSE acc[p]
        /\ \A q \in Procs : q # p => recs'[q] = recs[q] /\ acc'[q] = acc[q]
    BY <1>2, <1>16 DEF FilterOne
  <2>4. \A k \in must[p] : r = <<k, certs[k]>> => k \in acc'[p]
    BY <1>5, <2>3
  <2>5. QED
    BY <1>1, <2>1, <2>2, <2>3, <2>4
<1>17. ASSUME NEW p \in Procs, Return(p), UNCHANGED <<certs, heap, todo>>
       PROVE  LoopsGather'
  BY <1>1, <1>2, <1>17 DEF Return
<1>18. ASSUME NEW p \in Procs, NEW id,
              \/ RevokePanic(p, id) \/ RevokeReturn(p) \/ ListReturn(p)
              \/ GetRevokedReturn(p)
       PROVE  LoopsGather'
  BY <1>17, <1>18 DEF RevokePanic, RevokeReturn, ListReturn, GetRevokedReturn
<1>19. ASSUME NEW p \in Procs, ListReturnToGetRevoked(p) PROVE LoopsGather'
  BY <1>1, <1>2, <1>19 DEF ListReturnToGetRevoked
<1>20. CASE Restart
  BY <1>20 DEF Restart
<1>21. ASSUME UNCHANGED <<certs, heap, op, pc, todo, recs, acc, must, may>>
       PROVE  LoopsGather'
  BY <1>1, <1>21
<1>22. ASSUME NEW p \in Procs, SetRecordPanic(p) PROVE LoopsGather'
  BY <1>21, <1>22 DEF SetRecordPanic
<1>23. CASE UNCHANGED vars
  BY <1>21, <1>23 DEF vars
<1>24. QED
  BY <1>8, <1>9, <1>10, <1>11, <1>13, <1>14, <1>15, <1>16, <1>18, <1>19, <1>20, <1>22,
     <1>23
  DEF Next, Proceed


LEMMA InitInv == Init => MemStoreInv
<1> SUFFICES ASSUME Init PROVE MemStoreInv
  OBVIOUS
<1>1. MemTypeOK
  BY MemTimeAssumption DEF Init, MemTypeOK, Empty
<1>2. LoopsExclude
  BY MemAssumption DEF Init, LoopsExclude
<1>3. PointersValid /\ PointersOwned
  BY DEF Init, PointersValid, PointersOwned, Empty
<1>4. LocalsMatch
  BY DEF Init, LocalsMatch, Empty
<1>5. BoundsTrack
  BY DEF Init, BoundsTrack, Empty
<1>6. LoopsGather
  BY DEF Init, LoopsGather
<1>7. QED
  BY <1>1, <1>2, <1>3, <1>4, <1>5, <1>6 DEF MemStoreInv

\* The map, its pointers and the mutex stay sound, for any number of
\* goroutines and records.
THEOREM MemInvariance == Spec => []MemStoreInv
<1>1. Init => MemStoreInv
  BY InitInv
<1>2. MemStoreInv /\ [Next]_vars => MemStoreInv'
  BY TypeStep, LoopsStep, LocalsStep, PointersValidStep, PointersOwnedStep, BoundsStep,
     GatherStep
  DEF MemStoreInv
<1>3. QED
  BY <1>1, <1>2, PTL DEF Spec

-----------------------------------------------------------------------------
(***************************************************************************)
(* The refinement: every step is a step of CertStorer.                     *)
(***************************************************************************)
\* The abstract specification asks the same questions of the table.
LEMMA SameQuestions ==
    /\ Abstract!Record = Record
    /\ Abstract!EmptyTable = EmptyTable
    /\ \A d : Abstract!Flagged(d) = Flagged(d)
    /\ \A d, t : Abstract!Listed(d, t) = Listed(d, t)
    /\ \A d, k, r : Abstract!WithRecord(d, k, r) = WithRecord(d, k, r)
    /\ \A d, s : Abstract!WithFlags(d, s) = WithFlags(d, s)
<1>1. Abstract!Record = Record
  BY DEF Abstract!Record, Record
<1>2. Abstract!EmptyTable = EmptyTable
  BY DEF Abstract!EmptyTable, EmptyTable
<1>3. \A d : Abstract!Known(d) = Known(d)
  BY DEF Abstract!Known, Known
<1>4. \A d : Abstract!Flagged(d) = Flagged(d)
  BY <1>3 DEF Abstract!Flagged, Flagged
<1>5. \A d, t : Abstract!Listed(d, t) = Listed(d, t)
  BY <1>4 DEF Abstract!Listed, Listed
<1>6. \A d, k, r : Abstract!WithRecord(d, k, r) = WithRecord(d, k, r)
  BY DEF Abstract!WithRecord, WithRecord
<1>7. \A d, s : Abstract!WithFlags(d, s) = WithFlags(d, s)
  BY <1>3 DEF Abstract!WithFlags, WithFlags
<1>8. QED
  BY <1>1, <1>2, <1>4, <1>5, <1>6, <1>7

\* The history variables move as the abstract bounds do.
LEMMA BoundsMapped ==
    ASSUME MemStoreInv,
           \/ Observe
           \/ UNCHANGED <<certs, heap, now, must, may>>
    PROVE  Abstract!Observe
<1>1. /\ must \in [Procs -> SUBSET KeyIDs] /\ may \in [Procs -> SUBSET KeyIDs]
      /\ op \in [Procs -> {"none", "Revoke", "List", "GetRevoked"}]
  BY DEF MemStoreInv, MemTypeOK
<1>2. \A p \in Procs :
        ((IF op[p] = "List" THEN "none" ELSE op[p]) = "GetRevoked") <=> op[p] = "GetRevoked"
  BY <1>1
<1>3. CASE Observe
  BY <1>2, <1>3, SameQuestions DEF Observe, Abstract!Observe
<1>4. CASE UNCHANGED <<certs, heap, now, must, may>>
  <2>1. Table' = Table
    BY <1>4, SameMapSameTable
  <2>2. must = [p \in Procs |-> must[p] \cap Listed(Table', now')]
    BY <1>1, <1>4, <2>1 DEF MemStoreInv, BoundsTrack
  <2>3. may = [p \in Procs |-> IF op[p] = "GetRevoked"
                               THEN may[p] \cup Flagged(Table') ELSE may[p]]
    BY <1>1, <1>4, <2>1 DEF MemStoreInv, BoundsTrack
  <2>4. QED
    BY <1>2, <1>4, <2>2, <2>3, SameQuestions DEF Abstract!Observe
<1>5. QED
  BY <1>3, <1>4

\* Every step of memoryStore is one of the store its callers are promised.
LEMMA MemStepMapped ==
    ASSUME MemStoreInv, [Next]_vars
    PROVE  [Abstract!StoreNext]_(Abstract!storeVars)
<1> DEFINE called(f) == [p \in Procs |-> IF f[p] = "List" THEN "none" ELSE f[p]]
<1>1. /\ MemTypeOK /\ PointersValid /\ PointersOwned /\ LocalsMatch /\ BoundsTrack
      /\ LoopsGather
  BY DEF MemStoreInv
<1>2. /\ op \in [Procs -> {"none", "Revoke", "List", "GetRevoked"}]
      /\ pc \in [Procs -> {"idle", "lock", "loop", "filter"}]
      /\ pend \in [Procs -> SUBSET KeyIDs] /\ acc \in [Procs -> SUBSET KeyIDs]
      /\ must \in [Procs -> SUBSET KeyIDs] /\ may \in [Procs -> SUBSET KeyIDs]
  BY <1>1 DEF MemTypeOK
<1>3. Abstract!InMemory
  BY DEF Abstract!InMemory
<1>4. ASSUME Abstract!StoreQuiet PROVE Abstract!StoreNext
  BY <1>4 DEF Abstract!StoreNext
<1>5. ASSUME NEW p \in Procs, NEW k \in KeyIDs, NEW s \in Serials,
             NEW m \in Messages, NEW e \in Expiries, SetRecord(p, k, s, m, e)
      PROVE  Abstract!StoreNext
  <2> DEFINE new == [serial |-> s, message |-> m, expires |-> e, revoked |-> FALSE]
  <2>1. new \in Record /\ ~new.revoked
    BY DEF Record
  <2>2. Table' = WithRecord(Table, k, new)
    BY <1>1, <1>5, SetRecordSetsRow
  <2>3. Abstract!Observe
    BY <1>5, BoundsMapped DEF SetRecord
  <2>4. op[p] = "none"
    BY <1>1, <1>5 DEF SetRecord, LocalsMatch
  <2> HIDE DEF new
  <2>5. Abstract!SetRecordOk(p, k, new)
    BY <1>3, <1>5, <2>2, <2>3, <2>4, SameQuestions
    DEF SetRecord, Returns, Abstract!SetRecordOk, Abstract!Returned
  <2>6. QED
    BY <2>1, <2>5, SameQuestions DEF Abstract!StoreNext
<1>6. ASSUME NEW p \in Procs, SetRecordPanic(p) PROVE Abstract!StoreNext
  <2>1. PICK k \in KeyIDs, s \in Serials, m \in Messages, e \in Expiries : TRUE
    BY MemAssumption
  <2> DEFINE new == [serial |-> s, message |-> m, expires |-> e, revoked |-> FALSE]
  <2>2. new \in Record /\ ~new.revoked
    BY DEF Record
  <2>3. Abstract!Observe
    BY <1>6, BoundsMapped DEF SetRecordPanic
  <2>4. op[p] = "none" /\ Table' = Table
    BY <1>1, <1>6, SameMapSameTable DEF SetRecordPanic, LocalsMatch
  <2> HIDE DEF new
  <2>5. Abstract!SetRecordErr(p, k, new)
    BY <1>6, <2>3, <2>4
    DEF SetRecordPanic, Returns, Abstract!SetRecordErr, Abstract!Returned
  <2>6. QED
    BY <2>2, <2>5, SameQuestions DEF Abstract!StoreNext
<1>7. ASSUME NEW p \in Procs, NEW ids \in SUBSET KeyIDs, RevokeCall(p, ids)
      PROVE  Abstract!StoreNext
  <2>1. op[p] = "none" /\ Table' = Table
    BY <1>1, <1>7, SameMapSameTable DEF RevokeCall, Call, LocalsMatch
  <2>2. called(op') = [called(op) EXCEPT ![p] = "Revoke"]
    BY <1>2, <1>7 DEF RevokeCall, Call
  <2>3. Abstract!RevokeCall(p, ids)
    BY <1>7, <2>1, <2>2 DEF RevokeCall, Call, NoReturn, Abstract!RevokeCall
  <2>4. QED
    BY <2>3 DEF Abstract!StoreNext
<1>8. ASSUME NEW p \in Procs, NEW b, ListCall(p, b) PROVE Abstract!StoreNext
  <2>1. op[p] = "none" /\ Table' = Table
    BY <1>1, <1>8, SameMapSameTable DEF ListCall, Call, LocalsMatch
  <2>2. called(op') = called(op)
    BY <1>2, <1>8, <2>1 DEF ListCall, Call
  <2>3. QED
    BY <1>4, <1>8, <2>1, <2>2 DEF ListCall, Call, NoReturn, Abstract!StoreQuiet
<1>9. ASSUME NEW p \in Procs, GetRevokedCall(p) PROVE Abstract!StoreNext
  <2>1. op[p] = "none" /\ Table' = Table
    BY <1>1, <1>9, SameMapSameTable DEF GetRevokedCall, Call, LocalsMatch
  <2>2. called(op') = [called(op) EXCEPT ![p] = "GetRevoked"]
    BY <1>2, <1>9 DEF GetRevokedCall, Call
  <2>3. Abstract!GetRevokedCall(p)
    BY <1>9, <2>1, <2>2, SameQuestions
    DEF GetRevokedCall, Call, NoReturn, Abstract!GetRevokedCall
  <2>4. QED
    BY <2>3 DEF Abstract!StoreNext
<1>10. ASSUME NEW p \in Procs, NEW k, NEW r,
              \/ Lock(p) \/ ListOne(p, k) \/ ListReturnToGetRevoked(p) \/ FilterOne(p, r)
       PROVE  Abstract!StoreNext
  <2>1. /\ UNCHANGED <<certs, heap, open, now, op, pend, must, may>>
        /\ ret' = {}
    BY <1>10 DEF Lock, ListOne, ListReturnToGetRevoked, FilterOne, NoReturn
  <2>2. Table' = Table
    BY <2>1, SameMapSameTable
  <2>3. QED
    BY <1>4, <2>1, <2>2 DEF Abstract!StoreQuiet
<1>11. ASSUME NEW p \in Procs, NEW id \in KeyIDs, RevokeOne(p, id)
       PROVE  Abstract!StoreNext
  <2>1. Table' = WithFlags(Table, {id})
    BY <1>1, <1>11, RevokeOneFlagsRow
  <2>2. open
    BY <1>1, <1>11 DEF RevokeOne, PointersValid
  <2>3. Abstract!Observe
    BY <1>11, BoundsMapped DEF RevokeOne
  <2>4. Abstract!RevokeFlag(p, {id})
    BY <1>2, <1>11, <2>1, <2>2, <2>3, SameQuestions
    DEF RevokeOne, NoReturn, Abstract!RevokeFlag
  <2>5. QED
    BY <2>4 DEF Abstract!StoreNext
<1>12. ASSUME NEW p \in Procs, Return(p), op[p] \in {"Revoke", "List"},
              UNCHANGED <<certs, heap>>
       PROVE  /\ Table' = Table /\ must' = must /\ may' = may
              /\ called(op') = [called(op) EXCEPT ![p] = "none"]
  <2>1. must[p] = {} /\ may[p] = {}
    BY <1>1, <1>12 DEF BoundsTrack
  <2>2. QED
    BY <1>2, <1>12, <2>1, SameMapSameTable DEF Return
<1>13. ASSUME NEW p \in Procs, NEW id, RevokePanic(p, id) \/ RevokeReturn(p)
       PROVE  Abstract!StoreNext
  <2>1. /\ op[p] = "Revoke" /\ Return(p)
        /\ UNCHANGED <<certs, heap, open, now>>
        /\ \/ Returns(p, FALSE, {})
           \/ pend[p] = {} /\ Returns(p, TRUE, {})
    BY <1>13 DEF RevokePanic, RevokeReturn
  <2>2. Abstract!RevokeErr(p) \/ Abstract!RevokeOk(p)
    BY <1>2, <1>12, <2>1
    DEF Return, Returns, Abstract!RevokeErr, Abstract!RevokeOk, Abstract!RevokeDone,
        Abstract!Returned
  <2>3. QED
    BY <2>2 DEF Abstract!StoreNext
<1>14. ASSUME NEW p \in Procs, ListReturn(p) PROVE Abstract!StoreNext
  <2>1. /\ op[p] = "List" /\ Return(p) /\ ret' = {}
        /\ UNCHANGED <<certs, heap, open, now>>
    BY <1>14 DEF ListReturn, NoReturn
  <2>2. pend' = pend
    BY <1>1, <1>2, <2>1 DEF Return, LocalsMatch
  <2>3. called(op') = called(op) /\ Table' = Table /\ must' = must /\ may' = may
    BY <1>2, <1>12, <2>1
  <2>4. QED
    BY <1>4, <2>1, <2>2, <2>3 DEF Abstract!StoreQuiet
<1>15. ASSUME NEW p \in Procs, GetRevokedReturn(p) PROVE Abstract!StoreNext
  <2>1. op[p] = "GetRevoked" /\ pend[p] = {} /\ todo[p] = {}
    BY <1>1, <1>15 DEF GetRevokedReturn, LocalsMatch
  <2>2. must[p] \subseteq acc[p] /\ acc[p] \subseteq may[p]
    BY <1>1, <1>15, <2>1 DEF GetRevokedReturn, LoopsGather
  <2>3. pend' = pend /\ Table' = Table
    BY <1>2, <1>15, <2>1, SameMapSameTable DEF GetRevokedReturn, Return
  <2>4. called(op') = [called(op) EXCEPT ![p] = "none"]
    BY <1>2, <1>15 DEF GetRevokedReturn, Return
  <2>5. Abstract!GetRevokedOk(p, acc[p])
    BY <1>15, <2>1, <2>2, <2>3, <2>4
    DEF GetRevokedReturn, Return, Returns, Abstract!GetRevokedOk, Abstract!GetRevokedDone,
        Abstract!Returned
  <2>6. QED
    BY <1>2, <2>5 DEF Abstract!StoreNext
<1>16. ASSUME NEW p \in Procs, Close(p) PROVE Abstract!StoreNext
  <2>1. Abstract!Observe
    BY <1>16, BoundsMapped DEF Close
  <2>2. Table' = EmptyTable
    BY <1>16, EmptyMapIsEmptyTable DEF Close
  <2>3. QED
    BY <1>3, <1>16, <2>1, <2>2, SameQuestions
    DEF Close, NoReturn, Abstract!Close, Abstract!StoreNext
<1>17. CASE Tick
  <2>1. Abstract!Observe
    BY <1>17, BoundsMapped DEF Tick
  <2>2. Table' = Table
    BY <1>17, SameMapSameTable DEF Tick
  <2>3. QED
    BY <1>17, <2>1, <2>2 DEF Tick, NoReturn, Abstract!StoreTick, Abstract!StoreNext
<1>18. CASE Restart
  <2>1. called(op') = [p \in Procs |-> "none"]
    BY <1>18 DEF Restart
  <2>2. Table' = EmptyTable
    BY <1>18, EmptyMapIsEmptyTable DEF Restart
  <2>3. QED
    BY <1>3, <1>18, <2>1, <2>2, SameQuestions
    DEF Restart, Empty, NoReturn, Abstract!StoreRestart, Abstract!NoIDs, Abstract!StoreNext
<1>19. CASE UNCHANGED vars
  <2>1. Table' = Table
    BY <1>19, SameMapSameTable DEF vars
  <2>2. QED
    BY <1>19, <2>1 DEF vars, Abstract!storeVars
<1>20. QED
  BY <1>5, <1>6, <1>7, <1>8, <1>9, <1>10, <1>11, <1>13, <1>14, <1>15, <1>16, <1>17, <1>18,
     <1>19
  DEF Next, Proceed

\* memoryStore implements CertStorer: although GetRevoked tests the flags after
\* it gave the mutex back, it names every record that was flagged before the
\* call, still in the map and not expired when it returns, and no record that
\* was not flagged at some moment of the call.
THEOREM MemImplements == Spec => ImplementsCertStorer
<1>1. Init => Abstract!StoreInit
  <2> SUFFICES ASSUME Init PROVE Abstract!StoreInit
    OBVIOUS
  <2>1. [p \in Procs |-> IF op[p] = "List" THEN "none" ELSE op[p]]
          = [p \in Procs |-> "none"]
    BY DEF Init
  <2>2. Table = EmptyTable
    BY DEF Init, Table, EmptyTable
  <2>3. QED
    BY <2>1, <2>2, SameQuestions DEF Init, Empty, Abstract!StoreInit, Abstract!NoIDs
<1>2. MemStoreInv /\ [Next]_vars => [Abstract!StoreNext]_(Abstract!storeVars)
  BY MemStepMapped
<1>3. QED
  BY <1>1, <1>2, MemInvariance, PTL DEF Spec, ImplementsCertStorer, Abstract!StoreSpec
=============================================================================
