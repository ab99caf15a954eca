--------------------------- MODULE SqlStoreProofs ---------------------------
(***************************************************************************)
(* sqlStore never reports what it did not do, never takes a row back, and  *)
(* implements CertStorer: for any number of goroutines, rows and restarts. *)
(***************************************************************************)
EXTENDS SqlStore, TLAPS

\* The table e has every row of d, with the same content but for flags set.
RowsStay(d, e) ==
    \A k \in Known(d) : /\ e[k] # Absent
                        /\ e[k] \in {d[k], [d[k] EXCEPT !.revoked = TRUE]}

\* An INSERT of a new key id adds its row and touches no other.
LEMMA InsertAddsRow ==
    ASSUME NEW d \in Tables, NEW k \in KeyIDs, NEW r \in Record, d[k] = Absent
    PROVE  /\ WithRecord(d, k, r) \in Tables
           /\ k \in Known(WithRecord(d, k, r))
           /\ RowsStay(d, WithRecord(d, k, r))
<1>1. /\ WithRecord(d, k, r) \in Tables
      /\ WithRecord(d, k, r)[k] = r
      /\ \A j \in KeyIDs \ {k} : WithRecord(d, k, r)[j] = d[j]
  BY DEF WithRecord, Tables
<1>2. r # Absent
  BY RecordAssumption
<1>3. QED
  BY <1>1, <1>2 DEF Known, RowsStay

\* An UPDATE flags the rows it finds and touches nothing else.
LEMMA UpdateSetsFlags ==
    ASSUME NEW d \in Tables, NEW s
    PROVE  WithFlags(d, s) \in Tables /\ RowsStay(d, WithFlags(d, s))
<1>1. \A k \in Known(d) : [d[k] EXCEPT !.revoked = TRUE] \in Record
  BY DEF Known, Tables, Record
<1>2. \A k \in KeyIDs : WithFlags(d, s)[k] =
          IF k \in s \cap Known(d) THEN [d[k] EXCEPT !.revoked = TRUE] ELSE d[k]
  BY DEF WithFlags
<1>3. WithFlags(d, s) \in Tables
  BY <1>1 DEF WithFlags, Tables, Known
<1>4. RowsStay(d, WithFlags(d, s))
  BY <1>1, <1>2, RecordAssumption DEF RowsStay, Known
<1>5. QED
  BY <1>3, <1>4

\* Rows that stay are still known, flagged and due.
LEMMA StayingRowsAreListed ==
    ASSUME NEW d \in Tables, NEW e \in Tables, RowsStay(d, e), NEW t
    PROVE  /\ Known(d) \subseteq Known(e)
           /\ Flagged(d) \subseteq Flagged(e)
           /\ Listed(d, t) \subseteq Listed(e, t)
<1>1. \A k \in Known(d) : /\ k \in Known(e)
                          /\ d[k] \in Record
                          /\ e[k] \in {d[k], [d[k] EXCEPT !.revoked = TRUE]}
  BY DEF RowsStay, Known, Tables
<1>2. \A k \in Known(d) : /\ e[k].expires = d[k].expires
                          /\ d[k].revoked => e[k].revoked
  BY <1>1 DEF Record
<1>3. QED
  BY <1>1, <1>2 DEF Flagged, Listed

\* A table keeps its own rows.
LEMMA SameRowsStay == \A d : RowsStay(d, d)
  BY DEF RowsStay, Known

-----------------------------------------------------------------------------
(***************************************************************************)
(* The inductive invariant, part by part.                                  *)
(***************************************************************************)
\* No statement takes a row away, replaces it or clears its flag.
LEMMA RowsStep ==
    ASSUME SqlTypeOK, LocalsMatch, [Next]_vars
    PROVE  rows' \in Tables /\ RowsStay(rows, rows')
<1>1. rows \in Tables
  BY DEF SqlTypeOK
<1>2. ASSUME rows' = rows PROVE rows' \in Tables /\ RowsStay(rows, rows')
  BY <1>1, <1>2, SameRowsStay
<1>3. ASSUME NEW p \in Procs, NEW k \in KeyIDs, Insert(p, k)
      PROVE  rows' \in Tables /\ RowsStay(rows, rows')
  <2>1. rec[p] \in Record
    BY <1>3 DEF LocalsMatch, Insert
  <2>2. QED
    BY <1>1, <1>3, <2>1, InsertAddsRow DEF Insert
<1>4. ASSUME NEW p \in Procs, Update(p)
      PROVE  rows' \in Tables /\ RowsStay(rows, rows')
  BY <1>1, <1>4, UpdateSetsFlags DEF Update
<1>5. ASSUME NEW p \in Procs, NEW k, NEW r, NEW s,
             \/ SetRecordCall(p, k, r) \/ RevokeCall(p, s) \/ GetRevokedCall(p)
             \/ Ping(p) \/ Fail(p) \/ Select(p) \/ Return(p)
      PROVE  rows' = rows
  BY <1>5 DEF SetRecordCall, RevokeCall, GetRevokedCall, Call, Ping, Fail, Select, Return
<1>6. ASSUME Close \/ Tick \/ Restart \/ UNCHANGED vars
      PROVE  rows' = rows
  BY <1>6 DEF Close, Tick, Restart, vars
<1>7. QED
  BY <1>2, <1>3, <1>4, <1>5, <1>6 DEF Next, Proceed

\* Every step keeps the variables in their types.
LEMMA TypeStep ==
    ASSUME SqlTypeOK, LocalsMatch, [Next]_vars
    PROVE  SqlTypeOK'
<1> USE DEF SqlTypeOK
<1>1. rows' \in Tables
  BY RowsStep
<1>2. \A d, t : Listed(d, t) \subseteq KeyIDs /\ Flagged(d) \subseteq KeyIDs
  BY DEF Listed, Flagged, Known
<1>3. Observe => /\ must' \in [Procs -> SUBSET KeyIDs]
                 /\ may' \in [Procs -> SUBSET KeyIDs]
  BY <1>2 DEF Observe
<1>4. ASSUME NEW p \in Procs, NEW k \in KeyIDs, NEW r \in Record, SetRecordCall(p, k, r)
      PROVE  SqlTypeOK'
  BY <1>1, <1>4 DEF SetRecordCall, Call
<1>5. ASSUME NEW p \in Procs, NEW s \in SUBSET KeyIDs, RevokeCall(p, s) PROVE SqlTypeOK'
  BY <1>1, <1>5 DEF RevokeCall, Call
<1>6. ASSUME NEW p \in Procs, GetRevokedCall(p) PROVE SqlTypeOK'
  BY <1>1, <1>2, <1>6 DEF GetRevokedCall, Call
<1>7. ASSUME NEW p \in Procs, Ping(p) PROVE SqlTypeOK'
  BY <1>1, <1>7 DEF Ping
<1>8. ASSUME NEW p \in Procs, NEW b \in BOOLEAN, Settled(p, b)
      PROVE  ret' \in SUBSET [proc : Procs, ok : BOOLEAN, ids : SUBSET KeyIDs]
  BY <1>8 DEF Settled, Returns
<1>9. ASSUME NEW p \in Procs, Fail(p) PROVE SqlTypeOK'
  BY <1>1, <1>8, <1>9 DEF Fail
<1>10. ASSUME NEW p \in Procs, Answer(p)
       PROVE  /\ pc' \in [Procs -> {"idle", "ping", "exec", "return", "error"}]
              /\ ret' \in SUBSET [proc : Procs, ok : BOOLEAN, ids : SUBSET KeyIDs]
  <2>1. PICK a \in {"return", "error"} :
           pc' = [pc EXCEPT ![p] = a] /\ Settled(p, a = "return")
    BY <1>10 DEF Answer
  <2>2. (a = "return") \in BOOLEAN
    OBVIOUS
  <2>3. QED
    BY <1>8, <2>1, <2>2
<1>11. ASSUME NEW p \in Procs, NEW k \in KeyIDs, Insert(p, k) PROVE SqlTypeOK'
  BY <1>1, <1>3, <1>10, <1>11 DEF Insert
<1>12. ASSUME NEW p \in Procs, Update(p) PROVE SqlTypeOK'
  BY <1>1, <1>3, <1>10, <1>12 DEF Update
<1>13. ASSUME NEW p \in Procs, Select(p) PROVE SqlTypeOK'
  BY <1>1, <1>2, <1>13 DEF Select, Selected
<1>14. ASSUME NEW p \in Procs, Return(p) PROVE SqlTypeOK'
  <2>1. ret' \in SUBSET [proc : Procs, ok : BOOLEAN, ids : SUBSET KeyIDs]
    BY <1>14 DEF Return, Returns
  <2>2. Start \in Start .. MaxTime
    BY SqlTimeAssumption
  <2>3. QED
    BY <1>1, <1>14, <2>1, <2>2 DEF Return
<1>15. CASE Close
  BY <1>1, <1>15 DEF Close
<1>16. CASE Tick
  <2>1. now' \in Start .. MaxTime
    BY <1>16, SqlTimeAssumption DEF Tick
  <2>2. QED
    BY <1>1, <1>3, <1>16, <2>1 DEF Tick
<1>17. CASE Restart
  <2>1. Start \in Start .. MaxTime
    BY SqlTimeAssumption
  <2>2. QED
    BY <1>1, <1>17, <2>1 DEF Restart, Empty
<1>18. CASE UNCHANGED vars
  BY <1>18 DEF vars
<1>19. QED
  BY <1>4, <1>5, <1>6, <1>7, <1>9, <1>11, <1>12, <1>13, <1>14, <1>15, <1>16, <1>17, <1>18
  DEF Next, Proceed

\* A method keeps the arguments of its call until it returns.
LEMMA LocalsStep ==
    ASSUME SqlTypeOK, LocalsMatch, [Next]_vars
    PROVE  LocalsMatch'
<1> USE DEF LocalsMatch
<1>1. /\ op \in [Procs -> {"none", "SetRecord", "Revoke", "GetRevoked"}]
      /\ pc \in [Procs -> {"idle", "ping", "exec", "return", "error"}]
      /\ rec \in [Procs -> Record \cup {Absent}]
      /\ ids \in [Procs -> SUBSET KeyIDs] /\ res \in [Procs -> SUBSET KeyIDs]
      /\ pend \in [Procs -> SUBSET KeyIDs]
  BY DEF SqlTypeOK
<1>2. ASSUME NEW p \in Procs, NEW k \in KeyIDs, NEW r \in Record,
             ~r.revoked, SetRecordCall(p, k, r)
      PROVE  LocalsMatch'
  BY <1>1, <1>2 DEF SetRecordCall, Call
<1>3. ASSUME NEW p \in Procs, NEW s \in SUBSET KeyIDs, RevokeCall(p, s) PROVE LocalsMatch'
  BY <1>1, <1>3 DEF RevokeCall, Call
<1>4. ASSUME NEW p \in Procs, GetRevokedCall(p) PROVE LocalsMatch'
  BY <1>1, <1>4 DEF GetRevokedCall, Call
<1>5. ASSUME NEW p \in Procs, Ping(p) PROVE LocalsMatch'
  BY <1>1, <1>5 DEF Ping
<1>6. ASSUME NEW p \in Procs, Fail(p) PROVE LocalsMatch'
  BY <1>1, <1>6 DEF Fail
<1>7. ASSUME NEW p \in Procs, NEW k \in KeyIDs, Insert(p, k) PROVE LocalsMatch'
  BY <1>1, <1>7 DEF Insert, Answer
<1>8. ASSUME NEW p \in Procs, Update(p) PROVE LocalsMatch'
  BY <1>1, <1>8 DEF Update, Answer
<1>9. ASSUME NEW p \in Procs, Select(p) PROVE LocalsMatch'
  BY <1>1, <1>9 DEF Select
<1>10. ASSUME NEW p \in Procs, Return(p) PROVE LocalsMatch'
  BY <1>1, <1>10 DEF Return
<1>11. CASE Close \/ Tick
  BY <1>11 DEF Close, Tick
<1>12. CASE Restart
  BY <1>12 DEF Restart, Empty
<1>13. CASE UNCHANGED vars
  BY <1>13 DEF vars
<1>14. QED
  BY <1>2, <1>3, <1>4, <1>5, <1>6, <1>7, <1>8, <1>9, <1>10, <1>11, <1>12, <1>13
  DEF Next, Proceed

\* What a method is going to report done stays done.
LEMMA DoneStep ==
    ASSUME SqlTypeOK, LocalsMatch, DoneIsDone, [Next]_vars
    PROVE  DoneIsDone'
<1> USE DEF DoneIsDone
<1>1. /\ op \in [Procs -> {"none", "SetRecord", "Revoke", "GetRevoked"}]
      /\ pc \in [Procs -> {"idle", "ping", "exec", "return", "error"}]
      /\ rec \in [Procs -> Record \cup {Absent}]
      /\ ids \in [Procs -> SUBSET KeyIDs] /\ res \in [Procs -> SUBSET KeyIDs]
      /\ pend \in [Procs -> SUBSET KeyIDs]
  BY DEF SqlTypeOK
<1>2. Known(rows) \subseteq Known(rows') /\ Flagged(rows) \subseteq Flagged(rows')
  BY RowsStep, StayingRowsAreListed DEF SqlTypeOK
<1>3. ASSUME NEW p \in Procs, NEW k, NEW r, SetRecordCall(p, k, r) PROVE DoneIsDone'
  BY <1>1, <1>2, <1>3 DEF SetRecordCall, Call
<1>4. ASSUME NEW p \in Procs, NEW s, RevokeCall(p, s) PROVE DoneIsDone'
  BY <1>1, <1>2, <1>4 DEF RevokeCall, Call
<1>5. ASSUME NEW p \in Procs, GetRevokedCall(p) PROVE DoneIsDone'
  BY <1>1, <1>2, <1>5 DEF GetRevokedCall, Call
<1>6. ASSUME NEW p \in Procs, Ping(p) \/ Fail(p) PROVE DoneIsDone'
  BY <1>1, <1>2, <1>6 DEF Ping, Fail
<1>7. ASSUME NEW p \in Procs, NEW k \in KeyIDs, Insert(p, k) PROVE DoneIsDone'
  <2>1. rec[p] \in Record /\ ids[p] = {k}
    BY <1>7 DEF LocalsMatch, Insert
  <2>2. k \in Known(rows')
    BY <1>7, <2>1, InsertAddsRow DEF SqlTypeOK, Insert
  <2>3. QED
    BY <1>1, <1>2, <1>7, <2>1, <2>2 DEF Insert, Answer
<1>8. ASSUME NEW p \in Procs, Update(p) PROVE DoneIsDone'
  BY <1>1, <1>2, <1>8 DEF Update, Answer
<1>9. ASSUME NEW p \in Procs, Select(p) PROVE DoneIsDone'
  BY <1>1, <1>2, <1>9 DEF Select, Selected
<1>10. ASSUME NEW p \in Procs, Return(p) PROVE DoneIsDone'
  BY <1>1, <1>2, <1>10 DEF Return
<1>11. CASE Close \/ Tick
  BY <1>2, <1>11 DEF Close, Tick
<1>12. CASE Restart
  BY <1>12 DEF Restart
<1>13. CASE UNCHANGED vars
  BY <1>13 DEF vars
<1>14. QED
  BY <1>3, <1>4, <1>5, <1>6, <1>7, <1>8, <1>9, <1>10, <1>11, <1>12, <1>13
  DEF Next, Proceed

\* The bounds of the GetRevoked calls in progress follow the table.
LEMMA BoundsStep ==
    ASSUME SqlTypeOK, LocalsMatch, BoundsTrack, [Next]_vars
    PROVE  BoundsTrack'
<1> USE DEF BoundsTrack
<1>1. /\ op \in [Procs -> {"none", "SetRecord", "Revoke", "GetRevoked"}]
      /\ must \in [Procs -> SUBSET KeyIDs] /\ may \in [Procs -> SUBSET KeyIDs]
      /\ at \in [Procs -> Start .. MaxTime]
      /\ now \in Start .. MaxTime /\ Start \in Nat /\ MaxTime \in Nat
      /\ now' \in Int
  BY SqlTimeAssumption, TypeStep DEF SqlTypeOK
<1>2. ASSUME Observe, op' = op, at' = at, now <= now' PROVE BoundsTrack'
  <2>1. \A p \in Procs : at[p] <= now'
    BY <1>1, <1>2
  <2>2. QED
    BY <1>1, <1>2, <2>1 DEF Observe
<1>3. ASSUME NEW p \in Procs, NEW k, NEW r, SetRecordCall(p, k, r) PROVE BoundsTrack'
  BY <1>1, <1>3 DEF SetRecordCall, Call, LocalsMatch
<1>4. ASSUME NEW p \in Procs, NEW s, RevokeCall(p, s) PROVE BoundsTrack'
  BY <1>1, <1>4 DEF RevokeCall, Call, LocalsMatch
<1>5. ASSUME NEW p \in Procs, GetRevokedCall(p) PROVE BoundsTrack'
  BY <1>1, <1>5 DEF GetRevokedCall, Call
<1>6. ASSUME NEW p \in Procs, Ping(p) PROVE BoundsTrack'
  BY <1>1, <1>6 DEF Ping
<1>7. ASSUME NEW p \in Procs, Fail(p) \/ Select(p) PROVE BoundsTrack'
  BY <1>7 DEF Fail, Select
<1>8. ASSUME NEW p \in Procs, NEW k, Insert(p, k) PROVE BoundsTrack'
  BY <1>1, <1>2, <1>8 DEF Insert
<1>9. ASSUME NEW p \in Procs, Update(p) PROVE BoundsTrack'
  BY <1>1, <1>2, <1>9 DEF Update
<1>10. ASSUME NEW p \in Procs, Return(p) PROVE BoundsTrack'
  BY <1>1, <1>10 DEF Return
<1>11. CASE Close
  BY <1>11 DEF Close
<1>12. CASE Tick
  BY <1>1, <1>2, <1>12 DEF Tick
<1>13. CASE Restart
  BY <1>1, <1>13 DEF Restart, Empty
<1>14. CASE UNCHANGED vars
  BY <1>14 DEF vars
<1>15. QED
  BY <1>3, <1>4, <1>5, <1>6, <1>7, <1>8, <1>9, <1>10, <1>11, <1>12, <1>13, <1>14
  DEF Next, Proceed

LEMMA InitInv == Init => SqlStoreInv
<1> SUFFICES ASSUME Init PROVE SqlStoreInv
  OBVIOUS
<1>1. rows \in Tables
  BY DEF Init, EmptyTable, Tables
<1>2. SqlTypeOK
  BY <1>1, SqlTimeAssumption DEF Init, SqlTypeOK, Empty
<1>3. DoneIsDone
  BY DEF Init, DoneIsDone
<1>4. LocalsMatch
  BY DEF Init, LocalsMatch, Empty
<1>5. Flagged(rows) = {}
  BY DEF Init, EmptyTable, Flagged, Known
<1>6. BoundsTrack
  BY <1>5, SqlTimeAssumption DEF Init, BoundsTrack, Empty
<1>7. QED
  BY <1>2, <1>3, <1>4, <1>6 DEF SqlStoreInv

\* A method never reports success for what it did not do, however pings and
\* statements of any number of goroutines interleave and fail.
THEOREM SqlInvariance == Spec => []SqlStoreInv
<1>1. Init => SqlStoreInv
  BY InitInv
<1>2. SqlStoreInv /\ [Next]_vars => SqlStoreInv'
  BY TypeStep, DoneStep, LocalsStep, BoundsStep DEF SqlStoreInv
<1>3. QED
  BY <1>1, <1>2, PTL DEF Spec

\* Rows of issued_certs are never removed, replaced or unflagged: not by a
\* second INSERT, a failing statement, a restart or Close.
THEOREM AuditRows == Spec => AuditRowsStay
<1>1. SqlStoreInv /\ [Next]_vars
        => [\A k \in Known(rows) :
              /\ rows'[k] # Absent
              /\ rows'[k] \in {rows[k], [rows[k] EXCEPT !.revoked = TRUE]}]_vars
  BY RowsStep DEF SqlStoreInv, RowsStay
<1>2. QED
  BY <1>1, SqlInvariance, PTL DEF Spec, AuditRowsStay

-----------------------------------------------------------------------------
(***************************************************************************)
(* GetRevoked.  The texts SQLite compares are those of local times, which  *)
(* lie ahead of UTC east of Greenwich: then nothing is missed.             *)
(***************************************************************************)
NotWest == Type = "sqlite" => Zone >= 0

\* A query selects every row that is due at the moment it is carried out.
LEMMA SelectsListed ==
    ASSUME NotWest, SqlStoreInv, NEW p \in Procs
    PROVE  Listed(rows, now) \subseteq Selected(p)
<1> SUFFICES ASSUME NEW k \in Flagged(rows), rows[k].expires >= now
             PROVE  at[p] <= ExpiresAt(k)
  BY DEF Listed, Selected
<1>1. rows[k] \in Record
  BY DEF SqlStoreInv, SqlTypeOK, Tables, Flagged, Known
<1>2. rows[k].expires \in Int
  BY <1>1, RecordAssumption DEF Record
<1>3. at[p] \in Int /\ now \in Int /\ at[p] <= now
  BY SqlTimeAssumption DEF SqlStoreInv, SqlTypeOK, BoundsTrack
<1>4. CASE Type = "sqlite"
  BY <1>2, <1>3, <1>4, SqlTypeAssumption DEF ExpiresAt, NotWest
<1>5. CASE Type # "sqlite"
  BY <1>2, <1>3, <1>5 DEF ExpiresAt
<1>6. QED
  BY <1>4, <1>5

\* A GetRevoked with its rows read owes nothing it does not have.
LEMMA ReturnsAllStep ==
    ASSUME NotWest, SqlStoreInv, GetRevokedReturnsAll, [Next]_vars
    PROVE  GetRevokedReturnsAll'
<1> USE DEF GetRevokedReturnsAll
<1>1. /\ op \in [Procs -> {"none", "SetRecord", "Revoke", "GetRevoked"}]
      /\ pc \in [Procs -> {"idle", "ping", "exec", "return", "error"}]
      /\ res \in [Procs -> SUBSET KeyIDs] /\ must \in [Procs -> SUBSET KeyIDs]
  BY DEF SqlStoreInv, SqlTypeOK
<1>2. ASSUME NEW p \in Procs, NEW k, NEW r, SetRecordCall(p, k, r) PROVE GetRevokedReturnsAll'
  BY <1>1, <1>2 DEF SetRecordCall, Call
<1>3. ASSUME NEW p \in Procs, NEW s, RevokeCall(p, s) PROVE GetRevokedReturnsAll'
  BY <1>1, <1>3 DEF RevokeCall, Call
<1>4. ASSUME NEW p \in Procs, GetRevokedCall(p) PROVE GetRevokedReturnsAll'
  BY <1>1, <1>4 DEF GetRevokedCall, Call
<1>5. ASSUME NEW p \in Procs, Ping(p) \/ Fail(p) PROVE GetRevokedReturnsAll'
  BY <1>1, <1>5 DEF Ping, Fail
<1>6. ASSUME NEW p \in Procs, NEW k, Insert(p, k) PROVE GetRevokedReturnsAll'
  BY <1>1, <1>6 DEF Insert, Answer, Observe
<1>7. ASSUME NEW p \in Procs, Update(p) PROVE GetRevokedReturnsAll'
  BY <1>1, <1>7 DEF Update, Answer, Observe
<1>8. ASSUME NEW p \in Procs, Select(p) PROVE GetRevokedReturnsAll'
  <2>1. must[p] \subseteq Selected(p)
    BY SelectsListed DEF SqlStoreInv, BoundsTrack
  <2>2. QED
    BY <1>1, <1>8, <2>1 DEF Select
<1>9. ASSUME NEW p \in Procs, Return(p) PROVE GetRevokedReturnsAll'
  BY <1>1, <1>9 DEF Return
<1>10. CASE Close
  BY <1>10 DEF Close
<1>11. CASE Tick
  BY <1>1, <1>11 DEF Tick, Observe
<1>12. CASE Restart
  BY <1>12 DEF Restart
<1>13. CASE UNCHANGED vars
  BY <1>13 DEF vars
<1>14. QED
  BY <1>2, <1>3, <1>4, <1>5, <1>6, <1>7, <1>8, <1>9, <1>10, <1>11, <1>12, <1>13
  DEF Next, Proceed

\* "GetRevoked returns all revoked certs" with MySQL, and with SQLite on a
\* server that is not west of UTC.
THEOREM RevokedReturned ==
    ASSUME NotWest
    PROVE  Spec => []GetRevokedReturnsAll
<1>1. Init => GetRevokedReturnsAll
  BY DEF Init, GetRevokedReturnsAll
<1>2. SqlStoreInv /\ GetRevokedReturnsAll /\ [Next]_vars => GetRevokedReturnsAll'
  BY ReturnsAllStep
<1>3. QED
  BY <1>1, <1>2, SqlInvariance, PTL DEF Spec

-----------------------------------------------------------------------------
(***************************************************************************)
(* The refinement: every step is a step of CertStorer.                     *)
(***************************************************************************)
\* The abstract specification asks the same questions of the table.
LEMMA SameQuestions ==
    /\ Abstract!Record = Record
    /\ Abstract!EmptyTable = EmptyTable
    /\ \A d : Abstract!Known(d) = Known(d)
    /\ \A d : Abstract!Flagged(d) = Flagged(d)
    /\ \A d, t : Abstract!Listed(d, t) = Listed(d, t)
    /\ \A d, k, r : Abstract!WithRecord(d, k, r) = WithRecord(d, k, r)
    /\ \A d, s : Abstract!WithFlags(d, s) = WithFlags(d, s)
<1>1. Abstract!Record = Record
  BY DEF Abstract!Record, Record
<1>2. Abstract!EmptyTable = EmptyTable
  BY DEF Abstract!EmptyTable, EmptyTable
<1>3. \A d : Abstract!Known(d) = Known(d)
  BY DEF Abstract!Known, Known
<1>4. \A d : Abstract!Flagged(d) = Flagged(d)
  BY <1>3 DEF Abstract!Flagged, Flagged
<1>5. \A d, t : Abstract!Listed(d, t) = Listed(d, t)
  BY <1>4 DEF Abstract!Listed, Listed
<1>6. \A d, k, r : Abstract!WithRecord(d, k, r) = WithRecord(d, k, r)
  BY DEF Abstract!WithRecord, WithRecord
<1>7. \A d, s : Abstract!WithFlags(d, s) = WithFlags(d, s)
  BY <1>3 DEF Abstract!WithFlags, WithFlags
<1>8. QED
  BY <1>1, <1>2, <1>3, <1>4, <1>5, <1>6, <1>7

\* The history variables move as the abstract bounds do.
LEMMA BoundsMapped ==
    ASSUME SqlStoreInv,
           \/ Observe
           \/ UNCHANGED <<rows, now, must, may>>
    PROVE  Abstract!Observe
<1>1. must \in [Procs -> SUBSET KeyIDs] /\ may \in [Procs -> SUBSET KeyIDs]
  BY DEF SqlStoreInv, SqlTypeOK
<1>2. CASE Observe
  BY <1>2, SameQuestions DEF Observe, Abstract!Observe
<1>3. CASE UNCHANGED <<rows, now, must, may>>
  <2>1. must = [p \in Procs |-> must[p] \cap Listed(rows', now')]
    BY <1>1, <1>3 DEF SqlStoreInv, BoundsTrack
  <2>2. may = [p \in Procs |-> IF op[p] = "GetRevoked"
                               THEN may[p] \cup Flagged(rows') ELSE may[p]]
    BY <1>1, <1>3 DEF SqlStoreInv, BoundsTrack
  <2>3. QED
    BY <1>3, <2>1, <2>2, SameQuestions DEF Abstract!Observe
<1>4. QED
  BY <1>2, <1>3

\* Every step of sqlStore is one of the store its callers are promised.
LEMMA SqlStepMapped ==
    ASSUME NotWest, SqlStoreInv, GetRevokedReturnsAll, [Next]_vars
    PROVE  [Abstract!StoreNext]_(Abstract!storeVars)
<1> DEFINE called(f) == [p \in Procs |-> IF f[p] = "SetRecord" THEN "none" ELSE f[p]]
<1>1. SqlTypeOK /\ DoneIsDone /\ LocalsMatch /\ BoundsTrack
  BY DEF SqlStoreInv
<1>2. /\ op \in [Procs -> {"none", "SetRecord", "Revoke", "GetRevoked"}]
      /\ pc \in [Procs -> {"idle", "ping", "exec", "return", "error"}]
      /\ ids \in [Procs -> SUBSET KeyIDs] /\ res \in [Procs -> SUBSET KeyIDs]
      /\ pend \in [Procs -> SUBSET KeyIDs]
      /\ must \in [Procs -> SUBSET KeyIDs] /\ may \in [Procs -> SUBSET KeyIDs]
  BY <1>1 DEF SqlTypeOK
<1>3. ~Abstract!InMemory
  BY SqlTypeAssumption DEF Abstract!InMemory
<1>4. ASSUME NEW p \in Procs, NEW k, NEW r, SetRecordCall(p, k, r)
      PROVE  Abstract!StoreQuiet
  <2>1. called(op') = called(op)
    BY <1>1, <1>2, <1>4 DEF SetRecordCall, Call, LocalsMatch
  <2>2. QED
    BY <1>4, <2>1 DEF SetRecordCall, Call, Abstract!StoreQuiet
<1>5. ASSUME NEW p \in Procs, NEW s \in SUBSET KeyIDs, RevokeCall(p, s)
      PROVE  Abstract!RevokeCall(p, s)
  BY <1>1, <1>2, <1>5 DEF RevokeCall, Call, LocalsMatch, Abstract!RevokeCall
<1>6. ASSUME NEW p \in Procs, GetRevokedCall(p)
      PROVE  Abstract!GetRevokedCall(p)
  BY <1>1, <1>2, <1>6, SameQuestions
  DEF GetRevokedCall, Call, LocalsMatch, Abstract!GetRevokedCall
<1>7. ASSUME NEW p \in Procs, Ping(p) \/ Select(p)
      PROVE  Abstract!StoreQuiet
  BY <1>7 DEF Ping, Select, Abstract!StoreQuiet
<1>8. ASSUME NEW p \in Procs, Fail(p)
      PROVE  \/ Abstract!StoreQuiet
             \/ \E k \in KeyIDs, r \in Record : ~r.revoked /\ Abstract!SetRecordErr(p, k, r)
  <2>1. CASE op[p] # "SetRecord"
    BY <1>8, <2>1 DEF Fail, Settled, Abstract!StoreQuiet
  <2>2. CASE op[p] = "SetRecord"
    <3>1. PICK k \in KeyIDs : ids[p] = {k}
      BY <1>1, <2>2 DEF LocalsMatch
    <3>2. Abstract!Observe
      BY <1>8, BoundsMapped DEF Fail
    <3>3. Abstract!SetRecordErr(p, k, rec[p])
      BY <1>3, <1>8, <2>2, <3>2
      DEF Fail, Settled, Returns, Abstract!SetRecordErr, Abstract!Returned
    <3>4. QED
      BY <1>1, <2>2, <3>3 DEF LocalsMatch
  <2>3. QED
    BY <2>1, <2>2
<1>9. ASSUME NEW p \in Procs, NEW k \in KeyIDs, Insert(p, k)
      PROVE  \E r \in Record : /\ ~r.revoked
                               /\ Abstract!SetRecordOk(p, k, r) \/ Abstract!SetRecordErr(p, k, r)
  <2>1. rec[p] \in Record /\ ~rec[p].revoked
    BY <1>1, <1>9 DEF LocalsMatch, Insert
  <2>2. Abstract!Observe
    BY <1>9, BoundsMapped DEF Insert
  <2>3. ret' \in {Returns(p, TRUE, {}), Returns(p, FALSE, {})}
    BY <1>9 DEF Insert, Answer, Settled
  <2>4. Abstract!SetRecordOk(p, k, rec[p]) \/ Abstract!SetRecordErr(p, k, rec[p])
    BY <1>3, <1>9, <2>2, <2>3, SameQuestions
    DEF Insert, Returns, Abstract!SetRecordOk, Abstract!SetRecordErr, Abstract!Returned
  <2>5. QED
    BY <2>1, <2>4
<1>10. ASSUME NEW p \in Procs, Update(p)
       PROVE  Abstract!RevokeFlag(p, ids[p])
  <2>1. pend[p] = ids[p] /\ ids[p] # {}
    BY <1>1, <1>10 DEF LocalsMatch, Update
  <2>2. Abstract!Observe
    BY <1>10, BoundsMapped DEF Update
  <2>3. ret' = {}
    BY <1>10 DEF Update, Answer, Settled
  <2>4. pend' = [pend EXCEPT ![p] = @ \ ids[p]]
    BY <1>2, <1>10, <2>1 DEF Update
  <2>5. QED
    BY <1>10, <2>1, <2>2, <2>3, <2>4, SameQuestions DEF Update, Abstract!RevokeFlag
<1>11. ASSUME NEW p \in Procs, Return(p), op[p] = "SetRecord"
       PROVE  Abstract!StoreQuiet
  <2>1. called(op') = called(op)
    BY <1>2, <1>11 DEF Return
  <2>2. pend' = pend /\ must' = must /\ may' = may
    BY <1>1, <1>2, <1>11 DEF Return, LocalsMatch, BoundsTrack
  <2>3. QED
    BY <1>11, <2>1, <2>2 DEF Return, Abstract!StoreQuiet
<1>12. ASSUME NEW p \in Procs, Return(p), op[p] = "Revoke"
       PROVE  Abstract!RevokeOk(p) \/ Abstract!RevokeErr(p)
  <2>1. must' = must /\ may' = may /\ res[p] = {}
    BY <1>1, <1>2, <1>12 DEF Return, LocalsMatch, BoundsTrack
  <2>2. pc[p] = "return" => pend[p] = {}
    BY <1>1, <1>12 DEF DoneIsDone
  <2>3. QED
    BY <1>2, <1>12, <2>1, <2>2
    DEF Return, Returns, Abstract!RevokeOk, Abstract!RevokeErr, Abstract!RevokeDone,
        Abstract!Returned
<1>13. ASSUME NEW p \in Procs, Return(p), op[p] = "GetRevoked"
       PROVE  Abstract!GetRevokedOk(p, res[p]) \/ Abstract!GetRevokedErr(p)
  <2>1. pend' = pend
    BY <1>1, <1>2, <1>13 DEF Return, LocalsMatch
  <2>2. Abstract!GetRevokedDone(p)
    BY <1>2, <1>13, <2>1 DEF Return, Abstract!GetRevokedDone
  <2>3. pc[p] = "error" => res[p] = {}
    BY <1>1 DEF LocalsMatch
  <2>4. pc[p] = "return" => must[p] \subseteq res[p] /\ res[p] \subseteq may[p]
    BY <1>1, <1>13 DEF DoneIsDone, BoundsTrack, GetRevokedReturnsAll
  <2>5. QED
    BY <1>3, <1>13, <2>2, <2>3, <2>4
    DEF Return, Returns, Abstract!GetRevokedOk, Abstract!GetRevokedErr, Abstract!Returned
<1>14. ASSUME NEW p \in Procs, Return(p) PROVE op[p] # "none"
  BY <1>1, <1>2, <1>14 DEF Return, LocalsMatch
<1>15. CASE Close
  <2>1. Abstract!Observe
    BY <1>15, BoundsMapped DEF Close
  <2>2. QED
    BY <1>3, <1>15, <2>1 DEF Close, Abstract!Close, Abstract!StoreNext
<1>16. CASE Tick
  <2>1. Abstract!Observe
    BY <1>16, BoundsMapped DEF Tick
  <2>2. QED
    BY <1>16, <2>1 DEF Tick, Abstract!StoreTick, Abstract!StoreNext
<1>17. CASE Restart
  <2>1. called(op') = [p \in Procs |-> "none"]
    BY <1>17 DEF Restart
  <2>2. QED
    BY <1>3, <1>17, <2>1
    DEF Restart, Empty, Abstract!StoreRestart, Abstract!NoIDs, Abstract!StoreNext
<1>18. CASE UNCHANGED vars
  BY <1>18 DEF vars, Abstract!storeVars
<1>19. ASSUME NEW p \in Procs, Return(p) PROVE Abstract!StoreNext
  BY <1>2, <1>11, <1>12, <1>13, <1>14, <1>19 DEF Abstract!StoreNext
<1>20. ASSUME NEW p \in Procs, Fail(p) \/ (\E k \in KeyIDs : Insert(p, k))
       PROVE  Abstract!StoreNext
  BY <1>8, <1>9, <1>20, SameQuestions DEF Abstract!StoreNext
<1>21. ASSUME NEW p \in Procs, Update(p) PROVE Abstract!StoreNext
  BY <1>2, <1>10, <1>21 DEF Abstract!StoreNext
<1>22. ASSUME NEW p \in Procs, NEW s \in SUBSET KeyIDs,
              RevokeCall(p, s) \/ GetRevokedCall(p)
       PROVE  Abstract!StoreNext
  BY <1>5, <1>6, <1>22 DEF Abstract!StoreNext
<1>23. ASSUME Abstract!StoreQuiet PROVE Abstract!StoreNext
  BY <1>23 DEF Abstract!StoreNext
<1>24. QED
  BY <1>4, <1>7, <1>15, <1>16, <1>17, <1>18, <1>19, <1>20, <1>21, <1>22, <1>23
  DEF Next, Proceed

\* sqlStore implements CertStorer, with MySQL and with SQLite on a server that
\* is not west of UTC: whatever fails, a Revoke that returned without an error
\* has flagged its ids, and a GetRevoked that started later names them.
THEOREM SqlImplements ==
    ASSUME NotWest
    PROVE  Spec => ImplementsCertStorer
<1>1. Init => Abstract!StoreInit
  <2> SUFFICES ASSUME Init PROVE Abstract!StoreInit
    OBVIOUS
  <2>1. [p \in Procs |-> IF op[p] = "SetRecord" THEN "none" ELSE op[p]]
          = [p \in Procs |-> "none"]
    BY DEF Init
  <2>2. QED
    BY <2>1, SameQuestions DEF Init, Empty, Abstract!StoreInit, Abstract!NoIDs
<1>2. SqlStoreInv /\ GetRevokedReturnsAll /\ [Next]_vars
        => [Abstract!StoreNext]_(Abstract!storeVars)
  BY SqlStepMapped
<1>3. QED
  BY <1>1, <1>2, SqlInvariance, RevokedReturned, PTL
  DEF Spec, ImplementsCertStorer, Abstract!StoreSpec
=============================================================================
