------------------------------ MODULE CAProofs ------------------------------
(***************************************************************************)
(* A revocation the certificate authority has reported done holds, and     *)
(* every revocation list names what it owes: for any store, any number of  *)
(* handlers, certificates, users and tokens, and any clock.                *)
(***************************************************************************)
EXTENDS CA, TLAPS

-----------------------------------------------------------------------------
(***************************************************************************)
(* What holds of every implementation of CertStorer, for any number of     *)
(* goroutines, key ids and records.                                        *)
(***************************************************************************)
\* The table operations keep the table a table.
LEMMA TablesClosed ==
    ASSUME NEW d \in Tables
    PROVE  /\ EmptyTable \in Tables
           /\ \A k \in KeyIDs, rec \in Record : WithRecord(d, k, rec) \in Tables
           /\ \A ids : WithFlags(d, ids) \in Tables
<1>1. EmptyTable \in Tables
  BY DEF EmptyTable, Tables
<1>2. \A k \in KeyIDs, rec \in Record : WithRecord(d, k, rec) \in Tables
  BY DEF WithRecord, Tables
<1>3. ASSUME NEW ids PROVE WithFlags(d, ids) \in Tables
  <2>1. \A k \in Known(d) : [d[k] EXCEPT !.revoked = TRUE] \in Record
    BY DEF Known, Tables, Record
  <2>2. QED
    BY <2>1 DEF WithFlags, Tables, Known
<1>4. QED
  BY <1>1, <1>2, <1>3

\* An UPDATE flags the ids it finds and takes no flag away; a record stored
\* under a key id that had none changes no other.
LEMMA FlagsGrow ==
    ASSUME NEW d \in Tables
    PROVE  /\ \A ids : /\ Known(WithFlags(d, ids)) = Known(d)
                       /\ Flagged(WithFlags(d, ids)) = Flagged(d) \cup (ids \cap Known(d))
           /\ \A k \in KeyIDs, rec \in Record :
                 d[k] = Absent => Flagged(d) \subseteq Flagged(WithRecord(d, k, rec))
<1>1. ASSUME NEW ids
      PROVE  /\ Known(WithFlags(d, ids)) = Known(d)
             /\ Flagged(WithFlags(d, ids)) = Flagged(d) \cup (ids \cap Known(d))
  <2>1. \A k \in Known(d) : /\ d[k] \in Record
                            /\ [d[k] EXCEPT !.revoked = TRUE] \in Record
                            /\ [d[k] EXCEPT !.revoked = TRUE].revoked = TRUE
    BY DEF Known, Tables, Record
  <2>2. \A k \in KeyIDs : WithFlags(d, ids)[k] =
              IF k \in ids \cap Known(d) THEN [d[k] EXCEPT !.revoked = TRUE] ELSE d[k]
    BY DEF WithFlags
  <2>3. Known(WithFlags(d, ids)) = Known(d)
    BY <2>1, <2>2, RecordAssumption DEF Known
  <2>4. QED
    BY <2>1, <2>2, <2>3 DEF Flagged, Known
<1>2. ASSUME NEW k \in KeyIDs, NEW rec \in Record, d[k] = Absent
      PROVE  Flagged(d) \subseteq Flagged(WithRecord(d, k, rec))
  BY <1>2 DEF Flagged, Known, WithRecord, Tables
<1>3. QED
  BY <1>1, <1>2

\* What must be named is flagged.
LEMMA ListedFlagged == \A d, t : Listed(d, t) \subseteq Flagged(d) /\ Flagged(d) \subseteq KeyIDs
  BY DEF Listed, Flagged, Known

-----------------------------------------------------------------------------
(***************************************************************************)
(* Type correctness and the bounds of GetRevoked.                          *)
(***************************************************************************)
\* A step that moves the bounds keeps them sets of key ids, and keeps what
\* must be named within what may be.
LEMMA ObserveKeepsBounds ==
    ASSUME StoreTypeOK, BoundsMeet, Observe
    PROVE  /\ must' \in [Procs -> SUBSET KeyIDs]
           /\ may' \in [Procs -> SUBSET KeyIDs]
           /\ BoundsMeet'
  BY ListedFlagged DEF StoreTypeOK, BoundsMeet, Observe

\* Every step of a store keeps its types and its bounds.
LEMMA StoreStep ==
    ASSUME StoreTypeOK, BoundsMeet, [StoreNext]_storeVars
    PROVE  StoreTypeOK' /\ BoundsMeet'
<1> USE DEF Returns, Returned, NoIDs
<1>1. ASSUME NEW p \in Procs, NEW k \in KeyIDs, NEW rec \in Record, SetRecordOk(p, k, rec)
      PROVE  StoreTypeOK' /\ BoundsMeet'
  <2>1. db' \in Tables
    BY <1>1, TablesClosed DEF StoreTypeOK, SetRecordOk
  <2>2. QED
    BY <1>1, <2>1, ObserveKeepsBounds DEF StoreTypeOK, SetRecordOk
<1>2. ASSUME NEW p \in Procs, NEW k \in KeyIDs, NEW rec \in Record, SetRecordErr(p, k, rec)
      PROVE  StoreTypeOK' /\ BoundsMeet'
  <2>1. db' \in Tables
    BY <1>2, TablesClosed DEF StoreTypeOK, SetRecordErr
  <2>2. QED
    BY <1>2, <2>1, ObserveKeepsBounds DEF StoreTypeOK, SetRecordErr
<1>3. ASSUME NEW p \in Procs, NEW ids \in SUBSET KeyIDs, RevokeCall(p, ids)
      PROVE  StoreTypeOK' /\ BoundsMeet'
  BY <1>3 DEF StoreTypeOK, BoundsMeet, RevokeCall
<1>4. ASSUME NEW p \in Procs, NEW ids \in SUBSET KeyIDs, RevokeFlag(p, ids)
      PROVE  StoreTypeOK' /\ BoundsMeet'
  <2>1. db' \in Tables
    BY <1>4, TablesClosed DEF StoreTypeOK, RevokeFlag
  <2>2. QED
    BY <1>4, <2>1, ObserveKeepsBounds DEF StoreTypeOK, RevokeFlag
<1>5. ASSUME NEW p \in Procs, RevokeOk(p) \/ RevokeErr(p)
      PROVE  StoreTypeOK' /\ BoundsMeet'
  <2>1. \E ok \in BOOLEAN : RevokeDone(p, ok)
    BY <1>5 DEF RevokeOk, RevokeErr
  <2>2. PICK ok \in BOOLEAN : RevokeDone(p, ok)
    BY <2>1
  <2>3. ret' \in SUBSET Returns
    BY <2>2 DEF RevokeDone
  <2>4. QED
    BY <2>2, <2>3 DEF StoreTypeOK, BoundsMeet, RevokeDone
<1>6. ASSUME NEW p \in Procs, GetRevokedCall(p)
      PROVE  StoreTypeOK' /\ BoundsMeet'
  BY <1>6, ListedFlagged DEF StoreTypeOK, BoundsMeet, GetRevokedCall
<1>7. ASSUME NEW p \in Procs, NEW ids \in SUBSET KeyIDs,
             GetRevokedOk(p, ids) \/ GetRevokedErr(p)
      PROVE  StoreTypeOK' /\ BoundsMeet'
  <2>1. ret' \in SUBSET Returns
    <3>1. CASE GetRevokedOk(p, ids)
      BY <3>1 DEF GetRevokedOk
    <3>2. CASE GetRevokedErr(p)
      BY <3>2 DEF GetRevokedErr
    <3>3. QED
      BY <1>7, <3>1, <3>2
  <2>2. GetRevokedDone(p)
    BY <1>7 DEF GetRevokedOk, GetRevokedErr
  <2>3. QED
    BY <2>1, <2>2 DEF StoreTypeOK, BoundsMeet, GetRevokedDone
<1>8. CASE StoreTick
  <2>1. now' \in Times
    BY <1>8, TimeAssumption DEF StoreTypeOK, StoreTick, Times
  <2>2. QED
    BY <1>8, <2>1, ObserveKeepsBounds DEF StoreTypeOK, StoreTick
<1>9. CASE Close
  <2>1. db' \in Tables
    BY <1>9, TablesClosed DEF StoreTypeOK, Close
  <2>2. QED
    BY <1>9, <2>1, ObserveKeepsBounds DEF StoreTypeOK, Close
<1>10. CASE StoreRestart
  <2>1. db' \in Tables
    BY <1>10, TablesClosed DEF StoreTypeOK, StoreRestart
  <2>2. QED
    BY <1>10, <2>1 DEF StoreTypeOK, BoundsMeet, StoreRestart
<1>11. CASE StoreQuiet
  BY <1>11 DEF StoreTypeOK, BoundsMeet, StoreQuiet
<1>12. CASE UNCHANGED storeVars
  BY <1>12 DEF StoreTypeOK, BoundsMeet, storeVars
<1>13. ASSUME NEW p \in Procs, GetRevokedErr(p)
       PROVE  StoreTypeOK' /\ BoundsMeet'
  BY <1>13, <1>7
<1>14. QED
  BY <1>1, <1>2, <1>3, <1>4, <1>5, <1>6, <1>7, <1>8, <1>9, <1>10, <1>11, <1>12, <1>13
  DEF StoreNext

LEMMA StoreStarts == StoreInit => StoreTypeOK /\ BoundsMeet
<1> SUFFICES ASSUME StoreInit PROVE StoreTypeOK /\ BoundsMeet
  OBVIOUS
<1>1. db \in Tables
  BY DEF StoreInit, EmptyTable, Tables
<1>2. QED
  BY <1>1, TimeAssumption DEF StoreInit, StoreTypeOK, BoundsMeet, NoIDs, Times, Returns

\* Whatever is configured, a GetRevoked in progress can always be answered:
\* what it has to name lies within what it may name.
THEOREM GetRevokedBounded == StoreSpec => [](StoreTypeOK /\ BoundsMeet)
<1>1. StoreInit => StoreTypeOK /\ BoundsMeet
  BY StoreStarts
<1>2. (StoreTypeOK /\ BoundsMeet) /\ [StoreNext]_storeVars => (StoreTypeOK /\ BoundsMeet)'
  BY StoreStep
<1>3. QED
  BY <1>1, <1>2, PTL DEF StoreSpec

-----------------------------------------------------------------------------
(***************************************************************************)
(* A SQL store never takes a revocation back.                              *)
(***************************************************************************)
\* No step of a SQL store clears a flag or drops a flagged record.
LEMMA FlagsStay ==
    ASSUME StoreTypeOK, [StoreNext]_storeVars, ~InMemory
    PROVE  Flagged(db) \subseteq Flagged(db')
<1>1. db \in Tables
  BY DEF StoreTypeOK
<1>2. ASSUME NEW p \in Procs, NEW k \in KeyIDs, NEW rec \in Record,
             SetRecordOk(p, k, rec) \/ SetRecordErr(p, k, rec)
      PROVE  Flagged(db) \subseteq Flagged(db')
  BY <1>1, <1>2, FlagsGrow DEF SetRecordOk, SetRecordErr
<1>3. ASSUME NEW p \in Procs, NEW ids \in SUBSET KeyIDs, RevokeFlag(p, ids)
      PROVE  Flagged(db) \subseteq Flagged(db')
  BY <1>1, <1>3, FlagsGrow DEF RevokeFlag
<1>4. ASSUME NEW p \in Procs, NEW ids \in SUBSET KeyIDs,
             RevokeCall(p, ids) \/ GetRevokedOk(p, ids)
      PROVE  db' = db
  BY <1>4 DEF RevokeCall, GetRevokedOk, GetRevokedDone
<1>5. ASSUME NEW p \in Procs,
             \/ RevokeOk(p) \/ RevokeErr(p)
             \/ GetRevokedCall(p) \/ GetRevokedErr(p)
      PROVE  db' = db
  BY <1>5 DEF RevokeOk, RevokeErr, RevokeDone, GetRevokedCall, GetRevokedErr, GetRevokedDone
<1>6. ASSUME StoreTick \/ Close \/ StoreRestart \/ StoreQuiet \/ UNCHANGED storeVars
      PROVE  db' = db
  BY <1>6 DEF StoreTick, Close, StoreRestart, StoreQuiet, storeVars
<1>7. QED
  BY <1>2, <1>3, <1>4, <1>5, <1>6 DEF StoreNext

\* The SQL stores keep every revocation: across failed statements, restarts
\* and any number of concurrent callers.
THEOREM SqlRevocationsStick == StoreSpec => RevocationSticks
<1>1. StoreTypeOK /\ [StoreNext]_storeVars
        => [~InMemory => Flagged(db) \subseteq Flagged(db')]_storeVars
  BY FlagsStay
<1>2. QED
  BY <1>1, GetRevokedBounded, PTL DEF StoreSpec, RevocationSticks

-----------------------------------------------------------------------------
(***************************************************************************)
(* The certificate authority on top of any of them.                        *)
(***************************************************************************)
\* A certificate's validity fits its uint64 fields, whatever was asked for.
LEMMA SignUserKeyTyped ==
    ASSUME NEW u \in Names, NEW until \in Untils, NEW t \in Times
    PROVE  /\ SignUserKey(u, until, t) \in Certs
           /\ SignUserKey(u, until, t).keyId = <<u, t>>
<1>1. /\ Half \in Nat /\ Validity \in Nat /\ Backdate \in Nat
      /\ t \in Nat /\ until \in Int /\ -Half <= until /\ until <= Half - 1
      /\ t - Backdate >= 0 /\ t + Validity < Half /\ t < Half
  BY CAAssumption, SignerAssumption, TimeAssumption DEF Times, Int64s
<1>2. Clip(until, t) \in Int64s
  BY <1>1 DEF Clip, Int64s
<1>3. Uint64(Clip(until, t)) \in Uint64s
  BY <1>1, <1>2 DEF Uint64, Uint64s, Int64s
<1>4. Uint64(t - Backdate) \in Uint64s
  BY <1>1 DEF Uint64, Uint64s
<1>5. <<u, t>> \in KeyIDs
  BY CAAssumption
<1>6. QED
  BY <1>3, <1>4, <1>5 DEF SignUserKey, Certs

\* A record made from a certificate is a record, not revoked.
LEMMA MakeRecordTyped ==
    ASSUME NEW s \in Serials, NEW c \in Certs, NEW m \in BOOLEAN
    PROVE  /\ MakeRecord(s, c, m) \in Record
           /\ MakeRecord(s, c, m).serial = s
           /\ MakeRecord(s, c, m).expires = Int64(c.validBefore)
           /\ MakeRecord(s, c, m).message = m
           /\ ~MakeRecord(s, c, m).revoked
<1>1. Half \in Nat /\ c.validBefore \in Int /\ 0 <= c.validBefore /\ c.validBefore <= 2 * Half - 1
  BY SignerAssumption DEF Certs, Uint64s
<1>2. Int64(c.validBefore) \in Expiries
  BY <1>1, CAAssumption DEF Int64, Int64s
<1>3. QED
  BY <1>2, CAAssumption DEF MakeRecord, Record

\* What a handler at SetRecord hands to the store.
LEMMA RecordOfTyped ==
    ASSUME CATypeOK, LocalsMatch, NEW p \in Procs, step[p] = "setrecord"
    PROVE  /\ cert[p] \in Serials /\ cert[p] \in Issued
           /\ signed[cert[p]] \in Certs
           /\ signed[cert[p]].keyId \in KeyIDs
           /\ RecordOf(p) \in Record
           /\ RecordOf(p).serial = cert[p]
           /\ RecordOf(p).expires = Int64(signed[cert[p]].validBefore)
           /\ RecordOf(p).message = req[p].message
           /\ ~RecordOf(p).revoked
<1>1. cert[p] \in Serials /\ cert[p] \in Issued
  BY DEF LocalsMatch, Issued
<1>2. signed[cert[p]] \in Certs
  BY <1>1 DEF CATypeOK, Issued
<1>3. req[p].message \in BOOLEAN
  BY DEF LocalsMatch, Requests
<1>4. QED
  BY <1>1, <1>2, <1>3, MakeRecordTyped DEF RecordOf, Certs

-----------------------------------------------------------------------------
(***************************************************************************)
(* The handlers use the store as its interface allows.                     *)
(***************************************************************************)
\* Every step of the CA is a step of its store, or none at all.
LEMMA StoreStepOfCA ==
    ASSUME CATypeOK, LocalsMatch, [Next]_vars
    PROVE  [StoreNext]_storeVars /\ (StoreNext \/ UNCHANGED vars)
<1>1. ASSUME NEW p \in Procs, SetRecord(p) \/ SetRecordFails(p)
      PROVE  StoreNext
  <2>1. step[p] = "setrecord"
    BY <1>1 DEF SetRecord, SetRecordFails
  <2>2. /\ signed[cert[p]].keyId \in KeyIDs
        /\ RecordOf(p) \in Record /\ ~RecordOf(p).revoked
    BY <2>1, RecordOfTyped
  <2>3. QED
    BY <1>1, <2>2 DEF SetRecord, SetRecordFails, StoreNext
<1>2. ASSUME NEW p \in Procs, NEW ids, Revoke(p, ids) PROVE StoreNext
  BY <1>2, CAAssumption DEF Revoke, StoreNext, CATypeOK
<1>3. ASSUME NEW p \in Procs, NEW ids \in SUBSET pend[p], RevokeSome(p, ids) PROVE StoreNext
  BY <1>3 DEF RevokeSome, StoreNext, CATypeOK, StoreTypeOK
<1>4. ASSUME NEW p \in Procs, RevokeRedirect(p) \/ RevokeFails(p) PROVE StoreNext
  BY <1>4 DEF RevokeRedirect, RevokeFails, StoreNext
<1>5. ASSUME NEW p \in Procs, Revoked(p) \/ RevokedFails(p) PROVE StoreNext
  BY <1>5 DEF Revoked, RevokedFails, StoreNext
<1>6. ASSUME NEW p \in Procs, NEW ids \in SUBSET may[p], RevokedServes(p, ids) PROVE StoreNext
  BY <1>6 DEF RevokedServes, StoreNext, CATypeOK, StoreTypeOK
<1>7. ASSUME NEW p \in Procs, NEW r \in Requests, Sign(p, r) PROVE StoreNext
  BY <1>7 DEF Sign, StoreNext
<1>8. ASSUME NEW p \in Procs,
             \/ Username(p) \/ RevokeToken(p) \/ SignKeyFails(p)
             \/ Respond(p) \/ RespondFails(p)
      PROVE  StoreNext
  BY <1>8 DEF Username, RevokeToken, SignKeyFails, Respond, RespondFails, StoreNext
<1>9. ASSUME NEW p \in Procs, NEW s \in Serials, SignKey(p, s) PROVE StoreNext
  BY <1>9 DEF SignKey, StoreNext
<1>10. ASSUME NEW b \in BOOLEAN, GetCertsJSON(b) PROVE StoreNext
  BY <1>10 DEF GetCertsJSON, StoreNext
<1>11. ASSUME Tick \/ Restart PROVE StoreNext
  BY <1>11 DEF Tick, Restart, StoreNext
<1>12. CASE UNCHANGED vars
  BY <1>12 DEF vars, storeVars
<1>13. QED
  BY <1>1, <1>2, <1>3, <1>4, <1>5, <1>6, <1>7, <1>8, <1>9, <1>10, <1>11, <1>12
  DEF Next, SignStep, RevokeStep, RevokedStep

-----------------------------------------------------------------------------
(***************************************************************************)
(* The invariant, part by part.                                            *)
(***************************************************************************)
\* Every step keeps the variables in their types.
LEMMA TypeStep ==
    ASSUME CAInv, [Next]_vars
    PROVE  CATypeOK' /\ BoundsMeet'
<1> USE DEF Goto, Finish, StoreQuiet, signVars, adminVars
<1>1. CATypeOK /\ BoundsMeet /\ LocalsMatch
  BY DEF CAInv
<1>2. StoreTypeOK' /\ BoundsMeet'
  BY <1>1, StoreStepOfCA, StoreStep DEF CATypeOK
<1>3. ASSUME NEW p \in Procs, NEW r \in Requests, Sign(p, r) PROVE CATypeOK'
  BY <1>1, <1>2, <1>3 DEF CATypeOK, Sign, Steps
<1>4. ASSUME NEW p \in Procs, Username(p) PROVE CATypeOK'
  <2>1. req[p].token \in Tokens
    BY <1>1, <1>4 DEF LocalsMatch, Username, Requests
  <2>2. Owner[req[p].token] \in Names /\ NoUser \in Names
    BY <2>1, CAAssumption DEF Names
  <2>3. QED
    BY <1>1, <1>2, <1>4, <2>2 DEF CATypeOK, Username, Steps
<1>5. ASSUME NEW p \in Procs, RevokeToken(p) PROVE CATypeOK'
  BY <1>1, <1>2, <1>5 DEF CATypeOK, RevokeToken, Steps
<1>6. ASSUME NEW p \in Procs, NEW s \in Serials, SignKey(p, s) PROVE CATypeOK'
  <2>1. req[p].until \in Untils
    BY <1>1, <1>6 DEF LocalsMatch, SignKey, Requests
  <2>2. SignUserKey(name[p], req[p].until, now) \in Certs
    BY <1>1, <2>1, SignUserKeyTyped DEF CATypeOK, StoreTypeOK
  <2>3. QED
    BY <1>1, <1>2, <1>6, <2>2 DEF CATypeOK, SignKey, Steps
<1>7. ASSUME NEW p \in Procs, SignKeyFails(p) \/ RespondFails(p) PROVE CATypeOK'
  BY <1>1, <1>2, <1>7 DEF CATypeOK, SignKeyFails, RespondFails, Steps, Names
<1>8. ASSUME NEW p \in Procs, SetRecord(p) PROVE CATypeOK'
  BY <1>1, <1>2, <1>8 DEF CATypeOK, SetRecord, Steps
<1>9. ASSUME NEW p \in Procs, SetRecordFails(p) PROVE CATypeOK'
  <2>1. cert[p] \in Serials
    BY <1>1, <1>9, RecordOfTyped DEF SetRecordFails
  <2>2. QED
    BY <1>1, <1>2, <1>9, <2>1 DEF CATypeOK, SetRecordFails, LogError, Steps
<1>10. ASSUME NEW p \in Procs, Respond(p) PROVE CATypeOK'
  <2>1. cert[p] \in Serials
    BY <1>1, <1>10 DEF LocalsMatch, Respond, Issued
  <2>2. QED
    BY <1>1, <1>2, <1>10, <2>1 DEF CATypeOK, Respond, Steps, Names
<1>11. ASSUME NEW b \in BOOLEAN, GetCertsJSON(b) PROVE CATypeOK'
  <2>1. Known(db) \subseteq KeyIDs /\ Unexpired(db, now) \subseteq KeyIDs
    BY DEF Known, Unexpired
  <2>2. QED
    BY <1>1, <1>2, <1>11, <2>1 DEF CATypeOK, GetCertsJSON
<1>12. ASSUME NEW p \in Procs, NEW ids, Revoke(p, ids) PROVE CATypeOK'
  BY <1>1, <1>2, <1>12 DEF CATypeOK, Revoke, Steps, Known
<1>13. ASSUME NEW p \in Procs, NEW ids \in SUBSET pend[p], RevokeSome(p, ids) PROVE CATypeOK'
  BY <1>1, <1>2, <1>13 DEF CATypeOK, RevokeSome
<1>14. ASSUME NEW p \in Procs, RevokeRedirect(p) \/ RevokeFails(p) PROVE CATypeOK'
  BY <1>1, <1>2, <1>14 DEF CATypeOK, RevokeRedirect, RevokeFails, Steps
<1>15. ASSUME NEW p \in Procs, Revoked(p) PROVE CATypeOK'
  BY <1>1, <1>2, <1>15 DEF CATypeOK, Revoked, Steps
<1>16. ASSUME NEW p \in Procs, RevokedDone(p) PROVE CATypeOK'
  BY <1>1, <1>2, <1>16 DEF CATypeOK, RevokedDone, Steps
<1>17. ASSUME Tick PROVE CATypeOK'
  BY <1>1, <1>2, <1>17 DEF CATypeOK, Tick
<1>18. ASSUME Restart PROVE CATypeOK'
  <2>1. restarts' \in 0 .. MaxRestarts
    BY <1>1, <1>18, CAAssumption DEF CATypeOK, Restart
  <2>2. QED
    BY <1>1, <1>2, <1>18, <2>1 DEF CATypeOK, Restart, Steps, Names, NoIDs
<1>19. CASE UNCHANGED vars
  BY <1>1, <1>2, <1>19 DEF CATypeOK, vars
<1>20. QED
  BY <1>2, <1>3, <1>4, <1>5, <1>6, <1>7, <1>8, <1>9, <1>10, <1>11, <1>12, <1>13,
     <1>14, <1>15, <1>16, <1>17, <1>18, <1>19
  DEF Next, SignStep, RevokeStep, RevokedStep, RevokedServes, RevokedFails

\* The handlers and the store agree on the calls in progress.
LEMMA CallsStep ==
    ASSUME CAInv, [Next]_vars
    PROVE  CallsMatch'
<1> USE DEF Goto, Finish, StoreQuiet, CallsMatch
<1>1. CATypeOK /\ CallsMatch
  BY DEF CAInv
<1>2. /\ step \in [Procs -> Steps]
      /\ call \in [Procs -> {"none", "GetRevoked", "Revoke"}]
  BY <1>1 DEF CATypeOK, StoreTypeOK
<1>3. ASSUME NEW p \in Procs, NEW r, Sign(p, r) PROVE CallsMatch'
  BY <1>1, <1>2, <1>3 DEF Sign
<1>4. ASSUME NEW p \in Procs,
             \/ Username(p) \/ RevokeToken(p) \/ SignKeyFails(p)
             \/ Respond(p) \/ RespondFails(p)
      PROVE  CallsMatch'
  BY <1>1, <1>2, <1>4 DEF Username, RevokeToken, SignKeyFails, Respond, RespondFails
<1>5. ASSUME NEW p \in Procs, NEW s, SignKey(p, s) PROVE CallsMatch'
  BY <1>1, <1>2, <1>5 DEF SignKey
<1>6. ASSUME NEW p \in Procs, SetRecord(p) \/ SetRecordFails(p) PROVE CallsMatch'
  BY <1>1, <1>2, <1>6 DEF SetRecord, SetRecordFails, SetRecordOk, SetRecordErr
<1>7. ASSUME NEW b, GetCertsJSON(b) PROVE CallsMatch'
  BY <1>1, <1>7 DEF GetCertsJSON
<1>8. ASSUME NEW p \in Procs, NEW ids, Revoke(p, ids) PROVE CallsMatch'
  BY <1>1, <1>2, <1>8 DEF Revoke, RevokeCall
<1>9. ASSUME NEW p \in Procs, NEW ids, RevokeSome(p, ids) PROVE CallsMatch'
  BY <1>1, <1>9 DEF RevokeSome, RevokeFlag
<1>10. ASSUME NEW p \in Procs, RevokeRedirect(p) \/ RevokeFails(p) PROVE CallsMatch'
  BY <1>1, <1>2, <1>10 DEF RevokeRedirect, RevokeFails, RevokeOk, RevokeErr, RevokeDone
<1>11. ASSUME NEW p \in Procs, Revoked(p) PROVE CallsMatch'
  BY <1>1, <1>2, <1>11 DEF Revoked, GetRevokedCall
<1>12. ASSUME NEW p \in Procs, RevokedDone(p), GetRevokedDone(p) PROVE CallsMatch'
  BY <1>1, <1>2, <1>12 DEF RevokedDone, GetRevokedDone
<1>13. ASSUME Tick \/ Restart PROVE CallsMatch'
  BY <1>1, <1>13 DEF Tick, StoreTick, Restart, StoreRestart
<1>14. CASE UNCHANGED vars
  BY <1>1, <1>14 DEF vars, storeVars
<1>15. QED
  BY <1>3, <1>4, <1>5, <1>6, <1>7, <1>8, <1>9, <1>10, <1>11, <1>12, <1>13, <1>14
  DEF Next, SignStep, RevokeStep, RevokedStep, RevokedServes, RevokedFails,
      GetRevokedOk, GetRevokedErr

\* A handler keeps its request and its certificate until it is done.
LEMMA LocalsStep ==
    ASSUME CAInv, [Next]_vars
    PROVE  LocalsMatch'
<1> USE DEF Goto, Finish, LocalsMatch
<1>1. CATypeOK /\ LocalsMatch
  BY DEF CAInv
<1>2. /\ step \in [Procs -> Steps]
      /\ req \in [Procs -> Requests \cup {None}]
      /\ cert \in [Procs -> Serials \cup {None}]
      /\ signed \in [Serials -> Certs \cup {None}]
      /\ None \notin Serials \cup Requests \cup Certs
  BY <1>1, CAAssumption DEF CATypeOK
<1>3. ASSUME NEW p \in Procs, NEW r \in Requests, Sign(p, r) PROVE LocalsMatch'
  BY <1>1, <1>2, <1>3 DEF Sign, Issued
<1>4. ASSUME NEW p \in Procs, Username(p) \/ RevokeToken(p) PROVE LocalsMatch'
  BY <1>1, <1>2, <1>4 DEF Username, RevokeToken, Issued
<1>5. ASSUME NEW p \in Procs, NEW s \in Serials, SignKey(p, s) PROVE LocalsMatch'
  <2>1. SignUserKey(name[p], req[p].until, now) # None
    <3>1. req[p].until \in Untils
      BY <1>1, <1>5 DEF SignKey, Requests
    <3>2. QED
      BY <1>1, <1>2, <3>1, SignUserKeyTyped DEF CATypeOK, StoreTypeOK
  <2>2. s \notin Issued /\ Issued' = Issued \cup {s}
    BY <1>2, <1>5, <2>1 DEF SignKey, Issued
  <2>3. s # None /\ \A q \in Procs : cert[q] # s
    BY <1>1, <1>2, <2>2
  <2>4. QED
    BY <1>1, <1>2, <1>5, <2>2, <2>3 DEF SignKey
<1>6. ASSUME NEW p \in Procs, SetRecord(p) \/ SetRecordFails(p) PROVE LocalsMatch'
  BY <1>1, <1>2, <1>6 DEF SetRecord, SetRecordFails, signVars, Issued
<1>7. ASSUME NEW p \in Procs, SignKeyFails(p) \/ Respond(p) \/ RespondFails(p)
      PROVE  LocalsMatch'
  BY <1>1, <1>2, <1>7 DEF SignKeyFails, Respond, RespondFails, Issued
<1>8. ASSUME NEW b, GetCertsJSON(b) PROVE LocalsMatch'
  BY <1>1, <1>8 DEF GetCertsJSON, signVars, Issued
<1>9. ASSUME NEW p \in Procs, NEW ids, Revoke(p, ids) PROVE LocalsMatch'
  BY <1>1, <1>2, <1>9 DEF Revoke, signVars, Issued
<1>10. ASSUME NEW p \in Procs, NEW ids, RevokeSome(p, ids) PROVE LocalsMatch'
  BY <1>1, <1>10 DEF RevokeSome, signVars, Issued
<1>11. ASSUME NEW p \in Procs,
              RevokeRedirect(p) \/ RevokeFails(p) \/ Revoked(p) \/ RevokedDone(p)
       PROVE  LocalsMatch'
  BY <1>1, <1>2, <1>11
  DEF RevokeRedirect, RevokeFails, Revoked, RevokedDone, signVars, Issued
<1>12. ASSUME Tick PROVE LocalsMatch'
  BY <1>1, <1>12 DEF Tick, signVars, Issued
<1>13. ASSUME Restart PROVE LocalsMatch'
  BY <1>1, <1>13 DEF Restart
<1>14. CASE UNCHANGED vars
  BY <1>1, <1>14 DEF vars, signVars, Issued
<1>15. QED
  BY <1>3, <1>4, <1>5, <1>6, <1>7, <1>8, <1>9, <1>10, <1>11, <1>12, <1>13, <1>14
  DEF Next, SignStep, RevokeStep, RevokedStep, RevokedServes, RevokedFails

\* A step that leaves the table and the certificates alone, and brings no
\* handler to SetRecord, leaves the records as they were.
LEMMA RecordsUntouched ==
    ASSUME RecordsMatch, db' = db, signed' = signed,
           \A p \in Procs : step'[p] = "setrecord" => step[p] = "setrecord" /\ cert'[p] = cert[p]
    PROVE  RecordsMatch'
  BY DEF RecordsMatch, Issued, Known

\* Storing the record of a fresh certificate keeps the records in agreement.
LEMMA RecordsStored ==
    ASSUME CAInv, NEW p \in Procs, step[p] = "setrecord",
           step' = [step EXCEPT ![p] = "encode"], UNCHANGED <<cert, signed>>,
           db' = db \/ db' = WithRecord(db, signed[cert[p]].keyId, RecordOf(p))
    PROVE  RecordsMatch'
<1> DEFINE k == signed[cert[p]].keyId
           rec == RecordOf(p)
<1>1. /\ CATypeOK /\ LocalsMatch /\ RecordsMatch
      /\ step \in [Procs -> Steps] /\ db \in Tables
  BY DEF CAInv, CATypeOK, StoreTypeOK
<1>2. CASE db' = db
  BY <1>1, <1>2, RecordsUntouched
<1>3. CASE db' = WithRecord(db, k, rec)
  <2>1. /\ cert[p] \in Issued /\ k \in KeyIDs /\ rec \in Record /\ rec.serial = cert[p]
        /\ rec.expires = Int64(signed[cert[p]].validBefore)
    BY <1>1, RecordOfTyped
  <2> HIDE DEF k, rec
  <2>2. \A j \in KeyIDs : db'[j] = IF j = k THEN rec ELSE db[j]
    BY <1>1, <1>3, <2>1 DEF WithRecord, Tables
  <2>3. Known(db') = Known(db) \cup {k}
    BY <2>1, <2>2, RecordAssumption DEF Known
  <2>4. ASSUME NEW j \in Known(db')
        PROVE  /\ db'[j].serial \in Issued
               /\ signed[db'[j].serial].keyId = j
               /\ db'[j].expires = Int64(signed[db'[j].serial].validBefore)
    <3>1. CASE j = k
      BY <2>1, <2>2, <3>1 DEF k
    <3>2. CASE j # k
      BY <1>1, <2>2, <2>3, <3>2 DEF RecordsMatch, Known
    <3>3. QED
      BY <3>1, <3>2
  <2>5. ASSUME NEW q \in Procs, step'[q] = "setrecord", NEW j \in Known(db')
        PROVE  db'[j].serial # cert[q]
    <3>1. q # p /\ step[q] = "setrecord"
      BY <1>1, <2>5
    <3>2. cert[p] # cert[q]
      BY <1>1, <3>1 DEF LocalsMatch
    <3>3. QED
      BY <1>1, <2>1, <2>2, <2>3, <3>1, <3>2 DEF RecordsMatch, Known
  <2>6. QED
    BY <2>4, <2>5 DEF RecordsMatch, Issued
<1>4. QED
  BY <1>2, <1>3

\* Flagging records changes neither whose they are, nor their reason, nor when
\* they expire.
LEMMA FlagsKeep ==
    ASSUME NEW d \in Tables, NEW ids, NEW k \in Known(d)
    PROVE  /\ WithFlags(d, ids)[k].serial = d[k].serial
           /\ WithFlags(d, ids)[k].expires = d[k].expires
           /\ WithFlags(d, ids)[k].message = d[k].message
           /\ d[k].revoked => WithFlags(d, ids)[k].revoked
<1>1. d[k] \in Record /\ k \in KeyIDs
  BY DEF Tables, Known
<1>2. QED
  BY <1>1 DEF WithFlags, Record

\* The records agree with the certificates after every step.
LEMMA RecordsStep ==
    ASSUME CAInv, [Next]_vars
    PROVE  RecordsMatch'
<1> USE DEF Goto, Finish, StoreQuiet
<1>1. /\ CATypeOK /\ LocalsMatch /\ RecordsMatch
      /\ step \in [Procs -> Steps] /\ cert \in [Procs -> Serials \cup {None}]
      /\ signed \in [Serials -> Certs \cup {None}]
      /\ db \in Tables
  BY DEF CAInv, CATypeOK, StoreTypeOK
<1>2. ASSUME NEW p \in Procs, NEW r, Sign(p, r) PROVE RecordsMatch'
  BY <1>1, <1>2, RecordsUntouched DEF Sign
<1>3. ASSUME NEW p \in Procs,
             \/ Username(p) \/ RevokeToken(p) \/ SignKeyFails(p)
             \/ Respond(p) \/ RespondFails(p)
      PROVE  RecordsMatch'
  BY <1>1, <1>3, RecordsUntouched
  DEF Username, RevokeToken, SignKeyFails, Respond, RespondFails
<1>4. ASSUME NEW p \in Procs, NEW s \in Serials, SignKey(p, s) PROVE RecordsMatch'
  <2>1. s \notin Issued
    BY <1>4 DEF SignKey, Issued
  <2>2. \A o \in Issued : o # s /\ o \in Issued' /\ signed'[o] = signed[o]
    BY <1>1, <1>4, <2>1 DEF SignKey, Issued
  <2>3. \A k \in Known(db) : db[k].serial \in Issued
    BY <1>1 DEF RecordsMatch
  <2>4. db' = db /\ \A q \in Procs : /\ step'[q] = "setrecord" /\ q # p => step[q] = "setrecord"
                                     /\ cert'[q] = IF q = p THEN s ELSE cert[q]
    BY <1>1, <1>4 DEF SignKey
  <2>5. QED
    BY <1>1, <2>2, <2>3, <2>4 DEF RecordsMatch
<1>5. ASSUME NEW p \in Procs, SetRecord(p) \/ SetRecordFails(p) PROVE RecordsMatch'
  BY <1>1, <1>5, RecordsStored
  DEF SetRecord, SetRecordFails, SetRecordOk, SetRecordErr, signVars
<1>6. ASSUME NEW b, GetCertsJSON(b) PROVE RecordsMatch'
  BY <1>1, <1>6, RecordsUntouched DEF GetCertsJSON, signVars
<1>7. ASSUME NEW p \in Procs, NEW ids, Revoke(p, ids) PROVE RecordsMatch'
  BY <1>1, <1>7, RecordsUntouched DEF Revoke, RevokeCall, signVars
<1>8. ASSUME NEW p \in Procs, NEW ids, RevokeSome(p, ids) PROVE RecordsMatch'
  <2>1. db' = WithFlags(db, ids) /\ UNCHANGED <<step, cert, signed>>
    BY <1>8 DEF RevokeSome, RevokeFlag, signVars
  <2>2. Known(db') = Known(db)
    BY <1>1, <2>1, FlagsGrow
  <2>3. \A k \in Known(db) : db'[k].serial = db[k].serial /\ db'[k].expires = db[k].expires
    BY <1>1, <2>1, FlagsKeep
  <2>4. QED
    BY <1>1, <2>1, <2>2, <2>3 DEF RecordsMatch, Issued
<1>9. ASSUME NEW p \in Procs, RevokeRedirect(p) \/ RevokeFails(p) PROVE RecordsMatch'
  BY <1>1, <1>9, RecordsUntouched
  DEF RevokeRedirect, RevokeFails, RevokeOk, RevokeErr, RevokeDone, signVars
<1>10. ASSUME NEW p \in Procs, Revoked(p) PROVE RecordsMatch'
  BY <1>1, <1>10, RecordsUntouched DEF Revoked, GetRevokedCall, signVars
<1>11. ASSUME NEW p \in Procs, RevokedDone(p), GetRevokedDone(p) PROVE RecordsMatch'
  BY <1>1, <1>11, RecordsUntouched DEF RevokedDone, GetRevokedDone, signVars
<1>12. ASSUME Tick PROVE RecordsMatch'
  BY <1>1, <1>12, RecordsUntouched DEF Tick, StoreTick, signVars
<1>13. ASSUME Restart PROVE RecordsMatch'
  <2>1. /\ signed' = signed /\ \A p \in Procs : step'[p] # "setrecord"
        /\ db' = db \/ db' = EmptyTable
    BY <1>13 DEF Restart, StoreRestart
  <2>2. CASE db' = db
    BY <1>1, <2>1, <2>2, RecordsUntouched
  <2>3. CASE db' = EmptyTable
    BY <2>1, <2>3 DEF RecordsMatch, Known, EmptyTable
  <2>4. QED
    BY <2>1, <2>2, <2>3
<1>14. CASE UNCHANGED vars
  BY <1>1, <1>14, RecordsUntouched DEF vars, storeVars, signVars
<1>15. QED
  BY <1>2, <1>3, <1>4, <1>5, <1>6, <1>7, <1>8, <1>9, <1>10, <1>11, <1>12, <1>13, <1>14
  DEF Next, SignStep, RevokeStep, RevokedStep, RevokedServes, RevokedFails,
      GetRevokedOk, GetRevokedErr

-----------------------------------------------------------------------------
(***************************************************************************)
(* What no step undoes.                                                    *)
(***************************************************************************)
\* A certificate that was signed stays what it is.
LEMMA SignedStays ==
    ASSUME CAInv, [Next]_vars
    PROVE  \A s \in Issued : s \in Issued' /\ signed'[s] = signed[s]
<1>1. signed \in [Serials -> Certs \cup {None}]
  BY DEF CAInv, CATypeOK
<1>2. CASE signed' = signed
  BY <1>2 DEF Issued
<1>3. ASSUME NEW p \in Procs, NEW s \in Serials, SignKey(p, s)
      PROVE  \A o \in Issued : o \in Issued' /\ signed'[o] = signed[o]
  BY <1>1, <1>3 DEF SignKey, Issued
<1>4. QED
  BY <1>2, <1>3
  DEF Next, SignStep, RevokeStep, RevokedStep, RevokedServes, RevokedFails, vars, signVars,
      Sign, Username, RevokeToken, SignKeyFails, SetRecord, SetRecordFails, Respond,
      RespondFails, GetCertsJSON, Revoke, RevokeSome, RevokeRedirect, RevokeFails,
      Revoked, RevokedDone, Tick, Restart

\* An excuse stays one: a key id given twice, a memory store emptied.
LEMMA ExcusesStay ==
    ASSUME CAInv, [Next]_vars
    PROVE  /\ Wiped => Wiped'
           /\ \A k : Excused(k) => Excused(k)'
<1>1. restarts' = restarts \/ (restarts \in Nat /\ restarts' = restarts + 1)
  BY CAAssumption
  DEF CAInv, CATypeOK,
      Next, SignStep, RevokeStep, RevokedStep, RevokedServes, RevokedFails, vars,
      Sign, Username, RevokeToken, SignKey, SignKeyFails, SetRecord, SetRecordFails, Respond,
      RespondFails, GetCertsJSON, Revoke, RevokeSome, RevokeRedirect, RevokeFails,
      Revoked, RevokedDone, Tick, Restart
<1>2. Wiped => Wiped'
  BY <1>1 DEF Wiped, InMemory
<1>3. ASSUME NEW k, NEW s \in Issued, signed[s].keyId = k, Collided(s)
      PROVE  s \in Issued' /\ signed'[s].keyId = k /\ Collided(s)'
  BY <1>3, SignedStays DEF Collided
<1>4. QED
  BY <1>2, <1>3 DEF Excused

\* A record stays, with its expiry and its flag, unless its key id is given to
\* a second certificate or the store is wiped.
RecordStays(k) ==
    /\ k \in Known(db')
    /\ Excused(k)' \/ (/\ db'[k].expires = db[k].expires
                       /\ db[k].revoked => db'[k].revoked)

\* A certificate recorded over another one has its key id.
LEMMA OverwriteCollides ==
    ASSUME CAInv, NEW p \in Procs, step[p] = "setrecord", signed' = signed,
           NEW k \in Known(db), k = signed[cert[p]].keyId
    PROVE  Excused(k)'
<1>1. /\ cert[p] \in Issued
      /\ db[k].serial \in Issued /\ db[k].serial # cert[p] /\ signed[db[k].serial].keyId = k
  BY RecordOfTyped DEF CAInv, RecordsMatch
<1>2. QED
  BY <1>1 DEF Excused, Collided, Issued

\* Records outlast every step but a restart of a memory store.
LEMMA RecordsStay ==
    ASSUME CAInv, [Next]_vars
    PROVE  Wiped' \/ \A k \in Known(db) : RecordStays(k)
<1>1. CATypeOK /\ LocalsMatch /\ db \in Tables
  BY DEF CAInv, CATypeOK, StoreTypeOK
<1>2. ASSUME db' = db PROVE \A k \in Known(db) : RecordStays(k)
  BY <1>2 DEF RecordStays
<1>3. ASSUME NEW p \in Procs, SetRecord(p) \/ SetRecordFails(p)
      PROVE  \A k \in Known(db) : RecordStays(k)
  <2> DEFINE j == signed[cert[p]].keyId
             rec == RecordOf(p)
  <2>1. /\ step[p] = "setrecord" /\ signed' = signed
        /\ db' = db \/ db' = WithRecord(db, j, rec)
    BY <1>3 DEF SetRecord, SetRecordFails, SetRecordOk, SetRecordErr, signVars
  <2>2. CASE db' = db
    BY <1>2, <2>2
  <2>3. CASE db' = WithRecord(db, j, rec)
    <3>1. j \in KeyIDs /\ rec \in Record
      BY <1>1, <2>1, RecordOfTyped
    <3>2. \A k \in KeyIDs : db'[k] = IF k = j THEN rec ELSE db[k]
      BY <1>1, <2>3, <3>1 DEF WithRecord, Tables
    <3>3. \A k \in Known(db) : k \in Known(db')
      BY <3>1, <3>2, RecordAssumption DEF Known
    <3>4. \A k \in Known(db) : k = j => Excused(k)'
      BY <2>1, OverwriteCollides
    <3>5. QED
      BY <3>2, <3>3, <3>4 DEF RecordStays, Known
  <2>4. QED
    BY <2>1, <2>2, <2>3
<1>4. ASSUME NEW p \in Procs, NEW ids, RevokeSome(p, ids)
      PROVE  \A k \in Known(db) : RecordStays(k)
  <2>1. db' = WithFlags(db, ids)
    BY <1>4 DEF RevokeSome, RevokeFlag
  <2>2. QED
    BY <1>1, <2>1, FlagsGrow, FlagsKeep DEF RecordStays
<1>5. ASSUME Restart PROVE Wiped' \/ db' = db
  <2>1. restarts' > 0
    BY <1>1, <1>5, CAAssumption DEF CATypeOK, Restart
  <2>2. QED
    BY <1>5, <2>1 DEF Restart, StoreRestart, Wiped, InMemory
<1>6. ASSUME NEW p \in Procs,
             \/ \E r : Sign(p, r)
             \/ \E s : SignKey(p, s)
             \/ Username(p) \/ RevokeToken(p) \/ SignKeyFails(p)
             \/ Respond(p) \/ RespondFails(p)
      PROVE  db' = db
  BY <1>6 DEF Sign, SignKey, Username, RevokeToken, SignKeyFails, Respond, RespondFails, StoreQuiet
<1>7. ASSUME NEW p \in Procs,
             \/ \E ids : Revoke(p, ids) \/ RevokedServes(p, ids)
             \/ RevokeRedirect(p) \/ RevokeFails(p) \/ Revoked(p) \/ RevokedFails(p)
      PROVE  db' = db
  BY <1>7 DEF Revoke, RevokeCall, RevokedServes, RevokedFails, GetRevokedOk, GetRevokedErr,
      GetRevokedDone, RevokeRedirect, RevokeFails, RevokeOk, RevokeErr, RevokeDone,
      Revoked, GetRevokedCall
<1>8. ASSUME Tick \/ UNCHANGED vars \/ \E b : GetCertsJSON(b) PROVE db' = db
  BY <1>8 DEF Tick, StoreTick, GetCertsJSON, StoreQuiet, vars, storeVars
<1>9. QED
  BY <1>2, <1>3, <1>4, <1>5, <1>6, <1>7, <1>8
  DEF Next, SignStep, RevokeStep, RevokedStep

\* The server has said that it revoked the key id, or is about to.
Promised(k) == k \in acked \/ \E p \in Procs : k \in asked[p]

\* A key id promised to be revoked stays flagged or excused, and one that had
\* expired stays expired or excused.
LEMMA PromisesStay ==
    ASSUME CAInv, [Next]_vars, NEW k, Promised(k)
    PROVE  /\ k \in Known(db') \/ Wiped'
           /\ k \in Flagged(db) \/ Excused(k) => k \in Flagged(db') \/ Excused(k)'
           /\ db[k].expires < now => Excused(k)' \/ db'[k].expires < now'
<1>1. k \in Known(db) \/ Wiped
  BY DEF CAInv, RevocationsMatch, Promised
<1>2. (Wiped => Wiped') /\ (Excused(k) => Excused(k)') /\ (Wiped' => Excused(k)')
  BY ExcusesStay DEF Excused
<1>3. k \in Known(db) => Wiped' \/ RecordStays(k)
  BY RecordsStay
<1>4. k \in Known(db') \/ Wiped'
  BY <1>1, <1>2, <1>3 DEF RecordStays
<1>5. k \in Flagged(db) \/ Excused(k) => k \in Flagged(db') \/ Excused(k)'
  BY <1>1, <1>2, <1>3 DEF RecordStays, Flagged
<1>6. ASSUME db[k].expires < now, ~Excused(k)' PROVE db'[k].expires < now'
  <2>1. k \in Known(db) /\ db'[k].expires = db[k].expires
    BY <1>1, <1>2, <1>3, <1>6 DEF RecordStays
  <2>2. db[k].expires \in Int
    BY <2>1, RecordAssumption DEF CAInv, CATypeOK, StoreTypeOK, Tables, Known, Record
  <2>3. now \in Int /\ (now' = now \/ now' = now + 1)
    <3>1. [StoreNext]_storeVars
      BY StoreStepOfCA DEF CAInv
    <3>2. now' = now \/ now' = now + 1
      BY <3>1 DEF StoreNext, storeVars, SetRecordOk, SetRecordErr, RevokeCall, RevokeFlag,
         RevokeOk, RevokeErr, RevokeDone, GetRevokedCall, GetRevokedOk, GetRevokedErr,
         GetRevokedDone, StoreTick, Close, StoreRestart, StoreQuiet
    <3>3. QED
      BY <3>2, TimeAssumption DEF CAInv, CATypeOK, StoreTypeOK, Times
  <2>4. QED
    BY <1>6, <2>1, <2>2, <2>3
<1>7. QED
  BY <1>4, <1>5, <1>6

-----------------------------------------------------------------------------
(***************************************************************************)
(* The promises to the administrators.                                     *)
(***************************************************************************)
\* A flagged record is listed unless it has expired.
LEMMA FlaggedOrExpired ==
    ASSUME NEW d \in Tables, NEW t \in Times, NEW k \in Flagged(d)
    PROVE  k \in Listed(d, t) \/ d[k].expires < t
<1>1. d[k] \in Record
  BY DEF Flagged, Known, Tables
<1>2. d[k].expires \in Int
  BY <1>1, RecordAssumption DEF Record
<1>3. t \in Int
  BY TimeAssumption DEF Times
<1>4. QED
  BY <1>2, <1>3 DEF Listed

\* A list in progress goes on owing what it owed, unless it is excused or has
\* expired meanwhile.
LEMMA OwedStays ==
    ASSUME CAInv, [Next]_vars, NEW p \in Procs, NEW k \in owed[p],
           must'[p] = must[p] \/ must'[p] = must[p] \cap Listed(db', now')
    PROVE  k \in must'[p] \/ Excused(k)' \/ db'[k].expires < now'
<1>1. /\ k \in acked /\ Promised(k)
      /\ k \in Flagged(db) \/ Excused(k)
      /\ k \in must[p] \/ Excused(k) \/ db[k].expires < now
  BY DEF CAInv, RevocationsMatch, Promised
<1>2. k \in Flagged(db') \/ Excused(k)'
  BY <1>1, PromisesStay
<1>3. db' \in Tables /\ now' \in Times
  BY TypeStep DEF CATypeOK, StoreTypeOK
<1>4. CASE Excused(k)
  BY <1>4, ExcusesStay
<1>5. CASE db[k].expires < now
  BY <1>1, <1>5, PromisesStay
<1>6. CASE k \in must[p]
  BY <1>2, <1>3, <1>6, FlaggedOrExpired
<1>7. QED
  BY <1>1, <1>4, <1>5, <1>6

\* A step that promises nothing new keeps the promises.
LEMMA PromisesUntouched ==
    ASSUME CAInv, [Next]_vars, UNCHANGED <<asked, acked, owed, pend>>,
           \A p \in Procs : must'[p] = must[p] \/ must'[p] = must[p] \cap Listed(db', now')
    PROVE  RevocationsMatch'
<1>1. RevocationsMatch
  BY DEF CAInv
<1>2. /\ \A k \in acked' : k \in Known(db') \/ Wiped'
      /\ \A p \in Procs : \A k \in asked'[p] : k \in Known(db') \/ Wiped'
      /\ \A p \in Procs : owed'[p] \subseteq acked'
  BY <1>1, PromisesStay DEF RevocationsMatch, Promised
<1>3. \A k \in acked' : k \in Flagged(db') \/ Excused(k)'
  BY <1>1, PromisesStay DEF RevocationsMatch, Promised
<1>4. \A p \in Procs : \A k \in asked'[p] \ pend'[p] : k \in Flagged(db') \/ Excused(k)'
  BY <1>1, PromisesStay DEF RevocationsMatch, Promised
<1>5. \A p \in Procs : \A k \in owed'[p] :
          k \in must'[p] \/ Excused(k)' \/ db'[k].expires < now'
  BY OwedStays
<1>6. QED
  BY <1>2, <1>3, <1>4, <1>5 DEF RevocationsMatch

\* Every step keeps the promises made to the administrators.
LEMMA RevocationsStep ==
    ASSUME CAInv, [Next]_vars
    PROVE  RevocationsMatch'
<1>1. /\ CATypeOK /\ RevocationsMatch /\ CallsMatch
      /\ asked \in [Procs -> SUBSET KeyIDs] /\ owed \in [Procs -> SUBSET KeyIDs]
      /\ pend \in [Procs -> SUBSET KeyIDs] /\ must \in [Procs -> SUBSET KeyIDs]
      /\ db \in Tables /\ now \in Times
  BY DEF CAInv, CATypeOK, StoreTypeOK
<1>2. ASSUME NEW p \in Procs,
             \/ \E r : Sign(p, r)
             \/ \E s : SignKey(p, s)
             \/ Username(p) \/ RevokeToken(p) \/ SignKeyFails(p)
             \/ Respond(p) \/ RespondFails(p)
      PROVE  RevocationsMatch'
  <2>1. UNCHANGED <<asked, acked, owed, pend, must>>
    BY <1>2 DEF Sign, SignKey, Username, RevokeToken, SignKeyFails, Respond, RespondFails,
       StoreQuiet, adminVars
  <2>2. QED
    BY <2>1, PromisesUntouched
<1>3. ASSUME Tick \/ \E p \in Procs : SetRecord(p) \/ SetRecordFails(p)
      PROVE  RevocationsMatch'
  <2>1. UNCHANGED <<asked, acked, owed, pend>> /\ Observe
    BY <1>3 DEF Tick, StoreTick, SetRecord, SetRecordFails, SetRecordOk, SetRecordErr, adminVars
  <2>2. \A p \in Procs : must'[p] = must[p] \cap Listed(db', now')
    BY <2>1 DEF Observe
  <2>3. QED
    BY <2>1, <2>2, PromisesUntouched
<1>4. ASSUME NEW b, GetCertsJSON(b) PROVE RevocationsMatch'
  <2>1. UNCHANGED <<asked, acked, owed, pend, must, db>>
    BY <1>4 DEF GetCertsJSON, StoreQuiet
  <2>2. QED
    BY <2>1, PromisesUntouched
<1>5. ASSUME NEW p \in Procs, NEW ids, Revoke(p, ids) PROVE RevocationsMatch'
  <2>1. /\ UNCHANGED <<acked, owed, must, db, now>>
        /\ pend' = [pend EXCEPT ![p] = ids]
        /\ asked' = [asked EXCEPT ![p] = ids \cap Known(db)]
    BY <1>5 DEF Revoke, RevokeCall
  <2>2. \A q \in Procs : \A k \in asked'[q] \ pend'[q] : k \in asked[q] \ pend[q]
    BY <1>1, <2>1
  <2>3. \A q \in Procs : \A k \in asked'[q] : k \in asked[q] \/ k \in Known(db')
    BY <1>1, <2>1
  <2>4. \A k : Promised(k) =>
            /\ k \in Known(db') \/ Wiped'
            /\ k \in Flagged(db) \/ Excused(k) => k \in Flagged(db') \/ Excused(k)'
    BY PromisesStay
  <2>5. \A q \in Procs : \A k \in owed[q] :
            k \in must'[q] \/ Excused(k)' \/ db'[k].expires < now'
    BY <2>1, OwedStays
  <2>6. QED
    BY <1>1, <2>1, <2>2, <2>3, <2>4, <2>5 DEF RevocationsMatch, Promised
<1>6. ASSUME NEW p \in Procs, NEW ids, RevokeSome(p, ids) PROVE RevocationsMatch'
  <2>1. /\ UNCHANGED <<asked, acked, owed>> /\ Observe
        /\ pend' = [pend EXCEPT ![p] = @ \ ids] /\ db' = WithFlags(db, ids)
    BY <1>6 DEF RevokeSome, RevokeFlag, adminVars
  <2>2. ASSUME NEW q \in Procs, NEW k \in asked[q] \ pend'[q]
        PROVE  k \in Flagged(db') \/ Excused(k)'
    <3>1. Promised(k) /\ (k \in Known(db) \/ Wiped)
      BY <1>1 DEF RevocationsMatch, Promised
    <3>2. CASE k \in ids
      <4>1. Flagged(db') = Flagged(db) \cup (ids \cap Known(db))
        BY <1>1, <2>1, FlagsGrow
      <4>2. QED
        BY <3>1, <3>2, <4>1, ExcusesStay DEF Excused
    <3>3. CASE k \notin ids
      <4>1. k \in asked[q] \ pend[q]
        BY <1>1, <2>1, <3>3
      <4>2. QED
        BY <1>1, <3>1, <4>1, PromisesStay DEF RevocationsMatch
    <3>4. QED
      BY <3>2, <3>3
  <2>3. \A q \in Procs : \A k \in owed[q] :
            k \in must'[q] \/ Excused(k)' \/ db'[k].expires < now'
    BY <2>1, OwedStays DEF Observe
  <2>4. \A k : Promised(k) =>
            /\ k \in Known(db') \/ Wiped'
            /\ k \in Flagged(db) \/ Excused(k) => k \in Flagged(db') \/ Excused(k)'
    BY PromisesStay
  <2>5. QED
    BY <1>1, <2>1, <2>2, <2>3, <2>4 DEF RevocationsMatch, Promised
<1>7. ASSUME NEW p \in Procs, RevokeRedirect(p) \/ RevokeFails(p) PROVE RevocationsMatch'
  <2>1. /\ UNCHANGED <<owed, must>>
        /\ pend' = [pend EXCEPT ![p] = {}] /\ asked' = [asked EXCEPT ![p] = {}]
        /\ acked' = acked \/ (pend[p] = {} /\ acked' = acked \cup asked[p])
    BY <1>7 DEF RevokeRedirect, RevokeFails, RevokeOk, RevokeErr, RevokeDone
  <2>2. acked \subseteq acked' /\ \A k \in acked' : k \in acked \/ k \in asked[p] \ pend[p]
    BY <2>1
  <2>3. \A q \in Procs : asked'[q] \subseteq asked[q] /\ asked'[q] \ pend'[q] \subseteq asked[q] \ pend[q]
    BY <1>1, <2>1
  <2>4. \A q \in Procs : \A k \in owed[q] :
            k \in must'[q] \/ Excused(k)' \/ db'[k].expires < now'
    BY <2>1, OwedStays
  <2>5. \A k : Promised(k) =>
            /\ k \in Known(db') \/ Wiped'
            /\ k \in Flagged(db) \/ Excused(k) => k \in Flagged(db') \/ Excused(k)'
    BY PromisesStay
  <2>6. \A k \in acked' : Promised(k) /\ (k \in Flagged(db) \/ Excused(k))
    BY <1>1, <2>2 DEF RevocationsMatch, Promised
  <2>7. QED
    BY <1>1, <2>1, <2>2, <2>3, <2>4, <2>5, <2>6 DEF RevocationsMatch, Promised
<1>8. ASSUME NEW p \in Procs, Revoked(p) PROVE RevocationsMatch'
  <2>1. /\ UNCHANGED <<asked, acked, pend, db, now>>
        /\ owed' = [owed EXCEPT ![p] = acked]
        /\ must' = [must EXCEPT ![p] = Listed(db, now)]
    BY <1>8 DEF Revoked, GetRevokedCall
  <2>2. \A k : Promised(k) =>
            /\ k \in Known(db') \/ Wiped'
            /\ k \in Flagged(db) \/ Excused(k) => k \in Flagged(db') \/ Excused(k)'
    BY PromisesStay
  <2>3. ASSUME NEW q \in Procs, NEW k \in owed'[q]
        PROVE  k \in must'[q] \/ Excused(k)' \/ db'[k].expires < now'
    <3>1. CASE q = p
      <4>1. k \in acked /\ must'[q] = Listed(db, now)
        BY <1>1, <2>1, <3>1
      <4>2. k \in Flagged(db) \/ Excused(k)
        BY <1>1, <4>1 DEF RevocationsMatch
      <4>3. CASE k \in Flagged(db)
        BY <1>1, <2>1, <4>1, <4>3, FlaggedOrExpired
      <4>4. QED
        BY <4>2, <4>3, ExcusesStay
    <3>2. CASE q # p
      BY <1>1, <2>1, <3>2, OwedStays
    <3>3. QED
      BY <3>1, <3>2
  <2>4. \A q \in Procs : owed'[q] \subseteq acked
    BY <1>1, <2>1 DEF RevocationsMatch, Promised
  <2>5. QED
    BY <1>1, <2>1, <2>2, <2>3, <2>4 DEF RevocationsMatch, Promised
<1>9. ASSUME NEW p \in Procs, RevokedDone(p), GetRevokedDone(p) PROVE RevocationsMatch'
  <2>1. /\ UNCHANGED <<asked, acked, pend, db, now>>
        /\ owed' = [owed EXCEPT ![p] = {}]
        /\ must' = [must EXCEPT ![p] = {}]
    BY <1>9 DEF RevokedDone, GetRevokedDone
  <2>2. \A k : Promised(k) =>
            /\ k \in Known(db') \/ Wiped'
            /\ k \in Flagged(db) \/ Excused(k) => k \in Flagged(db') \/ Excused(k)'
    BY PromisesStay
  <2>3. \A q \in Procs : \A k \in owed'[q] : q # p /\ k \in owed[q] /\ must'[q] = must[q]
    BY <1>1, <2>1
  <2>4. \A q \in Procs : \A k \in owed'[q] :
            k \in must'[q] \/ Excused(k)' \/ db'[k].expires < now'
    BY <2>3, OwedStays
  <2>5. QED
    BY <1>1, <2>1, <2>2, <2>3, <2>4 DEF RevocationsMatch, Promised
<1>10. ASSUME Restart PROVE RevocationsMatch'
  <2>1. acked' = acked /\ \A q \in Procs : asked'[q] = {} /\ owed'[q] = {}
    BY <1>10 DEF Restart, NoIDs
  <2>2. \A k : Promised(k) =>
            /\ k \in Known(db') \/ Wiped'
            /\ k \in Flagged(db) \/ Excused(k) => k \in Flagged(db') \/ Excused(k)'
    BY PromisesStay
  <2>3. QED
    BY <1>1, <2>1, <2>2 DEF RevocationsMatch, Promised
<1>11. CASE UNCHANGED vars
  BY <1>11, PromisesUntouched DEF vars, storeVars, adminVars
<1>12. QED
  BY <1>2, <1>3, <1>4, <1>5, <1>6, <1>7, <1>8, <1>9, <1>10, <1>11
  DEF Next, SignStep, RevokeStep, RevokedStep, RevokedServes, RevokedFails,
      GetRevokedOk, GetRevokedErr

-----------------------------------------------------------------------------
(***************************************************************************)
(* The audit trail.                                                        *)
(***************************************************************************)
\* Handler p has handed its record to the store, and it was taken.
Recorded(p) ==
    LET k == signed[cert[p]].keyId IN
        /\ step[p] = "setrecord" /\ signed' = signed
        /\ InMemory \/ db[k] = Absent
        /\ db' = WithRecord(db, k, RecordOf(p))

\* There are three ways for the table to change.
LEMMA TableStep ==
    ASSUME CAInv, [Next]_vars
    PROVE  \/ db' = db
           \/ \E p \in Procs : Recorded(p)
           \/ \E ids : db' = WithFlags(db, ids)
           \/ InMemory /\ restarts' > 0 /\ db' = EmptyTable
<1>1. ASSUME NEW p \in Procs, SetRecord(p) \/ SetRecordFails(p)
      PROVE  db' = db \/ Recorded(p)
  BY <1>1 DEF SetRecord, SetRecordFails, SetRecordOk, SetRecordErr, Recorded, signVars
<1>2. ASSUME NEW p \in Procs, NEW ids, RevokeSome(p, ids)
      PROVE  db' = WithFlags(db, ids)
  BY <1>2 DEF RevokeSome, RevokeFlag
<1>3. ASSUME Restart
      PROVE  db' = db \/ (InMemory /\ restarts' > 0 /\ db' = EmptyTable)
  <2>1. restarts' > 0
    BY <1>3, CAAssumption DEF CAInv, CATypeOK, Restart
  <2>2. QED
    BY <1>3, <2>1 DEF Restart, StoreRestart
<1>4. ASSUME NEW p \in Procs,
             \/ \E r : Sign(p, r)
             \/ \E s : SignKey(p, s)
             \/ Username(p) \/ RevokeToken(p) \/ SignKeyFails(p)
             \/ Respond(p) \/ RespondFails(p)
      PROVE  db' = db
  BY <1>4 DEF Sign, SignKey, Username, RevokeToken, SignKeyFails, Respond, RespondFails, StoreQuiet
<1>5. ASSUME NEW p \in Procs,
             \/ \E ids : Revoke(p, ids) \/ RevokedServes(p, ids)
             \/ RevokeRedirect(p) \/ RevokeFails(p) \/ Revoked(p) \/ RevokedFails(p)
      PROVE  db' = db
  BY <1>5 DEF Revoke, RevokeCall, RevokedServes, RevokedFails, GetRevokedOk, GetRevokedErr,
      GetRevokedDone, RevokeRedirect, RevokeFails, RevokeOk, RevokeErr, RevokeDone,
      Revoked, GetRevokedCall
<1>6. ASSUME Tick \/ UNCHANGED vars \/ \E b : GetCertsJSON(b) PROVE db' = db
  BY <1>6 DEF Tick, StoreTick, GetCertsJSON, StoreQuiet, vars, storeVars
<1>7. QED
  BY <1>1, <1>2, <1>3, <1>4, <1>5, <1>6 DEF Next, SignStep, RevokeStep, RevokedStep

\* What a certificate has left behind outlasts every step, but in memory a
\* second certificate with its key id and a restart.
LEMMA TraceStays ==
    ASSUME CAInv, [Next]_vars, NEW s \in Issued, Traced(s)
    PROVE  Traced(s)'
<1> DEFINE k == signed[s].keyId
<1>1. /\ s \in Issued' /\ signed'[s] = signed[s]
      /\ Collided(s) => Collided(s)'
  BY SignedStays DEF Collided
<1>2. restarts > 0 => restarts' > 0
  <2>1. restarts' = restarts \/ (restarts \in Nat /\ restarts' = restarts + 1)
    BY CAAssumption
    DEF CAInv, CATypeOK,
        Next, SignStep, RevokeStep, RevokedStep, RevokedServes, RevokedFails, vars,
        Sign, Username, RevokeToken, SignKey, SignKeyFails, SetRecord, SetRecordFails, Respond,
        RespondFails, GetCertsJSON, Revoke, RevokeSome, RevokeRedirect, RevokeFails,
        Revoked, RevokedDone, Tick, Restart
  <2>2. QED
    BY <2>1
<1>3. logged \subseteq logged'
  BY DEF Next, SignStep, RevokeStep, RevokedStep, RevokedServes, RevokedFails, vars, signVars,
      Sign, Username, RevokeToken, SignKey, SignKeyFails, SetRecord, SetRecordFails, LogError,
      Respond, RespondFails, GetCertsJSON, Revoke, RevokeSome, RevokeRedirect, RevokeFails,
      Revoked, RevokedDone, Tick, Restart
<1>4. CASE s \in logged \/ (InMemory /\ (Collided(s) \/ restarts > 0))
  BY <1>1, <1>2, <1>3, <1>4 DEF Traced, InMemory
<1>5. CASE db[k] # Absent /\ db[k].serial = s
  <2>1. db \in Tables /\ CATypeOK /\ LocalsMatch /\ RecordsMatch
    BY DEF CAInv, CATypeOK, StoreTypeOK
  <2>2. k \in KeyIDs /\ k \in Known(db)
    BY <1>5, <2>1 DEF CATypeOK, Issued, Certs, Known
  <2>3. CASE db' = db
    BY <1>1, <1>5, <2>3 DEF Traced
  <2>4. ASSUME NEW p \in Procs, Recorded(p) PROVE Traced(s)'
    <3>1. /\ signed[cert[p]].keyId \in KeyIDs /\ RecordOf(p) \in Record
          /\ cert[p] \in Issued /\ signed' = signed
      BY <2>1, <2>4, RecordOfTyped DEF Recorded
    <3>2. CASE signed[cert[p]].keyId = k
      <4>1. cert[p] # s
        BY <1>5, <2>1, <2>2, <2>4 DEF RecordsMatch, Recorded
      <4>2. InMemory /\ Collided(s)'
        BY <1>5, <2>4, <3>1, <3>2, <4>1 DEF Recorded, Collided, Issued
      <4>3. QED
        BY <4>2 DEF Traced, InMemory
    <3>3. CASE signed[cert[p]].keyId # k
      <4>1. db'[k] = db[k]
        BY <2>1, <2>2, <2>4, <3>1, <3>3 DEF Recorded, WithRecord, Tables
      <4>2. QED
        BY <1>1, <1>5, <4>1 DEF Traced
    <3>4. QED
      BY <3>2, <3>3
  <2>5. ASSUME NEW ids, db' = WithFlags(db, ids) PROVE Traced(s)'
    <3>1. k \in Known(db') /\ db'[k].serial = db[k].serial
      BY <2>1, <2>2, <2>5, FlagsGrow, FlagsKeep
    <3>2. QED
      BY <1>1, <1>5, <3>1 DEF Traced, Known
  <2>6. CASE InMemory /\ restarts' > 0
    BY <2>6 DEF Traced, InMemory
  <2>7. QED
    BY <2>3, <2>4, <2>5, <2>6, TableStep
<1>6. QED
  BY <1>4, <1>5 DEF Traced

\* A step that sends nothing and brings no handler further leaves the traces.
LEMMA TracesUntouched ==
    ASSUME CAInv, [Next]_vars, delivered' = delivered,
           \A p \in Procs : step'[p] = "encode" => step[p] = "encode" /\ cert'[p] = cert[p],
           \A p \in Procs :
               step'[p] \in {"username", "revoketoken", "signkey", "setrecord"} =>
                   /\ step[p] \in {"username", "revoketoken", "signkey", "setrecord"}
                   /\ req'[p] = req[p],
           \A k \in Known(db') : k \in Known(db) /\ db'[k].message = db[k].message
    PROVE  TracesMatch'
<1>1. TracesMatch /\ LocalsMatch
  BY DEF CAInv
<1>2. \A s \in Issued : s \in Issued' /\ (Traced(s) => Traced(s)')
  BY SignedStays, TraceStays
<1>3. (delivered \subseteq Issued)' /\ AuditTrail'
  BY <1>1, <1>2 DEF TracesMatch, AuditTrail
<1>4. ASSUME NEW p \in Procs, step'[p] = "encode" PROVE Traced(cert[p])'
  <2>1. step[p] = "encode" /\ cert'[p] = cert[p] /\ cert[p] \in Issued
    BY <1>1, <1>4 DEF LocalsMatch
  <2>2. QED
    BY <1>1, <1>2, <2>1 DEF TracesMatch
<1>5. ReasonRecorded'
  BY <1>1 DEF TracesMatch, ReasonRecorded
<1>6. \A p \in Procs :
          step'[p] \in {"username", "revoketoken", "signkey", "setrecord"}
             => ReasonGiven(req[p])'
  BY <1>1 DEF TracesMatch, ReasonGiven
<1>7. QED
  BY <1>3, <1>4, <1>5, <1>6 DEF TracesMatch

\* Every certificate has its trace and every recorded one its reason, after
\* every step.
LEMMA TracesStep ==
    ASSUME CAInv, [Next]_vars
    PROVE  TracesMatch'
<1> USE DEF Goto, Finish, StoreQuiet, signVars
<1>1. /\ CATypeOK /\ LocalsMatch /\ RecordsMatch /\ TracesMatch
      /\ step \in [Procs -> Steps] /\ db \in Tables
      /\ req \in [Procs -> Requests \cup {None}] /\ cert \in [Procs -> Serials \cup {None}]
  BY DEF CAInv, CATypeOK, StoreTypeOK
<1>2. \A s \in Issued : s \in Issued' /\ (Traced(s) => Traced(s)')
  BY SignedStays, TraceStays
<1>3. ASSUME NEW p \in Procs, NEW r, Sign(p, r) PROVE TracesMatch'
  <2>1. (delivered \subseteq Issued)' /\ AuditTrail' /\ ReasonRecorded'
    BY <1>1, <1>2, <1>3 DEF TracesMatch, AuditTrail, ReasonRecorded, Sign, Known
  <2>2. ASSUME NEW q \in Procs, step'[q] = "encode" PROVE Traced(cert[q])'
    BY <1>1, <1>2, <1>3, <2>2 DEF TracesMatch, LocalsMatch, Sign
  <2>3. ASSUME NEW q \in Procs,
               step'[q] \in {"username", "revoketoken", "signkey", "setrecord"}
        PROVE  ReasonGiven(req[q])'
    BY <1>1, <1>3, <2>3 DEF TracesMatch, Sign, ReasonGiven
  <2>4. QED
    BY <2>1, <2>2, <2>3 DEF TracesMatch
<1>4. ASSUME NEW p \in Procs,
             Username(p) \/ RevokeToken(p) \/ SignKeyFails(p) \/ RespondFails(p)
      PROVE  TracesMatch'
  BY <1>1, <1>4, TracesUntouched DEF Username, RevokeToken, SignKeyFails, RespondFails
<1>5. ASSUME NEW p \in Procs, NEW s \in Serials, SignKey(p, s) PROVE TracesMatch'
  BY <1>1, <1>5, TracesUntouched DEF SignKey
<1>6. ASSUME NEW p \in Procs, SetRecord(p) \/ SetRecordFails(p) PROVE TracesMatch'
  <2> DEFINE k == signed[cert[p]].keyId
  <2>1. /\ step[p] = "setrecord" /\ step' = [step EXCEPT ![p] = "encode"]
        /\ UNCHANGED <<req, cert, signed, delivered>>
        /\ db' = db \/ db' = WithRecord(db, k, RecordOf(p))
    BY <1>6 DEF SetRecord, SetRecordFails, SetRecordOk, SetRecordErr
  <2>2. /\ k \in KeyIDs /\ RecordOf(p) \in Record /\ RecordOf(p).serial = cert[p]
        /\ RecordOf(p).message = req[p].message
    BY <1>1, <2>1, RecordOfTyped
  <2>3. (delivered \subseteq Issued)' /\ AuditTrail'
    BY <1>1, <1>2, <2>1 DEF TracesMatch, AuditTrail
  <2>4. Traced(cert[p])'
    <3>1. CASE SetRecord(p)
      <4>1. db' = WithRecord(db, k, RecordOf(p)) /\ UNCHANGED <<cert, signed>>
        BY <3>1 DEF SetRecord, SetRecordOk
      <4>2. db'[k] = RecordOf(p)
        BY <1>1, <2>2, <4>1 DEF WithRecord, Tables
      <4>3. db'[k] # Absent /\ db'[k].serial = cert[p]
        BY <2>2, <4>2, RecordAssumption
      <4>4. QED
        BY <4>1, <4>3 DEF Traced
    <3>2. CASE SetRecordFails(p)
      BY <3>2 DEF SetRecordFails, LogError, Traced
    <3>3. QED
      BY <1>6, <3>1, <3>2
  <2>5. ASSUME NEW q \in Procs, step'[q] = "encode" PROVE Traced(cert[q])'
    <3>1. CASE q = p
      BY <2>4, <3>1
    <3>2. CASE q # p
      BY <1>1, <1>2, <2>1, <2>5, <3>2 DEF TracesMatch, LocalsMatch
    <3>3. QED
      BY <3>1, <3>2
  <2>6. ReasonGiven(req[p])
    BY <1>1, <2>1 DEF TracesMatch
  <2>7. ReasonRecorded'
    <3>1. CASE db' = db
      BY <1>1, <3>1 DEF TracesMatch, ReasonRecorded, Known
    <3>2. CASE db' = WithRecord(db, k, RecordOf(p))
      <4> HIDE DEF k
      <4>1. \A j \in KeyIDs : db'[j] = IF j = k THEN RecordOf(p) ELSE db[j]
        BY <1>1, <2>2, <3>2 DEF WithRecord, Tables
      <4>2. QED
        BY <1>1, <2>2, <2>6, <4>1 DEF TracesMatch, ReasonRecorded, ReasonGiven, Known
    <3>3. QED
      BY <2>1, <3>1, <3>2
  <2>8. ASSUME NEW q \in Procs,
               step'[q] \in {"username", "revoketoken", "signkey", "setrecord"}
        PROVE  ReasonGiven(req[q])'
    BY <1>1, <2>1, <2>8 DEF TracesMatch, ReasonGiven
  <2>9. QED
    BY <2>3, <2>5, <2>7, <2>8 DEF TracesMatch
<1>7. ASSUME NEW p \in Procs, Respond(p) PROVE TracesMatch'
  <2>1. step[p] = "encode" /\ cert[p] \in Issued /\ Traced(cert[p])
    BY <1>1, <1>7 DEF Respond, LocalsMatch, TracesMatch
  <2>2. (delivered \subseteq Issued)' /\ AuditTrail'
    BY <1>1, <1>2, <1>7, <2>1 DEF TracesMatch, AuditTrail, Respond
  <2>3. ASSUME NEW q \in Procs, step'[q] = "encode" PROVE Traced(cert[q])'
    BY <1>1, <1>2, <1>7, <2>3 DEF TracesMatch, LocalsMatch, Respond
  <2>4. ReasonRecorded'
    BY <1>1, <1>7 DEF TracesMatch, ReasonRecorded, Known, Respond
  <2>5. ASSUME NEW q \in Procs,
               step'[q] \in {"username", "revoketoken", "signkey", "setrecord"}
        PROVE  ReasonGiven(req[q])'
    BY <1>1, <1>7, <2>5 DEF TracesMatch, ReasonGiven, Respond
  <2>6. QED
    BY <2>2, <2>3, <2>4, <2>5 DEF TracesMatch
<1>8. ASSUME NEW b, GetCertsJSON(b) PROVE TracesMatch'
  BY <1>1, <1>8, TracesUntouched DEF GetCertsJSON
<1>9. ASSUME NEW p \in Procs, NEW ids, Revoke(p, ids) PROVE TracesMatch'
  BY <1>1, <1>9, TracesUntouched DEF Revoke, RevokeCall
<1>10. ASSUME NEW p \in Procs, NEW ids, RevokeSome(p, ids) PROVE TracesMatch'
  <2>1. \A k \in Known(db') : k \in Known(db) /\ db'[k].message = db[k].message
    BY <1>1, <1>10, FlagsGrow, FlagsKeep DEF RevokeSome, RevokeFlag
  <2>2. QED
    BY <1>10, <2>1, TracesUntouched DEF RevokeSome
<1>11. ASSUME NEW p \in Procs, RevokeRedirect(p) \/ RevokeFails(p) PROVE TracesMatch'
  BY <1>1, <1>11, TracesUntouched
  DEF RevokeRedirect, RevokeFails, RevokeOk, RevokeErr, RevokeDone
<1>12. ASSUME NEW p \in Procs, Revoked(p) PROVE TracesMatch'
  BY <1>1, <1>12, TracesUntouched DEF Revoked, GetRevokedCall
<1>13. ASSUME NEW p \in Procs, RevokedDone(p), GetRevokedDone(p) PROVE TracesMatch'
  BY <1>1, <1>13, TracesUntouched DEF RevokedDone, GetRevokedDone
<1>14. ASSUME Tick PROVE TracesMatch'
  BY <1>1, <1>14, TracesUntouched DEF Tick, StoreTick
<1>15. ASSUME Restart PROVE TracesMatch'
  <2>1. delivered' = delivered /\ \A p \in Procs : step'[p] = "idle"
    BY <1>15 DEF Restart
  <2>2. \A k \in Known(db') : k \in Known(db) /\ db'[k].message = db[k].message
    BY <1>15 DEF Restart, StoreRestart, EmptyTable, Known
  <2>3. QED
    BY <2>1, <2>2, TracesUntouched
<1>16. CASE UNCHANGED vars
  BY <1>1, <1>16, TracesUntouched DEF vars, storeVars
<1>17. QED
  BY <1>3, <1>4, <1>5, <1>6, <1>7, <1>8, <1>9, <1>10, <1>11, <1>12, <1>13, <1>14, <1>15, <1>16
  DEF Next, SignStep, RevokeStep, RevokedStep, RevokedServes, RevokedFails,
      GetRevokedOk, GetRevokedErr

-----------------------------------------------------------------------------
(***************************************************************************)
(* The theorems.                                                           *)
(***************************************************************************)
LEMMA InitInv == Init => CAInv
<1> SUFFICES ASSUME Init PROVE CAInv
  OBVIOUS
<1>1. StoreTypeOK /\ BoundsMeet
  BY StoreStarts DEF Init
<1>2. CATypeOK
  <2>1. restarts \in 0 .. MaxRestarts
    BY CAAssumption DEF Init
  <2>2. QED
    BY <1>1, <2>1 DEF Init, CATypeOK, Steps, Names, NoIDs
<1>3. Known(db) = {}
  BY DEF Init, StoreInit, EmptyTable, Known
<1>4. CallsMatch
  BY DEF Init, StoreInit, CallsMatch
<1>5. LocalsMatch
  BY DEF Init, LocalsMatch
<1>6. RecordsMatch
  BY <1>3 DEF Init, RecordsMatch
<1>7. RevocationsMatch
  BY DEF Init, RevocationsMatch, NoIDs
<1>8. TracesMatch
  BY <1>3 DEF Init, TracesMatch, AuditTrail, ReasonRecorded
<1>9. QED
  BY <1>1, <1>2, <1>4, <1>5, <1>6, <1>7, <1>8 DEF CAInv

\* Handlers in progress, the store, the signed certificates and the promises
\* to administrators agree at every moment, whatever happens in between.
THEOREM Invariance == Spec => []CAInv
<1>1. Init => CAInv
  BY InitInv
<1>2. CAInv /\ [Next]_vars => CAInv'
  BY TypeStep, CallsStep, LocalsStep, RecordsStep, RevocationsStep, TracesStep DEF CAInv
<1>3. QED
  BY <1>1, <1>2, PTL DEF Spec

\* No arithmetic on expiry times leaves its integer type, no handler misses a
\* local it needs: the variables of the CA keep their types.
THEOREM TypeCorrect == Spec => []CATypeOK
<1>1. CAInv => CATypeOK
  BY DEF CAInv
<1>2. QED
  BY <1>1, Invariance, PTL

\* The record of a certificate that is not excused has its expiry.
LEMMA ExpiryOf ==
    ASSUME CAInv, NEW k \in Known(db), NEW s \in Issued, signed[s].keyId = k,
           ~Collided(s), ~Wrapped(signed[s])
    PROVE  db[k].expires = signed[s].validBefore
<1>1. /\ db[k].serial \in Issued /\ signed[db[k].serial].keyId = k
      /\ db[k].expires = Int64(signed[db[k].serial].validBefore)
  BY DEF CAInv, RecordsMatch
<1>2. db[k].serial = s
  BY <1>1 DEF Collided
<1>3. signed[s].validBefore \in Int /\ Half \in Int
  BY SignerAssumption DEF CAInv, CATypeOK, Issued, Certs, Uint64s
<1>4. QED
  BY <1>1, <1>2, <1>3 DEF Int64, Wrapped

\* A certificate nobody shares its key id with is not excused.
LEMMA NotExcused ==
    ASSUME NEW s \in Issued, ~Collided(s), ~Wiped
    PROVE  ~Excused(signed[s].keyId)
<1> SUFFICES ASSUME NEW o \in Issued, signed[o].keyId = signed[s].keyId, Collided(o)
             PROVE  FALSE
  BY DEF Excused
<1>1. o = s
  BY DEF Collided
<1>2. QED
  BY <1>1

\* A revocation that was reported done is in every revocation list drawn from
\* the store while the certificate is in force.
THEOREM RevocationsHold == Spec => []RevocationHolds
<1>1. CAInv => RevocationHolds
  <2> SUFFICES ASSUME CAInv, NEW s \in RevokedInForce(acked, now)
               PROVE  signed[s].keyId \in Listed(db, now)
    BY DEF RevocationHolds
  <2> DEFINE k == signed[s].keyId
  <2>1. /\ s \in Issued /\ k \in acked /\ now < signed[s].validBefore
        /\ ~Wrapped(signed[s]) /\ ~Collided(s) /\ ~Wiped
    BY DEF RevokedInForce, InForce
  <2>2. k \in Flagged(db)
    BY <2>1, NotExcused DEF CAInv, RevocationsMatch
  <2>3. db[k].expires = signed[s].validBefore
    BY <2>1, <2>2, ExpiryOf DEF Flagged
  <2>4. db \in Tables /\ now \in Times /\ now \in Int /\ signed[s].validBefore \in Int
    BY <2>1, TimeAssumption
    DEF CAInv, CATypeOK, StoreTypeOK, Times, Issued, Certs, Uint64s
  <2>5. QED
    BY <2>1, <2>2, <2>3, <2>4, FlaggedOrExpired
<1>2. QED
  BY <1>1, Invariance, PTL

\* The step of a revocation list that is served.
LEMMA ServedList ==
    ASSUME CAInv, [Next]_vars, NEW p \in Procs, NEW r \in ret',
           ~UNCHANGED vars, step[p] = "revoked", r.proc = p, r.ok
    PROVE  must[p] \subseteq r.ids
<1>1. call[p] = "GetRevoked"
  BY DEF CAInv, CallsMatch
<1>2. StoreNext
  BY StoreStepOfCA DEF CAInv
<1>3. ASSUME NEW q \in Procs, NEW k, NEW rec, SetRecordOk(q, k, rec) \/ SetRecordErr(q, k, rec)
      PROVE  FALSE
  BY <1>1, <1>3 DEF SetRecordOk, SetRecordErr, Returned
<1>4. ASSUME NEW q \in Procs, NEW ids,
             \/ RevokeCall(q, ids) \/ RevokeFlag(q, ids)
             \/ RevokeOk(q) \/ RevokeErr(q) \/ GetRevokedCall(q) \/ GetRevokedErr(q)
      PROVE  FALSE
  BY <1>1, <1>4
  DEF RevokeCall, RevokeFlag, RevokeOk, RevokeErr, RevokeDone, GetRevokedCall, GetRevokedErr, Returned
<1>5. ASSUME NEW q \in Procs, NEW ids, GetRevokedOk(q, ids)
      PROVE  must[p] \subseteq r.ids
  BY <1>5 DEF GetRevokedOk, Returned
<1>6. ASSUME StoreTick \/ Close \/ StoreRestart \/ StoreQuiet PROVE FALSE
  BY <1>6 DEF StoreTick, Close, StoreRestart, StoreQuiet
<1>7. QED
  BY <1>2, <1>3, <1>4, <1>5, <1>6 DEF StoreNext

\* A revocation list names every certificate, in force when it is served,
\* whose revocation had been reported done when it was asked for.
THEOREM ListsCover == Spec => KRLCovers
<1>1. CAInv /\ [Next]_vars =>
        [\A p \in Procs : \A r \in ret' :
          step[p] = "revoked" /\ r.proc = p /\ r.ok =>
             \A s \in RevokedInForce(owed[p], now) :
                signed[s].keyId \in GenerateRevocationList(r.ids)]_vars
  <2> SUFFICES ASSUME CAInv, [Next]_vars, ~UNCHANGED vars,
                      NEW p \in Procs, NEW r \in ret',
                      step[p] = "revoked", r.proc = p, r.ok,
                      NEW s \in RevokedInForce(owed[p], now)
               PROVE  signed[s].keyId \in GenerateRevocationList(r.ids)
    OBVIOUS
  <2> DEFINE k == signed[s].keyId
  <2>1. /\ s \in Issued /\ k \in owed[p] /\ now < signed[s].validBefore
        /\ ~Wrapped(signed[s]) /\ ~Collided(s) /\ ~Wiped
    BY DEF RevokedInForce, InForce
  <2>2. k \in acked /\ ~Excused(k)
    BY <2>1, NotExcused DEF CAInv, RevocationsMatch
  <2>3. k \in Flagged(db) /\ (k \in must[p] \/ db[k].expires < now)
    BY <2>1, <2>2 DEF CAInv, RevocationsMatch
  <2>4. db[k].expires = signed[s].validBefore
    BY <2>1, <2>3, ExpiryOf DEF Flagged
  <2>5. now \in Int /\ signed[s].validBefore \in Int
    BY <2>1, TimeAssumption
    DEF CAInv, CATypeOK, StoreTypeOK, Times, Issued, Certs, Uint64s
  <2>6. k \in must[p]
    BY <2>1, <2>3, <2>4, <2>5
  <2>7. QED
    BY <2>6, ServedList DEF GenerateRevocationList
<1>2. QED
  BY <1>1, Invariance, PTL DEF Spec, KRLCovers

\* Every certificate a client holds has left a record or a line in the log,
\* whatever the store failed at; in memory unless its key id was given twice
\* or the server restarted.
THEOREM TrailKept == Spec => []AuditTrail
<1>1. CAInv => AuditTrail
  BY DEF CAInv, TracesMatch
<1>2. QED
  BY <1>1, Invariance, PTL

\* With require_reason, every record has its reason, whatever handlers
\* overlap.
THEOREM ReasonsRecorded == Spec => []ReasonRecorded
<1>1. CAInv => ReasonRecorded
  BY DEF CAInv, TracesMatch
<1>2. QED
  BY <1>1, Invariance, PTL

\* The arithmetic of the expiry: at most max_age from now, or a negative int64
\* that comes out in the upper half of uint64.
LEMMA ClipKeepsMaxAge ==
    ASSUME NEW u \in Names, NEW until \in Untils, NEW t \in Times
    PROVE  \/ Wrapped(SignUserKey(u, until, t))
           \/ SignUserKey(u, until, t).validBefore <= SignUserKey(u, until, t).keyId[2] + Validity
<1>1. /\ Half \in Nat /\ Validity \in Nat
      /\ t \in Nat /\ until \in Int /\ -Half <= until
  BY CAAssumption, SignerAssumption, TimeAssumption DEF Times, Int64s
<1>2. Clip(until, t) \in Int /\ Clip(until, t) <= t + Validity /\ -Half <= Clip(until, t)
  BY <1>1 DEF Clip
<1>3. Uint64(Clip(until, t)) >= Half \/ Uint64(Clip(until, t)) <= t + Validity
  BY <1>1, <1>2 DEF Uint64
<1>4. QED
  BY <1>3 DEF SignUserKey, Wrapped

\* No certificate outlives max_age from the second it was signed in, whatever
\* expiry the client asks for, unless that lay before 1970 and wrapped.
THEOREM MaxAgeKept == Spec => []MaxAgeUnlessWrapped
<1>1. Init => MaxAgeUnlessWrapped
  BY DEF Init, MaxAgeUnlessWrapped, Issued
<1>2. CAInv /\ MaxAgeUnlessWrapped /\ [Next]_vars => MaxAgeUnlessWrapped'
  <2> SUFFICES ASSUME CAInv, MaxAgeUnlessWrapped, [Next]_vars PROVE MaxAgeUnlessWrapped'
    OBVIOUS
  <2>1. CASE signed' = signed
    BY <2>1 DEF MaxAgeUnlessWrapped, Issued
  <2>2. ASSUME NEW p \in Procs, NEW s \in Serials, SignKey(p, s)
        PROVE  MaxAgeUnlessWrapped'
    <3>1. signed \in [Serials -> Certs \cup {None}]
      BY DEF CAInv, CATypeOK
    <3>2. name[p] \in Names /\ req[p].until \in Untils /\ now \in Times
      BY <2>2 DEF CAInv, CATypeOK, StoreTypeOK, LocalsMatch, SignKey, Requests
    <3> DEFINE c == SignUserKey(name[p], req[p].until, now)
    <3>3. Wrapped(c) \/ c.validBefore <= c.keyId[2] + Validity
      BY <3>2, ClipKeepsMaxAge
    <3> HIDE DEF c
    <3>4. signed' = [signed EXCEPT ![s] = c]
      BY <2>2 DEF SignKey, c
    <3>5. QED
      BY <3>1, <3>3, <3>4 DEF MaxAgeUnlessWrapped, Issued
  <2>3. QED
    BY <2>1, <2>2
    DEF Next, SignStep, RevokeStep, RevokedStep, RevokedServes, RevokedFails, vars, signVars,
        Sign, Username, RevokeToken, SignKeyFails, SetRecord, SetRecordFails, Respond,
        RespondFails, GetCertsJSON, Revoke, RevokeSome, RevokeRedirect, RevokeFails,
        Revoked, RevokedDone, Tick, Restart
<1>3. QED
  BY <1>1, <1>2, Invariance, PTL DEF Spec

\* The CA uses its store only as CertStorer allows: what is proved of every
\* store holds under it.
THEOREM UsesStore == Spec => StoreSpec
<1>1. Init => StoreInit
  BY DEF Init
<1>2. CAInv /\ [Next]_vars => [StoreNext]_storeVars
  BY StoreStepOfCA DEF CAInv
<1>3. QED
  BY <1>1, <1>2, Invariance, PTL DEF Spec, StoreSpec

\* Over a SQL store the CA never takes a revocation back: no handler, failure
\* or restart clears a flag.
THEOREM RevocationsStick == Spec => RevocationSticks
  BY UsesStore, SqlRevocationsStick, PTL
=============================================================================
