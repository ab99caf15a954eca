----------------------------- MODULE CertStorer -----------------------------
(***************************************************************************)
(* What the server may rely on when it holds a store.CertStorer            *)
(* (server/store/store.go), whichever store is configured.  MemStore and   *)
(* SqlStore are shown to implement this specification; CA is built on it.  *)
(*                                                                         *)
(* SetRecord is atomic.  Revoke flags its ids one group at a time and only *)
(* then answers, because memoryStore.Revoke flags record by record where a *)
(* reader without the lock can see it.  GetRevoked overlaps the writers:   *)
(* it must name what was listed during the whole call and may name only    *)
(* what was flagged at some moment of it.  must and may are the two bounds *)
(* of the calls in progress.                                               *)
(***************************************************************************)
EXTENDS CertRecords

CONSTANTS
    Procs,      \* the goroutines that call the store
    Type,       \* the configured database type
    Start,      \* the clock when the server is first started
    MaxTime     \* bound: the clock stops here

ASSUME TypeAssumption == Type \in {"mem", "sqlite", "mysql"}
ASSUME TimeAssumption == /\ Start \in Nat
                         /\ MaxTime \in Nat
                         /\ Start <= MaxTime

VARIABLES
    db,     \* the table of records
    open,   \* FALSE once Close was called
    now,    \* time.Now(), in seconds
    call,   \* call[p]: the call goroutine p is in
    pend,   \* pend[p]: the ids p's Revoke has not flagged yet
    must,   \* must[p]: what p's GetRevoked has to name
    may,    \* may[p]: what p's GetRevoked may name
    ret     \* what the last step returned to a caller, if it did

storeVars == <<db, open, now, call, pend, must, may, ret>>

Times == Start .. MaxTime

\* The in-memory map is replaced by assignment; the SQL table has a UNIQUE
\* index on key_id, lives in another process and may be unreachable.
InMemory == Type = "mem"

\* A return value: whose call, whether it is without an error, and the key ids
\* of the records GetRevoked returns.
Returned(p, ok, ids) == [proc |-> p, ok |-> ok, ids |-> ids]
Returns == [proc : Procs, ok : BOOLEAN, ids : SUBSET KeyIDs]

StoreTypeOK ==
    /\ db \in Tables
    /\ open \in BOOLEAN
    /\ now \in Times
    /\ call \in [Procs -> {"none", "GetRevoked", "Revoke"}]
    /\ pend \in [Procs -> SUBSET KeyIDs]
    /\ must \in [Procs -> SUBSET KeyIDs]
    /\ may  \in [Procs -> SUBSET KeyIDs]
    /\ ret \in SUBSET Returns

NoIDs == [p \in Procs |-> {}]

StoreInit ==
    /\ db = EmptyTable
    /\ open = TRUE
    /\ now = Start
    /\ call = [p \in Procs |-> "none"]
    /\ pend = NoIDs /\ must = NoIDs /\ may = NoIDs
    /\ ret = {}

\* Every step that changes the table or the clock moves the bounds of the
\* GetRevoked calls in progress.
Observe ==
    /\ must' = [p \in Procs |-> must[p] \cap Listed(db', now')]
    /\ may'  = [p \in Procs |-> IF call[p] = "GetRevoked"
                                THEN may[p] \cup Flagged(db') ELSE may[p]]

(***************************************************************************)
(* SetRecord.                                                              *)
(***************************************************************************)
\* Variant: a database without the UNIQUE index, or an INSERT OR REPLACE.
SetRecordReplaces(p, k, rec) ==
    /\ call[p] = "none"
    /\ open
    /\ db' = WithRecord(db, k, rec)
    /\ ret' = {Returned(p, TRUE, {})}
    /\ UNCHANGED <<open, now, call, pend>>
    /\ Observe

SetRecordOk(p, k, rec) ==
    /\ call[p] = "none"
    /\ open
    /\ InMemory \/ db[k] = Absent
    /\ db' = WithRecord(db, k, rec)
    /\ ret' = {Returned(p, TRUE, {})}
    /\ UNCHANGED <<open, now, call, pend>>
    /\ Observe

\* A closed map panics; a database may be unreachable, hold the key id
\* already, or fail after the row was written.
SetRecordErr(p, k, rec) ==
    /\ call[p] = "none"
    /\ ~InMemory \/ ~open
    /\ \/ db' = db
       \/ open /\ db[k] = Absent /\ db' = WithRecord(db, k, rec)
    /\ ret' = {Returned(p, FALSE, {})}
    /\ UNCHANGED <<open, now, call, pend>>
    /\ Observe

(***************************************************************************)
(* Revoke.                                                                 *)
(***************************************************************************)
RevokeCall(p, ids) ==
    /\ call[p] = "none"
    /\ call' = [call EXCEPT ![p] = "Revoke"]
    /\ pend' = [pend EXCEPT ![p] = ids]
    /\ ret' = {}
    /\ UNCHANGED <<db, open, now, must, may>>

RevokeFlag(p, ids) ==
    /\ call[p] = "Revoke"
    /\ open
    /\ ids \subseteq pend[p] /\ ids # {}
    /\ db' = WithFlags(db, ids)
    /\ pend' = [pend EXCEPT ![p] = @ \ ids]
    /\ ret' = {}
    /\ UNCHANGED <<open, now, call>>
    /\ Observe

RevokeDone(p, success) ==
    /\ call[p] = "Revoke"
    /\ ret' = {Returned(p, success, {})}
    /\ call' = [call EXCEPT ![p] = "none"]
    /\ pend' = [pend EXCEPT ![p] = {}]
    /\ UNCHANGED <<db, open, now, must, may>>

\* Variant: an answer before every id is flagged.
RevokeOkEarly(p) == RevokeDone(p, TRUE)

RevokeOk(p) == pend[p] = {} /\ RevokeDone(p, TRUE)

\* An unknown id panics in memory; a database call may fail at any point.
RevokeErr(p) == RevokeDone(p, FALSE)

(***************************************************************************)
(* GetRevoked.                                                             *)
(***************************************************************************)
GetRevokedCall(p) ==
    /\ call[p] = "none"
    /\ call' = [call EXCEPT ![p] = "GetRevoked"]
    /\ must' = [must EXCEPT ![p] = Listed(db, now)]
    /\ may'  = [may EXCEPT ![p] = Flagged(db)]
    /\ ret' = {}
    /\ UNCHANGED <<db, open, now, pend>>

GetRevokedDone(p) ==
    /\ call[p] = "GetRevoked"
    /\ call' = [call EXCEPT ![p] = "none"]
    /\ must' = [must EXCEPT ![p] = {}]
    /\ may'  = [may EXCEPT ![p] = {}]
    /\ UNCHANGED <<db, open, now, pend>>

\* Variant: a query that misses rows.
GetRevokedIncomplete(p, ids) ==
    /\ ids \subseteq may[p]
    /\ ret' = {Returned(p, TRUE, ids)}
    /\ GetRevokedDone(p)

GetRevokedOk(p, ids) ==
    /\ must[p] \subseteq ids /\ ids \subseteq may[p]
    /\ ret' = {Returned(p, TRUE, ids)}
    /\ GetRevokedDone(p)

GetRevokedErr(p) ==
    /\ ~InMemory
    /\ ret' = {Returned(p, FALSE, {})}
    /\ GetRevokedDone(p)

(***************************************************************************)
(* The clock, Close, and a crash and restart of the server: no call        *)
(* survives it, and neither does a table kept in memory.                   *)
(***************************************************************************)
StoreTick ==
    /\ now < MaxTime
    /\ now' = now + 1
    /\ ret' = {}
    /\ UNCHANGED <<db, open, call, pend>>
    /\ Observe

Close ==
    /\ open
    /\ open' = FALSE
    /\ db' = IF InMemory THEN EmptyTable ELSE db
    /\ ret' = {}
    /\ UNCHANGED <<now, call, pend>>
    /\ Observe

StoreRestart ==
    /\ db' = IF InMemory THEN EmptyTable ELSE db
    /\ open' = TRUE
    /\ call' = [p \in Procs |-> "none"]
    /\ pend' = NoIDs /\ must' = NoIDs /\ may' = NoIDs
    /\ ret' = {}
    /\ UNCHANGED now

\* A step of a caller, or one inside the store that nobody can tell.
StoreQuiet == ret' = {} /\ UNCHANGED <<db, open, now, call, pend, must, may>>

StoreNext ==
    \/ \E p \in Procs :
          \/ \E k \in KeyIDs, rec \in Record :
                /\ ~rec.revoked
                /\ SetRecordOk(p, k, rec) \/ SetRecordErr(p, k, rec)
          \/ \E ids \in SUBSET KeyIDs :
                RevokeCall(p, ids) \/ RevokeFlag(p, ids) \/ GetRevokedOk(p, ids)
          \/ RevokeOk(p) \/ RevokeErr(p)
          \/ GetRevokedCall(p) \/ GetRevokedErr(p)
    \/ StoreTick \/ Close \/ StoreRestart \/ StoreQuiet

StoreSpec == StoreInit /\ [][StoreNext]_storeVars
-----------------------------------------------------------------------------
(***************************************************************************)
(* A revocation is never taken back: only a table kept in memory can lose  *)
(* one (memoryStore.SetRecord replaces the record; a restart or Close      *)
(* drops the map).  The SQL statements only insert rows and set the flag.  *)
(***************************************************************************)
RevocationSticks == [][~InMemory => Flagged(db) \subseteq Flagged(db')]_storeVars

\* A GetRevoked in progress never owes what it is not allowed to give, so it
\* can always answer: the bounds of CertStorer.GetRevoked are consistent.
BoundsMeet == \A p \in Procs : must[p] \subseteq may[p]
=============================================================================
