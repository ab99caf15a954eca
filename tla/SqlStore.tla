------------------------------ MODULE SqlStore ------------------------------
(***************************************************************************)
(* sqlStore (server/store/sqldb.go): the table issued_certs in MySQL or    *)
(* SQLite.  Every method pings the connection first and then runs one      *)
(* statement, each of which may fail; a statement that reports a failure   *)
(* may have been carried out (the connection broke before its answer).     *)
(* The database is another party (external): it is modelled by what the    *)
(* statements ask of it, one statement at a time, with the UNIQUE index on *)
(* key_id of the migrations.                                               *)
(***************************************************************************)
EXTENDS CertRecords

CONSTANTS
    Procs,      \* the goroutines that call the store
    Type,       \* "mysql" or "sqlite"
    Zone,       \* the local time zone of the server: seconds east of UTC
    Start,      \* the clock when the server is first started
    MaxTime     \* bound: the clock stops here

ASSUME SqlTypeAssumption == Type \in {"mysql", "sqlite"} /\ Zone \in Int
ASSUME SqlTimeAssumption == /\ Start \in Nat
                            /\ MaxTime \in Nat
                            /\ Start <= MaxTime

VARIABLES
    rows,   \* issued_certs, by its unique key_id
    open,   \* FALSE once conn.Close was called
    now,    \* time.Now(), in seconds
    op,     \* op[p]: the method p is in
    pc,     \* pc[p]: where in it
    ids,    \* ids[p]: the key ids p's Revoke was given, the id of p's record
    rec,    \* rec[p]: the record p's SetRecord was given
    at,     \* at[p]: the time p's GetRevoked asks for
    res,    \* res[p]: the key ids p's query selected
    ret,    \* history: what the last step returned, or settled
            \*   that a SetRecord is going to return
    pend,   \* history: ids p's Revoke has not flagged yet
    must,   \* history: the bounds of CertStorer for the
    may     \*   GetRevoked calls in progress

vars == <<rows, open, now, op, pc, ids, rec, at, res, ret, pend, must, may>>

SqlTypeOK ==
    /\ rows \in Tables
    /\ open \in BOOLEAN
    /\ now \in Start .. MaxTime
    /\ op \in [Procs -> {"none", "SetRecord", "Revoke", "GetRevoked"}]
    /\ pc \in [Procs -> {"idle", "ping", "exec", "return", "error"}]
    /\ rec \in [Procs -> Record \cup {Absent}]
    /\ ret \in SUBSET [proc : Procs, ok : BOOLEAN, ids : SUBSET KeyIDs]
    /\ at \in [Procs -> Start .. MaxTime]
    /\ ids \in [Procs -> SUBSET KeyIDs] /\ res \in [Procs -> SUBSET KeyIDs]
    /\ pend \in [Procs -> SUBSET KeyIDs]
    /\ must \in [Procs -> SUBSET KeyIDs] /\ may \in [Procs -> SUBSET KeyIDs]

Empty == [p \in Procs |-> {}]

Init ==
    /\ rows = EmptyTable
    /\ open = TRUE
    /\ now = Start
    /\ op = [p \in Procs |-> "none"]
    /\ pc = [p \in Procs |-> "idle"]
    /\ rec = [p \in Procs |-> Absent]
    /\ at = [p \in Procs |-> Start]
    /\ ids = Empty /\ res = Empty
    /\ ret = {}
    /\ pend = Empty /\ must = Empty /\ may = Empty

\* The history of CertStorer!Observe.
Observe ==
    /\ must' = [p \in Procs |-> must[p] \cap Listed(rows', now')]
    /\ may'  = [p \in Procs |-> IF op[p] = "GetRevoked"
                                THEN may[p] \cup Flagged(rows') ELSE may[p]]

Returns(p, success, s) == {[proc |-> p, ok |-> success, ids |-> s]}

\* The outcome of a SetRecord is settled with its row.
Settled(p, success) ==
    ret' = IF op[p] = "SetRecord" THEN Returns(p, success, {}) ELSE {}

-----------------------------------------------------------------------------
(***************************************************************************)
(* The calls.                                                              *)
(***************************************************************************)
Call(p, m) ==
    /\ pc[p] = "idle"
    /\ op' = [op EXCEPT ![p] = m]
    /\ pc' = [pc EXCEPT ![p] = "ping"]
    /\ ret' = {}
    /\ UNCHANGED <<rows, open, now, at, res>>

SetRecordCall(p, k, r) ==
    /\ Call(p, "SetRecord")
    /\ ids' = [ids EXCEPT ![p] = {k}]
    /\ rec' = [rec EXCEPT ![p] = r]
    /\ UNCHANGED <<pend, must, may>>

RevokeCall(p, s) ==
    /\ Call(p, "Revoke")
    /\ ids' = [ids EXCEPT ![p] = s]
    /\ pend' = [pend EXCEPT ![p] = s]
    /\ UNCHANGED <<rec, must, may>>

GetRevokedCall(p) ==
    /\ Call(p, "GetRevoked")
    /\ must' = [must EXCEPT ![p] = Listed(rows, now)]
    /\ may'  = [may EXCEPT ![p] = Flagged(rows)]
    /\ UNCHANGED <<ids, rec, pend>>

(***************************************************************************)
(* conn.Ping, and what each method computes before its statement: the      *)
(* clock for GetRevoked, sqlx.In for Revoke, which refuses an empty list.  *)
(***************************************************************************)
Ping(p) ==
    /\ pc[p] = "ping"
    /\ open
    /\ pc' = [pc EXCEPT ![p] = IF op[p] = "Revoke" /\ ids[p] = {} THEN "error" ELSE "exec"]
    /\ at' = [at EXCEPT ![p] = IF op[p] = "GetRevoked" THEN now ELSE @]
    /\ ret' = {}
    /\ UNCHANGED <<rows, open, now, op, ids, rec, res, pend, must, may>>

\* Variant: the error of conn.Exec is dropped.
FailSwallowed(p) ==
    /\ pc[p] \in {"ping", "exec"}
    /\ pc' = [pc EXCEPT ![p] = IF pc[p] = "exec" THEN "return" ELSE "error"]
    /\ Settled(p, pc[p] = "exec")
    /\ UNCHANGED <<rows, open, now, op, ids, rec, at, res, pend, must, may>>

\* Ping or the statement reports an error and nothing was done.
Fail(p) ==
    /\ pc[p] \in {"ping", "exec"}
    /\ pc' = [pc EXCEPT ![p] = "error"]
    /\ Settled(p, FALSE)
    /\ UNCHANGED <<rows, open, now, op, ids, rec, at, res, pend, must, may>>

(***************************************************************************)
(* The statements.  A statement that was carried out answers or, its       *)
(* connection lost, reports an error.                                      *)
(***************************************************************************)
Answer(p) ==
    \E a \in {"return", "error"} :
        /\ pc' = [pc EXCEPT ![p] = a]
        /\ Settled(p, a = "return")

\* Variant: REPLACE INTO, or a table without the unique index.
InsertReplacing(p, k) ==
    /\ op[p] = "SetRecord" /\ pc[p] = "exec"
    /\ open
    /\ k \in ids[p]
    /\ rows' = WithRecord(rows, k, rec[p])
    /\ Answer(p)
    /\ UNCHANGED <<open, now, op, ids, rec, at, res, pend>>
    /\ Observe

\* INSERT INTO issued_certs: refused if the key id is there (see Fail).
Insert(p, k) ==
    /\ op[p] = "SetRecord" /\ pc[p] = "exec"
    /\ open
    /\ k \in ids[p] /\ rows[k] = Absent
    /\ rows' = WithRecord(rows, k, rec[p])
    /\ Answer(p)
    /\ UNCHANGED <<open, now, op, ids, rec, at, res, pend>>
    /\ Observe

\* UPDATE issued_certs SET revoked = 1 WHERE key_id IN (ids).
Update(p) ==
    /\ op[p] = "Revoke" /\ pc[p] = "exec"
    /\ open
    /\ rows' = WithFlags(rows, ids[p])
    /\ pend' = [pend EXCEPT ![p] = {}]
    /\ Answer(p)
    /\ UNCHANGED <<open, now, op, ids, rec, at, res>>
    /\ Observe

\* The value of a row's expires_at, a local time (parseTime).  The MySQL driver
\* sends UTC; SQLite's binds the text of the time, and texts compare by the
\* wall clocks they show.
ExpiresAt(k) == rows[k].expires + (IF Type = "sqlite" THEN Zone ELSE 0)

\* Variant: a query with the comparison the wrong way at the boundary.
SelectedStrictly(p) == {k \in Flagged(rows) : at[p] < ExpiresAt(k)}

\* SELECT ... WHERE revoked = 1 AND at <= expires_at, with at in UTC.
Selected(p) == {k \in Flagged(rows) : at[p] <= ExpiresAt(k)}

Select(p) ==
    /\ op[p] = "GetRevoked" /\ pc[p] = "exec"
    /\ open
    /\ res' = [res EXCEPT ![p] = Selected(p)]
    /\ pc' = [pc EXCEPT ![p] = "return"]
    /\ ret' = {}
    /\ UNCHANGED <<rows, open, now, op, ids, rec, at, pend, must, may>>

(***************************************************************************)
(* The methods return, with an answer or an error.                         *)
(***************************************************************************)
Return(p) ==
    /\ pc[p] \in {"return", "error"}
    /\ ret' = IF op[p] = "SetRecord" THEN {} ELSE Returns(p, pc[p] = "return", res[p])
    /\ op' = [op EXCEPT ![p] = "none"]
    /\ pc' = [pc EXCEPT ![p] = "idle"]
    /\ ids' = [ids EXCEPT ![p] = {}]
    /\ rec' = [rec EXCEPT ![p] = Absent]
    /\ at' = [at EXCEPT ![p] = Start]
    /\ res' = [res EXCEPT ![p] = {}]
    /\ pend' = [pend EXCEPT ![p] = {}]
    /\ must' = [must EXCEPT ![p] = {}]
    /\ may' = [may EXCEPT ![p] = {}]
    /\ UNCHANGED <<rows, open, now>>

-----------------------------------------------------------------------------
Close ==
    /\ open
    /\ open' = FALSE
    /\ ret' = {}
    /\ UNCHANGED <<rows, now, op, pc, ids, rec, at, res, pend, must, may>>

Tick ==
    /\ now < MaxTime
    /\ now' = now + 1
    /\ ret' = {}
    /\ UNCHANGED <<rows, open, op, pc, ids, rec, at, res, pend>>
    /\ Observe

\* The server is killed and started again: newSQLStore finds the table.
Restart ==
    /\ open' = TRUE
    /\ op' = [p \in Procs |-> "none"]
    /\ pc' = [p \in Procs |-> "idle"]
    /\ rec' = [p \in Procs |-> Absent]
    /\ at' = [p \in Procs |-> Start]
    /\ ids' = Empty /\ res' = Empty
    /\ pend' = Empty /\ must' = Empty /\ may' = Empty
    /\ ret' = {}
    /\ UNCHANGED <<rows, now>>

\* A step of the call p is in.
Proceed(p) ==
    \/ Ping(p) \/ Fail(p)
    \/ \E k \in KeyIDs : Insert(p, k)
    \/ Update(p) \/ Select(p) \/ Return(p)

Next ==
    \/ \E p \in Procs :
          \/ \E k \in KeyIDs, r \in Record : ~r.revoked /\ SetRecordCall(p, k, r)
          \/ \E s \in SUBSET KeyIDs : RevokeCall(p, s)
          \/ GetRevokedCall(p)
          \/ Proceed(p)
    \/ Close \/ Tick \/ Restart

Spec == Init /\ [][Next]_vars
-----------------------------------------------------------------------------
\* At its return a Revoke has run its UPDATE over all its ids, a SetRecord has
\* its key id in the table and a GetRevoked only names rows that are flagged.
DoneIsDone ==
    \A p \in Procs : pc[p] = "return" =>
        /\ op[p] = "Revoke" => pend[p] = {}
        /\ op[p] = "SetRecord" => ids[p] \subseteq Known(rows)
        /\ op[p] = "GetRevoked" => res[p] \subseteq Flagged(rows)

\* A method has the arguments of its call until it returns, and no others.
LocalsMatch ==
    \A p \in Procs :
        /\ pc[p] = "idle" <=> op[p] = "none"
        /\ op[p] = "SetRecord" => /\ rec[p] \in Record /\ ~rec[p].revoked
                                  /\ \E k \in KeyIDs : ids[p] = {k}
        /\ op[p] = "Revoke" /\ pc[p] \in {"ping", "exec"} => pend[p] = ids[p]
        /\ op[p] = "Revoke" /\ pc[p] = "exec" => ids[p] # {}
        /\ op[p] # "Revoke" => pend[p] = {}
        /\ res[p] # {} => op[p] = "GetRevoked" /\ pc[p] = "return"

\* A GetRevoked in progress asks for a time that has come, and its bounds are
\* those of the table and the clock; no other call has any.
BoundsTrack ==
    \A p \in Procs :
        /\ must[p] \subseteq Listed(rows, now)
        /\ op[p] = "GetRevoked" => Flagged(rows) \subseteq may[p]
        /\ op[p] # "GetRevoked" => must[p] = {} /\ may[p] = {}
        /\ at[p] <= now

\* A method never reports success for what it did not do, however the pings
\* and statements of the others interleave; with what makes this inductive.
SqlStoreInv == /\ SqlTypeOK
               /\ DoneIsDone
               /\ LocalsMatch
               /\ BoundsTrack

Abstract == INSTANCE CertStorer
    WITH db <- rows,
         call <- [p \in Procs |-> IF op[p] = "SetRecord" THEN "none" ELSE op[p]]

\* sqlStore implements CertStorer: a Revoke that returned without an error has
\* flagged every id it was given, a query that started later names them, and
\* neither a failing statement nor a restart takes a record or a flag away.
ImplementsCertStorer == Abstract!StoreSpec

\* A row, once inserted, is never replaced or removed, and its flag is never
\* cleared: nothing in sqldb.go deletes, and UNIQUE (key_id) refuses a second
\* INSERT.  What an auditor saw stays to be seen.
AuditRowsStay ==
    [][\A k \in Known(rows) :
          /\ rows'[k] # Absent
          /\ rows'[k] \in {rows[k], [rows[k] EXCEPT !.revoked = TRUE]}]_vars

\* sqldb.go:164: "GetRevoked returns all revoked certs".  All that were flagged
\* and unexpired from its call to its return, whatever zone the server is in.
GetRevokedReturnsAll ==
    \A p \in Procs : op[p] = "GetRevoked" /\ pc[p] = "return" => must[p] \subseteq res[p]
=============================================================================
