------------------------------ MODULE MemStore ------------------------------
(***************************************************************************)
(* memoryStore (server/store/mem.go): a Go map from KeyID to *CertRecord   *)
(* behind one mutex.                                                       *)
(*                                                                         *)
(* The map holds pointers.  SetRecord stores a new pointer, Revoke writes  *)
(* through the pointers it finds, and List hands the pointers out, so      *)
(* GetRevoked tests the Revoked flags after it has let go of the mutex.    *)
(* certs is the map, heap what its pointers point to; a record's serial    *)
(* serves as its address.  A call that panics under the mutex releases it  *)
(* (defer) and is ended by net/http's recover.                             *)
(***************************************************************************)
EXTENDS CertRecords

CONSTANTS
    Procs,      \* the goroutines that call the store
    Nil,        \* no pointer; also the owner of a free mutex
    Start,      \* the clock when the server is first started
    MaxTime     \* bound: the clock stops here

ASSUME MemAssumption == /\ Nil \notin Serials \cup Procs
                        /\ {} \notin {KeyIDs, Serials, Messages, Expiries}
ASSUME MemTimeAssumption == /\ Start \in Nat
                            /\ MaxTime \in Nat
                            /\ Start <= MaxTime

VARIABLES
    certs,  \* ms.certs
    heap,   \* the records
    open,   \* FALSE once Close set the map to nil
    mu,     \* the goroutine that holds the mutex
    now,    \* time.Now(), in seconds
    op,     \* op[p]: the method p is in
    pc,     \* pc[p]: where in it
    all,    \* all[p]: List's includeExpired
    pend,   \* pend[p]: ids p's Revoke has still to flag
    todo,   \* todo[p]: keys p's List has still to visit
    recs,   \* recs[p]: keys and pointers p's List has collected
    acc,    \* acc[p]: keys p's GetRevoked has found revoked
    ret,    \* history: what the last step returned, List aside
    must,   \* history: the bounds of CertStorer for the
    may     \*   GetRevoked calls in progress

vars == <<certs, heap, open, mu, now, op, pc, all, pend, todo, recs, acc, ret,
          must, may>>

\* The table the map stands for.
Table == [k \in KeyIDs |-> IF certs[k] = Nil THEN Absent ELSE heap[certs[k]]]

MemTypeOK ==
    /\ certs \in [KeyIDs -> Serials \cup {Nil}]
    /\ heap \in [Serials -> Record \cup {Absent}]
    /\ open \in BOOLEAN
    /\ mu \in Procs \cup {Nil}
    /\ now \in Start .. MaxTime
    /\ op \in [Procs -> {"none", "Revoke", "List", "GetRevoked"}]
    /\ pc \in [Procs -> {"idle", "lock", "loop", "filter"}]
    /\ all \in [Procs -> BOOLEAN]
    /\ pend \in [Procs -> SUBSET KeyIDs] /\ todo \in [Procs -> SUBSET KeyIDs]
    /\ acc \in [Procs -> SUBSET KeyIDs]
    /\ must \in [Procs -> SUBSET KeyIDs] /\ may \in [Procs -> SUBSET KeyIDs]
    /\ ret \in SUBSET [proc : Procs, ok : BOOLEAN, ids : SUBSET KeyIDs]
    /\ recs \in [Procs -> SUBSET (KeyIDs \X Serials)]

Empty == [p \in Procs |-> {}]

Init ==
    /\ certs = [k \in KeyIDs |-> Nil]
    /\ heap = [s \in Serials |-> Absent]
    /\ open = TRUE
    /\ mu = Nil
    /\ now = Start
    /\ op = [p \in Procs |-> "none"]
    /\ pc = [p \in Procs |-> "idle"]
    /\ all = [p \in Procs |-> FALSE]
    /\ pend = Empty /\ todo = Empty /\ recs = Empty /\ acc = Empty
    /\ must = Empty /\ may = Empty
    /\ ret = {}

\* The history of CertStorer!Observe.
Observe ==
    /\ must' = [p \in Procs |-> must[p] \cap Listed(Table', now')]
    /\ may'  = [p \in Procs |-> IF op[p] = "GetRevoked"
                                THEN may[p] \cup Flagged(Table') ELSE may[p]]

Returns(p, success, ids) == ret' = {[proc |-> p, ok |-> success, ids |-> ids]}
NoReturn == ret' = {}

-----------------------------------------------------------------------------
(***************************************************************************)
(* SetRecord locks, assigns and unlocks.  Assigning to the nil map of a    *)
(* closed store panics.                                                    *)
(***************************************************************************)
SetRecord(p, k, s, m, e) ==
    /\ pc[p] = "idle" /\ mu = Nil
    /\ open
    /\ heap[s] = Absent
    /\ heap' = [heap EXCEPT ![s] = [serial |-> s, message |-> m,
                                    expires |-> e, revoked |-> FALSE]]
    /\ certs' = [certs EXCEPT ![k] = s]
    /\ Returns(p, TRUE, {})
    /\ UNCHANGED <<open, mu, now, op, pc, all, pend, todo, recs, acc>>
    /\ Observe

SetRecordPanic(p) ==
    /\ pc[p] = "idle" /\ mu = Nil
    /\ ~open
    /\ Returns(p, FALSE, {})
    /\ UNCHANGED <<certs, heap, open, mu, now, op, pc, all, pend, todo, recs, acc,
                   must, may>>

(***************************************************************************)
(* The other calls, up to the mutex.                                       *)
(***************************************************************************)
Call(p, m) ==
    /\ pc[p] = "idle"
    /\ op' = [op EXCEPT ![p] = m]
    /\ pc' = [pc EXCEPT ![p] = "lock"]
    /\ NoReturn
    /\ UNCHANGED <<certs, heap, open, mu, now, todo, recs, acc>>

RevokeCall(p, ids) ==
    /\ Call(p, "Revoke")
    /\ pend' = [pend EXCEPT ![p] = ids]
    /\ UNCHANGED <<all, must, may>>

ListCall(p, includeExpired) ==
    /\ Call(p, "List")
    /\ all' = [all EXCEPT ![p] = includeExpired]
    /\ UNCHANGED <<pend, must, may>>

GetRevokedCall(p) ==
    /\ Call(p, "GetRevoked")
    /\ must' = [must EXCEPT ![p] = Listed(Table, now)]
    /\ may'  = [may EXCEPT ![p] = Flagged(Table)]
    /\ UNCHANGED <<all, pend>>

\* Variant: the loops run without taking the mutex.
LockNotTaken(p) ==
    /\ pc[p] = "lock"
    /\ pc' = [pc EXCEPT ![p] = "loop"]
    /\ todo' = [todo EXCEPT ![p] = IF op[p] = "Revoke" THEN {} ELSE Known(Table)]
    /\ NoReturn
    /\ UNCHANGED <<certs, heap, open, mu, now, op, all, pend, recs, acc, must, may>>

Lock(p) ==
    /\ pc[p] = "lock" /\ mu = Nil
    /\ mu' = p
    /\ pc' = [pc EXCEPT ![p] = "loop"]
    /\ todo' = [todo EXCEPT ![p] = IF op[p] = "Revoke" THEN {} ELSE Known(Table)]
    /\ NoReturn
    /\ UNCHANGED <<certs, heap, open, now, op, all, pend, recs, acc, must, may>>

\* Variant: an Unlock at the end of the body instead of a deferred one, which
\* a panic (pend is not empty) skips.
UnlockNotDeferred(p) == mu' = IF pend[p] = {} THEN Nil ELSE mu

Unlock(p) == mu' = Nil

\* The call returns; its locals are gone.
Return(p) ==
    /\ op' = [op EXCEPT ![p] = "none"]
    /\ pc' = [pc EXCEPT ![p] = "idle"]
    /\ all' = [all EXCEPT ![p] = FALSE]
    /\ pend' = [pend EXCEPT ![p] = {}]
    /\ recs' = [recs EXCEPT ![p] = {}]
    /\ acc' = [acc EXCEPT ![p] = {}]
    /\ must' = [must EXCEPT ![p] = {}]
    /\ may' = [may EXCEPT ![p] = {}]

(***************************************************************************)
(* Revoke's loop.                                                          *)
(***************************************************************************)
RevokeOne(p, id) ==
    /\ op[p] = "Revoke" /\ pc[p] = "loop"
    /\ id \in pend[p] /\ certs[id] # Nil
    /\ heap' = [heap EXCEPT ![certs[id]].revoked = TRUE]
    /\ pend' = [pend EXCEPT ![p] = @ \ {id}]
    /\ NoReturn
    /\ UNCHANGED <<certs, open, mu, now, op, pc, all, todo, recs, acc>>
    /\ Observe

\* ms.certs[id] of an unknown id is a nil pointer.
RevokePanic(p, id) ==
    /\ op[p] = "Revoke" /\ pc[p] = "loop"
    /\ id \in pend[p] /\ certs[id] = Nil
    /\ Unlock(p)
    /\ Returns(p, FALSE, {})
    /\ Return(p)
    /\ UNCHANGED <<certs, heap, open, now, todo>>

RevokeReturn(p) ==
    /\ op[p] = "Revoke" /\ pc[p] = "loop"
    /\ pend[p] = {}
    /\ Unlock(p)
    /\ Returns(p, TRUE, {})
    /\ Return(p)
    /\ UNCHANGED <<certs, heap, open, now, todo>>

(***************************************************************************)
(* List's loop; the clock is read anew for every record.                   *)
(***************************************************************************)

\* Variant: a record that expires right now counts as expired.
ExpiredEarly(r) == r.expires <= now

\* The record is past its expiry: value.Expires.Before(time.Now()).
Expired(r) == r.expires < now

ListOne(p, k) ==
    /\ op[p] \in {"List", "GetRevoked"} /\ pc[p] = "loop"
    /\ k \in todo[p]
    /\ todo' = [todo EXCEPT ![p] = @ \ {k}]
    /\ recs' = [recs EXCEPT ![p] =
                  IF ~all[p] /\ Expired(heap[certs[k]])
                  THEN @ ELSE @ \cup {<<k, certs[k]>>}]
    /\ NoReturn
    /\ UNCHANGED <<certs, heap, open, mu, now, op, pc, all, pend, acc, must, may>>

ListReturn(p) ==
    /\ op[p] = "List" /\ pc[p] = "loop" /\ todo[p] = {}
    /\ Unlock(p)
    /\ Return(p)
    /\ NoReturn
    /\ UNCHANGED <<certs, heap, open, now, todo>>

\* The List(false) inside GetRevoked.
ListReturnToGetRevoked(p) ==
    /\ op[p] = "GetRevoked" /\ pc[p] = "loop" /\ todo[p] = {}
    /\ Unlock(p)
    /\ pc' = [pc EXCEPT ![p] = "filter"]
    /\ NoReturn
    /\ UNCHANGED <<certs, heap, open, now, op, all, pend, todo, recs, acc, must, may>>

(***************************************************************************)
(* GetRevoked's own loop, without the mutex.                               *)
(***************************************************************************)
FilterOne(p, r) ==
    /\ pc[p] = "filter"
    /\ r \in recs[p]
    /\ recs' = [recs EXCEPT ![p] = @ \ {r}]
    /\ acc' = [acc EXCEPT ![p] = IF heap[r[2]].revoked THEN @ \cup {r[1]} ELSE @]
    /\ NoReturn
    /\ UNCHANGED <<certs, heap, open, mu, now, op, pc, all, pend, todo, must, may>>

GetRevokedReturn(p) ==
    /\ pc[p] = "filter" /\ recs[p] = {}
    /\ Returns(p, TRUE, acc[p])
    /\ Return(p)
    /\ UNCHANGED <<certs, heap, open, mu, now, todo>>

-----------------------------------------------------------------------------
Close(p) ==
    /\ pc[p] = "idle" /\ mu = Nil
    /\ open
    /\ open' = FALSE
    /\ certs' = [k \in KeyIDs |-> Nil]
    /\ NoReturn
    /\ UNCHANGED <<heap, mu, now, op, pc, all, pend, todo, recs, acc>>
    /\ Observe

Tick ==
    /\ now < MaxTime
    /\ now' = now + 1
    /\ NoReturn
    /\ UNCHANGED <<certs, heap, open, mu, op, pc, all, pend, todo, recs, acc>>
    /\ Observe

\* The server is killed and started again: newMemoryStore.
Restart ==
    /\ certs' = [k \in KeyIDs |-> Nil]
    /\ heap' = [s \in Serials |-> Absent]
    /\ open' = TRUE
    /\ mu' = Nil
    /\ op' = [p \in Procs |-> "none"]
    /\ pc' = [p \in Procs |-> "idle"]
    /\ all' = [p \in Procs |-> FALSE]
    /\ pend' = Empty /\ todo' = Empty /\ recs' = Empty /\ acc' = Empty
    /\ must' = Empty /\ may' = Empty
    /\ NoReturn
    /\ UNCHANGED now

\* A step of a call in progress, once it has the mutex.
Proceed(p) ==
    \/ \E id \in KeyIDs : RevokeOne(p, id) \/ RevokePanic(p, id) \/ ListOne(p, id)
    \/ RevokeReturn(p) \/ ListReturn(p) \/ ListReturnToGetRevoked(p)
    \/ \E r \in KeyIDs \X Serials : FilterOne(p, r)
    \/ GetRevokedReturn(p)

Next ==
    \/ \E p \in Procs :
          \/ \E k \in KeyIDs, s \in Serials, m \in Messages, e \in Expiries :
                SetRecord(p, k, s, m, e)
          \/ SetRecordPanic(p)
          \/ \E ids \in SUBSET KeyIDs : RevokeCall(p, ids)
          \/ \E includeExpired \in BOOLEAN : ListCall(p, includeExpired)
          \/ GetRevokedCall(p)
          \/ Lock(p)
          \/ Proceed(p)
          \/ Close(p)
    \/ Tick
    \/ Restart

\* A goroutine in a call keeps running, and sync.Mutex hands itself to the
\* longest waiting goroutine after a millisecond, so nobody starves on it.
Fairness == \A p \in Procs : WF_vars(Proceed(p)) /\ SF_vars(Lock(p))

Spec == Init /\ [][Next]_vars /\ Fairness
-----------------------------------------------------------------------------
\* The loops over the map run one at a time, each under the mutex its
\* goroutine holds.
LoopsExclude == \A p \in Procs : pc[p] = "loop" <=> mu = p

\* No pointer is handed out without a record behind it, a loop under the mutex
\* finds the keys it started from still in the map, and a closed map is empty.
PointersValid ==
    /\ \A k \in KeyIDs : certs[k] # Nil => heap[certs[k]] # Absent /\ open
    /\ \A p \in Procs : \A r \in recs[p] : heap[r[2]] # Absent
    /\ \A p \in Procs : \A k \in todo[p] : certs[k] # Nil

\* A record has one key: a pointer in the map, or in a list, is under no other.
PointersOwned ==
    /\ \A j, k \in KeyIDs : certs[j] # Nil /\ certs[j] = certs[k] => j = k
    /\ \A p \in Procs : \A r \in recs[p] : \A k \in KeyIDs : certs[k] = r[2] => k = r[1]

\* A method has the locals of the place where it is, and no others.
LocalsMatch ==
    \A p \in Procs :
        /\ pc[p] = "idle" <=> op[p] = "none"
        /\ pc[p] = "filter" => op[p] = "GetRevoked"
        /\ all[p] => op[p] = "List"
        /\ pend[p] # {} => op[p] = "Revoke"
        /\ todo[p] # {} => op[p] # "Revoke" /\ pc[p] = "loop"
        /\ recs[p] # {} => op[p] # "Revoke" /\ pc[p] \in {"loop", "filter"}
        /\ acc[p] # {} => pc[p] = "filter"

\* The bounds of a GetRevoked in progress are those of the table and the clock.
BoundsTrack ==
    \A p \in Procs :
        /\ must[p] \subseteq Listed(Table, now)
        /\ op[p] = "GetRevoked" => Flagged(Table) \subseteq may[p]
        /\ op[p] # "GetRevoked" => must[p] = {} /\ may[p] = {}

\* A GetRevoked has found what it owes, or still has its pointer or key to
\* visit; and of the pointers it has, those revoked so far are ones it may name.
LoopsGather ==
    \A p \in Procs : op[p] = "GetRevoked" =>
        /\ pc[p] \in {"loop", "filter"} =>
              \A k \in must[p] : k \in todo[p] \cup acc[p] \/ <<k, certs[k]>> \in recs[p]
        /\ \A r \in recs[p] : heap[r[2]].revoked => r[1] \in may[p]
        /\ acc[p] \subseteq may[p]

\* Goroutines that call SetRecord, Revoke, List, GetRevoked and Close at once
\* never corrupt the map, never meet a key that went away in mid-loop and
\* never dereference a record that is not there, but for Revoke's unknown id;
\* with what a GetRevoked without the mutex relies on.
MemStoreInv == /\ MemTypeOK
               /\ LoopsExclude
               /\ PointersValid
               /\ PointersOwned
               /\ LocalsMatch
               /\ BoundsTrack
               /\ LoopsGather

Abstract == INSTANCE CertStorer
    WITH db <- Table, Type <- "mem",
         call <- [p \in Procs |-> IF op[p] = "List" THEN "none" ELSE op[p]]

\* memoryStore implements CertStorer: the flags GetRevoked tests after it
\* gave the mutex back still give it everything that was revoked before the
\* call, and nothing that was never revoked.
ImplementsCertStorer == Abstract!StoreSpec

\* Every call of a store method returns, whatever the others do and even if
\* one of them panicked under the mutex: Unlock is deferred (mem.go:19-78).
CallsReturn == \A p \in Procs : op[p] # "none" ~> op[p] = "none"
=============================================================================
