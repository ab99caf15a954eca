---------------------------- MODULE CertRecords ----------------------------
(***************************************************************************)
(* The data every implementation of store.CertStorer keeps                 *)
(* (server/store/store.go): a table of CertRecords under their KeyID, and  *)
(* the questions the code asks of it.                                      *)
(*                                                                         *)
(* A record keeps the certificate it was made from as a serial (it stands  *)
(* for the raw key and the principals), whether its message is non-empty,  *)
(* its expiry in seconds and the revoked flag.                             *)
(***************************************************************************)
EXTENDS Integers

CONSTANTS
    KeyIDs,     \* the key ids a record can have
    Serials,    \* the certificates a record can be made from
    Messages,   \* whether a record's message is non-empty
    Expiries,   \* the expiry times a record can have, in seconds
    Absent      \* no record under this key id

Record == [serial  : Serials,
           message : Messages,
           expires : Expiries,
           revoked : BOOLEAN]

ASSUME RecordAssumption == /\ Messages \subseteq BOOLEAN
                           /\ Expiries \subseteq Int
                           /\ Absent \notin Record

Tables == [KeyIDs -> Record \cup {Absent}]

EmptyTable == [k \in KeyIDs |-> Absent]

Known(d) == {k \in KeyIDs : d[k] # Absent}

Flagged(d) == {k \in Known(d) : d[k].revoked}

\* List(false): a record is kept unless its expiry lies before the clock.
Unexpired(d, t) == {k \in Known(d) : d[k].expires >= t}

\* What a revocation list drawn from table d at time t has to name.
Listed(d, t) == {k \in Flagged(d) : d[k].expires >= t}

WithRecord(d, k, rec) == [d EXCEPT ![k] = rec]

\* UPDATE ... SET revoked = 1 WHERE key_id IN ids: unknown ids match nothing.
WithFlags(d, ids) ==
    [k \in KeyIDs |->
        IF k \in ids \cap Known(d) THEN [d[k] EXCEPT !.revoked = TRUE] ELSE d[k]]
=============================================================================
