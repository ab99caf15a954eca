------------------------------- MODULE Signer -------------------------------
(***************************************************************************)
(* signer.KeySigner (server/signer/signer.go) and store.MakeRecord         *)
(* (server/store/store.go): the certificate made from a signing request,   *)
(* the record made from the certificate, and the revocation list made from *)
(* the records.                                                            *)
(*                                                                         *)
(* Times are int64 seconds in the code and uint64 seconds in a             *)
(* certificate.  Half stands for 2^63: an int64 is in -Half .. Half-1 and  *)
(* its conversion to uint64 adds 2*Half to a negative one.                 *)
(***************************************************************************)
EXTENDS Integers

CONSTANTS
    Half,       \* 2^63, scaled down
    Validity,   \* s.validity: max_age in seconds
    Backdate    \* the five minutes a certificate is dated back

ASSUME SignerAssumption ==
    /\ Half \in Nat /\ Half > 0
    /\ Validity \in Nat
    /\ Backdate \in Nat

Int64s == -Half .. Half - 1
Uint64s == 0 .. 2 * Half - 1

\* Variant: no conversion.
Unconverted(i) == i

Uint64(i) == IF i < 0 THEN i + 2 * Half ELSE i

Int64(u) == IF u < Half THEN u ELSE u - 2 * Half

\* Variant: what the client asked for is taken as it is.
ClipNothing(until, t) == until

\* if req.ValidUntil.After(expires) { req.ValidUntil = expires }
Clip(until, t) == IF until > t + Validity THEN t + Validity ELSE until

\* The certificate for username, signed at time t.  Its first principal is the
\* user name its key id starts with; additional principals and permissions are
\* the same for every certificate.
SignUserKey(username, until, t) ==
    [keyId       |-> <<username, t>>,
     validAfter  |-> Uint64(t - Backdate),
     validBefore |-> Uint64(Clip(until, t))]

\* Variant: the record has the beginning of the validity for its end.
MakeRecordSwapped(serial, cert, message) ==
    [serial |-> serial, message |-> message,
     expires |-> Int64(cert.validAfter), revoked |-> FALSE]

\* MakeRecord(cert) with rec.Message = message; serial stands for the raw key.
MakeRecord(serial, cert, message) ==
    [serial |-> serial, message |-> message,
     expires |-> Int64(cert.validBefore), revoked |-> FALSE]

\* The KRL revokes certificates by key id, whatever their serial.
GenerateRevocationList(keyIds) == keyIds

\* sshd's view of a certificate (external): valid from ValidAfter, inclusive,
\* to ValidBefore, exclusive.
InForce(cert, t) == cert.validAfter <= t /\ t < cert.validBefore

\* The requested expiry lay before 1970 and came out of the conversion as a
\* time in the far future; the record's expiry converts back to the past.
Wrapped(cert) == cert.validBefore >= Half
=============================================================================
