--------------------------------- MODULE CA ---------------------------------
(***************************************************************************)
(* The certificate authority: the handlers of server/handlers.go that      *)
(* sign, list, revoke and serve the revocation list, running concurrently  *)
(* in net/http's goroutines on top of one CertStorer, one KeySigner and    *)
(* one auth provider.                                                      *)
(*                                                                         *)
(* Every call a handler makes to the provider or the store is a step of    *)
(* its own; the server may be killed and restarted between any two.        *)
(***************************************************************************)
EXTENDS CertStorer, Signer

CONSTANTS
    Users,          \* the user names the provider knows
    NoUser,         \* "", what Username returns when it fails
    Tokens,         \* access tokens
    Owner,          \* Owner[t]: the user token t belongs to
    RevokesTokens,  \* whether the provider's Revoke does anything (Google)
    ProviderFails,  \* whether the provider may fail to answer for a good token
    RequireReason,  \* a.requireReason
    Posted,         \* the key ids posted to /admin/revoke without a page
    Untils,         \* the valid_until times clients ask for, in seconds
    None,           \* no request, no certificate
    MaxRestarts     \* bound: how often the server is killed

Names == Users \cup {NoUser}

\* lib.SignRequest with its bearer token.
Requests == [token : Tokens, until : Untils, message : BOOLEAN]

Certs == [keyId : KeyIDs, validAfter : Uint64s, validBefore : Uint64s]

ASSUME CAAssumption ==
    /\ KeyIDs = Names \X Times
    /\ Messages = BOOLEAN
    /\ Expiries = Int64s
    /\ Untils \subseteq Int64s
    /\ Owner \in [Tokens -> Users]
    /\ Posted \subseteq KeyIDs
    /\ RevokesTokens \in BOOLEAN /\ ProviderFails \in BOOLEAN
    /\ RequireReason \in BOOLEAN
    /\ MaxRestarts \in Nat
    /\ None \notin Serials \cup Requests \cup Certs
    /\ Start >= Backdate /\ MaxTime + Validity < Half

VARIABLES
    step,       \* step[p]: what the handler running in p does next
    req,        \* req[p]: the signing request p is serving
    name,       \* name[p]: what Username returned to p
    cert,       \* cert[p]: the serial of the certificate p has signed
    live,       \* the tokens the provider still honours
    seen,       \* the key ids the open /admin/certs pages offer to revoke
    asked,      \* asked[p]: the records p's POST /admin/revoke is to revoke
    signed,     \* history: signed[s], the certificate with serial s
    delivered,  \* history: serials of the certificates clients received
    logged,     \* history: serials in "Error recording cert" log lines
    acked,      \* history: ids of records whose revocation was reported done
    owed,       \* history: owed[p], acked when p's GET /revoked came in
    restarts    \* how often the server was killed

signVars == <<req, name, cert, live, signed, delivered, logged>>
adminVars == <<seen, asked, acked, owed>>
vars == <<storeVars, step, signVars, adminVars, restarts>>

Steps == {"idle", "username", "revoketoken", "signkey", "setrecord", "encode",
          "revoke", "revoked"}

CATypeOK ==
    /\ StoreTypeOK
    /\ step \in [Procs -> Steps]
    /\ req \in [Procs -> Requests \cup {None}]
    /\ name \in [Procs -> Names]
    /\ cert \in [Procs -> Serials \cup {None}]
    /\ live \in SUBSET Tokens
    /\ signed \in [Serials -> Certs \cup {None}]
    /\ delivered \in SUBSET Serials
    /\ logged \in SUBSET Serials
    /\ seen \in SUBSET KeyIDs
    /\ asked \in [Procs -> SUBSET KeyIDs]
    /\ acked \in SUBSET KeyIDs
    /\ owed \in [Procs -> SUBSET KeyIDs]
    /\ restarts \in 0 .. MaxRestarts

Init ==
    /\ StoreInit
    /\ step = [p \in Procs |-> "idle"]
    /\ req = [p \in Procs |-> None]
    /\ name = [p \in Procs |-> NoUser]
    /\ cert = [p \in Procs |-> None]
    /\ live = Tokens
    /\ signed = [s \in Serials |-> None]
    /\ delivered = {}
    /\ logged = {}
    /\ seen = {} /\ asked = NoIDs
    /\ acked = {} /\ owed = NoIDs
    /\ restarts = 0

Goto(p, s) == step' = [step EXCEPT ![p] = s]

\* The handler is done; its locals are gone.
Finish(p) ==
    /\ Goto(p, "idle")
    /\ req' = [req EXCEPT ![p] = None]
    /\ name' = [name EXCEPT ![p] = NoUser]
    /\ cert' = [cert EXCEPT ![p] = None]

-----------------------------------------------------------------------------
(***************************************************************************)
(* POST /sign.  A request that is refused (401: the provider says no or    *)
(* cannot be reached; 400: the body does not decode; 403: a reason is      *)
(* missing) leaves everything as it was.                                   *)
(***************************************************************************)
\* Variant: a reason is asked for, but not insisted on.
ReasonNotRequired(r) == TRUE

\* if a.requireReason && req.Message == "" { fail }
ReasonGiven(r) == RequireReason => r.message

\* authprovider.Valid says yes, the body decodes, and there is a reason.
Sign(p, r) ==
    /\ step[p] = "idle"
    /\ r.token \in live
    /\ ReasonGiven(r)
    /\ req' = [req EXCEPT ![p] = r]
    /\ Goto(p, "username")
    /\ StoreQuiet
    /\ UNCHANGED <<name, cert, live, signed, delivered, logged, adminVars, restarts>>

\* authprovider.Username: "" when the provider does not answer, or no longer
\* honours the token.
Username(p) ==
    /\ step[p] = "username"
    /\ \/ /\ req[p].token \in live
          /\ name' = [name EXCEPT ![p] = Owner[req[p].token]]
       \/ /\ ProviderFails \/ req[p].token \notin live
          /\ name' = [name EXCEPT ![p] = NoUser]
    /\ Goto(p, "revoketoken")
    /\ StoreQuiet
    /\ UNCHANGED <<req, cert, live, signed, delivered, logged, adminVars, restarts>>

\* authprovider.Revoke; its error is not looked at.
RevokeToken(p) ==
    /\ step[p] = "revoketoken"
    /\ \/ (RevokesTokens => ProviderFails) /\ live' = live
       \/ RevokesTokens /\ live' = live \ {req[p].token}
    /\ Goto(p, "signkey")
    /\ StoreQuiet
    /\ UNCHANGED <<req, name, cert, signed, delivered, logged, adminVars, restarts>>

SignKey(p, s) ==
    /\ step[p] = "signkey"
    /\ signed[s] = None
    /\ signed' = [signed EXCEPT ![s] = SignUserKey(name[p], req[p].until, now)]
    /\ cert' = [cert EXCEPT ![p] = s]
    /\ Goto(p, "setrecord")
    /\ StoreQuiet
    /\ UNCHANGED <<req, name, live, delivered, logged, adminVars, restarts>>

\* ParseAuthorizedKey or SignCert fails: 500, and the token may be spent.
SignKeyFails(p) ==
    /\ step[p] = "signkey"
    /\ Finish(p)
    /\ StoreQuiet
    /\ UNCHANGED <<live, signed, delivered, logged, adminVars, restarts>>

RecordOf(p) == MakeRecord(cert[p], signed[cert[p]], req[p].message)

SetRecord(p) ==
    /\ step[p] = "setrecord"
    /\ SetRecordOk(p, signed[cert[p]].keyId, RecordOf(p))
    /\ Goto(p, "encode")
    /\ UNCHANGED <<signVars, adminVars, restarts>>

\* Variant: the error of SetRecord is dropped.
LogNothing(p) == logged' = logged

\* log.Printf("Error recording cert: %v", err): the line is handed to the log.
\* What becomes of it when the server is shut down is a matter of Daemon.
LogError(p) == logged' = logged \cup {cert[p]}

\* The certificate is sent all the same.
SetRecordFails(p) ==
    /\ step[p] = "setrecord"
    /\ SetRecordErr(p, signed[cert[p]].keyId, RecordOf(p))
    /\ LogError(p)
    /\ Goto(p, "encode")
    /\ UNCHANGED <<req, name, cert, live, signed, delivered, adminVars, restarts>>

Respond(p) ==
    /\ step[p] = "encode"
    /\ delivered' = delivered \cup {cert[p]}
    /\ Finish(p)
    /\ StoreQuiet
    /\ UNCHANGED <<live, signed, logged, adminVars, restarts>>

\* The client is gone: Encode fails.
RespondFails(p) ==
    /\ step[p] = "encode"
    /\ Finish(p)
    /\ StoreQuiet
    /\ UNCHANGED <<live, signed, delivered, logged, adminVars, restarts>>

-----------------------------------------------------------------------------
(***************************************************************************)
(* GET /admin/certs.json, whose rows the page gives a checkbox unless they *)
(* are revoked (static/js/table.js), and POST /admin/revoke with some of   *)
(* the rows of a page.  Pages stay open: what they show may be old by      *)
(* then, or from before a restart.  Nothing checks that an id comes from a *)
(* page, or that there is such a record: an UPDATE of no row is a success. *)
(***************************************************************************)
GetCertsJSON(includeExpired) ==
    /\ seen' = seen \cup ((IF includeExpired THEN Known(db) ELSE Unexpired(db, now))
                             \ Flagged(db))
    /\ StoreQuiet
    /\ UNCHANGED <<step, signVars, asked, acked, owed, restarts>>

Revoke(p, ids) ==
    /\ step[p] = "idle"
    /\ ids \subseteq seen \cup Posted
    /\ RevokeCall(p, ids)
    /\ asked' = [asked EXCEPT ![p] = ids \cap Known(db)]
    /\ Goto(p, "revoke")
    /\ UNCHANGED <<signVars, seen, acked, owed, restarts>>

RevokeSome(p, ids) ==
    /\ step[p] = "revoke"
    /\ RevokeFlag(p, ids)
    /\ UNCHANGED <<step, signVars, adminVars, restarts>>

\* 303 to /admin/certs.
RevokeRedirect(p) ==
    /\ step[p] = "revoke"
    /\ RevokeOk(p)
    /\ acked' = acked \cup asked[p]
    /\ asked' = [asked EXCEPT ![p] = {}]
    /\ Goto(p, "idle")
    /\ UNCHANGED <<signVars, seen, owed, restarts>>

\* 500, from the error or from the recovery middleware.
RevokeFails(p) ==
    /\ step[p] = "revoke"
    /\ RevokeErr(p)
    /\ asked' = [asked EXCEPT ![p] = {}]
    /\ Goto(p, "idle")
    /\ UNCHANGED <<signVars, seen, acked, owed, restarts>>

-----------------------------------------------------------------------------
(***************************************************************************)
(* GET /revoked.                                                           *)
(***************************************************************************)
Revoked(p) ==
    /\ step[p] = "idle"
    /\ GetRevokedCall(p)
    /\ owed' = [owed EXCEPT ![p] = acked]
    /\ Goto(p, "revoked")
    /\ UNCHANGED <<signVars, seen, asked, acked, restarts>>

RevokedDone(p) ==
    /\ step[p] = "revoked"
    /\ owed' = [owed EXCEPT ![p] = {}]
    /\ Goto(p, "idle")
    /\ UNCHANGED <<signVars, seen, asked, acked, restarts>>

\* 200 with the KRL (or 500 if it cannot be built, with the same effect on the
\* state: none), or 500 if GetRevoked failed.
RevokedServes(p, ids) == GetRevokedOk(p, ids) /\ RevokedDone(p)
RevokedFails(p) == GetRevokedErr(p) /\ RevokedDone(p)

-----------------------------------------------------------------------------
Tick == StoreTick /\ UNCHANGED <<step, signVars, adminVars, restarts>>

\* The process is killed and started again.
Restart ==
    /\ restarts < MaxRestarts
    /\ restarts' = restarts + 1
    /\ StoreRestart
    /\ step' = [p \in Procs |-> "idle"]
    /\ req' = [p \in Procs |-> None]
    /\ name' = [p \in Procs |-> NoUser]
    /\ cert' = [p \in Procs |-> None]
    /\ asked' = NoIDs
    /\ owed' = NoIDs
    /\ UNCHANGED <<live, signed, delivered, logged, seen, acked>>

SignStep(p) ==
    \/ Username(p)
    \/ RevokeToken(p)
    \/ \E s \in Serials : SignKey(p, s)
    \/ SignKeyFails(p)
    \/ SetRecord(p) \/ SetRecordFails(p)
    \/ Respond(p) \/ RespondFails(p)

RevokeStep(p) ==
    \/ \E ids \in SUBSET pend[p] : RevokeSome(p, ids)
    \/ RevokeRedirect(p) \/ RevokeFails(p)

RevokedStep(p) ==
    \/ \E ids \in SUBSET may[p] : RevokedServes(p, ids)
    \/ RevokedFails(p)

Next ==
    \/ \E p \in Procs :
          \/ \E r \in Requests : Sign(p, r)
          \/ \E ids \in SUBSET (seen \cup Posted) : Revoke(p, ids)
          \/ Revoked(p)
          \/ SignStep(p) \/ RevokeStep(p) \/ RevokedStep(p)
    \/ \E includeExpired \in BOOLEAN : GetCertsJSON(includeExpired)
    \/ Tick
    \/ Restart

Spec == Init /\ [][Next]_vars
-----------------------------------------------------------------------------
Issued == {s \in Serials : signed[s] # None}

\* Another certificate was given the same key id: same user, same second.
Collided(s) == \E o \in Issued \ {s} : signed[o].keyId = signed[s].keyId

\* A store kept in memory was emptied by a restart.
Wiped == InMemory /\ restarts > 0

\* The certificates the server has promised to keep revoked, given the key ids
\* in acked, while sshd would accept them.  Excused: a second certificate with
\* the same key id, an expiry that wrapped, and a memory store's restart.
RevokedInForce(ids, t) ==
    {s \in Issued : /\ signed[s].keyId \in ids
                    /\ InForce(signed[s], t)
                    /\ ~Wrapped(signed[s]) /\ ~Collided(s) /\ ~Wiped}

\* Once the server has answered a revocation request with its redirect, a
\* certificate it named that was on record when the request came is flagged and
\* due on every revocation list for as long as sshd would accept it: across
\* handlers in progress, failed store calls, stale admin pages and restarts.
RevocationHolds ==
    \A s \in RevokedInForce(acked, now) : signed[s].keyId \in Listed(db, now)

\* A revocation list names every certificate, in force when it is served,
\* whose revocation had been reported done when the list was asked for: GET
\* /revoked may overlap signing and revoking, but never misses what came before.
KRLCovers ==
    [][\A p \in Procs : \A r \in ret' :
          step[p] = "revoked" /\ r.proc = p /\ r.ok =>
             \A s \in RevokedInForce(owed[p], now) :
                signed[s].keyId \in GenerateRevocationList(r.ids)]_vars

(***************************************************************************)
(* The inductive invariant behind RevocationHolds and KRLCovers, in parts. *)
(***************************************************************************)
\* The handlers and the calls of the store they wait for go together.
CallsMatch ==
    \A p \in Procs : /\ call[p] = "Revoke" <=> step[p] = "revoke"
                     /\ call[p] = "GetRevoked" <=> step[p] = "revoked"

\* A handler of POST /sign has its request and, from SignUserKey on, its
\* certificate, which is nobody else's.
LocalsMatch ==
    \A p \in Procs :
        /\ step[p] \in {"username", "revoketoken", "signkey", "setrecord", "encode"}
              => req[p] \in Requests
        /\ step[p] \in {"setrecord", "encode"} <=> cert[p] # None
        /\ cert[p] # None => cert[p] \in Issued
        /\ \A q \in Procs : p # q /\ cert[p] # None => cert[p] # cert[q]

\* A record is made from a signed certificate, and agrees with it; a
\* certificate about to be recorded is not in the store.
RecordsMatch ==
    /\ \A k \in Known(db) :
          /\ db[k].serial \in Issued
          /\ signed[db[k].serial].keyId = k
          /\ db[k].expires = Int64(signed[db[k].serial].validBefore)
    /\ \A p \in Procs : step[p] = "setrecord" => \A k \in Known(db) : db[k].serial # cert[p]

\* The key id was given to two certificates, or the store was wiped.
Excused(k) ==
    \/ Wiped
    \/ \E s \in Issued : signed[s].keyId = k /\ Collided(s)

\* The ids a revocation is owed for have records; those it is done with, and those
\* reported done, are flagged; a list in progress will name them or they expire.
RevocationsMatch ==
    /\ \A k \in acked : k \in Known(db) \/ Wiped
    /\ \A p \in Procs : \A k \in asked[p] : k \in Known(db) \/ Wiped
    /\ \A k \in acked : k \in Flagged(db) \/ Excused(k)
    /\ \A p \in Procs : \A k \in asked[p] \ pend[p] : k \in Flagged(db) \/ Excused(k)
    /\ \A p \in Procs : owed[p] \subseteq acked
    /\ \A p \in Procs : \A k \in owed[p] :
          k \in must[p] \/ Excused(k) \/ db[k].expires < now

\* The certificate has its record in the store, or a line in the log that says
\* it has none (handlers.go:79-81); a memory store drops records at a restart
\* and at a key id given twice.
Traced(s) ==
    \/ db[signed[s].keyId] # Absent /\ db[signed[s].keyId].serial = s
    \/ s \in logged
    \/ InMemory /\ (Collided(s) \/ restarts > 0)

\* Every certificate a client holds has left its trace, whatever store calls
\* failed and whatever happened since.
AuditTrail == \A s \in delivered : Traced(s)

\* With require_reason set, no certificate is recorded without its reason.
ReasonRecorded == RequireReason => \A k \in Known(db) : db[k].message

\* A certificate has its trace before it is sent, and the request it was made
\* for its reason.
TracesMatch ==
    /\ delivered \subseteq Issued
    /\ AuditTrail
    /\ \A p \in Procs : step[p] = "encode" => Traced(cert[p])
    /\ ReasonRecorded
    /\ \A p \in Procs :
          step[p] \in {"username", "revoketoken", "signkey", "setrecord"} => ReasonGiven(req[p])

\* Handlers in progress, the store, the signed certificates and what was
\* promised to the administrators agree at every moment.
CAInv == /\ CATypeOK
         /\ BoundsMeet
         /\ CallsMatch
         /\ LocalsMatch
         /\ RecordsMatch
         /\ RevocationsMatch
         /\ TracesMatch

\* No certificate outlives max_age from the moment it was signed, whatever the
\* client asked for, unless the expiry it asked for wrapped.
MaxAgeUnlessWrapped ==
    \A s \in Issued :
        Wrapped(signed[s]) \/ signed[s].validBefore <= signed[s].keyId[2] + Validity

-----------------------------------------------------------------------------
(***************************************************************************)
(* What the README says without the excuses.                               *)
(***************************************************************************)
\* README.md:190: "the server will not issue certificates with an expiration
\* value longer than this, regardless of what the client requests".
MaxAgeHonoured ==
    \A s \in Issued : signed[s].validBefore <= signed[s].keyId[2] + Validity

\* README.md:189: "By default certificates will have one principal set - the
\* username portion of the requester's email address."
PrincipalIsAUser == \A s \in Issued : signed[s].keyId[1] \in Users
=============================================================================
