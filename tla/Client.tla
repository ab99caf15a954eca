------------------------------- MODULE Client -------------------------------
(***************************************************************************)
(* One run of the cashier command (cmd/cashier/main.go, localserver.go,    *)
(* client/client.go): the main goroutine, the goroutine that reads a       *)
(* pasted token from stdin, and the handlers of the local HTTP server the  *)
(* browser posts the token to.  They share two channels of capacity one, a *)
(* context and the variable encodedToken, which is written without         *)
(* synchronisation.                                                        *)
(*                                                                         *)
(* The CA, the browser, the ssh agent and the user are external.  Time is  *)
(* counted in half seconds, so that a remaining lifetime below one second  *)
(* can be told from none.                                                  *)
(***************************************************************************)
EXTENDS Integers, Sequences, FiniteSets

CONSTANTS
    Requests,       \* the requests browsers send to the local server
    NeedReason,     \* the CA refuses requests without a message
    HasPrefix,      \* key_file_prefix is set
    Lifetimes,      \* the half seconds a new certificate has left to live
    WrappedTTL,     \* what uint32 makes of a negative lifetime, in half seconds
    MinLeft         \* bound: how far past the expiry the clock is followed

ASSUME ClientAssumption ==
    /\ NeedReason \in BOOLEAN /\ HasPrefix \in BOOLEAN
    /\ Lifetimes \subseteq Int
    /\ WrappedTTL \in Nat \ {0}
    /\ MinLeft \in Int /\ \A n \in Lifetimes : n >= MinLeft

VARIABLES
    main,       \* where main() is
    listening,  \* startServer got its port
    branch,     \* the case of the select that was taken
    encoded,    \* encodedToken
    token,      \* what DecodeString made of it
    paste,      \* where the stdin goroutine is
    ctxDone,    \* ctx is cancelled
    tokenCh,    \* ls.token
    respCh,     \* ls.response
    br,         \* br[b]: how far browser request b is
    message,    \* the signing request has a message
    left,       \* half seconds until the certificate expires
    lifetime,   \* the lifetime InstallCert computed
    ttl,        \* ttl[k]: half seconds the agent will still hold k
    added,      \* what was added to the agent
    files       \* the files written

vars == <<main, listening, branch, encoded, token, paste, ctxDone, tokenCh, respCh,
          br, message, left, lifetime, ttl, added, files>>

Forever == 0    \* LifetimeSecs = 0: the agent is given no constraint
Gone == -1      \* the agent does not hold the key

Places == {"select", "decode", "send", "prompt", "dial", "lifetime", "addcert", "addkey",
           "respond", "savepub", "savepriv", "stop", "fail", "fatal", "exit 0", "exit 1"}

\* Both channels have room for one.
ChannelsTyped ==
    /\ tokenCh \in {<<>>, <<"http">>}
    /\ respCh \in {<<>>, <<"ok">>, <<"error">>}

ClientTypeOK ==
    /\ main \in Places
    /\ listening \in BOOLEAN /\ ctxDone \in BOOLEAN /\ message \in BOOLEAN
    /\ branch \in {"none", "http", "paste"}
    /\ encoded \in {"empty", "http", "pasted", "torn"}
    /\ token \in {"empty", "http", "pasted", "torn"}
    /\ paste \in {"read", "write", "assign", "cancel", "done"}
    /\ ChannelsTyped
    /\ br \in [Requests -> {"unsent", "refused", "sending", "waiting", "has ok",
                            "has error", "ok", "error", "lost"}]
    /\ left \in Int /\ lifetime \in Int
    /\ ttl \in [{"cert", "key"} -> Int]
    /\ added \in SUBSET {"cert", "key"}
    /\ files \in SUBSET {"pub", "cert", "priv"}

Init ==
    /\ main = "select"
    /\ listening \in BOOLEAN
    /\ branch = "none"
    /\ encoded = "empty" /\ token = "empty"
    /\ paste = "read"
    /\ ctxDone = FALSE
    /\ tokenCh = <<>> /\ respCh = <<>>
    /\ br = [b \in Requests |-> "unsent"]
    /\ message = FALSE
    /\ left \in Lifetimes
    /\ lifetime = 0
    /\ ttl = [k \in {"cert", "key"} |-> Gone]
    /\ added = {} /\ files = {}

mainVars == <<listening, branch, encoded, token, message, left, lifetime, ttl, added, files>>
chans == <<tokenCh, respCh, br>>

Running == main \notin {"exit 0", "exit 1"}

Goto(m) == main' = m

-----------------------------------------------------------------------------
(***************************************************************************)
(* The stdin goroutine: reads lines up to ".", assigns encodedToken and    *)
(* cancels the context.  A string is two words, so the assignment is two   *)
(* steps, and what other goroutines find in between is torn.               *)
(***************************************************************************)
PasteRead ==
    /\ Running /\ paste = "read"
    /\ paste' = "write"
    /\ UNCHANGED <<main, ctxDone, mainVars, chans>>

PasteWrite ==
    /\ Running /\ paste = "write"
    /\ encoded' = "torn"
    /\ paste' = "assign"
    /\ UNCHANGED <<main, ctxDone, listening, branch, token, message, left, lifetime,
                   ttl, added, files, chans>>

\* Variant: the context is cancelled before the assignment is complete.
PasteCancelsFirst ==
    /\ Running /\ paste = "assign"
    /\ ctxDone' = TRUE
    /\ paste' = "cancel"
    /\ UNCHANGED <<main, mainVars, chans>>

PasteAssign ==
    /\ Running /\ paste = "assign"
    /\ encoded' = IF encoded = "torn" THEN "pasted" ELSE "torn"
    /\ paste' = "cancel"
    /\ UNCHANGED <<main, ctxDone, listening, branch, token, message, left, lifetime,
                   ttl, added, files, chans>>

PasteCancel ==
    /\ Running /\ paste = "cancel"
    /\ ctxDone' = TRUE
    /\ paste' = "done"
    /\ UNCHANGED <<main, mainVars, chans>>

-----------------------------------------------------------------------------
(***************************************************************************)
(* The handler of the local server, for browser request b.                 *)
(***************************************************************************)
Set(b, s) == br' = [br EXCEPT ![b] = s]

\* The listener accepts until Shutdown closes it.
Accepting == listening /\ Running /\ main # "stop"

BrowserSends(b) ==
    /\ Accepting /\ br[b] = "unsent"
    /\ Set(b, "sending")
    /\ UNCHANGED <<main, paste, ctxDone, tokenCh, respCh, mainVars>>

\* No token, no service.
BrowserSendsNoToken(b) ==
    /\ Accepting /\ br[b] = "unsent"
    /\ Set(b, "refused")
    /\ UNCHANGED <<main, paste, ctxDone, tokenCh, respCh, mainVars>>

\* ls.token <- r.FormValue("token")
HandlerPutsToken(b) ==
    /\ Running /\ br[b] = "sending"
    /\ tokenCh = <<>>
    /\ tokenCh' = <<"http">>
    /\ Set(b, "waiting")
    /\ UNCHANGED <<main, paste, ctxDone, respCh, mainVars>>

\* resp := <-ls.response
HandlerGetsResponse(b) ==
    /\ Running /\ br[b] = "waiting"
    /\ respCh # <<>>
    /\ Set(b, IF Head(respCh) = "ok" THEN "has ok" ELSE "has error")
    /\ respCh' = <<>>
    /\ UNCHANGED <<main, paste, ctxDone, tokenCh, mainVars>>

\* The response is written, or 30 seconds have passed since the request came
\* and the write fails.
HandlerWrites(b) ==
    /\ Running /\ br[b] \in {"has ok", "has error"}
    /\ \E s \in {IF br[b] = "has ok" THEN "ok" ELSE "error", "lost"} : Set(b, s)
    /\ UNCHANGED <<main, paste, ctxDone, tokenCh, respCh, mainVars>>

-----------------------------------------------------------------------------
(***************************************************************************)
(* main: wait for a token.                                                 *)
(***************************************************************************)
SelectHTTP ==
    /\ main = "select" /\ listening
    /\ tokenCh # <<>>
    /\ encoded' = Head(tokenCh)
    /\ tokenCh' = <<>>
    /\ branch' = "http"
    /\ Goto("decode")
    /\ UNCHANGED <<listening, token, paste, ctxDone, respCh, br, message, left,
                   lifetime, ttl, added, files>>

SelectDone ==
    /\ main = "select"
    /\ ctxDone
    /\ branch' = "paste"
    /\ Goto("decode")
    /\ UNCHANGED <<listening, encoded, token, paste, ctxDone, message, left,
                   lifetime, ttl, added, files, chans>>

\* base64 decoding, which may fail.
Decode ==
    /\ main = "decode"
    /\ token' = encoded
    /\ Goto("send") \/ Goto("fatal")
    /\ UNCHANGED <<listening, branch, encoded, paste, ctxDone, message, left,
                   lifetime, ttl, added, files, chans>>

(***************************************************************************)
(* client.Sign: send, ask for a reason as often as the CA wants one.       *)
(***************************************************************************)
SendNeedsReason ==
    /\ main = "send"
    /\ NeedReason /\ ~message
    /\ Goto("prompt")
    /\ UNCHANGED <<paste, ctxDone, mainVars, chans>>

SendOk ==
    /\ main = "send"
    /\ NeedReason => message
    /\ Goto("dial")
    /\ UNCHANGED <<paste, ctxDone, mainVars, chans>>

\* No answer within 30 seconds, a refusal, or not a certificate.
SendFails ==
    /\ main = "send"
    /\ Goto("fail")
    /\ UNCHANGED <<paste, ctxDone, mainVars, chans>>

\* A line from stdin; it may be empty, or go to the stdin goroutine if that is
\* still reading, and then main keeps waiting.
Prompt ==
    /\ main = "prompt"
    /\ \E m \in BOOLEAN : message' = m
    /\ Goto("send")
    /\ UNCHANGED <<listening, branch, encoded, token, paste, ctxDone, left, lifetime,
                   ttl, added, files, chans>>

(***************************************************************************)
(* The agent: net.Dial, InstallCert.                                       *)
(***************************************************************************)
Dial ==
    /\ main = "dial"
    /\ Goto("lifetime") \/ Goto("fail")
    /\ UNCHANGED <<paste, ctxDone, mainVars, chans>>

\* time.Until(t).Seconds()
ComputeLifetime ==
    /\ main = "lifetime"
    /\ lifetime' = left
    /\ Goto("addcert")
    /\ UNCHANGED <<listening, branch, encoded, token, paste, ctxDone, message, left,
                   ttl, added, files, chans>>

\* Variant: LifetimeSecs is not set.
LifetimeUnset(n) == {0}

\* uint32(lifetime) in half seconds: whole seconds, and for a negative float a
\* value the Go specification leaves to the implementation.
LifetimeSecs(n) == IF n >= 0 THEN {2 * (n \div 2)} ELSE {0, WrappedTTL}

Add(k, next) ==
    \/ /\ \E n \in LifetimeSecs(lifetime) : ttl' = [ttl EXCEPT ![k] = n]
       /\ added' = added \cup {k}
       /\ Goto(next)
    \/ /\ Goto("fail")
       /\ UNCHANGED <<ttl, added>>

AddCert ==
    /\ main = "addcert"
    /\ Add("cert", "addkey")
    /\ UNCHANGED <<listening, branch, encoded, token, paste, ctxDone, message, left,
                   lifetime, files, chans>>

AddKey ==
    /\ main = "addkey"
    /\ Add("key", "respond")
    /\ UNCHANGED <<listening, branch, encoded, token, paste, ctxDone, message, left,
                   lifetime, files, chans>>

(***************************************************************************)
(* srv.respond, the files, and the deferred srv.stop.                      *)
(***************************************************************************)
\* Variant: nothing is sent back.
RespondNothing(val) == UNCHANGED respCh

respond(val) ==
    IF listening THEN respCh = <<>> /\ respCh' = <<val>> ELSE UNCHANGED respCh

RespondOK ==
    /\ main = "respond"
    /\ respond("ok")
    /\ Goto("savepub")
    /\ UNCHANGED <<paste, ctxDone, tokenCh, br, mainVars>>

\* Variant: a failure is reported and the CA asked again.
RespondErrorAndRetry ==
    /\ main = "fail"
    /\ respond("error")
    /\ Goto("send")
    /\ UNCHANGED <<paste, ctxDone, tokenCh, br, mainVars>>

RespondError ==
    /\ main = "fail"
    /\ respond("error")
    /\ Goto("fatal")
    /\ UNCHANGED <<paste, ctxDone, tokenCh, br, mainVars>>

\* Variant: the errors of the two writes are collected and forgotten.
PublicSaved(written) == TRUE

\* multierror: both writes are tried, either error counts.
AllSaved(written) == HasPrefix => written = {"pub", "cert"}

SavePublicFiles ==
    /\ main = "savepub"
    /\ \E written \in SUBSET {"pub", "cert"} :
          /\ ~HasPrefix => written = {}
          /\ files' = files \cup written
          /\ Goto(IF AllSaved(written) THEN "savepriv" ELSE "fatal")
    /\ UNCHANGED <<listening, branch, encoded, token, paste, ctxDone, message, left,
                   lifetime, ttl, added, chans>>

SavePrivateFiles ==
    /\ main = "savepriv"
    /\ \/ /\ files' = IF HasPrefix THEN files \cup {"priv"} ELSE files
          /\ Goto("stop")
       \/ HasPrefix /\ Goto("fatal") /\ UNCHANGED files
    /\ UNCHANGED <<listening, branch, encoded, token, paste, ctxDone, message, left,
                   lifetime, ttl, added, chans>>

Idle == \A b \in Requests : br[b] \notin {"sending", "waiting", "has ok", "has error"}

\* The process ends; requests it has not answered are cut off.
Exit(code) ==
    /\ Goto(code)
    /\ br' = [b \in Requests |->
                IF br[b] \in {"sending", "waiting", "has ok", "has error"}
                THEN "lost" ELSE br[b]]
    /\ UNCHANGED <<paste, ctxDone, tokenCh, respCh, mainVars>>

\* Shutdown waits for the requests in progress, or for the context; main
\* returns.
Stop == main = "stop" /\ (~listening \/ Idle \/ ctxDone) /\ Exit("exit 0")

\* log.Fatalln: os.Exit, no deferred call runs.
Fatal == main = "fatal" /\ Exit("exit 1")

-----------------------------------------------------------------------------
(***************************************************************************)
(* Half a second passes.  The agent drops what its constraint is up for.   *)
(***************************************************************************)
Tick ==
    /\ left' = IF left > MinLeft THEN left - 1 ELSE left
    /\ ttl' = [k \in {"cert", "key"} |->
                 CASE ttl[k] = 1 -> Gone
                   [] ttl[k] > 1 -> ttl[k] - 1
                   [] OTHER -> ttl[k]]
    /\ UNCHANGED <<main, listening, branch, encoded, token, paste, ctxDone, message,
                   lifetime, added, files, chans>>

MainStep ==
    \/ SelectHTTP \/ SelectDone \/ Decode
    \/ SendNeedsReason \/ SendOk \/ SendFails
    \/ Dial \/ ComputeLifetime \/ AddCert \/ AddKey
    \/ RespondOK \/ RespondError
    \/ SavePublicFiles \/ SavePrivateFiles
    \/ Stop \/ Fatal

PasteStep == PasteWrite \/ PasteAssign \/ PasteCancel

HandlerStep(b) == HandlerPutsToken(b) \/ HandlerGetsResponse(b) \/ HandlerWrites(b)

Next ==
    \/ MainStep \/ Prompt
    \/ PasteRead \/ PasteStep
    \/ \E b \in Requests : BrowserSends(b) \/ BrowserSendsNoToken(b) \/ HandlerStep(b)
    \/ Tick

\* Goroutines run, the CA and the agent answer or time out, and time passes.
\* Nothing is assumed of the user: neither a token nor a reason need come.
Fairness ==
    /\ WF_vars(MainStep)
    /\ WF_vars(PasteStep)
    /\ \A b \in Requests : WF_vars(HandlerStep(b))
    /\ WF_vars(Tick)

Spec == Init /\ [][Next]_vars /\ Fairness
-----------------------------------------------------------------------------
\* The page says "Authentication complete" (a response of "ok") only if the
\* agent was given both the certificate and the key, and the process exits
\* with 0 only if, besides, every file asked for was written.
SuccessIsReal ==
    /\ ClientTypeOK
    /\ \A b \in Requests : br[b] \in {"has ok", "ok"} => added = {"cert", "key"}
    /\ main = "exit 0" => /\ added = {"cert", "key"}
                          /\ HasPrefix => files = {"pub", "cert", "priv"}

\* main never blocks in srv.respond: the channel has room whenever it is
\* called, whichever requests came before and whether or not any is waiting.
RespondHasRoom == main \in {"respond", "fail"} => respCh = <<>>

\* The token that goes to the CA is a whole one: the pasted one if the paste
\* ended the select, because the goroutine assigns before it cancels; and else
\* the one the browser sent, unless the user was pasting at the same time
\* (main.go:75 is not synchronised with 80 and 87).
TokenUsed ==
    main \notin {"select", "decode"} =>
        IF branch = "paste" THEN token = "pasted"
        ELSE token = "http" \/ paste \notin {"read", "write"}

\* A second request with a token: its handler waits for a response of its own.
Competing == Cardinality({b \in Requests : br[b] \notin {"unsent", "refused"}}) > 1

\* Once main has its token it ends, asks the user for a reason, or waits in
\* Shutdown for a second request: nothing else ever waits for ever.
MainEnds ==
    main \notin {"select", "prompt"}
        ~> \/ main \in {"prompt", "exit 0", "exit 1"}
           \/ main = "stop" /\ Competing

\* README.md:231: "When the certificate expires it will be removed
\* automatically from the agent."  So it is, if it had a second left to live
\* when its lifetime was computed; less is converted to 0, which the agent takes
\* for no limit.
AgentForgets ==
    [](ttl["cert"] # Gone /\ lifetime >= 2 => <>(ttl["cert"] = Gone))
=============================================================================
