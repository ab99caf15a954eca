------------------------------- MODULE Login -------------------------------
(***************************************************************************)
(* Logging in: the authed middleware and the session cookie of             *)
(* server/server.go and the /auth handlers of server/handlers.go, seen     *)
(* from the tabs of one browser.                                           *)
(*                                                                         *)
(* The server keeps nothing.  The session is a cookie with three values,   *)
(* and every handler that changes one of them answers with a whole new     *)
(* cookie made from the one the request carried.  Requests of two tabs     *)
(* overlap, so one tab's answer can undo what another's has stored.        *)
(***************************************************************************)
EXTENDS Naturals, FiniteSets

CONSTANTS
    Tabs,        \* the open tabs of the browser
    Pages,       \* the pages behind authed
    Root,        \* "/"
    NoPage,      \* no page: an empty origin_url
    TooLong,     \* whether a cookie with a token is too long to be encoded
    MaxVisits,   \* bound: how often a tab asks for a page
    MaxMishaps   \* bound: how often something expires or changes meanwhile

ASSUME LoginAssumption ==
    /\ IsFiniteSet(Tabs) /\ Root \in Pages /\ NoPage \notin Pages
    /\ TooLong \in BOOLEAN
    /\ MaxVisits \in Nat /\ MaxMishaps \in Nat

VARIABLES
    jar,      \* the session cookie in the browser
    at,       \* at[t]: where tab t is
    url,      \* url[t]: the page it asks for
    param,    \* param[t]: the state in the URLs of its login
    sent,     \* sent[t]: the cookie its request carries
    reply,    \* reply[t]: where the answer sends it, and its Set-Cookie
    want,     \* history: want[t], the pages its user has asked for
    shown,    \* history: shown[t], the page it shows, or none
    allowed,  \* whether the provider accepts the user
    expired,  \* the tokens that have expired
    visits,   \* visits[t]: how often it has asked for a page
    mishaps   \* how often something expired or changed

tabVars == <<at, url, param, sent, reply, want, shown, visits>>
vars == <<jar, tabVars, allowed, expired, mishaps>>

\* Zero is a missing state or token.
Empty == [state |-> 0, origin |-> NoPage, token |-> 0]

Init ==
    /\ jar = Empty
    /\ at = [t \in Tabs |-> "rest"]
    /\ url = [t \in Tabs |-> NoPage]
    /\ param = [t \in Tabs |-> 0]
    /\ sent = [t \in Tabs |-> Empty]
    /\ reply = [t \in Tabs |-> [go |-> "rest", set |-> {}]]
    /\ want = [t \in Tabs |-> {}]
    /\ shown = [t \in Tabs |-> NoPage]
    /\ allowed \in BOOLEAN
    /\ expired = {}
    /\ visits = [t \in Tabs |-> 0]
    /\ mishaps = 0

Cookies == {jar} \cup {sent[t] : t \in Tabs} \cup UNION {reply[t].set : t \in Tabs}

\* 32 random bytes, or a new token: a number nobody holds.
Fresh(held) == CHOOSE i \in 1 .. Cardinality(held) + 1 :
                  i \notin held /\ \A j \in 1 .. i - 1 : j \in held
FreshState == Fresh(({c.state : c \in Cookies} \cup {param[t] : t \in Tabs}) \ {0})
FreshToken == Fresh({c.token : c \in Cookies} \ {0})

-----------------------------------------------------------------------------
(***************************************************************************)
(* The browser (external).                                                 *)
(***************************************************************************)
Send(t, to) ==
    /\ at' = [at EXCEPT ![t] = to]
    /\ sent' = [sent EXCEPT ![t] = jar]

Visit(t, p) ==
    /\ at[t] = "rest"
    /\ visits[t] < MaxVisits
    /\ visits' = [visits EXCEPT ![t] = @ + 1]
    /\ url' = [url EXCEPT ![t] = p]
    /\ want' = [want EXCEPT ![t] = @ \cup {p}]
    /\ shown' = [shown EXCEPT ![t] = NoPage]
    /\ Send(t, "page")
    /\ UNCHANGED <<jar, param, reply, allowed, expired, mishaps>>

\* The Set-Cookie of an answer is stored when its header comes in,
Receive(t) ==
    /\ at[t] = "reply"
    /\ jar' = IF reply[t].set = {} THEN jar ELSE CHOOSE c \in reply[t].set : TRUE
    /\ at' = [at EXCEPT ![t] = IF reply[t].go \in {"rest", "provider"}
                               THEN reply[t].go ELSE "follow"]
    /\ reply' = [reply EXCEPT ![t].set = {}]
    /\ UNCHANGED <<url, param, sent, want, shown, visits, allowed, expired, mishaps>>

\* and the cookie is looked up again when the redirect is followed.
Follow(t) ==
    /\ at[t] = "follow"
    /\ Send(t, reply[t].go)
    /\ UNCHANGED <<jar, url, param, reply, want, shown, visits, allowed, expired, mishaps>>

\* The provider sends the user back with a code,
ProviderRedirect(t) ==
    /\ at[t] = "provider"
    /\ Send(t, "callback")
    /\ UNCHANGED <<jar, url, param, reply, want, shown, visits, allowed, expired, mishaps>>

\* or the user goes no further.
GiveUp(t) ==
    /\ at[t] = "provider"
    /\ at' = [at EXCEPT ![t] = "rest"]
    /\ param' = [param EXCEPT ![t] = 0]
    /\ UNCHANGED <<jar, url, sent, reply, want, shown, visits, allowed, expired, mishaps>>

-----------------------------------------------------------------------------
(***************************************************************************)
(* The server.                                                             *)
(***************************************************************************)
\* setSessionVariable, with the cookie that results from it.  Save fails when
\* the encoded cookie is too long; nobody looks at its error, and the answer
\* has no Set-Cookie.
SetSession(c) == IF TooLong /\ c.token # 0 THEN {} ELSE {c}

Answer(t, go, set) ==
    /\ at' = [at EXCEPT ![t] = "reply"]
    /\ reply' = [reply EXCEPT ![t] = [go |-> go, set |-> set]]
    /\ sent' = [sent EXCEPT ![t] = Empty]

\* authprovider.Valid.
Valid(token) == token \notin expired /\ allowed

\* Variant: the page asked for is not remembered.
OriginForgotten(t) == SetSession(sent[t])

\* a.setSessionVariable(w, r, "origin_url", r.URL.RequestURI())
OriginSet(t) == SetSession([sent[t] EXCEPT !.origin = url[t]])

\* !t.Valid() || !a.authprovider.Valid(ctx, t) sends the tab to log in;
\* otherwise next serves the page: index, getAllCerts or getCertsJSON.
Authed(t) ==
    /\ at[t] = "page"
    /\ IF sent[t].token # 0 /\ Valid(sent[t].token)
       THEN Answer(t, "rest", {}) /\ shown' = [shown EXCEPT ![t] = url[t]]
       ELSE Answer(t, "login", OriginSet(t)) /\ shown' = shown
    /\ UNCHANGED <<jar, url, param, want, visits, allowed, expired, mishaps>>

AuthLogin(t) ==
    /\ at[t] = "login"
    /\ LET state == FreshState IN
          /\ Answer(t, "provider", SetSession([sent[t] EXCEPT !.state = state]))
          /\ param' = [param EXCEPT ![t] = state]
    /\ UNCHANGED <<jar, url, want, shown, visits, allowed, expired, mishaps>>

\* 401: another login's state; 500: Exchange fails.
AuthCallbackFails(t) ==
    /\ at[t] = "callback"
    /\ Answer(t, "rest", {})
    /\ param' = [param EXCEPT ![t] = 0]
    /\ UNCHANGED <<jar, url, want, shown, visits, allowed, expired, mishaps>>

\* Variant: the token is not checked before the redirect.
Unchecked(token) == TRUE

\* "if we don't check the token here, it gets into an auth loop"
Checked(token) == Valid(token)

AuthCallback(t) ==
    /\ at[t] = "callback"
    /\ param[t] = sent[t].state
    /\ LET token == FreshToken IN
          /\ expired' = expired \ {token}
          /\ Answer(t, IF Checked(token) THEN "page" ELSE "rest",
                    SetSession([sent[t] EXCEPT !.token = token]))
    /\ url' = [url EXCEPT ![t] = IF sent[t].origin = NoPage THEN Root ELSE sent[t].origin]
    /\ param' = [param EXCEPT ![t] = 0]
    /\ UNCHANGED <<jar, want, shown, visits, allowed, mishaps>>

-----------------------------------------------------------------------------
(***************************************************************************)
(* Meanwhile (external).                                                   *)
(***************************************************************************)
Mishap == mishaps < MaxMishaps /\ mishaps' = mishaps + 1

\* MaxAge: 900
CookieExpires ==
    /\ Mishap /\ jar' = Empty
    /\ UNCHANGED <<tabVars, allowed, expired>>

TokenExpires(token) ==
    /\ Mishap /\ expired' = expired \cup {token}
    /\ UNCHANGED <<jar, tabVars, allowed>>

StandingChanges ==
    /\ Mishap /\ allowed' = ~allowed
    /\ UNCHANGED <<jar, tabVars, expired>>

Server(t) == Authed(t) \/ AuthLogin(t) \/ AuthCallback(t) \/ AuthCallbackFails(t)
Browser(t) == Receive(t) \/ Follow(t)
User(t) == ProviderRedirect(t) \/ GiveUp(t)

Next ==
    \/ \E t \in Tabs : \/ \E p \in Pages : Visit(t, p)
                       \/ Server(t) \/ Browser(t) \/ User(t)
    \/ CookieExpires
    \/ \E token \in {c.token : c \in Cookies} \ {0} : TokenExpires(token)
    \/ StandingChanges

\* Requests are answered, redirects are followed, and the user logs in or not.
Fairness ==
    \A t \in Tabs : WF_vars(Server(t)) /\ WF_vars(Browser(t)) /\ WF_vars(User(t))

Spec == Init /\ [][Next]_vars /\ Fairness
-----------------------------------------------------------------------------
\* A tab that asks for a page is shown one or told why not, once the other tabs
\* have come to rest: logging in by itself never goes round in circles,
\* whatever cookie the others have left and whatever expires on the way.  Line 123
\* of handlers.go checks the token there, or "it gets into an auth loop".  With
\* TooLong it does all the same: the cookie with the token is never stored, and
\* setSessionVariable drops the error of session.Save.
LoginEndsAlone ==
    \A t \in Tabs :
        <>[](\A u \in Tabs \ {t} : at[u] = "rest") => (at[t] # "rest" ~> at[t] = "rest")

\* A page asked for in some tab; or "/", once the cookie with the page may have
\* been lost.
AskedFor(page) == (\E u \in Tabs : page \in want[u]) \/ (page = Root /\ mishaps > 0)

\* A tab is shown a page its user asked for, or one asked for in another tab;
\* "/" instead only after the cookie with the page was lost.
RightPage == \A t \in Tabs : shown[t] # NoPage => AskedFor(shown[t])
=============================================================================
