---------------------------- MODULE LoginProofs ----------------------------
(***************************************************************************)
(* After a login a tab is shown a page somebody asked for: for any number  *)
(* of tabs and pages, any overlap of their requests and any answers of the *)
(* provider.                                                               *)
(***************************************************************************)
EXTENDS Login, TLAPS

-----------------------------------------------------------------------------
(***************************************************************************)
(* The inductive invariant.                                                *)
(***************************************************************************)
IsCookie(c) == c = [state |-> c.state, origin |-> c.origin, token |-> c.token]

LoginTypeOK ==
    /\ \A c \in Cookies : IsCookie(c) /\ c.origin \in Pages \cup {NoPage}
    /\ at \in [Tabs -> {"rest", "page", "login", "callback", "provider", "reply", "follow"}]
    /\ url \in [Tabs -> Pages \cup {NoPage}]
    /\ sent = [t \in Tabs |-> sent[t]]
    /\ reply = [t \in Tabs |-> [go |-> reply[t].go, set |-> reply[t].set]]
    /\ \A t \in Tabs : reply[t].go \in {"rest", "page", "login", "provider"}
    /\ want \in [Tabs -> SUBSET Pages]
    /\ shown \in [Tabs -> Pages \cup {NoPage}]
    /\ mishaps \in 0 .. MaxMishaps

\* The pages in URLs and cookies were asked for, and a tab on its way has one.
PagesAskedFor ==
    /\ \A c \in Cookies : c.origin # NoPage => AskedFor(c.origin)
    /\ \A t \in Tabs : /\ url[t] # NoPage => AskedFor(url[t])
                       /\ at[t] # "rest" => url[t] # NoPage
                       /\ at[t] = "follow" => reply[t].go \in {"page", "login"}

\* A cookie that is too long has never been stored.
TokensFit == TooLong => \A c \in Cookies : c.token = 0

\* Until something expires, a tab's login has its page in the cookie: in the
\* answer that stores it, then in the browser's and in the ones made from that.
OriginKept ==
    mishaps = 0 => \A t \in Tabs :
        /\ \A c \in reply[t].set : c.origin # NoPage
        /\ at[t] = "reply" /\ reply[t].go \in {"login", "provider"} => reply[t].set # {}
        /\ at[t] = "follow" /\ reply[t].go = "login" => jar.origin # NoPage
        /\ at[t] = "provider" => jar.origin # NoPage
        /\ at[t] \in {"login", "callback"} => sent[t].origin # NoPage

\* The inductive invariant.
LoginInv == LoginTypeOK /\ RightPage /\ PagesAskedFor /\ TokensFit /\ OriginKept

-----------------------------------------------------------------------------
\* What every cookie around satisfies.
Sound(c) ==
    /\ IsCookie(c) /\ c.origin \in Pages \cup {NoPage}
    /\ c.origin # NoPage => AskedFor(c.origin)
    /\ TooLong => c.token = 0

LEMMA CookiesAre ==
    ASSUME NEW c
    PROVE  /\ c \in Cookies <=> \/ c = jar
                                \/ \E t \in Tabs : c = sent[t] \/ c \in reply[t].set
           /\ c \in Cookies' <=> \/ c = jar'
                                 \/ \E t \in Tabs : c = sent'[t] \/ c \in reply'[t].set
  BY DEF Cookies

LEMMA SoundCookies ==
    LoginInv => \A c \in Cookies : Sound(c)
  BY DEF LoginInv, LoginTypeOK, PagesAskedFor, TokensFit, Sound

LEMMA SoundEmpty == Sound(Empty) /\ Sound(Empty)'
  BY DEF Sound, Empty, IsCookie

-----------------------------------------------------------------------------
(***************************************************************************)
(* What the parts of the steps do.                                         *)
(***************************************************************************)
LEMMA SendIs ==
    ASSUME LoginTypeOK, NEW t \in Tabs, NEW to, Send(t, to)
    PROVE  /\ at'[t] = to /\ sent'[t] = jar
           /\ \A u \in Tabs : u # t => at'[u] = at[u] /\ sent'[u] = sent[u]
           /\ at' = [at EXCEPT ![t] = to] /\ sent' = [u \in Tabs |-> sent'[u]]
<1>1. sent = [u \in Tabs |-> sent[u]] /\ at = [u \in Tabs |-> at[u]]
  BY DEF LoginTypeOK
<1>2. sent' = [sent EXCEPT ![t] = jar] /\ at' = [at EXCEPT ![t] = to]
  BY DEF Send
<1>3. QED
  BY <1>1, <1>2

LEMMA AnswerIs ==
    ASSUME LoginTypeOK, NEW t \in Tabs, NEW go, NEW set, Answer(t, go, set)
    PROVE  /\ at'[t] = "reply" /\ sent'[t] = Empty /\ reply'[t] = [go |-> go, set |-> set]
           /\ \A u \in Tabs : u # t => /\ at'[u] = at[u] /\ sent'[u] = sent[u]
                                       /\ reply'[u] = reply[u]
           /\ at' = [at EXCEPT ![t] = "reply"] /\ sent' = [u \in Tabs |-> sent'[u]]
           /\ reply' = [u \in Tabs |-> reply'[u]]
<1>1. /\ sent = [u \in Tabs |-> sent[u]] /\ at = [u \in Tabs |-> at[u]]
      /\ DOMAIN reply = Tabs
  BY DEF LoginTypeOK
<1>2. /\ sent' = [sent EXCEPT ![t] = Empty] /\ at' = [at EXCEPT ![t] = "reply"]
      /\ reply' = [reply EXCEPT ![t] = [go |-> go, set |-> set]]
  BY DEF Answer
<1>3. QED
  BY <1>1, <1>2

\* The Set-Cookie that is stored, and the answer without it.
LEMMA ReceiveIs ==
    ASSUME LoginTypeOK, NEW t \in Tabs, Receive(t)
    PROVE  /\ jar' = jar \/ jar' \in reply[t].set
           /\ reply[t].set # {} => jar' \in reply[t].set
           /\ at'[t] = IF reply[t].go \in {"rest", "provider"} THEN reply[t].go ELSE "follow"
           /\ reply'[t].go = reply[t].go /\ reply'[t].set = {}
           /\ reply' = [u \in Tabs |-> [go |-> reply'[u].go, set |-> reply'[u].set]]
           /\ \A u \in Tabs : u # t => at'[u] = at[u] /\ reply'[u] = reply[u]
<1>1. /\ at = [u \in Tabs |-> at[u]]
      /\ reply = [u \in Tabs |-> [go |-> reply[u].go, set |-> reply[u].set]]
  BY DEF LoginTypeOK
<1>2. /\ at' = [at EXCEPT ![t] = IF reply[t].go \in {"rest", "provider"}
                                 THEN reply[t].go ELSE "follow"]
      /\ reply' = [reply EXCEPT ![t].set = {}]
      /\ jar' = IF reply[t].set = {} THEN jar ELSE CHOOSE c \in reply[t].set : TRUE
  BY DEF Receive
<1>3. reply[t].set # {} => (CHOOSE c \in reply[t].set : TRUE) \in reply[t].set
  OBVIOUS
<1>4. /\ reply'[t] = [go |-> reply[t].go, set |-> {}]
      /\ \A u \in Tabs : u # t => reply'[u] = reply[u]
      /\ reply' = [u \in Tabs |-> reply'[u]]
  <2>1. DOMAIN reply = Tabs /\ reply[t] = [go |-> reply[t].go, set |-> reply[t].set]
    BY <1>1
  <2>2. [reply[t] EXCEPT !.set = {}] = [go |-> reply[t].go, set |-> {}]
    BY <2>1
  <2>3. reply' = [reply EXCEPT ![t] = [reply[t] EXCEPT !.set = {}]]
    BY <1>2
  <2>4. QED
    BY <2>1, <2>2, <2>3
<1>5. \A u \in Tabs : reply'[u] = [go |-> reply'[u].go, set |-> reply'[u].set]
  <2>1. \A u \in Tabs : reply[u] = [go |-> reply[u].go, set |-> reply[u].set]
    BY <1>1
  <2>2. QED
    BY <1>4, <2>1
<1>6. reply' = [u \in Tabs |-> [go |-> reply'[u].go, set |-> reply'[u].set]]
  BY <1>4, <1>5
<1>7. QED
  BY <1>1, <1>2, <1>3, <1>4, <1>6

\* What a handler makes of the cookie its request carried.
Made(c, page) == IsCookie(c) /\ c.origin = page /\ (TooLong => c.token = 0)

LEMMA SessionSet ==
    ASSUME NEW c, Sound(c), NEW x
    PROVE  /\ \A d \in SetSession([c EXCEPT !.origin = x]) : Made(d, x)
           /\ SetSession([c EXCEPT !.origin = x]) # {}
           /\ \A d \in SetSession([c EXCEPT !.state = x]) : Made(d, c.origin)
           /\ SetSession([c EXCEPT !.state = x]) # {}
           /\ \A d \in SetSession([c EXCEPT !.token = x]) : Made(d, c.origin)
<1>1. c = [state |-> c.state, origin |-> c.origin, token |-> c.token] /\ (TooLong => c.token = 0)
  BY DEF Sound, IsCookie
<1>2. /\ [c EXCEPT !.origin = x] = [state |-> c.state, origin |-> x, token |-> c.token]
      /\ [c EXCEPT !.state = x] = [state |-> x, origin |-> c.origin, token |-> c.token]
      /\ [c EXCEPT !.token = x] = [state |-> c.state, origin |-> c.origin, token |-> x]
  BY <1>1
<1>3. ASSUME NEW s, NEW o, NEW k
      PROVE  /\ \A d \in SetSession([state |-> s, origin |-> o, token |-> k]) : Made(d, o)
             /\ (TooLong => k = 0) => SetSession([state |-> s, origin |-> o, token |-> k]) # {}
  <2> DEFINE d0 == [state |-> s, origin |-> o, token |-> k]
  <2>1. d0.state = s /\ d0.origin = o /\ d0.token = k /\ IsCookie(d0)
    BY DEF IsCookie
  <2>2. CASE TooLong /\ k # 0
    BY <2>1, <2>2 DEF SetSession
  <2>3. CASE ~(TooLong /\ k # 0)
    <3>1. SetSession(d0) = {d0}
      BY <2>1, <2>3 DEF SetSession
    <3>2. QED
      BY <2>1, <2>3, <3>1 DEF Made
  <2>4. QED
    BY <2>2, <2>3
<1>4. QED
  BY <1>1, <1>2, <1>3

\* The history only grows.
LEMMA MoreAsked ==
    ASSUME LoginTypeOK, Next
    PROVE  /\ \A page : AskedFor(page) => AskedFor(page)'
           /\ mishaps' = 0 => mishaps = 0
           /\ mishaps' \in 0 .. MaxMishaps
           /\ want' \in [Tabs -> SUBSET Pages]
<1>1. mishaps \in 0 .. MaxMishaps /\ want \in [Tabs -> SUBSET Pages] /\ MaxMishaps \in Nat
  BY LoginAssumption DEF LoginTypeOK
<1>2. ASSUME NEW t \in Tabs, NEW p \in Pages, Visit(t, p)
      PROVE  want' = [want EXCEPT ![t] = @ \cup {p}] /\ mishaps' = mishaps
  BY <1>2 DEF Visit
<1>3. ASSUME NEW t \in Tabs, Server(t) \/ Browser(t) \/ User(t)
      PROVE  want' = want /\ mishaps' = mishaps
  BY <1>3 DEF Server, Browser, User, Authed, AuthLogin, AuthCallback, AuthCallbackFails,
              Receive, Follow, ProviderRedirect, GiveUp
<1>4. ASSUME CookieExpires \/ (\E token : TokenExpires(token)) \/ StandingChanges
      PROVE  want' = want /\ mishaps' = mishaps + 1 /\ mishaps < MaxMishaps
  BY <1>4 DEF CookieExpires, TokenExpires, StandingChanges, Mishap, tabVars
<1>5. /\ \/ want' = want
         \/ \E t \in Tabs, p \in Pages : want' = [want EXCEPT ![t] = @ \cup {p}]
      /\ mishaps' = mishaps \/ (mishaps' = mishaps + 1 /\ mishaps < MaxMishaps)
  BY <1>2, <1>3, <1>4 DEF Next
<1>6. /\ \A u \in Tabs : want[u] \subseteq want'[u]
      /\ want' \in [Tabs -> SUBSET Pages]
  BY <1>1, <1>5
<1>7. /\ mishaps' \in 0 .. MaxMishaps /\ (mishaps' = 0 => mishaps = 0)
      /\ mishaps > 0 => mishaps' > 0
  BY <1>1, <1>5
<1>8. QED
  BY <1>6, <1>7 DEF AskedFor

-----------------------------------------------------------------------------
(***************************************************************************)
(* The steps.                                                              *)
(***************************************************************************)
\* Every cookie after a step was there before, is empty, or was made by the
\* handler from the one its request carried.
LEMMA CookieStep ==
    ASSUME LoginInv, Next
    PROVE  \A c \in Cookies' : Sound(c)'
<1>1. /\ LoginTypeOK /\ \A c \in Cookies : Sound(c)
  BY SoundCookies DEF LoginInv
<1>2. \A page : AskedFor(page) => AskedFor(page)'
  BY <1>1, MoreAsked
<1>3. ASSUME NEW c, Sound(c) PROVE Sound(c)'
  BY <1>2, <1>3 DEF Sound, IsCookie
<1>4. SUFFICES ASSUME NEW c \in Cookies', c \notin Cookies, c # Empty PROVE Sound(c)'
  BY <1>1, <1>3, SoundEmpty
<1>5. \/ c = jar'
      \/ \E u \in Tabs : c = sent'[u] \/ c \in reply'[u].set
  BY <1>4, CookiesAre
<1>6. c # jar /\ \A u \in Tabs : c # sent[u] /\ c \notin reply[u].set
  BY <1>4, CookiesAre
<1>7. ASSUME NEW t \in Tabs, NEW go, NEW set, Answer(t, go, set), jar' = jar PROVE c \in set
  <2>1. /\ sent'[t] = Empty /\ reply'[t] = [go |-> go, set |-> set]
        /\ \A u \in Tabs : u # t => sent'[u] = sent[u] /\ reply'[u] = reply[u]
    BY <1>1, <1>7, AnswerIs
  <2>2. reply'[t].set = set
    BY <2>1
  <2>3. PICK u \in Tabs : c = sent'[u] \/ c \in reply'[u].set
    BY <1>5, <1>6, <1>7
  <2>4. u = t
    BY <1>6, <2>1, <2>3
  <2>5. QED
    BY <1>4, <2>1, <2>2, <2>3, <2>4
<1>8. ASSUME NEW t \in Tabs, NEW to, Send(t, to), jar' = jar, reply' = reply PROVE FALSE
  BY <1>1, <1>5, <1>6, <1>8, SendIs
<1>9. ASSUME jar' = jar \/ jar' = Empty, sent' = sent, reply' = reply PROVE FALSE
  BY <1>4, <1>5, <1>6, <1>9
<1>10. \A u \in Tabs : sent[u] \in Cookies /\ Sound(sent[u])
  BY <1>1, CookiesAre
<1>11. ASSUME NEW t \in Tabs, NEW p \in Pages, Visit(t, p) PROVE FALSE
  BY <1>8, <1>11 DEF Visit
<1>12. ASSUME NEW t \in Tabs, Authed(t) PROVE Sound(c)'
  <2>1. jar' = jar /\ (Answer(t, "rest", {}) \/ Answer(t, "login", OriginSet(t))) /\ at[t] = "page"
    BY <1>12 DEF Authed
  <2>2. c \in OriginSet(t)
    BY <1>7, <2>1
  <2>3. url[t] \in Pages /\ AskedFor(url[t])
    BY <2>1 DEF LoginInv, LoginTypeOK, PagesAskedFor
  <2>4. Made(c, url[t])
    BY <1>10, <2>2, SessionSet DEF OriginSet
  <2>5. Sound(c)
    BY <2>3, <2>4 DEF Sound, Made
  <2>6. QED
    BY <1>3, <2>5
<1>13. ASSUME NEW t \in Tabs, AuthLogin(t) PROVE Sound(c)'
  <2>1. /\ jar' = jar
        /\ Answer(t, "provider", SetSession([sent[t] EXCEPT !.state = FreshState]))
    BY <1>13 DEF AuthLogin
  <2>2. c \in SetSession([sent[t] EXCEPT !.state = FreshState])
    BY <1>7, <2>1
  <2>3. Made(c, sent[t].origin)
    BY <1>10, <2>2, SessionSet
  <2>4. Sound(c)
    BY <1>10, <2>3 DEF Sound, Made
  <2>5. QED
    BY <1>3, <2>4
<1>14. ASSUME NEW t \in Tabs, AuthCallbackFails(t) PROVE Sound(c)'
  <2>1. jar' = jar /\ Answer(t, "rest", {})
    BY <1>14 DEF AuthCallbackFails
  <2>2. QED
    BY <1>7, <2>1
<1>15. ASSUME NEW t \in Tabs, AuthCallback(t) PROVE Sound(c)'
  <2>1. /\ jar' = jar
        /\ Answer(t, IF Checked(FreshToken) THEN "page" ELSE "rest",
                  SetSession([sent[t] EXCEPT !.token = FreshToken]))
    BY <1>15 DEF AuthCallback
  <2>2. c \in SetSession([sent[t] EXCEPT !.token = FreshToken])
    BY <1>7, <2>1
  <2>3. Made(c, sent[t].origin)
    BY <1>10, <2>2, SessionSet
  <2>4. Sound(c)
    BY <1>10, <2>3 DEF Sound, Made
  <2>5. QED
    BY <1>3, <2>4
<1>16. ASSUME NEW t \in Tabs, Receive(t) PROVE FALSE
  <2>1. sent' = sent
    BY <1>16 DEF Receive
  <2>2. QED
    BY <1>1, <1>5, <1>6, <1>16, <2>1, ReceiveIs
<1>17. ASSUME NEW t \in Tabs, Follow(t) PROVE FALSE
  BY <1>8, <1>17 DEF Follow
<1>18. ASSUME NEW t \in Tabs, ProviderRedirect(t) PROVE FALSE
  BY <1>8, <1>18 DEF ProviderRedirect
<1>19. ASSUME NEW t \in Tabs, GiveUp(t) PROVE FALSE
  BY <1>9, <1>19 DEF GiveUp
<1>20. ASSUME CookieExpires \/ (\E token : TokenExpires(token)) \/ StandingChanges PROVE FALSE
  BY <1>9, <1>20 DEF CookieExpires, TokenExpires, StandingChanges, tabVars
<1>21. QED
  BY <1>11, <1>12, <1>13, <1>14, <1>15, <1>16, <1>17, <1>18, <1>19, <1>20
     DEF Next, Server, Browser, User

\* Where a tab can be, and where an answer can send it.
Places == {"rest", "page", "login", "callback", "provider", "reply", "follow"}
Targets == {"rest", "page", "login", "provider"}

LEMMA Answers ==
    ASSUME NEW t \in Tabs, Server(t)
    PROVE  \E go \in Targets : \E set : Answer(t, go, set)
<1>1. CASE Authed(t)
  BY <1>1 DEF Authed, Targets
<1>2. CASE AuthLogin(t)
  BY <1>2 DEF AuthLogin, Targets
<1>3. CASE AuthCallback(t)
  BY <1>3 DEF AuthCallback, Targets
<1>4. CASE AuthCallbackFails(t)
  BY <1>4 DEF AuthCallbackFails, Targets
<1>5. QED
  BY <1>1, <1>2, <1>3, <1>4 DEF Server

LEMMA TypeStep ==
    ASSUME LoginInv, Next
    PROVE  LoginTypeOK'
<1> DEFINE Answered(r) == /\ r = [u \in Tabs |-> [go |-> r[u].go, set |-> r[u].set]]
                          /\ \A u \in Tabs : r[u].go \in Targets
           Shape == /\ at' \in [Tabs -> Places] /\ sent' = [u \in Tabs |-> sent'[u]]
                    /\ Answered(reply')
<1>1. /\ LoginTypeOK /\ at \in [Tabs -> Places] /\ Answered(reply) /\ sent = [u \in Tabs |-> sent[u]]
      /\ url \in [Tabs -> Pages \cup {NoPage}] /\ shown \in [Tabs -> Pages \cup {NoPage}]
  BY DEF LoginInv, LoginTypeOK, Places, Targets
<1>2. \A c \in Cookies' : IsCookie(c) /\ c.origin \in Pages \cup {NoPage}
  BY CookieStep DEF Sound, IsCookie
<1>3. ASSUME NEW t \in Tabs, NEW to \in Places, Send(t, to), reply' = reply PROVE Shape
  <2>1. at' = [at EXCEPT ![t] = to] /\ sent' = [u \in Tabs |-> sent'[u]]
    BY <1>1, <1>3, SendIs
  <2>2. QED
    BY <1>1, <1>3, <2>1
<1>4. ASSUME NEW t \in Tabs, Server(t) PROVE Shape
  <2>1. PICK go \in Targets : \E set : Answer(t, go, set)
    BY <1>4, Answers
  <2>2. PICK set : Answer(t, go, set)
    BY <2>1
  <2>3. /\ at' = [at EXCEPT ![t] = "reply"] /\ sent' = [u \in Tabs |-> sent'[u]]
        /\ reply'[t] = [go |-> go, set |-> set] /\ reply' = [u \in Tabs |-> reply'[u]]
        /\ \A u \in Tabs : u # t => reply'[u] = reply[u]
    BY <1>1, <2>2, AnswerIs
  <2>4. at' \in [Tabs -> Places]
    BY <1>1, <2>3 DEF Places
  <2>5. \A u \in Tabs : reply[u] = [go |-> reply[u].go, set |-> reply[u].set]
    BY <1>1
  <2>6. \A u \in Tabs : reply'[u] = [go |-> reply'[u].go, set |-> reply'[u].set]
    BY <2>3, <2>5
  <2>7. reply' = [u \in Tabs |-> [go |-> reply'[u].go, set |-> reply'[u].set]]
    BY <2>3, <2>6
  <2>8. \A u \in Tabs : reply'[u].go \in Targets
    BY <1>1, <2>3
  <2>9. QED
    BY <2>3, <2>4, <2>7, <2>8
<1>5. ASSUME NEW t \in Tabs, Receive(t) PROVE Shape
  <2>1. sent' = sent
    BY <1>5 DEF Receive
  <2>2. \A u \in Tabs : reply'[u].go = reply[u].go
    BY <1>1, <1>5, ReceiveIs
  <2>3. Answered(reply')
    BY <1>1, <1>5, <2>2, ReceiveIs
  <2>4. PICK to \in Places : at' = [at EXCEPT ![t] = to]
    BY <1>5 DEF Receive, Places
  <2>5. QED
    BY <1>1, <2>1, <2>3, <2>4
<1>6. Shape
  <2>1. ASSUME NEW t \in Tabs, NEW p \in Pages, Visit(t, p) PROVE Shape
    BY <1>3, <2>1 DEF Visit, Places
  <2>2. ASSUME NEW t \in Tabs, Follow(t) PROVE Shape
    <3>1. reply[t].go \in Places /\ Send(t, reply[t].go) /\ reply' = reply
      BY <1>1, <2>2 DEF Follow, Targets, Places
    <3>2. QED
      BY <1>3, <3>1
  <2>3. ASSUME NEW t \in Tabs, ProviderRedirect(t) PROVE Shape
    BY <1>3, <2>3 DEF ProviderRedirect, Places
  <2>4. ASSUME NEW t \in Tabs, GiveUp(t) PROVE Shape
    BY <1>1, <2>4 DEF GiveUp, Places
  <2>5. ASSUME CookieExpires \/ (\E token : TokenExpires(token)) \/ StandingChanges PROVE Shape
    BY <1>1, <2>5 DEF CookieExpires, TokenExpires, StandingChanges, tabVars
  <2>6. QED
    BY <1>4, <1>5, <2>1, <2>2, <2>3, <2>4, <2>5 DEF Next, Browser, User
<1>7. /\ url' \in [Tabs -> Pages \cup {NoPage}]
      /\ shown' \in [Tabs -> Pages \cup {NoPage}]
  <2>1. \A t \in Tabs : sent[t].origin \in Pages \cup {NoPage}
    BY <1>1, CookiesAre DEF LoginTypeOK
  <2>2. ASSUME NEW t \in Tabs, NEW p \in Pages, Visit(t, p)
        PROVE  url' = [url EXCEPT ![t] = p] /\ shown' = [shown EXCEPT ![t] = NoPage]
    BY <2>2 DEF Visit
  <2>3. ASSUME NEW t \in Tabs, Authed(t)
        PROVE  url' = url /\ shown' \in {shown, [shown EXCEPT ![t] = url[t]]}
    BY <2>3 DEF Authed
  <2>4. ASSUME NEW t \in Tabs, AuthCallback(t)
        PROVE  /\ url' \in {[url EXCEPT ![t] = Root], [url EXCEPT ![t] = sent[t].origin]}
               /\ shown' = shown
    BY <2>4 DEF AuthCallback
  <2>5. ASSUME NEW t \in Tabs,
               AuthLogin(t) \/ AuthCallbackFails(t) \/ Browser(t) \/ User(t)
        PROVE  url' = url /\ shown' = shown
    BY <2>5 DEF AuthLogin, AuthCallbackFails, Browser, User, Receive, Follow, ProviderRedirect, GiveUp
  <2>6. ASSUME CookieExpires \/ (\E token : TokenExpires(token)) \/ StandingChanges
        PROVE  url' = url /\ shown' = shown
    BY <2>6 DEF CookieExpires, TokenExpires, StandingChanges, tabVars
  <2>7. \/ url' = url /\ shown' = shown
        \/ \E t \in Tabs : \/ \E p \in Pages : /\ url' = [url EXCEPT ![t] = p]
                                               /\ shown' = [shown EXCEPT ![t] = NoPage]
                           \/ /\ url' = url
                              /\ shown' \in {shown, [shown EXCEPT ![t] = url[t]]}
                           \/ /\ url' \in {[url EXCEPT ![t] = Root],
                                           [url EXCEPT ![t] = sent[t].origin]}
                              /\ shown' = shown
    BY <2>2, <2>3, <2>4, <2>5, <2>6 DEF Next, Server
  <2>8. QED
    BY <1>1, <2>1, <2>7, LoginAssumption
<1>8. mishaps' \in 0 .. MaxMishaps /\ want' \in [Tabs -> SUBSET Pages]
  BY <1>1, MoreAsked
<1>9. QED
  BY <1>2, <1>6, <1>7, <1>8 DEF LoginTypeOK, Places, Targets

LEMMA PagesStep ==
    ASSUME LoginInv, Next
    PROVE  PagesAskedFor'
<1> DEFINE Fine(u) == /\ url[u] # NoPage => AskedFor(url[u])
                      /\ at[u] # "rest" => url[u] # NoPage
                      /\ at[u] = "follow" => reply[u].go \in {"page", "login"}
<1>1. /\ LoginTypeOK /\ at \in [Tabs -> Places] /\ url \in [Tabs -> Pages \cup {NoPage}]
      /\ \A u \in Tabs : Fine(u) /\ reply[u].go \in Targets
  BY DEF LoginInv, LoginTypeOK, PagesAskedFor, Places, Targets
<1>2. \A page : AskedFor(page) => AskedFor(page)'
  BY <1>1, MoreAsked
<1>3. NoPage \notin Pages /\ Root \in Pages
  BY LoginAssumption
<1>4. SUFFICES ASSUME NEW u \in Tabs PROVE Fine(u)'
  <2>1. \A c \in Cookies' : c.origin # NoPage => AskedFor(c.origin)'
    BY CookieStep DEF Sound
  <2>2. QED
    BY <1>4, <2>1 DEF PagesAskedFor
<1>5. ASSUME at'[u] = at[u], url'[u] = url[u], reply'[u].go = reply[u].go PROVE Fine(u)'
  BY <1>1, <1>2, <1>5 DEF AskedFor
<1>6. ASSUME url'[u] = url[u], at[u] # "rest",
             at'[u] = "follow" => reply'[u].go \in {"page", "login"}
      PROVE  Fine(u)'
  BY <1>1, <1>2, <1>6 DEF AskedFor
<1>7. ASSUME NEW t \in Tabs, NEW p \in Pages, Visit(t, p) PROVE Fine(u)'
  <2>1. /\ Send(t, "page") /\ url' = [url EXCEPT ![t] = p] /\ reply' = reply
        /\ want' = [want EXCEPT ![t] = @ \cup {p}]
    BY <1>7 DEF Visit
  <2>2. /\ at'[t] = "page" /\ \A v \in Tabs : v # t => at'[v] = at[v]
    BY <1>1, <2>1, SendIs
  <2>3. CASE u = t
    <3>1. url'[u] = p /\ at'[u] = "page"
      BY <1>1, <2>1, <2>2, <2>3
    <3>2. p \in want'[t]
      BY <1>1, <2>1 DEF LoginTypeOK
    <3>3. AskedFor(url[u])'
      BY <3>1, <3>2 DEF AskedFor
    <3>4. QED
      BY <1>3, <3>1, <3>3
  <2>4. CASE u # t
    BY <1>1, <1>5, <2>1, <2>2, <2>4
  <2>5. QED
    BY <2>3, <2>4
<1>8. ASSUME NEW t \in Tabs, AuthCallback(t) PROVE Fine(u)'
  <2>1. /\ at[t] = "callback"
        /\ url' = [url EXCEPT ![t] = IF sent[t].origin = NoPage THEN Root ELSE sent[t].origin]
    BY <1>8 DEF AuthCallback
  <2>2. PICK go \in Targets : \E set : Answer(t, go, set)
    BY <1>8, Answers DEF Server
  <2>3. /\ at'[t] = "reply"
        /\ \A v \in Tabs : v # t => at'[v] = at[v] /\ reply'[v] = reply[v]
    BY <1>1, <2>2, AnswerIs
  <2>4. CASE u = t
    <3>1. sent[t] \in Cookies
      BY CookiesAre
    <3>2. sent[t].origin # NoPage => AskedFor(sent[t].origin)
      BY <3>1 DEF LoginInv, PagesAskedFor
    <3>3. sent[t].origin = NoPage => AskedFor(Root)
      <4>1. sent[t].origin = NoPage => mishaps # 0
        BY <2>1 DEF LoginInv, OriginKept
      <4>2. mishaps \in Nat
        BY <1>1, LoginAssumption DEF LoginTypeOK
      <4>3. QED
        BY <4>1, <4>2 DEF AskedFor
    <3>4. url'[u] = IF sent[t].origin = NoPage THEN Root ELSE sent[t].origin
      BY <1>1, <2>1, <2>4
    <3>5. AskedFor(url'[u]) /\ url'[u] # NoPage
      BY <1>3, <3>2, <3>3, <3>4
    <3>6. AskedFor(url[u])'
      BY <1>2, <3>5 DEF AskedFor
    <3>7. QED
      BY <2>3, <2>4, <3>5, <3>6
  <2>5. CASE u # t
    BY <1>1, <1>5, <2>1, <2>3, <2>5
  <2>6. QED
    BY <2>4, <2>5
<1>9. ASSUME NEW t \in Tabs, Authed(t) \/ AuthLogin(t) \/ AuthCallbackFails(t) PROVE Fine(u)'
  <2>1. at[t] # "rest" /\ url' = url /\ Server(t)
    BY <1>9 DEF Authed, AuthLogin, AuthCallbackFails, Server
  <2>2. PICK go \in Targets : \E set : Answer(t, go, set)
    BY <2>1, Answers
  <2>3. /\ at'[t] = "reply"
        /\ \A v \in Tabs : v # t => at'[v] = at[v] /\ reply'[v] = reply[v]
    BY <1>1, <2>2, AnswerIs
  <2>4. QED
    BY <1>5, <1>6, <2>1, <2>3
<1>10. ASSUME NEW t \in Tabs, Receive(t) PROVE Fine(u)'
  <2>1. at[t] = "reply" /\ url' = url
    BY <1>10 DEF Receive
  <2>2. /\ at'[t] = IF reply[t].go \in {"rest", "provider"} THEN reply[t].go ELSE "follow"
        /\ reply'[t].go = reply[t].go
        /\ \A v \in Tabs : v # t => at'[v] = at[v] /\ reply'[v] = reply[v]
    BY <1>1, <1>10, ReceiveIs
  <2>3. at'[t] = "follow" => reply'[t].go \in {"page", "login"}
    BY <1>1, <2>2 DEF Targets
  <2>4. QED
    BY <1>5, <1>6, <2>1, <2>2, <2>3
<1>11. ASSUME NEW t \in Tabs, Follow(t) PROVE Fine(u)'
  <2>1. at[t] = "follow" /\ url' = url /\ reply' = reply /\ Send(t, reply[t].go)
    BY <1>11 DEF Follow
  <2>2. at'[t] # "follow" /\ \A v \in Tabs : v # t => at'[v] = at[v]
    BY <1>1, <2>1, SendIs DEF Targets
  <2>3. QED
    BY <1>5, <1>6, <2>1, <2>2
<1>12. ASSUME NEW t \in Tabs, User(t) PROVE Fine(u)'
  <2>1. /\ at[t] = "provider" /\ url' = url /\ reply' = reply
        /\ Send(t, "callback") \/ at' = [at EXCEPT ![t] = "rest"]
    BY <1>12 DEF User, ProviderRedirect, GiveUp
  <2>2. at'[t] # "follow" /\ \A v \in Tabs : v # t => at'[v] = at[v]
    BY <1>1, <2>1, SendIs
  <2>3. QED
    BY <1>5, <1>6, <2>1, <2>2
<1>13. ASSUME CookieExpires \/ (\E token : TokenExpires(token)) \/ StandingChanges PROVE Fine(u)'
  BY <1>5, <1>13 DEF CookieExpires, TokenExpires, StandingChanges, tabVars
<1>14. QED
  BY <1>7, <1>8, <1>9, <1>10, <1>11, <1>12, <1>13 DEF Next, Server, Browser

LEMMA RightStep ==
    ASSUME LoginInv, Next
    PROVE  RightPage'
<1>1. /\ LoginTypeOK /\ RightPage /\ shown \in [Tabs -> Pages \cup {NoPage}]
      /\ \A t \in Tabs : url[t] # NoPage => AskedFor(url[t])
  BY DEF LoginInv, LoginTypeOK, PagesAskedFor
<1>2. \A page : AskedFor(page) => AskedFor(page)'
  BY <1>1, MoreAsked
<1>3. ASSUME \A u \in Tabs : shown'[u] # NoPage => AskedFor(shown'[u]) PROVE RightPage'
  BY <1>2, <1>3 DEF RightPage, AskedFor
<1>4. ASSUME NEW t \in Tabs, NEW p \in Pages, Visit(t, p) PROVE RightPage'
  <2>1. shown' = [shown EXCEPT ![t] = NoPage]
    BY <1>4 DEF Visit
  <2>2. QED
    BY <1>1, <1>3, <2>1 DEF RightPage
<1>5. ASSUME NEW t \in Tabs, Authed(t) PROVE RightPage'
  <2>1. shown' = shown \/ shown' = [shown EXCEPT ![t] = url[t]]
    BY <1>5 DEF Authed
  <2>2. QED
    BY <1>1, <1>3, <2>1 DEF RightPage
<1>6. ASSUME shown' = shown PROVE RightPage'
  BY <1>1, <1>3, <1>6 DEF RightPage
<1>7. ASSUME NEW t \in Tabs, \/ AuthLogin(t) \/ AuthCallback(t) \/ AuthCallbackFails(t)
                             \/ Browser(t) \/ User(t)
      PROVE  shown' = shown
  BY <1>7 DEF AuthLogin, AuthCallback, AuthCallbackFails, Browser, User, Receive, Follow,
              ProviderRedirect, GiveUp
<1>8. ASSUME CookieExpires \/ (\E token : TokenExpires(token)) \/ StandingChanges
      PROVE  shown' = shown
  BY <1>8 DEF CookieExpires, TokenExpires, StandingChanges, tabVars
<1>9. QED
  BY <1>4, <1>5, <1>6, <1>7, <1>8 DEF Next, Server

LEMMA OriginStep ==
    ASSUME LoginInv, Next
    PROVE  OriginKept'
<1> DEFINE Kept(u) ==
              /\ \A c \in reply[u].set : c.origin # NoPage
              /\ at[u] = "reply" /\ reply[u].go \in {"login", "provider"} => reply[u].set # {}
              /\ at[u] = "follow" /\ reply[u].go = "login" => jar.origin # NoPage
              /\ at[u] = "provider" => jar.origin # NoPage
              /\ at[u] \in {"login", "callback"} => sent[u].origin # NoPage
<1>1. CASE mishaps' # 0
  BY <1>1 DEF OriginKept
<1>2. CASE mishaps' = 0
  <2>1. /\ LoginTypeOK /\ at \in [Tabs -> Places] /\ mishaps = 0
        /\ \A u \in Tabs : Kept(u) /\ Sound(sent[u]) /\ reply[u].go \in Targets
    BY <1>2, MoreAsked, SoundCookies, CookiesAre
       DEF LoginInv, LoginTypeOK, OriginKept, Places, Targets
  <2>2. SUFFICES ASSUME NEW u \in Tabs PROVE Kept(u)'
    BY DEF OriginKept
  <2>3. ASSUME at'[u] = at[u], sent'[u] = sent[u], reply'[u] = reply[u],
               jar.origin # NoPage => jar'.origin # NoPage
        PROVE  Kept(u)'
    BY <2>1, <2>3
  \* An answer to tab t.
  <2>4. ASSUME NEW t \in Tabs, NEW go, NEW set, Answer(t, go, set), jar' = jar,
               \A c \in set : c.origin # NoPage, go \in {"login", "provider"} => set # {}
        PROVE  Kept(u)'
    <3>1. /\ at'[t] = "reply" /\ reply'[t] = [go |-> go, set |-> set]
          /\ \A v \in Tabs : v # t => /\ at'[v] = at[v] /\ sent'[v] = sent[v]
                                      /\ reply'[v] = reply[v]
      BY <2>1, <2>4, AnswerIs
    <3>2. reply'[t].go = go /\ reply'[t].set = set
      BY <3>1
    <3>3. CASE u = t
      BY <2>4, <3>1, <3>2, <3>3
    <3>4. CASE u # t
      BY <2>3, <2>4, <3>1, <3>4
    <3>5. QED
      BY <3>3, <3>4
  \* A request of tab t.
  <2>5. ASSUME NEW t \in Tabs, NEW to, Send(t, to), jar' = jar, reply' = reply,
               to \in {"page", "login", "callback"},
               to \in {"login", "callback"} => jar.origin # NoPage
        PROVE  Kept(u)'
    <3>1. /\ at'[t] = to /\ sent'[t] = jar
          /\ \A v \in Tabs : v # t => at'[v] = at[v] /\ sent'[v] = sent[v]
      BY <2>1, <2>5, SendIs
    <3>2. CASE u = t
      BY <2>1, <2>5, <3>1, <3>2
    <3>3. CASE u # t
      BY <2>3, <2>5, <3>1, <3>3
    <3>4. QED
      BY <3>2, <3>3
  <2>6. ASSUME NEW t \in Tabs, NEW p \in Pages, Visit(t, p) PROVE Kept(u)'
    BY <2>5, <2>6 DEF Visit
  <2>7. ASSUME NEW t \in Tabs, Authed(t) PROVE Kept(u)'
    <3>1. /\ jar' = jar /\ at[t] = "page"
          /\ Answer(t, "rest", {}) \/ Answer(t, "login", OriginSet(t))
      BY <2>7 DEF Authed
    <3>2. url[t] # NoPage
      BY <3>1 DEF LoginInv, PagesAskedFor
    <3>3. OriginSet(t) # {} /\ \A c \in OriginSet(t) : Made(c, url[t])
      BY <2>1, SessionSet DEF OriginSet
    <3>4. \A c \in OriginSet(t) : c.origin # NoPage
      BY <3>2, <3>3 DEF Made
    <3>5. QED
      BY <2>4, <3>1, <3>3, <3>4
  <2>8. ASSUME NEW t \in Tabs, AuthLogin(t) PROVE Kept(u)'
    <3> DEFINE set == SetSession([sent[t] EXCEPT !.state = FreshState])
    <3>1. jar' = jar /\ at[t] = "login" /\ Answer(t, "provider", set)
      BY <2>8 DEF AuthLogin
    <3>2. sent[t].origin # NoPage
      BY <2>1, <3>1
    <3>3. set # {} /\ \A c \in set : Made(c, sent[t].origin)
      BY <2>1, SessionSet
    <3> HIDE DEF set
    <3>4. \A c \in set : c.origin # NoPage
      BY <3>2, <3>3 DEF Made
    <3>5. QED
      BY <2>4, <3>1, <3>3, <3>4
  <2>9. ASSUME NEW t \in Tabs, AuthCallbackFails(t) PROVE Kept(u)'
    <3>1. jar' = jar /\ Answer(t, "rest", {})
      BY <2>9 DEF AuthCallbackFails
    <3>2. QED
      BY <2>4, <3>1
  <2>10. ASSUME NEW t \in Tabs, AuthCallback(t) PROVE Kept(u)'
    <3> DEFINE set == SetSession([sent[t] EXCEPT !.token = FreshToken])
               go == IF Checked(FreshToken) THEN "page" ELSE "rest"
    <3>1. jar' = jar /\ at[t] = "callback" /\ Answer(t, go, set)
      BY <2>10 DEF AuthCallback
    <3>2. sent[t].origin # NoPage
      BY <2>1, <3>1
    <3>3. go \notin {"login", "provider"} /\ \A c \in set : Made(c, sent[t].origin)
      BY <2>1, SessionSet
    <3> HIDE DEF set, go
    <3>4. \A c \in set : c.origin # NoPage
      BY <3>2, <3>3 DEF Made
    <3>5. QED
      BY <2>4, <3>1, <3>3, <3>4
  <2>11. ASSUME NEW t \in Tabs, Receive(t) PROVE Kept(u)'
    <3>1. at[t] = "reply" /\ sent' = sent
      BY <2>11 DEF Receive
    <3>2. /\ jar' = jar \/ jar' \in reply[t].set
          /\ reply[t].set # {} => jar' \in reply[t].set
          /\ at'[t] = IF reply[t].go \in {"rest", "provider"} THEN reply[t].go ELSE "follow"
          /\ reply'[t].go = reply[t].go /\ reply'[t].set = {}
          /\ \A v \in Tabs : v # t => at'[v] = at[v] /\ reply'[v] = reply[v]
      BY <2>1, <2>11, ReceiveIs
    <3>3. jar.origin # NoPage => jar'.origin # NoPage
      BY <2>1, <3>2
    <3>4. reply[t].go \in {"login", "provider"} => jar'.origin # NoPage
      BY <2>1, <3>1, <3>2
    <3>5. CASE u = t
      <4>1. at'[u] \in {"rest", "provider", "follow"} /\ (at'[u] = "provider" => reply[t].go = "provider")
        BY <3>2, <3>5
      <4>2. QED
        BY <3>2, <3>4, <3>5, <4>1
    <3>6. CASE u # t
      BY <2>3, <3>1, <3>2, <3>3, <3>6
    <3>7. QED
      BY <3>5, <3>6
  <2>12. ASSUME NEW t \in Tabs, Follow(t) PROVE Kept(u)'
    <3>1. at[t] = "follow" /\ jar' = jar /\ reply' = reply /\ Send(t, reply[t].go)
      BY <2>12 DEF Follow
    <3>2. reply[t].go \in {"page", "login"} /\ (reply[t].go = "login" => jar.origin # NoPage)
      BY <2>1, <3>1 DEF LoginInv, PagesAskedFor
    <3>3. QED
      BY <2>5, <3>1, <3>2
  <2>13. ASSUME NEW t \in Tabs, ProviderRedirect(t) PROVE Kept(u)'
    <3>1. at[t] = "provider" /\ jar' = jar /\ reply' = reply /\ Send(t, "callback")
      BY <2>13 DEF ProviderRedirect
    <3>2. jar.origin # NoPage
      BY <2>1, <3>1
    <3>3. QED
      BY <2>5, <3>1, <3>2
  <2>14. ASSUME NEW t \in Tabs, GiveUp(t) PROVE Kept(u)'
    <3>1. /\ at' = [at EXCEPT ![t] = "rest"] /\ UNCHANGED <<jar, sent, reply>>
      BY <2>14 DEF GiveUp
    <3>2. CASE u = t
      BY <2>1, <3>1, <3>2
    <3>3. CASE u # t
      BY <2>1, <2>3, <3>1, <3>3
    <3>4. QED
      BY <3>2, <3>3
  <2>15. ~(CookieExpires \/ (\E token : TokenExpires(token)) \/ StandingChanges)
    BY <1>2, <2>1 DEF CookieExpires, TokenExpires, StandingChanges, Mishap
  <2>16. QED
    BY <2>6, <2>7, <2>8, <2>9, <2>10, <2>11, <2>12, <2>13, <2>14, <2>15
       DEF Next, Server, Browser, User
<1>3. QED
  BY <1>1, <1>2

LEMMA LoginInvariance == Spec => []LoginInv
<1>1. Init => LoginInv
  <2> SUFFICES ASSUME Init PROVE LoginInv
    OBVIOUS
  <2>1. /\ jar = Empty /\ \A t \in Tabs : /\ sent[t] = Empty /\ at[t] = "rest" /\ url[t] = NoPage
                                          /\ reply[t] = [go |-> "rest", set |-> {}]
                                          /\ want[t] = {} /\ shown[t] = NoPage
    BY DEF Init
  <2>2. \A t \in Tabs : reply[t].go = "rest" /\ reply[t].set = {}
    BY <2>1
  <2>3. \A c \in Cookies : c = Empty
    BY <2>1, <2>2, CookiesAre
  <2>4. Empty.token = 0 /\ Empty.origin = NoPage /\ IsCookie(Empty)
    BY DEF Empty, IsCookie
  <2>5. reply = [t \in Tabs |-> [go |-> reply[t].go, set |-> reply[t].set]]
    BY <2>2 DEF Init
  <2>6. /\ at \in [Tabs -> {"rest", "page", "login", "callback", "provider", "reply", "follow"}]
        /\ url \in [Tabs -> Pages \cup {NoPage}] /\ shown \in [Tabs -> Pages \cup {NoPage}]
        /\ want \in [Tabs -> SUBSET Pages] /\ sent = [t \in Tabs |-> sent[t]]
    BY DEF Init
  <2>7. mishaps \in 0 .. MaxMishaps
    BY LoginAssumption DEF Init
  <2>8. LoginTypeOK
    BY <2>2, <2>3, <2>4, <2>5, <2>6, <2>7 DEF LoginTypeOK
  <2>9. RightPage /\ PagesAskedFor /\ TokensFit /\ OriginKept
    BY <2>1, <2>2, <2>3, <2>4 DEF RightPage, PagesAskedFor, TokensFit, OriginKept
  <2>10. QED
    BY <2>8, <2>9 DEF LoginInv
<1>2. LoginInv /\ [Next]_vars => LoginInv'
  <2> SUFFICES ASSUME LoginInv, [Next]_vars PROVE LoginInv'
    OBVIOUS
  <2>1. CASE Next
    <3>1. TokensFit'
      BY <2>1, CookieStep DEF TokensFit, Sound
    <3>2. QED
      BY <2>1, <3>1, TypeStep, PagesStep, RightStep, OriginStep DEF LoginInv
  <2>2. CASE UNCHANGED vars
    <3>1. UNCHANGED <<jar, at, url, sent, reply, want, shown, mishaps>>
      BY <2>2 DEF vars, tabVars
    <3>2. UNCHANGED Cookies
      BY <3>1 DEF Cookies
    <3>3. LoginTypeOK'
      BY <3>1, <3>2 DEF LoginInv, LoginTypeOK, IsCookie
    <3>4. RightPage' /\ PagesAskedFor'
      BY <3>1, <3>2 DEF LoginInv, RightPage, PagesAskedFor, AskedFor
    <3>5. TokensFit' /\ OriginKept'
      BY <3>1, <3>2 DEF LoginInv, TokensFit, OriginKept
    <3>6. QED
      BY <3>3, <3>4, <3>5 DEF LoginInv
  <2>3. QED
    BY <2>1, <2>2
<1>3. QED
  BY <1>1, <1>2, PTL DEF Spec

\* authed of server/server.go and auth of server/handlers.go: whatever tabs log
\* in at once and whatever cookie of theirs is stored last, the page a tab is
\* shown after its login is one that was asked for, or "/" once something has
\* expired.
THEOREM PageAskedFor == Spec => []RightPage
<1>1. LoginInv => RightPage
  BY DEF LoginInv
<1>2. QED
  BY <1>1, LoginInvariance, PTL
=============================================================================
