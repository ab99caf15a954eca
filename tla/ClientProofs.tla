---------------------------- MODULE ClientProofs ----------------------------
(***************************************************************************)
(* The goroutines of the cashier command never report a success that is    *)
(* not one, never block each other in respond and never send half a token: *)
(* for any number of browser requests and any lifetime of the certificate. *)
(***************************************************************************)
EXTENDS Client, TLAPS

-----------------------------------------------------------------------------
(***************************************************************************)
(* The inductive invariant.                                                *)
(***************************************************************************)
\* What main has done for the user by the time it comes to each step.
DoneInOrder ==
    /\ main = "addkey" => "cert" \in added
    /\ main \in {"respond", "savepub", "savepriv", "stop", "exit 0"} \/ respCh = <<"ok">>
          => added = {"cert", "key"}
    /\ HasPrefix /\ main \in {"savepriv", "stop", "exit 0"} => {"pub", "cert"} \subseteq files
    /\ HasPrefix /\ main \in {"stop", "exit 0"} => "priv" \in files

\* main puts a response into the channel once, at its end.
RespondsOnce ==
    respCh # <<>> =>
        main \in {"savepub", "savepriv", "stop", "fatal", "exit 0", "exit 1"}

\* What encodedToken holds, by how far main and the stdin goroutine are.
WrittenInOrder ==
    /\ ctxDone => paste = "done"
    /\ main = "select" <=> branch = "none"
    /\ main = "select" => encoded = CASE paste \in {"read", "write"}   -> "empty"
                                      [] paste = "assign"              -> "torn"
                                      [] paste \in {"cancel", "done"}  -> "pasted"
    /\ branch = "paste" => paste = "done" /\ encoded = "pasted"
    /\ branch = "http" /\ paste \in {"read", "write"} => encoded = "http"

\* The inductive invariant: the properties above with what they rest on.
ClientInv ==
    /\ SuccessIsReal
    /\ RespondHasRoom
    /\ TokenUsed
    /\ DoneInOrder
    /\ RespondsOnce
    /\ WrittenInOrder

-----------------------------------------------------------------------------
\* The agent is given an integral number of half seconds.
LEMMA LifetimesTyped ==
    ASSUME NEW n \in Int
    PROVE  LifetimeSecs(n) \subseteq Int
  BY ClientAssumption DEF LifetimeSecs

\* The channels carry a token one way and a response the other.
LEMMA ChannelsStep ==
    ASSUME ChannelsTyped, [Next]_vars
    PROVE  ChannelsTyped'
<1> USE DEF ChannelsTyped
<1>1. ASSUME NEW b, HandlerPutsToken(b) PROVE ChannelsTyped'
  BY <1>1 DEF HandlerPutsToken
<1>2. ASSUME NEW b, HandlerGetsResponse(b) PROVE ChannelsTyped'
  BY <1>2 DEF HandlerGetsResponse
<1>3. CASE SelectHTTP
  BY <1>3 DEF SelectHTTP
<1>4. ASSUME RespondOK \/ RespondError PROVE ChannelsTyped'
  BY <1>4 DEF RespondOK, RespondError, respond
<1>5. ASSUME UNCHANGED <<tokenCh, respCh>> PROVE ChannelsTyped'
  BY <1>5
<1>6. ASSUME \/ PasteRead \/ PasteStep
             \/ \E b \in Requests : BrowserSends(b) \/ BrowserSendsNoToken(b) \/ HandlerWrites(b)
      PROVE  UNCHANGED <<tokenCh, respCh>>
  BY <1>6 DEF PasteRead, PasteStep, PasteWrite, PasteAssign, PasteCancel, BrowserSends,
              BrowserSendsNoToken, HandlerWrites, chans
<1>7. ASSUME \/ SelectDone \/ Decode \/ SendNeedsReason \/ SendOk \/ SendFails \/ Prompt
             \/ Dial \/ ComputeLifetime \/ AddCert \/ AddKey
      PROVE  UNCHANGED <<tokenCh, respCh>>
  BY <1>7 DEF SelectDone, Decode, SendNeedsReason, SendOk, SendFails, Prompt, Dial,
              ComputeLifetime, AddCert, AddKey, chans
<1>8. ASSUME SavePublicFiles \/ SavePrivateFiles \/ Stop \/ Fatal \/ Tick \/ UNCHANGED vars
      PROVE  UNCHANGED <<tokenCh, respCh>>
  BY <1>8 DEF SavePublicFiles, SavePrivateFiles, Stop, Fatal, Exit, Tick, vars, chans
<1>9. QED
  BY <1>1, <1>2, <1>3, <1>4, <1>5, <1>6, <1>7, <1>8 DEF Next, MainStep, HandlerStep

\* main goes from place to place.
LEMMA PlacesStep ==
    ASSUME main \in Places, [Next]_vars
    PROVE  main' \in Places
<1>1. ASSUME main' = main PROVE main' \in Places
  BY <1>1
<1>2. ASSUME SelectHTTP \/ SelectDone \/ Decode \/ SendNeedsReason \/ SendOk \/ SendFails
      PROVE  main' \in {"decode", "send", "fatal", "prompt", "dial", "fail"}
  BY <1>2 DEF SelectHTTP, SelectDone, Decode, SendNeedsReason, SendOk, SendFails, Goto
<1>3. ASSUME Prompt \/ Dial \/ ComputeLifetime \/ AddCert \/ AddKey
      PROVE  main' \in {"send", "lifetime", "fail", "addcert", "addkey", "respond"}
  BY <1>3 DEF Prompt, Dial, ComputeLifetime, AddCert, AddKey, Add, Goto
<1>4. ASSUME RespondOK \/ RespondError \/ SavePublicFiles \/ SavePrivateFiles \/ Stop \/ Fatal
      PROVE  main' \in {"savepub", "fatal", "savepriv", "stop", "exit 0", "exit 1"}
  BY <1>4
  DEF RespondOK, RespondError, SavePublicFiles, SavePrivateFiles, Stop, Fatal, Exit, Goto
<1>5. ASSUME \/ PasteRead \/ PasteStep \/ Tick \/ UNCHANGED vars
             \/ \E b \in Requests : BrowserSends(b) \/ BrowserSendsNoToken(b) \/ HandlerStep(b)
      PROVE  main' = main
  BY <1>5
  DEF PasteRead, PasteStep, PasteWrite, PasteAssign, PasteCancel, Tick, vars, BrowserSends,
      BrowserSendsNoToken, HandlerStep, HandlerPutsToken, HandlerGetsResponse, HandlerWrites
<1>6. {"decode", "send", "fatal", "prompt", "dial", "fail", "lifetime", "addcert", "addkey",
       "respond", "savepub", "savepriv", "stop", "exit 0", "exit 1"} \subseteq Places
  BY DEF Places
<1>7. QED
  BY <1>1, <1>2, <1>3, <1>4, <1>5, <1>6 DEF Next, MainStep

\* Every step keeps the variables in their types.
LEMMA TypeStep ==
    ASSUME ClientTypeOK, [Next]_vars
    PROVE  ClientTypeOK'
<1>1. /\ main \in Places /\ ChannelsTyped
      /\ br \in [Requests -> {"unsent", "refused", "sending", "waiting", "has ok",
                              "has error", "ok", "error", "lost"}]
      /\ left \in Int /\ lifetime \in Int /\ ttl \in [{"cert", "key"} -> Int]
      /\ added \in SUBSET {"cert", "key"} /\ files \in SUBSET {"pub", "cert", "priv"}
  BY DEF ClientTypeOK
<1>2. /\ listening \in BOOLEAN /\ ctxDone \in BOOLEAN /\ message \in BOOLEAN
      /\ branch \in {"none", "http", "paste"}
      /\ encoded \in {"empty", "http", "pasted", "torn"}
      /\ token \in {"empty", "http", "pasted", "torn"}
      /\ paste \in {"read", "write", "assign", "cancel", "done"}
  BY DEF ClientTypeOK
<1>3. main' \in Places /\ ChannelsTyped'
  BY <1>1, ChannelsStep, PlacesStep
<1>4. ASSUME UNCHANGED <<listening, branch, encoded, token, message, paste, ctxDone>>,
             left' \in Int /\ lifetime' \in Int /\ ttl' \in [{"cert", "key"} -> Int],
             added' \in SUBSET {"cert", "key"} /\ files' \in SUBSET {"pub", "cert", "priv"},
             br' \in [Requests -> {"unsent", "refused", "sending", "waiting", "has ok",
                                   "has error", "ok", "error", "lost"}]
      PROVE  ClientTypeOK'
  BY <1>2, <1>3, <1>4 DEF ClientTypeOK
<1>5. ASSUME UNCHANGED <<br, left, lifetime, ttl, added, files>>,
             listening' \in BOOLEAN /\ ctxDone' \in BOOLEAN /\ message' \in BOOLEAN,
             branch' \in {"none", "http", "paste"},
             encoded' \in {"empty", "http", "pasted", "torn"},
             token' \in {"empty", "http", "pasted", "torn"},
             paste' \in {"read", "write", "assign", "cancel", "done"}
      PROVE  ClientTypeOK'
  BY <1>1, <1>3, <1>5 DEF ClientTypeOK
<1>6. ASSUME PasteRead \/ PasteStep PROVE ClientTypeOK'
  BY <1>2, <1>5, <1>6
  DEF PasteRead, PasteStep, PasteWrite, PasteAssign, PasteCancel, mainVars, chans
<1>7. ASSUME NEW b \in Requests,
             BrowserSends(b) \/ BrowserSendsNoToken(b) \/ HandlerStep(b)
      PROVE  ClientTypeOK'
  <2>1. /\ UNCHANGED <<paste, ctxDone, mainVars>>
        /\ \E s \in {"sending", "refused", "waiting", "has ok", "has error", "ok", "error",
                     "lost"} : br' = [br EXCEPT ![b] = s]
    BY <1>7 DEF BrowserSends, BrowserSendsNoToken, HandlerStep, HandlerPutsToken,
                HandlerGetsResponse, HandlerWrites, Set
  <2>2. br' \in [Requests -> {"unsent", "refused", "sending", "waiting", "has ok",
                              "has error", "ok", "error", "lost"}]
    BY <1>1, <2>1
  <2>3. QED
    BY <1>1, <1>4, <2>1, <2>2 DEF mainVars
<1>8. CASE SelectHTTP
  <2>1. tokenCh = <<"http">> /\ encoded' = Head(tokenCh)
    BY <1>1, <1>8 DEF SelectHTTP, ChannelsTyped
  <2>2. encoded' = "http"
    BY <2>1
  <2>3. QED
    BY <1>2, <1>5, <1>8, <2>2 DEF SelectHTTP
<1>9. ASSUME SelectDone \/ Decode \/ Prompt PROVE ClientTypeOK'
  BY <1>2, <1>5, <1>9 DEF SelectDone, Decode, Prompt, chans
<1>10. ASSUME SendNeedsReason \/ SendOk \/ SendFails \/ Dial PROVE ClientTypeOK'
  <2>1. UNCHANGED <<paste, ctxDone, mainVars, br>>
    BY <1>10 DEF SendNeedsReason, SendOk, SendFails, Dial, chans
  <2>2. QED
    BY <1>1, <1>4, <2>1 DEF mainVars
<1>11. CASE ComputeLifetime
  BY <1>1, <1>4, <1>11 DEF ComputeLifetime, chans
<1>12. ASSUME NEW k \in {"cert", "key"}, NEW next, Add(k, next)
       PROVE  ttl' \in [{"cert", "key"} -> Int] /\ added' \in SUBSET {"cert", "key"}
  <2>1. LifetimeSecs(lifetime) \subseteq Int
    BY <1>1, LifetimesTyped
  <2>2. QED
    BY <1>1, <1>12, <2>1 DEF Add
<1>13. ASSUME AddCert \/ AddKey PROVE ClientTypeOK'
  <2>1. ttl' \in [{"cert", "key"} -> Int] /\ added' \in SUBSET {"cert", "key"}
    BY <1>12, <1>13 DEF AddCert, AddKey
  <2>2. UNCHANGED <<listening, branch, encoded, token, paste, ctxDone, message, left, lifetime,
                    files, br>>
    BY <1>13 DEF AddCert, AddKey, chans
  <2>3. QED
    BY <1>1, <1>4, <2>1, <2>2
<1>14. ASSUME RespondOK \/ RespondError PROVE ClientTypeOK'
  BY <1>1, <1>4, <1>14 DEF RespondOK, RespondError, mainVars
<1>15. ASSUME SavePublicFiles \/ SavePrivateFiles PROVE ClientTypeOK'
  <2>1. files' \in SUBSET {"pub", "cert", "priv"}
    BY <1>1, <1>15 DEF SavePublicFiles, SavePrivateFiles
  <2>2. UNCHANGED <<listening, branch, encoded, token, paste, ctxDone, message, left, lifetime,
                    ttl, added, br>>
    BY <1>15 DEF SavePublicFiles, SavePrivateFiles, chans
  <2>3. QED
    BY <1>1, <1>4, <2>1, <2>2
<1>16. ASSUME Stop \/ Fatal PROVE ClientTypeOK'
  <2>1. br' \in [Requests -> {"unsent", "refused", "sending", "waiting", "has ok",
                              "has error", "ok", "error", "lost"}]
    BY <1>1, <1>16 DEF Stop, Fatal, Exit
  <2>2. UNCHANGED <<paste, ctxDone, mainVars>>
    BY <1>16 DEF Stop, Fatal, Exit
  <2>3. QED
    BY <1>1, <1>4, <2>1, <2>2 DEF mainVars
<1>17. CASE Tick
  <2>1. left \in Int /\ \A k \in {"cert", "key"} : ttl[k] \in Int
    BY <1>1
  <2>2. left' \in Int
    BY <2>1, <1>17 DEF Tick
  <2>3. ttl' \in [{"cert", "key"} -> Int]
    BY <2>1, <1>17 DEF Tick, Gone
  <2>4. QED
    BY <1>1, <1>4, <1>17, <2>2, <2>3 DEF Tick, chans
<1>18. CASE UNCHANGED vars
  BY <1>1, <1>4, <1>18 DEF vars
<1>19. QED
  BY <1>6, <1>7, <1>8, <1>9, <1>10, <1>11, <1>13, <1>14, <1>15, <1>16, <1>17, <1>18
  DEF Next, MainStep


\* What is done stays done, and main does it in order.
LEMMA DoneStep ==
    ASSUME ClientTypeOK, DoneInOrder, [Next]_vars
    PROVE  DoneInOrder' /\ added \subseteq added'
<1> USE DEF DoneInOrder
<1>1. added \in SUBSET {"cert", "key"} /\ files \in SUBSET {"pub", "cert", "priv"}
      /\ respCh \in {<<>>, <<"ok">>, <<"error">>}
  BY DEF ClientTypeOK, ChannelsTyped
<1>2. ASSUME UNCHANGED <<main, added, files>>, respCh' \in {<<>>, respCh}
      PROVE  DoneInOrder' /\ added \subseteq added'
  <2>1. <<>> # <<"ok">>
    OBVIOUS
  <2>2. respCh' = <<"ok">> => respCh = <<"ok">>
    BY <1>2, <2>1
  <2>3. QED
    BY <1>2, <2>2
<1>3. ASSUME UNCHANGED <<added, files, respCh>>,
             main' \notin {"addkey", "respond", "savepub", "savepriv", "stop", "exit 0"}
      PROVE  DoneInOrder' /\ added \subseteq added'
  BY <1>3
<1>4. ASSUME PasteRead \/ PasteStep \/ Tick \/ UNCHANGED vars
      PROVE  UNCHANGED <<main, added, files, respCh>>
  BY <1>4 DEF PasteRead, PasteStep, PasteWrite, PasteAssign, PasteCancel, Tick, vars,
              mainVars, chans
<1>5. ASSUME NEW b \in Requests,
             BrowserSends(b) \/ BrowserSendsNoToken(b) \/ HandlerStep(b)
      PROVE  UNCHANGED <<main, added, files>> /\ respCh' \in {<<>>, respCh}
  BY <1>5 DEF BrowserSends, BrowserSendsNoToken, HandlerStep, HandlerPutsToken,
              HandlerGetsResponse, HandlerWrites, mainVars
<1>6. ASSUME \/ SelectHTTP \/ SelectDone \/ Decode \/ SendNeedsReason \/ SendOk \/ SendFails
             \/ Prompt \/ Dial \/ ComputeLifetime
      PROVE  /\ UNCHANGED <<added, files, respCh>>
             /\ main' \notin {"addkey", "respond", "savepub", "savepriv", "stop", "exit 0"}
  BY <1>6 DEF SelectHTTP, SelectDone, Decode, SendNeedsReason, SendOk, SendFails, Prompt, Dial,
              ComputeLifetime, Goto, mainVars, chans
<1>7. ASSUME NEW k, NEW next, Add(k, next)
      PROVE  \/ main' = "fail" /\ added' = added
             \/ main' = next /\ added' = added \cup {k}
  BY <1>7 DEF Add, Goto
<1>8. CASE AddCert
  <2>1. files' = files /\ respCh' = respCh
    BY <1>8 DEF AddCert, chans
  <2>2. \/ main' = "fail" /\ added' = added
        \/ main' = "addkey" /\ added' = added \cup {"cert"}
    BY <1>7, <1>8 DEF AddCert
  <2>3. added = {"cert", "key"} => added' = added
    BY <2>2
  <2>4. QED
    BY <1>1, <2>1, <2>2, <2>3
<1>9. CASE AddKey
  <2>1. files' = files /\ respCh' = respCh /\ main = "addkey"
    BY <1>9 DEF AddKey, chans
  <2>2. \/ main' = "fail" /\ added' = added
        \/ main' = "respond" /\ added' = added \cup {"key"}
    BY <1>7, <1>9 DEF AddKey
  <2>3. "cert" \in added
    BY <2>1
  <2>4. main' = "respond" \/ added = {"cert", "key"} => added' = {"cert", "key"}
    BY <1>1, <2>2, <2>3
  <2>5. QED
    BY <1>1, <2>1, <2>2, <2>4
<1>10. CASE RespondOK
  BY <1>10 DEF RespondOK, Goto, mainVars
<1>11. CASE RespondError
  <2>1. respCh' = <<"ok">> => respCh = <<"ok">>
    BY <1>11 DEF RespondError, respond
  <2>2. QED
    BY <1>11, <2>1 DEF RespondError, Goto, mainVars
<1>12. CASE SavePublicFiles
  <2>1. /\ main = "savepub" /\ UNCHANGED <<added, respCh>>
        /\ \/ main' = "fatal"
           \/ main' = "savepriv" /\ (HasPrefix => {"pub", "cert"} \subseteq files')
    BY <1>12 DEF SavePublicFiles, AllSaved, Goto, chans
  <2>2. QED
    BY <2>1
<1>13. CASE SavePrivateFiles
  <2>1. /\ main = "savepriv" /\ UNCHANGED <<added, respCh>>
        /\ \/ main' = "fatal"
           \/ /\ main' = "stop"
              /\ files' = IF HasPrefix THEN files \cup {"priv"} ELSE files
    BY <1>13 DEF SavePrivateFiles, Goto, chans
  <2>2. QED
    BY <2>1
<1>14. CASE Stop
  BY <1>14 DEF Stop, Exit, Goto, mainVars
<1>15. CASE Fatal
  BY <1>15 DEF Fatal, Exit, Goto, mainVars
<1>16. QED
  BY <1>2, <1>3, <1>4, <1>5, <1>6, <1>8, <1>9, <1>10, <1>11, <1>12, <1>13, <1>14, <1>15
  DEF Next, MainStep


\* A page says "ok" only with what main put into the channel.
LEMMA SuccessStep ==
    ASSUME SuccessIsReal, DoneInOrder, [Next]_vars
    PROVE  SuccessIsReal'
<1>1. ClientTypeOK' /\ DoneInOrder' /\ added \subseteq added'
  BY TypeStep, DoneStep DEF SuccessIsReal
<1>2. /\ added' \in SUBSET {"cert", "key"} /\ files' \in SUBSET {"pub", "cert", "priv"}
  BY <1>1 DEF ClientTypeOK
<1>3. added = {"cert", "key"} => added' = {"cert", "key"}
  BY <1>1, <1>2
<1>4. ClientTypeOK /\ \A b \in Requests : br[b] \in {"has ok", "ok"} => added = {"cert", "key"}
  BY DEF SuccessIsReal
<1>5. /\ br \in [Requests -> {"unsent", "refused", "sending", "waiting", "has ok",
                              "has error", "ok", "error", "lost"}]
      /\ respCh \in {<<>>, <<"ok">>, <<"error">>}
  BY <1>4 DEF ClientTypeOK, ChannelsTyped
<1>6. ASSUME NEW b \in Requests, HandlerGetsResponse(b), NEW c \in Requests,
             br'[c] \in {"has ok", "ok"}
      PROVE  br[c] \in {"has ok", "ok"} \/ respCh = <<"ok">>
  <2>1. respCh # <<"ok">> => respCh = <<"error">>
    BY <1>5, <1>6 DEF HandlerGetsResponse
  <2>2. respCh = <<"error">> => Head(respCh) = "error"
    OBVIOUS
  <2>3. br' = [br EXCEPT ![b] = IF Head(respCh) = "ok" THEN "has ok" ELSE "has error"]
    BY <1>6 DEF HandlerGetsResponse, Set
  <2>4. QED
    BY <1>5, <1>6, <2>1, <2>2, <2>3
<1>7. ASSUME NEW b \in Requests, NEW c \in Requests, br'[c] \in {"has ok", "ok"},
             \/ BrowserSends(b) \/ BrowserSendsNoToken(b)
             \/ HandlerPutsToken(b) \/ HandlerWrites(b)
      PROVE  br[c] \in {"has ok", "ok"}
  BY <1>5, <1>7 DEF BrowserSends, BrowserSendsNoToken, HandlerPutsToken, HandlerWrites, Set
<1>8. ASSUME NEW c \in Requests, br'[c] \in {"has ok", "ok"}, Stop \/ Fatal
      PROVE  br[c] \in {"has ok", "ok"}
  BY <1>5, <1>8 DEF Stop, Fatal, Exit
<1>9. ASSUME \/ PasteRead \/ PasteStep \/ Tick \/ UNCHANGED vars
             \/ SelectHTTP \/ SelectDone \/ Decode \/ SendNeedsReason \/ SendOk \/ SendFails
             \/ Prompt \/ Dial \/ ComputeLifetime
      PROVE  br' = br
  BY <1>9 DEF PasteRead, PasteStep, PasteWrite, PasteAssign, PasteCancel, Tick, vars, SelectHTTP,
              SelectDone, Decode, SendNeedsReason, SendOk, SendFails, Prompt, Dial,
              ComputeLifetime, chans
<1>10. ASSUME \/ AddCert \/ AddKey \/ RespondOK \/ RespondError \/ SavePublicFiles
              \/ SavePrivateFiles
       PROVE  br' = br
  BY <1>10 DEF AddCert, AddKey, RespondOK, RespondError, SavePublicFiles, SavePrivateFiles, chans
<1>11. ASSUME NEW c \in Requests, br'[c] \in {"has ok", "ok"}
       PROVE  br[c] \in {"has ok", "ok"} \/ respCh = <<"ok">>
  BY <1>6, <1>7, <1>8, <1>9, <1>10, <1>11 DEF Next, MainStep, HandlerStep
<1>12. respCh = <<"ok">> => added = {"cert", "key"}
  BY DEF DoneInOrder
<1>13. main' = "exit 0" => /\ added' = {"cert", "key"}
                           /\ HasPrefix => files' = {"pub", "cert", "priv"}
  BY <1>1, <1>2 DEF DoneInOrder
<1>14. QED
  BY <1>1, <1>3, <1>4, <1>11, <1>12, <1>13 DEF SuccessIsReal

\* The response is put into an empty channel, and there is no second one.
LEMMA RoomStep ==
    ASSUME RespondsOnce, [Next]_vars
    PROVE  RespondsOnce'
<1> DEFINE After == {"savepub", "savepriv", "stop", "fatal", "exit 0", "exit 1"}
<1>1. ASSUME respCh' = respCh, main' \in After \/ main \notin After PROVE RespondsOnce'
  BY <1>1 DEF RespondsOnce
<1>2. ASSUME main' \in After PROVE RespondsOnce'
  BY <1>2 DEF RespondsOnce
<1>3. ASSUME NEW b, HandlerGetsResponse(b) PROVE RespondsOnce'
  BY <1>3 DEF HandlerGetsResponse, RespondsOnce
<1>4. ASSUME UNCHANGED <<main, respCh>> PROVE RespondsOnce'
  BY <1>4 DEF RespondsOnce
<1>5. ASSUME \/ PasteRead \/ PasteStep \/ Tick \/ UNCHANGED vars
             \/ \E b \in Requests : \/ BrowserSends(b) \/ BrowserSendsNoToken(b)
                                    \/ HandlerPutsToken(b) \/ HandlerWrites(b)
      PROVE  UNCHANGED <<main, respCh>>
  BY <1>5 DEF PasteRead, PasteStep, PasteWrite, PasteAssign, PasteCancel, Tick, vars, chans,
              BrowserSends, BrowserSendsNoToken, HandlerPutsToken, HandlerWrites
<1>6. ASSUME \/ SelectHTTP \/ SelectDone \/ Decode \/ SendNeedsReason \/ SendOk \/ SendFails
             \/ Prompt \/ Dial \/ ComputeLifetime \/ AddCert \/ AddKey
      PROVE  respCh' = respCh /\ main \notin After
  BY <1>6 DEF SelectHTTP, SelectDone, Decode, SendNeedsReason, SendOk, SendFails, Prompt, Dial,
              ComputeLifetime, AddCert, AddKey, chans
<1>7. ASSUME RespondOK \/ RespondError \/ SavePublicFiles \/ SavePrivateFiles \/ Stop \/ Fatal
      PROVE  main' \in After
  BY <1>7
  DEF RespondOK, RespondError, SavePublicFiles, SavePrivateFiles, Stop, Fatal, Exit, Goto
<1> HIDE DEF After
<1>8. QED
  BY <1>1, <1>2, <1>3, <1>4, <1>5, <1>6, <1>7 DEF Next, MainStep, HandlerStep

\* main reads encodedToken after the goroutine has written it, or after it has
\* written it itself.
LEMMA WrittenStep ==
    ASSUME ClientTypeOK, WrittenInOrder, TokenUsed, [Next]_vars
    PROVE  WrittenInOrder' /\ TokenUsed'
<1> USE DEF WrittenInOrder, TokenUsed
<1>1. /\ branch \in {"none", "http", "paste"}
      /\ paste \in {"read", "write", "assign", "cancel", "done"}
      /\ ChannelsTyped
  BY DEF ClientTypeOK
<1>2. ASSUME UNCHANGED <<branch, encoded, token, paste, ctxDone>>,
             main' = main \/ (main \notin {"select", "decode"} /\ main' \notin {"select", "decode"})
      PROVE  WrittenInOrder' /\ TokenUsed'
  BY <1>1, <1>2
<1>3. CASE PasteRead
  BY <1>1, <1>3 DEF PasteRead, mainVars
<1>4. CASE PasteWrite
  BY <1>1, <1>4 DEF PasteWrite
<1>5. CASE PasteAssign
  BY <1>1, <1>5 DEF PasteAssign
<1>6. CASE PasteCancel
  BY <1>1, <1>6 DEF PasteCancel, mainVars
<1>7. CASE SelectHTTP
  <2>1. tokenCh = <<"http">> /\ encoded' = Head(tokenCh)
    BY <1>1, <1>7 DEF SelectHTTP, ChannelsTyped
  <2>2. encoded' = "http"
    BY <2>1
  <2>3. QED
    BY <1>1, <1>7, <2>2 DEF SelectHTTP, Goto
<1>8. CASE SelectDone
  BY <1>1, <1>8 DEF SelectDone, Goto
<1>9. CASE Decode
  BY <1>1, <1>9 DEF Decode, Goto
<1>10. ASSUME Tick \/ UNCHANGED vars
       PROVE  UNCHANGED <<branch, encoded, token, paste, ctxDone, main>>
  BY <1>10 DEF Tick, vars
<1>11. ASSUME NEW b \in Requests,
              BrowserSends(b) \/ BrowserSendsNoToken(b) \/ HandlerStep(b)
       PROVE  UNCHANGED <<branch, encoded, token, paste, ctxDone, main>>
  BY <1>11 DEF BrowserSends, BrowserSendsNoToken, HandlerStep, HandlerPutsToken,
               HandlerGetsResponse, HandlerWrites, mainVars
<1>12. ASSUME \/ SendNeedsReason \/ SendOk \/ SendFails \/ Prompt \/ Dial \/ ComputeLifetime
              \/ AddCert \/ AddKey
       PROVE  /\ UNCHANGED <<branch, encoded, token, paste, ctxDone>>
              /\ main \notin {"select", "decode"} /\ main' \notin {"select", "decode"}
  BY <1>12 DEF SendNeedsReason, SendOk, SendFails, Prompt, Dial, ComputeLifetime, AddCert, AddKey,
               Add, Goto, mainVars
<1>13. ASSUME RespondOK \/ RespondError \/ SavePublicFiles \/ SavePrivateFiles \/ Stop \/ Fatal
       PROVE  /\ UNCHANGED <<branch, encoded, token, paste, ctxDone>>
              /\ main \notin {"select", "decode"} /\ main' \notin {"select", "decode"}
  BY <1>13 DEF RespondOK, RespondError, SavePublicFiles, SavePrivateFiles, Stop, Fatal, Exit,
               Goto, mainVars
<1>14. QED
  BY <1>2, <1>3, <1>4, <1>5, <1>6, <1>7, <1>8, <1>9, <1>10, <1>11, <1>12, <1>13
  DEF Next, MainStep, PasteStep

LEMMA InitInv == Init => ClientInv
<1> SUFFICES ASSUME Init PROVE ClientInv
  OBVIOUS
<1>1. ChannelsTyped /\ main \in Places
  BY DEF Init, ChannelsTyped, Places
<1>2. left \in Int /\ ttl \in [{"cert", "key"} -> Int]
  BY ClientAssumption DEF Init, Gone
<1>3. br \in [Requests -> {"unsent", "refused", "sending", "waiting", "has ok",
                           "has error", "ok", "error", "lost"}]
  BY DEF Init
<1>4. listening \in BOOLEAN /\ ctxDone \in BOOLEAN /\ message \in BOOLEAN
  BY DEF Init
<1>5. /\ added \in SUBSET {"cert", "key"} /\ files \in SUBSET {"pub", "cert", "priv"}
      /\ lifetime \in Int
  BY DEF Init
<1>6. /\ branch \in {"none", "http", "paste"}
      /\ encoded \in {"empty", "http", "pasted", "torn"}
      /\ token \in {"empty", "http", "pasted", "torn"}
      /\ paste \in {"read", "write", "assign", "cancel", "done"}
  BY DEF Init
<1>7. ClientTypeOK
  BY <1>1, <1>2, <1>3, <1>4, <1>5, <1>6 DEF ClientTypeOK
<1>8. SuccessIsReal
  BY <1>7 DEF Init, SuccessIsReal
<1>9. RespondHasRoom /\ RespondsOnce
  BY DEF Init, RespondHasRoom, RespondsOnce
<1>10. TokenUsed /\ WrittenInOrder
  BY DEF Init, TokenUsed, WrittenInOrder
<1>11. <<>> # <<"ok">>
  OBVIOUS
<1>12. DoneInOrder
  BY <1>11 DEF Init, DoneInOrder
<1>13. QED
  BY <1>8, <1>9, <1>10, <1>12 DEF ClientInv

\* The inductive invariant holds, whatever the browsers, the CA, the agent and
\* the user do.
LEMMA ClientInvariance == Spec => []ClientInv
<1>1. Init => ClientInv
  BY InitInv
<1>2. ClientInv /\ [Next]_vars => ClientInv'
  <2> SUFFICES ASSUME ClientInv, [Next]_vars PROVE ClientInv'
    OBVIOUS
  <2>1. SuccessIsReal' /\ DoneInOrder'
    BY SuccessStep, DoneStep DEF ClientInv, SuccessIsReal
  <2>2. RespondsOnce'
    BY RoomStep DEF ClientInv
  <2>3. RespondHasRoom'
    BY <2>2 DEF RespondsOnce, RespondHasRoom
  <2>4. WrittenInOrder' /\ TokenUsed'
    BY WrittenStep DEF ClientInv, SuccessIsReal
  <2>5. QED
    BY <2>1, <2>2, <2>3, <2>4 DEF ClientInv
<1>3. QED
  BY <1>1, <1>2, PTL DEF Spec

-----------------------------------------------------------------------------
\* "Authentication complete" and exit status 0 are said of nothing that failed.
THEOREM RealSuccess == Spec => []SuccessIsReal
<1>1. ClientInv => SuccessIsReal
  BY DEF ClientInv
<1>2. QED
  BY <1>1, ClientInvariance, PTL

\* main never waits in srv.respond, however many requests came.
THEOREM RoomToRespond == Spec => []RespondHasRoom
<1>1. ClientInv => RespondHasRoom
  BY DEF ClientInv
<1>2. QED
  BY <1>1, ClientInvariance, PTL

\* A pasted token reaches the CA whole; so does the browser's, unless the user
\* pastes at the same time.
THEOREM WholeToken == Spec => []TokenUsed
<1>1. ClientInv => TokenUsed
  BY DEF ClientInv
<1>2. QED
  BY <1>1, ClientInvariance, PTL
=============================================================================
