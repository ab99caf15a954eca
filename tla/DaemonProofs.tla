---------------------------- MODULE DaemonProofs ----------------------------
(***************************************************************************)
(* cashierd serves only as configured, keeps the grace period and notes    *)
(* its errors: for any number of requests, any settings and any signals.   *)
(***************************************************************************)
EXTENDS Daemon, TLAPS

-----------------------------------------------------------------------------
(***************************************************************************)
(* The inductive invariant.                                                *)
(***************************************************************************)
\* How much of the configuration is settled, and of what it asks for set up, at
\* each step of main.
SetUpInOrder ==
    /\ main \in {"environment", "verify", "run", "wait"} \cup Starting \cup Stopping =>
          (conf.vault = "set" => conf.refs = {})
    /\ main \in {"run", "wait"} \cup Starting \cup Stopping => Required \subseteq conf.sections
    /\ main \in {"config", "vault", "environment", "verify", "run", "listen", "tls"} =>
          have = {} /\ waited = 0
    /\ main = "drop" => have = asked \cap {"tls"}
    /\ main \in {"provider", "signer", "store", "log", "serve", "wait"} \cup Stopping =>
          have = asked

\* Requests come once Run is through, and none is in progress in a process that
\* is gone.
RequestsInTime ==
    /\ serving => main \in {"wait", "close", "shutdown"}
    /\ \A r \in Requests :
          /\ h[r] # "none" => main \in {"wait"} \cup Stopping \cup Ended
          /\ h[r] = "open" => main \notin Ended
    /\ \A r \in unrecorded : h[r] # "none"

\* The log is closed, and requests are waited for, only once a signal has come.
ClosedOnSignal == closed \/ main \in Stopping => signalled

\* The inductive invariant: the four properties above with what they rest on.
DaemonInv ==
    /\ ServesAsConfigured
    /\ CompleteConfigRead
    /\ GraceKept
    /\ LogsKept
    /\ ClosedOnSignal
    /\ SetUpInOrder
    /\ RequestsInTime

-----------------------------------------------------------------------------
\* What settling does to a configuration: references go,
LEMMA FewerReferences ==
    ASSUME NEW f \in Files, NEW g, NEW s, s \subseteq f.refs, g = [f EXCEPT !.refs = s]
    PROVE  g \in Files /\ g.sections = f.sections /\ g.vault = f.vault /\ g.refs = s
  BY DEF Files

\* and the aws section comes into being.
LEMMA MoreSections ==
    ASSUME NEW f \in Files, NEW g, g = [f EXCEPT !.sections = @ \cup {"aws"}]
    PROVE  /\ g \in Files /\ g.vault = f.vault /\ g.refs = f.refs
           /\ g.sections = f.sections \cup {"aws"}
  BY DEF Files

\* The environment only gives settings of required sections.
LEMMA EnvironmentSections ==
    ASSUME NEW n \in EnvNames
    PROVE  SectionOf(n) \in Required
  BY DaemonAssumption DEF SectionOf, Required

\* A process that ends serves nothing, and cuts off requests only when their
\* time is up or a second signal came.
LEMMA EndKeeps ==
    ASSUME DaemonInv, NEW how \in Ended, End(how), main \notin Ended,
           \/ \A r \in Requests : h[r] # "open"
           \/ how = "exit 1" /\ waited = grace
           \/ how = "killed",
           how \in Panics =>
              \/ how = "panic: section" /\ ~(Required \subseteq conf.sections)
              \/ how = "panic: secret" /\ conf.vault # "absent"
              \/ how = "panic: no client" /\ conf.vault # "set"
    PROVE  DaemonInv'
<1>1. /\ DaemonTypeOK /\ GraceKept /\ LogsKept /\ ClosedOnSignal /\ RequestsInTime
  BY DEF DaemonInv, ServesAsConfigured
<1>2. /\ h \in [Requests -> {"none", "open", "answered", "cut"}]
      /\ unrecorded \subseteq Requests
  BY <1>1 DEF DaemonTypeOK
<1>3. \A r \in Requests : h[r] # "cut"
  BY <1>1 DEF GraceKept, Ended
<1>4. /\ main' = how /\ ~serving'
      /\ UNCHANGED <<conf, env, asked, have, grace, waited, logfile, closed, signalled,
                     unrecorded, noted, requestlog>>
  BY DEF End, confVars
<1>5. /\ h' \in [Requests -> {"none", "open", "answered", "cut"}]
      /\ \A r \in Requests : /\ h'[r] = IF h[r] = "open" THEN "cut" ELSE h[r]
                             /\ h'[r] # "open"
  BY <1>2 DEF End
<1>6. how \notin {"config", "vault", "environment", "verify", "run", "wait"}
                   \cup Starting \cup Stopping
  BY DEF Ended, Panics, Starting, Stopping
<1>7. DaemonTypeOK'
  <2>1. serving' \in BOOLEAN
    BY DEF End
  <2>2. QED
    BY <1>1, <1>4, <1>5, <2>1 DEF DaemonTypeOK
<1>8. ServesAsConfigured'
  BY <1>4, <1>7 DEF ServesAsConfigured
<1>9. CompleteConfigRead'
  BY <1>4 DEF CompleteConfigRead
<1>10. GraceKept'
  BY <1>3, <1>4, <1>5 DEF GraceKept
<1>11. LogsKept' /\ ClosedOnSignal'
  <2>1. \A r \in Requests : h'[r] = "answered" => h[r] = "answered"
    BY <1>5
  <2>2. LogsKept'
    BY <1>1, <1>4, <2>1 DEF LogsKept
  <2>3. ClosedOnSignal'
    BY <1>1, <1>4, <1>6 DEF ClosedOnSignal
  <2>4. QED
    BY <2>2, <2>3
<1>12. SetUpInOrder'
  BY <1>4, <1>6 DEF SetUpInOrder, Starting, Stopping
<1>13. RequestsInTime'
  BY <1>1, <1>2, <1>4, <1>5 DEF RequestsInTime
<1>14. QED
  BY <1>8, <1>9, <1>10, <1>11, <1>12, <1>13 DEF DaemonInv


\* Reading the configuration.
LEMMA ConfigStep ==
    ASSUME DaemonInv, Parse \/ setFromVault \/ setFromEnvironment \/ verifyConfig
    PROVE  DaemonInv'
<1>1. /\ DaemonTypeOK /\ ServesAsConfigured /\ CompleteConfigRead /\ GraceKept
      /\ LogsKept /\ ClosedOnSignal /\ SetUpInOrder /\ RequestsInTime
  BY DEF DaemonInv, ServesAsConfigured
<1>2. conf \in Files /\ env \subseteq EnvNames
  BY <1>1 DEF DaemonTypeOK
<1>3. ASSUME main \in {"config", "vault", "environment", "verify"}
      PROVE  /\ main \notin Ended /\ ~serving
             /\ \A r \in Requests : h[r] = "none"
  BY <1>1, <1>3 DEF DaemonTypeOK, RequestsInTime, Ended, Panics, Stopping
<1>4. ASSUME main \in {"config", "vault", "environment", "verify"},
             main' \in {"vault", "environment", "verify", "run"},
             UNCHANGED <<asked, have, grace, waited, logfile, closed, signalled, serving,
                         h, unrecorded, noted, requestlog>>,
             conf' \in Files, env' \subseteq EnvNames,
             main' # "vault" => (conf'.vault = "set" => conf'.refs = {}),
             main' = "run" => Required \subseteq conf'.sections
      PROVE  DaemonInv'
  <2>1. DaemonTypeOK'
    BY <1>1, <1>4 DEF DaemonTypeOK
  <2>2. ServesAsConfigured'
    BY <1>3, <1>4, <2>1 DEF ServesAsConfigured
  <2>3. CompleteConfigRead'
    BY <1>4 DEF CompleteConfigRead, Panics
  <2>4. GraceKept'
    BY <1>3, <1>4 DEF GraceKept
  <2>5. LogsKept' /\ ClosedOnSignal'
    BY <1>1, <1>4 DEF LogsKept, ClosedOnSignal, Stopping
  <2>6. SetUpInOrder'
    BY <1>1, <1>4 DEF SetUpInOrder, Starting, Stopping
  <2>7. RequestsInTime'
    BY <1>1, <1>3, <1>4 DEF RequestsInTime, DaemonTypeOK
  <2>8. QED
    BY <2>2, <2>3, <2>4, <2>5, <2>6, <2>7 DEF DaemonInv
<1>5. ASSUME main \in {"config", "vault", "environment", "verify"}, NEW how,
             End(how),
             \/ how = "exit 1"
             \/ how = "panic: section" /\ ~(Required \subseteq conf.sections)
             \/ how = "panic: secret" /\ conf.vault # "absent"
      PROVE  DaemonInv'
  BY <1>3, <1>5, EndKeeps DEF Ended, Panics
<1>6. CASE Parse
  <2>1. CASE End("exit 1")
    BY <1>5, <1>6, <2>1 DEF Parse, Goto
  <2>2. CASE ~End("exit 1")
    BY <1>2, <1>4, <1>6, <2>2 DEF Parse, Goto, confVars, reqVars
  <2>3. QED
    BY <2>1, <2>2
<1>7. CASE setFromVault
  <2>1. CASE main' = "environment"
    <3>1. PICK left \in IF conf.vault = "set" THEN Reads(conf.refs) ELSE {conf.refs} :
             conf' = [conf EXCEPT !.refs = left]
      BY <1>7, <2>1 DEF setFromVault, End
    <3>2. left \subseteq conf.refs /\ (conf.vault = "set" => left = {})
      BY <3>1 DEF Reads
    <3>3. conf' \in Files /\ conf'.vault = conf.vault /\ conf'.refs = left
      BY <1>2, <3>1, <3>2, FewerReferences
    <3>4. UNCHANGED <<env, asked, have, grace, waited, logfile, closed, signalled, serving,
                      h, unrecorded, noted, requestlog>>
      BY <1>7, <2>1 DEF setFromVault, End, reqVars
    <3>5. main = "vault"
      BY <1>7 DEF setFromVault
    <3>6. QED
      BY <1>2, <1>4, <2>1, <3>2, <3>3, <3>4, <3>5
  <2>2. CASE main' # "environment"
    <3>1. /\ main = "vault" /\ conf.vault = "set"
          /\ \/ End("exit 1") \/ End("panic: secret")
             \/ End("panic: section") /\ ~(Dereferenced \subseteq conf.sections)
      BY <1>7, <2>2 DEF setFromVault
    <3>2. Dereferenced \subseteq Required
      BY DEF Dereferenced, Required
    <3>3. QED
      BY <1>5, <3>1, <3>2
  <2>3. QED
    BY <2>1, <2>2
<1>8. CASE setFromEnvironment
  <2>1. CASE \A n \in env : SectionOf(n) \in conf.sections
    <3>1. /\ conf' = [conf EXCEPT !.refs = @ \ env] /\ env' = {} /\ main' = "verify"
          /\ main = "environment"
          /\ UNCHANGED <<asked, have, grace, waited, logfile, closed, signalled, serving,
                         h, unrecorded, noted, requestlog>>
      BY <1>8, <2>1 DEF setFromEnvironment, reqVars
    <3>2. conf' = [conf EXCEPT !.refs = conf.refs \ env]
      BY <1>2, <3>1
    <3>3. conf' \in Files /\ conf'.vault = conf.vault /\ conf'.refs = conf.refs \ env
      BY <1>2, <3>2, FewerReferences
    <3>4. QED
      BY <1>1, <1>4, <3>1, <3>3 DEF SetUpInOrder
  <2>2. CASE ~ \A n \in env : SectionOf(n) \in conf.sections
    BY <1>2, <1>5, <1>8, <2>2, EnvironmentSections DEF setFromEnvironment
  <2>3. QED
    BY <2>1, <2>2
<1>9. CASE verifyConfig
  <2>1. CASE Required \subseteq conf.sections
    BY <1>1, <1>2, <1>4, <1>9, <2>1 DEF verifyConfig, SetUpInOrder, confVars, reqVars
  <2>2. CASE ~(Required \subseteq conf.sections)
    BY <1>5, <1>9, <2>2 DEF verifyConfig
  <2>3. QED
    BY <2>1, <2>2
<1>10. QED
  BY <1>6, <1>7, <1>8, <1>9


\* server.Run, from the registration of the file systems to Serve.
LEMMA RunStep ==
    ASSUME DaemonInv,
           \/ Register
           \/ Listen \/ SetupTLS \/ DropPrivileges \/ NewProvider \/ NewSigner \/ NewStore
           \/ StartFails \/ Open \/ OpenLog \/ Serve
    PROVE  DaemonInv'
<1>1. /\ DaemonTypeOK /\ ServesAsConfigured /\ CompleteConfigRead /\ GraceKept
      /\ LogsKept /\ ClosedOnSignal /\ SetUpInOrder /\ RequestsInTime
  BY DEF DaemonInv, ServesAsConfigured
<1>2. /\ conf \in Files /\ waited \in 0 .. grace /\ grace \in Nat
      /\ have \subseteq {"tls", "user"} /\ asked \subseteq {"tls", "user"}
  BY <1>1, DaemonAssumption DEF DaemonTypeOK
<1>3. ASSUME main \in {"run"} \cup Starting
      PROVE  /\ main \notin Ended /\ ~serving
             /\ \A r \in Requests : h[r] = "none"
             /\ unrecorded = {}
  BY <1>1, <1>3 DEF DaemonTypeOK, RequestsInTime, Starting, Ended, Panics, Stopping
<1>4. ASSUME main \in {"run"} \cup Starting, main' \in {"wait"} \cup Starting,
             UNCHANGED <<env, waited, closed, signalled, h, unrecorded, noted, requestlog>>,
             DaemonTypeOK', SetUpInOrder',
             serving' => main' = "wait"
      PROVE  DaemonInv'
  <2>1. ServesAsConfigured'
    BY <1>4 DEF ServesAsConfigured, SetUpInOrder
  <2>2. CompleteConfigRead'
    BY <1>4 DEF CompleteConfigRead, Panics, Starting
  <2>3. GraceKept'
    BY <1>3, <1>4 DEF GraceKept
  <2>4. LogsKept' /\ ClosedOnSignal'
    BY <1>1, <1>3, <1>4 DEF LogsKept, ClosedOnSignal, Starting, Stopping
  <2>5. RequestsInTime'
    BY <1>3, <1>4 DEF RequestsInTime
  <2>6. QED
    BY <1>4, <2>1, <2>2, <2>3, <2>4, <2>5 DEF DaemonInv
<1>5. ASSUME main \in Starting, NEW how, End(how),
             \/ how = "exit 1"
             \/ how = "panic: secret" /\ conf.vault # "absent"
             \/ how = "panic: no client" /\ conf.vault # "set"
      PROVE  DaemonInv'
  BY <1>3, <1>5, EndKeeps DEF Ended, Panics
<1>6. CASE Register
  <2>1. /\ conf' \in Files /\ conf'.vault = conf.vault /\ conf'.refs = conf.refs
        /\ conf'.sections = conf.sections \cup {"aws"}
    BY <1>2, <1>6, MoreSections DEF Register
  <2>2. /\ main = "run" /\ main' = "listen" /\ asked' \in SUBSET {"tls", "user"}
        /\ grace' \in Graces
        /\ UNCHANGED <<env, have, waited, logfile, closed, signalled, serving,
                       h, unrecorded, noted, requestlog>>
    BY <1>6 DEF Register, Goto, reqVars
  <2>3. waited' = 0 /\ have' = {}
    BY <1>1, <2>2 DEF SetUpInOrder
  <2>4. DaemonTypeOK'
    <3>1. waited' \in 0 .. grace'
      BY <2>2, <2>3, DaemonAssumption
    <3>2. main' \in Starting
      BY <2>2 DEF Starting
    <3>3. QED
      BY <1>1, <2>1, <2>2, <3>1, <3>2 DEF DaemonTypeOK
  <2>5. SetUpInOrder'
    BY <1>1, <2>1, <2>2, <2>3 DEF SetUpInOrder, Starting, Stopping
  <2>6. QED
    BY <1>3, <1>4, <2>2, <2>4, <2>5 DEF Starting
<1>7. ASSUME NEW from \in Starting, NEW to \in Starting, NEW what \in SUBSET {"tls", "user"},
             StartStep(from, to, what)
      PROVE  SetUpInOrder' => DaemonInv'
  <2>1. DaemonTypeOK'
    BY <1>1, <1>7 DEF DaemonTypeOK, StartStep, Goto, reqVars
  <2>2. QED
    BY <1>3, <1>4, <1>7, <2>1 DEF StartStep, Goto, reqVars
<1>8. ASSUME Listen \/ NewProvider \/ NewSigner \/ NewStore PROVE DaemonInv'
  <2>1. have' = have /\ UNCHANGED <<conf, asked, waited>>
    BY <1>8 DEF Listen, NewProvider, NewSigner, NewStore, StartStep
  <2>2. SetUpInOrder'
    BY <1>1, <1>8, <2>1
    DEF Listen, NewProvider, NewSigner, NewStore, StartStep, Goto, SetUpInOrder, Starting,
        Stopping
  <2>3. QED
    BY <1>7, <1>8, <2>2 DEF Listen, NewProvider, NewSigner, NewStore, Starting
<1>9. ASSUME SetupTLS PROVE DaemonInv'
  <2>1. SetUpInOrder'
    BY <1>1, <1>9 DEF SetupTLS, StartStep, Goto, SetUpInOrder, Starting, Stopping
  <2>2. QED
    BY <1>7, <1>9, <2>1 DEF SetupTLS, Starting
<1>10. ASSUME DropPrivileges PROVE DaemonInv'
  <2>1. have' = asked
    BY <1>1, <1>2, <1>10 DEF DropPrivileges, StartStep, Goto, SetUpInOrder
  <2>2. SetUpInOrder'
    BY <1>1, <1>10, <2>1 DEF DropPrivileges, StartStep, Goto, SetUpInOrder, Starting, Stopping
  <2>3. QED
    BY <1>7, <1>10, <2>2 DEF DropPrivileges, Starting
<1>11. ASSUME StartFails PROVE DaemonInv'
  BY <1>5, <1>11 DEF StartFails, Starting
<1>12. ASSUME Open PROVE DaemonInv'
  BY <1>5, <1>12 DEF Open, ReadsFile, NoClient, Starting
<1>13. ASSUME OpenLog PROVE DaemonInv'
  <2>1. DaemonTypeOK'
    BY <1>1, <1>13 DEF DaemonTypeOK, OpenLog, Goto, reqVars, Starting
  <2>2. SetUpInOrder'
    BY <1>1, <1>13 DEF OpenLog, Goto, SetUpInOrder, Starting, Stopping
  <2>3. QED
    BY <1>3, <1>4, <1>13, <2>1, <2>2 DEF OpenLog, Goto, reqVars, Starting
<1>14. ASSUME Serve PROVE DaemonInv'
  <2>1. DaemonTypeOK'
    BY <1>1, <1>14 DEF DaemonTypeOK, Serve, Goto, confVars, reqVars
  <2>2. SetUpInOrder'
    BY <1>1, <1>14 DEF Serve, Goto, confVars, SetUpInOrder, Starting, Stopping
  <2>3. QED
    BY <1>4, <1>14, <2>1, <2>2 DEF Serve, Goto, confVars, reqVars, Starting
<1>15. QED
  BY <1>6, <1>8, <1>9, <1>10, <1>11, <1>12, <1>13, <1>14


\* Signals, and the way from one to the end.
LEMMA StopStep ==
    ASSUME DaemonInv,
           \/ Stop \/ CloseLog \/ Shutdown \/ Poll \/ SelectTimer \/ SelectDeadline
           \/ Signal \/ Tick
    PROVE  DaemonInv'
<1>1. /\ DaemonTypeOK /\ ServesAsConfigured /\ CompleteConfigRead /\ GraceKept
      /\ LogsKept /\ ClosedOnSignal /\ SetUpInOrder /\ RequestsInTime
  BY DEF DaemonInv, ServesAsConfigured
<1>2. waited \in 0 .. grace /\ grace \in Nat
  BY <1>1, DaemonAssumption DEF DaemonTypeOK
<1>3. ASSUME main \in {"wait"} \cup Stopping, main' \in Stopping,
             main' \in {"poll", "select"} => ~serving',
             serving' \in BOOLEAN, serving' => serving,
             closed' \in BOOLEAN, signalled,
             waited' \in 0 .. grace',
             UNCHANGED <<confVars, signalled, reqVars>>
      PROVE  DaemonInv'
  <2> USE DEF confVars, reqVars
  <2>1. main \notin Ended /\ main' \notin Ended
    BY <1>3 DEF Ended, Panics, Stopping
  <2>2. DaemonTypeOK'
    BY <1>1, <1>3 DEF DaemonTypeOK
  <2>3. ServesAsConfigured'
    BY <1>1, <1>3, <2>2 DEF ServesAsConfigured
  <2>4. CompleteConfigRead'
    BY <2>1 DEF CompleteConfigRead, Ended
  <2>5. GraceKept'
    BY <1>1, <1>3, <2>1 DEF GraceKept, Ended
  <2>6. LogsKept' /\ ClosedOnSignal'
    BY <1>1, <1>3 DEF LogsKept, ClosedOnSignal
  <2>7. SetUpInOrder'
    BY <1>1, <1>3 DEF SetUpInOrder, Starting, Stopping
  <2>8. RequestsInTime'
    BY <1>1, <1>3, <2>1 DEF RequestsInTime, Stopping
  <2>9. QED
    BY <2>3, <2>4, <2>5, <2>6, <2>7, <2>8 DEF DaemonInv
<1>4. CASE Stop
  BY <1>1, <1>2, <1>3, <1>4 DEF Stop, Goto, confVars, DaemonTypeOK, Stopping
<1>5. CASE CloseLog
  BY <1>1, <1>2, <1>3, <1>5 DEF CloseLog, Goto, confVars, DaemonTypeOK, ClosedOnSignal, Stopping
<1>6. CASE Shutdown
  BY <1>1, <1>2, <1>3, <1>6 DEF Shutdown, Goto, confVars, DaemonTypeOK, ClosedOnSignal, Stopping
<1>7. ASSUME main \in {"poll", "select"}
      PROVE  ~serving /\ signalled /\ main \notin Ended
  BY <1>1, <1>7 DEF RequestsInTime, ClosedOnSignal, Stopping, Ended, Panics
<1>8. CASE Poll
  <2>1. CASE Idle /\ End("exit 0")
    BY <1>7, <1>8, <2>1, EndKeeps DEF Poll, Goto, Idle, Ended, Panics
  <2>2. CASE ~(Idle /\ End("exit 0"))
    BY <1>1, <1>2, <1>3, <1>7, <1>8, <2>2 DEF Poll, Goto, confVars, DaemonTypeOK, Stopping
  <2>3. QED
    BY <2>1, <2>2
<1>9. CASE SelectTimer
  BY <1>1, <1>2, <1>3, <1>7, <1>9 DEF SelectTimer, Goto, confVars, DaemonTypeOK, Stopping
<1>10. CASE SelectDeadline
  BY <1>7, <1>10, EndKeeps DEF SelectDeadline, Deadline, Ended, Panics
<1>11. CASE Tick
  <2>1. /\ main \in Stopping /\ main' = main /\ waited' \in 0 .. grace'
        /\ UNCHANGED <<confVars, closed, signalled, serving, reqVars>>
    BY <1>2, <1>11 DEF Tick, confVars
  <2>2. main \in {"poll", "select"} => ~serving
    BY <1>7
  <2>3. QED
    BY <1>1, <1>3, <2>1, <2>2 DEF DaemonTypeOK, ClosedOnSignal
<1>12. CASE Signal
  <2>1. CASE End("killed")
    <3>1. main \notin Ended
      BY <1>12 DEF Signal, Starting, Stopping, Ended, Panics
    <3>2. QED
      BY <2>1, <3>1, EndKeeps DEF Ended, Panics
  <2>2. CASE ~End("killed")
    <3>1. /\ signalled' = TRUE
          /\ UNCHANGED <<main, conf, env, asked, have, grace, logfile, waited, closed, serving,
                         h, unrecorded, noted, requestlog>>
      BY <1>12, <2>2 DEF Signal, confVars, reqVars
    <3>2. DaemonTypeOK'
      BY <1>1, <3>1 DEF DaemonTypeOK
    <3>3. /\ ServesAsConfigured' /\ CompleteConfigRead' /\ GraceKept' /\ LogsKept'
          /\ ClosedOnSignal'
      BY <1>1, <3>1, <3>2
      DEF ServesAsConfigured, CompleteConfigRead, GraceKept, LogsKept, ClosedOnSignal
    <3>4. SetUpInOrder' /\ RequestsInTime'
      BY <1>1, <3>1 DEF SetUpInOrder, RequestsInTime
    <3>5. QED
      BY <3>3, <3>4 DEF DaemonInv
  <2>3. QED
    BY <2>1, <2>2
<1>13. QED
  BY <1>4, <1>5, <1>6, <1>8, <1>9, <1>10, <1>11, <1>12

\* Requests come, fail to be recorded and are answered; Serve may give up.
LEMMA RequestStep ==
    ASSUME DaemonInv,
           ServeFails \/ \E r \in Requests : Accept(r) \/ Unrecorded(r) \/ Answer(r)
    PROVE  DaemonInv'
<1>1. /\ DaemonTypeOK /\ ServesAsConfigured /\ CompleteConfigRead /\ GraceKept
      /\ LogsKept /\ ClosedOnSignal /\ SetUpInOrder /\ RequestsInTime
  BY DEF DaemonInv, ServesAsConfigured
<1>2. h \in [Requests -> {"none", "open", "answered", "cut"}]
  BY <1>1 DEF DaemonTypeOK
<1>3. UNCHANGED <<main, conf, env, asked, have, grace, logfile, waited, closed, signalled>>
  BY DEF ServeFails, Accept, Unrecorded, Answer, confVars
<1>4. serving' \in BOOLEAN /\ (serving' => serving)
  <2>1. serving \in BOOLEAN
    BY <1>1 DEF DaemonTypeOK
  <2>2. CASE ServeFails
    BY <2>2 DEF ServeFails
  <2>3. CASE \E r \in Requests : Accept(r) \/ Unrecorded(r) \/ Answer(r)
    <3>1. serving' = serving
      BY <2>3 DEF Accept, Unrecorded, Answer
    <3>2. QED
      BY <2>1, <3>1
  <2>4. QED
    BY <2>2, <2>3
<1>5. /\ h' \in [Requests -> {"none", "open", "answered", "cut"}]
      /\ \A log \in {unrecorded', noted', requestlog'} : log \in SUBSET Requests
  BY <1>1 DEF ServeFails, Accept, Unrecorded, Answer, DaemonTypeOK, reqVars
<1>6. \A r \in Requests : h'[r] = h[r] \/ (h'[r] \in {"open", "answered"} /\ main \notin Ended
                                          /\ main \in {"wait"} \cup Stopping)
  BY <1>1, <1>2
  DEF ServeFails, Accept, Unrecorded, Answer, RequestsInTime, Ended, Panics, Stopping, reqVars
<1>7. \A r \in unrecorded' : h'[r] # "none"
  BY <1>1, <1>2 DEF ServeFails, Accept, Unrecorded, Answer, RequestsInTime, DaemonTypeOK, reqVars
<1>8. DaemonTypeOK'
  BY <1>1, <1>3, <1>4, <1>5 DEF DaemonTypeOK
<1>9. ServesAsConfigured' /\ CompleteConfigRead' /\ SetUpInOrder'
  BY <1>1, <1>3, <1>4, <1>8 DEF ServesAsConfigured, CompleteConfigRead, SetUpInOrder
<1>10. GraceKept'
  BY <1>1, <1>3, <1>6 DEF GraceKept
<1>11. LogsKept' /\ ClosedOnSignal'
  <2>1. ClosedOnSignal'
    BY <1>1, <1>3 DEF ClosedOnSignal
  <2>2. ASSUME NEW r \in Requests, Unrecorded(r) PROVE LogsKept'
    \* A report is lost only to a closed standard error, and that takes a signal.
    BY <1>1, <1>3, <2>2 DEF Unrecorded, Logs, LogsKept, ClosedOnSignal
  <2>3. ASSUME NEW r \in Requests, Answer(r) PROVE LogsKept'
    \* So is the line of a request to a closed HTTP log.
    <3>1. \A q \in Requests : h'[q] = "answered" => q = r \/ h[q] = "answered"
      BY <1>2, <2>3 DEF Answer
    <3>2. UNCHANGED <<unrecorded, noted>> /\ requestlog \subseteq requestlog'
      BY <2>3 DEF Answer
    <3>3. r \in requestlog' \/ signalled \/ logfile = "nil"
      BY <1>1, <2>3 DEF Answer, Writes, ClosedOnSignal
    <3>4. QED
      BY <1>1, <1>3, <3>1, <3>2, <3>3 DEF LogsKept
  <2>4. ASSUME NEW r \in Requests, Accept(r) PROVE LogsKept'
    <3>1. \A q \in Requests : h'[q] = "answered" => h[q] = "answered"
      BY <1>2, <2>4 DEF Accept
    <3>2. QED
      BY <1>1, <1>3, <2>4, <3>1 DEF LogsKept, Accept
  <2>5. ASSUME ServeFails PROVE LogsKept'
    BY <1>1, <1>3, <2>5 DEF LogsKept, ServeFails, reqVars
  <2>6. QED
    BY <2>1, <2>2, <2>3, <2>4, <2>5
<1>12. RequestsInTime'
  BY <1>1, <1>3, <1>4, <1>6, <1>7 DEF RequestsInTime
<1>13. QED
  BY <1>9, <1>10, <1>11, <1>12 DEF DaemonInv

LEMMA InitInv == Init => DaemonInv
<1> SUFFICES ASSUME Init PROVE DaemonInv
  OBVIOUS
<1>1. DaemonTypeOK
  <2>1. closed \in BOOLEAN /\ signalled \in BOOLEAN /\ serving \in BOOLEAN
    BY DEF Init
  <2>2. grace = 0 /\ waited \in 0 .. grace
    BY DEF Init
  <2>3. QED
    BY <2>1, <2>2 DEF Init, DaemonTypeOK
<1>2. /\ ServesAsConfigured /\ CompleteConfigRead /\ GraceKept /\ LogsKept
      /\ ClosedOnSignal
  BY <1>1
  DEF Init, ServesAsConfigured, CompleteConfigRead, GraceKept, LogsKept, ClosedOnSignal,
      Panics, Stopping
<1>3. SetUpInOrder /\ RequestsInTime
  BY DEF Init, SetUpInOrder, RequestsInTime, Starting, Stopping
<1>4. QED
  BY <1>2, <1>3 DEF DaemonInv

\* The inductive invariant holds, whatever fails on the way.
LEMMA DaemonInvariance == Spec => []DaemonInv
<1>1. Init => DaemonInv
  BY InitInv
<1>2. DaemonInv /\ [Next]_vars => DaemonInv'
  <2> SUFFICES ASSUME DaemonInv, [Next]_vars PROVE DaemonInv'
    OBVIOUS
  <2>1. CASE UNCHANGED vars
    <3>1. /\ UNCHANGED <<main, conf, env, asked, have, grace, logfile, waited, closed>>
          /\ UNCHANGED <<signalled, serving, h, unrecorded, noted, requestlog>>
      BY <2>1 DEF vars, confVars, reqVars
    <3>2. DaemonTypeOK'
      BY <3>1 DEF DaemonInv, ServesAsConfigured, DaemonTypeOK
    <3>3. /\ ServesAsConfigured' /\ CompleteConfigRead' /\ GraceKept' /\ LogsKept'
          /\ ClosedOnSignal'
      BY <3>1, <3>2
      DEF DaemonInv, ServesAsConfigured, CompleteConfigRead, GraceKept, LogsKept,
          ClosedOnSignal
    <3>4. SetUpInOrder' /\ RequestsInTime'
      BY <3>1 DEF DaemonInv, SetUpInOrder, RequestsInTime
    <3>5. QED
      BY <3>3, <3>4 DEF DaemonInv
  <2>2. CASE Next
    BY <2>1, <2>2, ConfigStep, RunStep, StopStep, RequestStep DEF Next, MainStep, Over
  <2>3. QED
    BY <2>1, <2>2
<1>3. QED
  BY <1>1, <1>2, PTL DEF Spec

-----------------------------------------------------------------------------
\* No request is accepted before the configuration is complete, its secrets
\* are read, TLS is set up and privileges are dropped as asked.
THEOREM ServedAsConfigured == Spec => []ServesAsConfigured
<1>1. DaemonInv => ServesAsConfigured
  BY DEF DaemonInv
<1>2. QED
  BY <1>1, DaemonInvariance, PTL

\* Reading a file with the required sections never meets a nil section.
THEOREM ConfigRead == Spec => []CompleteConfigRead
<1>1. DaemonInv => CompleteConfigRead
  BY DEF DaemonInv
<1>2. QED
  BY <1>1, DaemonInvariance, PTL

\* No request is cut off before the whole grace period, but for a second
\* signal.
THEOREM RequestsGraced == Spec => []GraceKept
<1>1. DaemonInv => GraceKept
  BY DEF DaemonInv
<1>2. QED
  BY <1>1, DaemonInvariance, PTL

\* Until a signal comes no line is lost, of the server's log or of the HTTP log if
\* it could be opened; after it no report of a certificate without a record is,
\* unless the HTTP log is the standard error.
THEOREM KeptLogs == Spec => []LogsKept
<1>1. DaemonInv => LogsKept
  BY DEF DaemonInv
<1>2. QED
  BY <1>1, DaemonInvariance, PTL
=============================================================================
