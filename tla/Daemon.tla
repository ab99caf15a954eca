------------------------------- MODULE Daemon -------------------------------
(***************************************************************************)
(* One run of cashierd (cmd/cashierd/main.go): config.ReadConfig, then     *)
(* server.Run, then the wait for a signal and Server.Shutdown, while the   *)
(* goroutines of net/http serve requests.  What a request does to the      *)
(* store and its clients is CA; here it is a handler in progress that      *)
(* writes to the logs.                                                     *)
(***************************************************************************)
EXTENDS Naturals

CONSTANTS
    Requests,   \* the requests that may come
    Names,      \* the settings that may be secrets in Vault (see SectionOf)
    EnvNames,   \* the settings that the environment may give
    Graces      \* what shutdown_timeout may be: 0 also if unset or unparsable

\* The section of the file a setting belongs to.
SectionOf(n) ==
    CASE n \in {"oauth_client_id", "oauth_client_secret"} -> "auth"
      [] n \in {"port", "csrf_secret", "cookie_secret", "password"} -> "server"
      [] n \in {"access_key", "secret_key"} -> "aws"

ASSUME DaemonAssumption ==
    /\ Graces \subseteq Nat
    /\ EnvNames \subseteq {"oauth_client_id", "oauth_client_secret", "port",
                           "csrf_secret", "cookie_secret"}
    /\ Names \subseteq {"oauth_client_id", "oauth_client_secret", "csrf_secret",
                        "cookie_secret", "password", "access_key", "secret_key"}

Required == {"ssh", "auth", "server"}

\* The configuration: its sections, whether the vault section is usable, and
\* the settings whose value in the file is a reference to Vault ("/vault/...").
Files ==
    {f \in [sections : SUBSET (Required \cup {"aws"}),
            vault : {"absent", "incomplete", "set"},
            refs : SUBSET Names] :
        \A n \in f.refs : SectionOf(n) \in f.sections}

Starting == {"listen", "tls", "drop", "provider", "signer", "store", "log", "serve"}
Stopping == {"close", "shutdown", "poll", "select"}
Panics   == {"panic: section", "panic: no client", "panic: secret"}
Ended    == Panics \cup {"exit 0", "exit 1", "killed"}

VARIABLES
    main,       \* the step main takes next, or how the process ended
    conf,       \* the configuration as far as it is settled
    env,        \* the variables that are set and not applied yet
    asked,      \* what the server section asks for: "tls", "user"
    have,       \* what of it Run has set up
    grace,      \* gracePeriod
    waited,     \* the time since the deadline of Shutdown was set
    logfile,    \* where the HTTP log goes: "stderr", "file" or "nil"
    closed,     \* logfile.Close was called
    signalled,  \* ctx of NotifyContext is done
    serving,    \* Serve accepts connections
    h,          \* h[r]: the request r
    unrecorded, \* history: requests whose certificate SetRecord refused
    noted,      \* history: those of them with a line in the server's log
    requestlog  \* history: requests with a line in the HTTP log

confVars == <<conf, env, asked, have, grace, logfile>>
reqVars == <<h, unrecorded, noted, requestlog>>
vars == <<main, confVars, waited, closed, signalled, serving, reqVars>>

DaemonTypeOK ==
    /\ main \in {"config", "vault", "environment", "verify", "run", "wait"}
                \cup Starting \cup Stopping \cup Ended
    /\ conf \in Files
    /\ env \subseteq EnvNames
    /\ asked \in SUBSET {"tls", "user"} /\ have \in SUBSET {"tls", "user"}
    /\ grace \in Graces \cup {0} /\ waited \in 0 .. grace
    /\ logfile \in {"stderr", "file", "nil"}
    /\ closed \in BOOLEAN /\ signalled \in BOOLEAN /\ serving \in BOOLEAN
    /\ h \in [Requests -> {"none", "open", "answered", "cut"}]
    /\ \A log \in {unrecorded, noted, requestlog} : log \in SUBSET Requests

Init ==
    /\ main = "config"
    /\ conf \in Files
    /\ env \in SUBSET EnvNames
    /\ asked = {} /\ have = {}
    /\ grace = 0 /\ waited = 0
    /\ logfile = "stderr"
    /\ closed = FALSE /\ signalled = FALSE /\ serving = FALSE
    /\ h = [r \in Requests |-> "none"]
    /\ unrecorded = {} /\ noted = {} /\ requestlog = {}

Goto(from, to) == main = from /\ main' = to

\* main ends by itself: the requests in progress are cut off.
End(how) ==
    /\ main' = how
    /\ h' = [r \in Requests |-> IF h[r] = "open" THEN "cut" ELSE h[r]]
    /\ serving' = FALSE
    /\ UNCHANGED <<confVars, waited, closed, signalled, unrecorded, noted, requestlog>>

-----------------------------------------------------------------------------
(***************************************************************************)
(* config.ReadConfig.                                                      *)
(***************************************************************************)
\* os.ReadFile and hcl.Unmarshal.
Parse ==
    \/ /\ Goto("config", "vault")
       /\ UNCHANGED <<confVars, waited, closed, signalled, serving, reqVars>>
    \/ main = "config" /\ End("exit 1")

\* Variant: the aws section is not tested for nil.
DereferencedAll == {"auth", "server", "aws"}

\* The sections setFromVault reads without a test.
Dereferenced == {"auth", "server"}

\* Variant: the error of a read is dropped, and the reference stays.
ReadsDropped(refs) == SUBSET refs

\* The references that are left when every read of get went well.
Reads(refs) == {{}}

\* A reference is read before a missing section is met: auth comes first.
ReadsSome ==
    \E n \in conf.refs : SectionOf(n) = "auth" \/ Dereferenced \subseteq conf.sections

setFromVault ==
    /\ main = "vault"
    /\ \/ /\ conf.vault # "set" \/ Dereferenced \subseteq conf.sections
          /\ main' = "environment"
          /\ \E left \in IF conf.vault = "set" THEN Reads(conf.refs) ELSE {conf.refs} :
                conf' = [conf EXCEPT !.refs = left]
          /\ UNCHANGED <<env, asked, have, grace, waited, logfile, closed, signalled,
                         serving, reqVars>>
       \/ /\ conf.vault = "set"
          /\ \/ End("exit 1")                   \* NewClient or a read fails
             \/ ReadsSome /\ End("panic: secret")             \* secret.(string)
             \/ ~(Dereferenced \subseteq conf.sections) /\ End("panic: section")

\* A variable replaces what the file says.  It comes after Vault, so that its
\* value is taken as it is, even if it is spelled like a reference.
setFromEnvironment ==
    /\ main = "environment"
    /\ IF \A n \in env : SectionOf(n) \in conf.sections
       THEN /\ main' = "verify"
            /\ conf' = [conf EXCEPT !.refs = @ \ env]
            /\ env' = {}
            /\ UNCHANGED <<asked, have, grace, waited, logfile, closed, signalled,
                           serving, reqVars>>
       ELSE End("panic: section")

verifyConfig ==
    /\ main = "verify"
    /\ IF Required \subseteq conf.sections
       THEN /\ main' = "run"
            /\ UNCHANGED <<confVars, waited, closed, signalled, serving, reqVars>>
       ELSE End("exit 1")

-----------------------------------------------------------------------------
(***************************************************************************)
(* run up to server.Run: NotifyContext, the file systems, the grace        *)
(* period.  The settings that are read from here on are chosen here.       *)
(***************************************************************************)
Register ==
    /\ Goto("run", "listen")
    /\ conf' = [conf EXCEPT !.sections = @ \cup {"aws"}]
    /\ asked' \in SUBSET {"tls", "user"}
    /\ grace' \in Graces
    /\ UNCHANGED <<env, have, waited, logfile, closed, signalled, serving, reqVars>>

(***************************************************************************)
(* server.Run.  A step may do without what is not asked for, may fail, and *)
(* may read a file, which may be one in Vault.                             *)
(***************************************************************************)
StartStep(from, to, what) ==
    /\ Goto(from, to)
    /\ have' = have \cup (what \cap asked)
    /\ UNCHANGED <<conf, env, asked, grace, waited, logfile, closed, signalled,
                   serving, reqVars>>

Listen   == StartStep("listen", "tls", {})
SetupTLS == StartStep("tls", "drop", {"tls"})
DropPrivileges == StartStep("drop", "provider", {"user"})
NewProvider    == StartStep("provider", "signer", {})
NewSigner == StartStep("signer", "store", {})
NewStore  == StartStep("store", "log", {})

\* Run returns an error, and main calls log.Fatalln.
StartFails ==
    /\ main \in {"listen", "provider", "signer", "store"}
                \cup (IF "tls" \in asked THEN {"tls"} ELSE {})
                \cup (IF "user" \in asked THEN {"drop"} ELSE {})
    /\ End("exit 1")

\* vaultfs.Register: the file system has no client without a vault section, or
\* if NewClient does not take the address (setFromVault has tried a complete
\* section).
NoClient == conf.vault # "set"

\* loadCerts, signer.New: wkfs.ReadFile of a TLS file or the signing key.
ReadsFile == main = "signer" \/ (main = "tls" /\ "tls" \in asked)

\* vaultFS.Open of a file named /vault/..., which does not look at fs.err;
\* Client.Read of a secret that is not a string.
Open ==
    /\ ReadsFile
    /\ \/ NoClient /\ End("panic: no client")
       \/ conf.vault # "absent" /\ End("panic: secret")

\* os.OpenFile of http_logfile: on an error logfile is nil.
OpenLog ==
    /\ Goto("log", "serve")
    /\ logfile' \in {"stderr", "file", "nil"}
    /\ UNCHANGED <<conf, env, asked, have, grace, waited, closed, signalled, serving, reqVars>>

Serve ==
    /\ Goto("serve", "wait")
    /\ serving' = TRUE
    /\ UNCHANGED <<confVars, waited, closed, signalled, reqVars>>

\* Serve returns an error: nobody looks at it.
ServeFails ==
    /\ serving /\ serving' = FALSE
    /\ UNCHANGED <<main, confVars, waited, closed, signalled, reqVars>>

-----------------------------------------------------------------------------
(***************************************************************************)
(* Signals are caught from NotifyContext to stop(), and have their default *)
(* effect before and after.                                                *)
(***************************************************************************)
Signal ==
    \/ /\ main \in Starting \cup {"run", "wait"}
       /\ signalled' = TRUE
       /\ UNCHANGED <<main, confVars, waited, closed, serving, reqVars>>
    \/ main \in {"config", "vault", "environment", "verify"} \cup Stopping /\ End("killed")

\* stop(), and the deadline of Shutdown is set.
Stop ==
    /\ Goto("wait", "close")
    /\ signalled
    /\ UNCHANGED <<confVars, waited, closed, signalled, serving, reqVars>>

Tick ==
    /\ main \in Stopping
    /\ waited < grace
    /\ waited' = waited + 1
    /\ UNCHANGED <<main, confVars, closed, signalled, serving, reqVars>>

\* s.logfile.Close(), which is os.Stderr if http_logfile is not set.
CloseLog ==
    /\ Goto("close", "shutdown")
    /\ closed' = TRUE
    /\ UNCHANGED <<confVars, waited, signalled, serving, reqVars>>

(***************************************************************************)
(* http.Server.Shutdown (external): the listener is closed, then it polls  *)
(* until no connection is active or the context is done.                   *)
(***************************************************************************)
Shutdown ==
    /\ Goto("shutdown", "poll")
    /\ serving' = FALSE
    /\ UNCHANGED <<confVars, waited, closed, signalled, reqVars>>

Idle == \A r \in Requests : h[r] # "open"

Poll ==
    \/ main = "poll" /\ Idle /\ End("exit 0")
    \/ /\ Goto("poll", "select") /\ ~Idle
       /\ UNCHANGED <<confVars, waited, closed, signalled, serving, reqVars>>

SelectTimer ==
    /\ Goto("select", "poll")
    /\ UNCHANGED <<confVars, waited, closed, signalled, serving, reqVars>>

\* Variant: the timeout is set on the context that the signal has ended.
DeadlineOfDone == main \in Stopping

\* Variant: Shutdown(context.Background()).
DeadlineNever == FALSE

\* context.WithTimeout(context.Background(), gracePeriod) is done.
Deadline == main \in Stopping /\ waited = grace

\* "Forced shutdown": log.Fatalln.
SelectDeadline == main = "select" /\ Deadline /\ End("exit 1")

-----------------------------------------------------------------------------
(***************************************************************************)
(* Requests, from the accepted connection to the end of the answer.        *)
(***************************************************************************)
Accept(r) ==
    /\ serving /\ h[r] = "none"
    /\ h' = [h EXCEPT ![r] = "open"]
    /\ UNCHANGED <<main, confVars, waited, closed, signalled, serving, unrecorded, noted,
                   requestlog>>

\* Variant: log.SetOutput(logfile).
LogsToFile == logfile # "nil" /\ ~closed

\* log.Printf writes to os.Stderr.
Logs == ~(logfile = "stderr" /\ closed)

\* sign: SetRecord fails, "Error recording cert".
Unrecorded(r) ==
    /\ h[r] = "open" /\ r \notin unrecorded
    /\ unrecorded' = unrecorded \cup {r}
    /\ noted' = noted \cup (IF Logs THEN {r} ELSE {})
    /\ UNCHANGED <<main, confVars, waited, closed, signalled, serving, h, requestlog>>

\* A write to the HTTP log: to no file it is an error, and so it is to one that
\* is closed.
Writes == logfile # "nil" /\ ~closed

\* handlers.LoggingHandler: the line is written when the handler is through, and
\* an error of the write is not looked at.
Answer(r) ==
    /\ h[r] = "open"
    /\ h' = [h EXCEPT ![r] = "answered"]
    /\ requestlog' = requestlog \cup (IF Writes THEN {r} ELSE {})
    /\ UNCHANGED <<main, confVars, waited, closed, signalled, serving, unrecorded, noted>>

-----------------------------------------------------------------------------
MainStep ==
    \/ Parse \/ setFromVault \/ setFromEnvironment \/ verifyConfig
    \/ Register
    \/ Listen \/ SetupTLS \/ DropPrivileges \/ NewProvider \/ NewSigner \/ NewStore
    \/ StartFails \/ Open \/ OpenLog \/ Serve
    \/ Stop \/ CloseLog \/ Shutdown \/ Poll \/ SelectTimer \/ SelectDeadline

\* The process is gone.
Over == main \in Ended /\ UNCHANGED vars

Next ==
    \/ MainStep \/ Signal \/ Tick \/ ServeFails
    \/ \E r \in Requests : Accept(r) \/ Unrecorded(r) \/ Answer(r)
    \/ Over

\* main runs, time passes, and select takes a branch that stays ready sooner
\* or later.  A handler need not end.
Fairness == WF_vars(MainStep) /\ WF_vars(Tick) /\ SF_vars(SelectDeadline)

Spec == Init /\ [][Next]_vars /\ Fairness
-----------------------------------------------------------------------------
\* No request is accepted before everything it rests on is in place: the
\* configuration is complete, no setting still holds a reference that Vault
\* should have replaced, TLS is set up and privileges are dropped if asked for.
ServesAsConfigured ==
    /\ DaemonTypeOK
    /\ serving => /\ Required \subseteq conf.sections
                  /\ conf.vault = "set" => conf.refs = {}
                  /\ have = asked

\* A file with the three required sections, with or without an aws section, is
\* never read to a nil section, whatever Vault and the environment give; the
\* panics that are left are a secret in Vault that is not a string, and a file
\* named /vault/... without a usable vault section.  (Sections are verified last,
\* so a file that lacks one may panic instead of being refused.)
CompleteConfigRead ==
    main \in Panics =>
        \/ main = "panic: section" /\ ~(Required \subseteq conf.sections)
        \/ main = "panic: secret" /\ conf.vault # "absent"
        \/ main = "panic: no client" /\ conf.vault # "set"

\* A request in progress at a signal is given the whole grace period, unless a
\* second signal comes; and exit status 0 means that none was cut off.
GraceKept ==
    \A r \in Requests :
        h[r] = "cut" => \/ main = "exit 1" /\ waited = grace
                        \/ main = "killed"

\* Until a signal comes no line is lost: every certificate that went out without
\* a record is reported in the server's log, and every request answered is in the
\* HTTP log, if it could be opened.  After it (server.go:49 closes the HTTP log
\* while requests go on) reports are still not lost, unless the HTTP log was the
\* standard error.
LogsKept ==
    /\ unrecorded \subseteq noted \/ (signalled /\ logfile = "stderr")
    /\ \/ {r \in Requests : h[r] = "answered"} \subseteq requestlog
       \/ signalled \/ logfile = "nil"

\* A signal ends the process, however long the requests in progress take and
\* wherever in its start it was.
SignalEnds == signalled ~> main \in Ended
=============================================================================
