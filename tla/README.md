# Cashier in TLA+

Cashier is an SSH certificate authority. A user logs in at the CA's web page
with an OAuth provider, the `cashier` command takes the access token, has a
freshly made public key signed by the CA (`cashierd`) and puts the certificate
into the ssh agent. Administrators list and revoke certificates; ssh servers
fetch the revocation list (KRL).

This directory models that system, checks the models with TLC on small
instances and proves their safety properties, for every value of their
constants, with TLAPS.
`PROJECT.json` lists the runs, the source lines behind every definition, the
hazards and the theorems.

## The system

| Part | State | Operations | What makes it correct |
|---|---|---|---|
| CA handlers, `server/handlers.go` | none of their own; they share the store, the provider and the signer, in one goroutine per request | `sign`, `getCertsJSON`, `revoke`, `revoked` | a revocation reported done holds; every KRL carries it; every certificate leaves a trace |
| Signer, `server/signer` | the CA key and `max_age` | `SignUserKey`, `GenerateRevocationList` | no certificate outlives `max_age`; key ids identify certificates |
| Store, `server/store` | the table of records | `SetRecord`, `List`, `Revoke`, `GetRevoked`, `Close` | no record and no flag is lost; success means done |
| - in memory, `mem.go` | a map of pointers and a mutex | the same | calls that overlap behave as `CertStorer` says; they all return |
| - SQL, `sqldb.go` | a connection and prepared statements | the same | errors never pass for success |
| Providers, `server/auth/*` | the configuration | `New`, `Valid`, `Username`, `Revoke`, `Exchange` | yes only to those the options admit, and to all of those |
| Login, `server/server.go` | the session cookie, kept by the browser | `authed`, `/auth/login`, `/auth/callback` | it ends, and at the page asked for |
| Client, `cmd/cashier`, `client` | two channels, a context, a shared variable, the agent, files | `main`, the stdin goroutine, the local server's handlers | reported success is real; the token used is the one given; it ends |
| Server configuration, `server/config`, `helpers/vault` | the settings | read, override from Vault and the environment, verify | complete and resolved before anything uses it |
| Server start and shutdown, `cmd/cashierd`, `server.Run`, `vaultfs` | listener, log file, a context that a signal ends | start steps, `Serve`, `Shutdown` | serves only as configured; a signal ends it, and requests in progress get the grace period |
| Client options and keys, `client/config.go`, `keys.go` | none | `ReadConfig`, `GenerateKey` | the key asked for, in a form that can be saved |
| Token text, `encodeToken`, `templates/token.go` | none | encode, show, send, paste, decode | what the server had is what the client sends |
| Metrics, other templates, migrations, `httpclient` | | | not modelled, see below |

How the parts interact: the client talks to the CA over HTTP (`POST /sign`,
again with a reason when the CA wants one), and the CA's login page posts the
token to the client's local server. Handlers call the provider's API (it may
fail, and the token or the account may change between two calls) and the store
(it may fail; with MySQL or SQLite after the effect, too). The browser carries
the session between requests. Nothing but a SQL store survives a restart.

What is hard about it: handlers overlap and use what they read earlier (the
provider's verdict, an admin page, a list of pointers); a request is several
effects, any prefix of which can be the last; the client has three kinds of
goroutine around two channels of capacity one; times change representation
between `int64`, `uint64`, `float64` and `uint32`.

## The modules

| Module | Models | Built on |
|---|---|---|
| `CertRecords` | `CertRecord` and the questions asked of a table of them | |
| `CertStorer` | what every store promises: the abstract specification | `CertRecords` |
| `MemStore` | `memoryStore`, shown to implement `CertStorer` | `CertRecords`, `INSTANCE CertStorer` |
| `SqlStore` | `sqlStore`, shown to implement `CertStorer` | `CertRecords`, `INSTANCE CertStorer` |
| `Signer` | `SignUserKey`, `MakeRecord`, the KRL: operators | |
| `CA` | the handlers, composed with a store and the signer | `CertStorer`, `Signer` |
| `Provider` | `Valid` of the four providers | |
| `Login` | `authed`, `/auth/*` and the session cookie | |
| `Client` | one run of `cashier`: its goroutines | |
| `ClientInput` | one run of `cashier`: its options, its key, the text of the token | |
| `Daemon` | one run of `cashierd`: configuration, start, shutdown | |
| `MC*` | instances for TLC | their module |
| `CAProofs` (`CertStorer` too), `MemStoreProofs`, `SqlStoreProofs`, `ProviderProofs`, `LoginProofs`, `ClientProofs`, `ClientInputProofs`, `DaemonProofs` | inductive invariants, theorems and proofs | their module |

A definition marked *Variant* is a plausible mistake in the definition after
it: TLC finds the property named with it in `PROJECT.json` violated when it
takes that definition's place. A few lines of data stand for much text in the
code: a certificate is its key id and its validity, a token or a reason is a
model value or a Boolean, a KRL is its set of key ids.

### Store

`CertStorer` has one table `db`. `SetRecord` is one step. `Revoke` is a call,
any number of steps that flag some of its ids (`RevokeFlag`) and a return;
`RevokeOk` requires that none is left. `GetRevoked` is a call and a return; in
between two bounds move with the table and the clock: `must`, the key ids that
were flagged and unexpired all the time, and `may`, those flagged at some time.
The answer lies between them. `ret` shows the value a step returns, so that the
refinements are about answers as well as about tables. `Type` says which
differences between the stores are allowed: a map replaces a record with the
same key id, a database refuses it; a database fails; a map is gone after a
restart, and panics on an unknown id.

`MemStore` has the map (`certs`), what its pointers point to (`heap`) and the
mutex. Its loops take one step per record and `GetRevoked`'s second loop runs
without the mutex, as in `mem.go`. `SqlStore` splits each method into the call,
the ping, the statement and the return; a statement may fail without effect
(`Fail`) or be carried out and reported as failed (`Answer`).
The outcome of a `SetRecord` is settled in the step that writes the row, which
is where the abstract `SetRecord` is taken. `Zone` is the server's time zone:
rows hold local times, `GetRevoked` asks in UTC, and SQLite's driver
(`modernc.org/sqlite`, which writes a time as Go prints it) leaves the database
to compare two wall clocks. The refinement is claimed, and proved, for MySQL,
whose driver converts, and for SQLite in UTC or east of it (where certificates
are listed longer than needed); `sql_zone` shows what happens west of it.

### CA

Each handler runs in a process `p`; `step[p]` is the call it makes next.
`Sign` covers the token check, the decoding and the reason (a refusal changes
nothing); then come `Username`, `RevokeToken`, `SignKey`, `SetRecord` and
`Respond`, each with its failure. `signed`, `delivered`, `logged`, `acked` and
`owed` are histories of what left the server. A revocation names ids that admin
pages offer (`seen`) or any of `Posted`, which come without a page, as in
`handlers_test.go`, and need not be on record: the map panics on such an id, a
database reports success for it. A page never gets old, so a revocation can come
at any later time, and after a restart. What the server promises with its
redirect is about the certificates on record when the request came (`asked`). `Restart` loses every handler's locals and, with
`Type = "mem"`, the table. A certificate's key id is the pair of user name and
second, as in `fmt.Sprintf("%s_%d", ...)`. `Half` stands for 2^63, so that the
conversions wrap in a small instance where they wrap in the program.

### Provider, Login, Client

`Provider` goes through the checks of `Valid` one API call at a time. `held`
collects the conditions that held at some moment of the call; `quiet` says that
every call was answered and nothing changed.

`Login` keeps the cookie in the browser (`jar`), a copy in each request
(`sent`) and a new one in each answer (`reply`), which replaces the browser's
when it arrives. Random states and tokens are the least number nobody holds.
`want` collects what a tab's user has asked for, visit after visit: a page shown
late is still one of those.

`Client` has a step per line of `main` that talks to somebody; what the options
say and what the token's text looks like is left to `ClientInput`. The assignment
of `encodedToken` by the stdin goroutine is two steps (a Go string is two
words) because it races with `main`. Time is in half seconds so that a
lifetime below one second exists.

`ClientInput` is sequential. Options come from flags and file as viper ranks
them, and `Keys` is the set of key pairs `GenerateKey` may return, so that an
empty set is an error. A token is a sequence of two characters, `"+"` and any
other, because a query string treats only the first in its own way. A text of
several lines is the sequence of its lines, the last being what follows the last
newline: `encodeToken` cuts the token into lines of `Chunk` characters and ends
each with a newline, so its last line is empty, and the page's `"."` comes to
stand there. The token comes back line by line through the loop of `main.go:72`
(`""` for ever once stdin is at its end), or joined by the browser, which drops
newlines from a URL, and through `r.FormValue`.

### Daemon

`main` is the step the main goroutine takes next. `ReadConfig` is four steps
(parse, Vault, environment, verify), in the code's order: before verification a
missing section is a nil pointer. A configuration is its sections, the state of
its vault section and the set of settings that are references to Vault; once
Vault or the environment has replaced one, it leaves that set. A value from the
environment is used as it is, whatever it looks like: Vault has been read by
then. Settings that
only the start reads (`use_tls`, `user`, `shutdown_timeout`, `http_logfile`) are
chosen where they are read. Every step of `server.Run` may fail. `Signal` is
caught between `NotifyContext` and `stop()` and kills otherwise. `Shutdown` of
`net/http` (external) is modelled as its documentation and its use here say:
close the listener, poll, give up at the deadline. A request is in progress
from its connection to its answer; what it does meanwhile is `CA`, whose
`Restart` between any two steps is what a deadline or a second signal amounts
to for a handler. What a handler does here is to report a certificate it could
not record, which is the log line `AuditTrail` in `CA` relies on (`noted`), and to
have its line written to the HTTP log when it has answered (`requestlog`). The
first goes to the standard error, the second to `logfile`; without `http_logfile`
they are one file, and `Shutdown` closes it.

## The runs

Passing runs:

| Run | Shows |
|---|---|
| `mem` | `MemStoreInv`; `memoryStore` implements `CertStorer`: reading flags without the mutex neither misses what was revoked before the call nor invents anything; `CallsReturn`: nobody waits for the mutex for ever, even after a panic under it |
| `sql` | `SqlStoreInv` (success is never reported for what was not done), `AuditRowsStay`, and that `sqlStore` implements `CertStorer` |
| `ca_sql` | `RevocationHolds`, `KRLCovers`, `AuditTrail`, `ReasonRecorded`, `MaxAgeUnlessWrapped`, `RevocationSticks`, `CATypeOK` with two handlers and a restart over a database that may fail, and expiries on both sides of 1970 and of `max_age` |
| `ca_mem` | `RevocationHolds`, `KRLCovers` and the inductive invariant `CAInv` over the map, with a provider that fails and revokes tokens |
| `client` | `SuccessIsReal`, `RespondHasRoom`, `TokenUsed`, `MainEnds`, `AgentForgets` |
| `provider` | `YesIsEarned`, `AdmitsUnlessIgnored`, for every configuration `New` accepts |
| `login` | `LoginEndsAlone`, `RightPage` |
| `daemon` | `ServesAsConfigured` (sections, secrets, TLS and privileges before the first request), `CompleteConfigRead`, `GraceKept`, `LogsKept`, `SignalEnds` |
| `client_input` | `KeyAsAsked`, `TokenArrives`, `PasteEnds` |

Runs in which the code does not do what a document or a comment says (the
finding in `PROJECT.json` has the quotation):

| Run | What happens |
|---|---|
| `ca_max_age` | a `valid_until` before 1970 is not clipped and wraps to the far future |
| `ca_principal` | the principal is `""` when the token is revoked between `Valid` and `Username` |
| `sql_zone` | SQLite on a server west of UTC: a revoked certificate drops off the list before it expires |

More disagreements appear as named exceptions of properties that pass; taking
the exception away makes TLC find them:

| Exception | Behind it |
|---|---|
| `AuditTrail`: a log line, or a collision in memory | `README.md:252` says a record is kept of every certificate; with a key id given twice, the map keeps one and the database refuses the second, which is only logged |
| `AdmitsUnlessIgnored`: `Ignored` | `New` asks for "either Office 365 tenant or users whitelist" (`microsoft.go:41`), but a Microsoft whitelist without a tenant admits nobody (`microsoft.go:169`); a GitLab `group` is dropped if its name occurs inside another's, and an empty `groups` makes a list with one empty name (`gitlab.go:259`, `252`) |
| `AgentForgets`: a second to live | `README.md:231` says that an expired certificate "will be removed automatically from the agent"; less than a second is passed on as 0, which the agent takes for no limit (`client.go:84`) |
| `TokenUsed`: pasting at the same time | `encodedToken` is assigned without synchronisation (`main.go:75`): the pasted text replaces the token received over HTTP, or tears it |
| `RevocationHolds`: `Collided` | two certificates for one user in one second have one key id; with the memory store, recording the second takes the revocation of the first away (`mem.go:32`) |
| `MainEnds`: `Competing` | of two requests to the local server with a token only one is answered, although `localserver.go:55` blocks "until we get something to send back"; the deferred `Shutdown` waits for the other |
| `LoginEndsAlone`: once the other tabs are at rest | every answer carries a whole cookie (`server.go:276`), so two tabs that log in at once can drop each other's token, possibly for ever, in spite of the check at `handlers.go:123` against "an auth loop" |
| `CompleteConfigRead`: a missing section | `config_test.go:64` expects "missing ssh config section" and its like; with a Vault section or a variable set, `setFromVault` and `setFromEnvironment` panic before `verifyConfig` can say so |
| `CompleteConfigRead`: no client | a signing key or TLS file named `/vault/...` without a usable vault section panics: `vaultFS.Open` does not look at `fs.err` (`vaultfs/vault.go:44`) |
| `LogsKept`: a signal came | `README.md:110` calls `http_logfile` "Path to the HTTP request log"; `Shutdown` closes it first (`server.go:49`), and the requests answered during the grace period are not in it. If it is the standard error, what they report is lost too, and so is "Forced shutdown" |
| `LogsKept`: `logfile = "nil"` | an HTTP log that cannot be opened is announced as "logging to stdout" (`server.go:166`); it goes nowhere |
| `KeyAsAsked`: an unknown type | `GenerateKey` makes an RSA key of it, if a size is given (`keys.go:125`) |
| `KeyAsAsked`: `BelowMinimum` | `keys.go:68` says "RSA keys must be a minimum of 1024 bits"; the size is passed on (`keys.go:83`), and for a module of go 1.23 the library makes smaller ones |
| `TokenArrives`: a `"+"` | the page puts the token into a URL unescaped (`token.go:89`); the command reports that it cannot decode it, and pasting works |
| `TooLong = FALSE` in `login` | the error of `session.Save` is dropped (`server.go:278`): with a token too long for the cookie even a tab by itself logs in round and round |

One has no property at all, since nothing but the default itself speaks of it:
`SetDefault` at `config.go:27` gives `true` to an option that is not the one read
(`config.go:17`), so that without an entry in the file TLS certificates are not
validated. `Defaults` in `ClientInput` has the value the option really gets.

`RevocationHolds` and `KRLCovers` therefore excuse three cases by name, and no
others: a key id given to two certificates (`Collided`), an expiry that wrapped
(`Wrapped`) and a memory store after a restart (`Wiped`).

### Bounds

Two processes are enough for a writer to meet a reader, and for two writers to
meet: every property is about one promise and one handler that could break it.
Two serials let a key id collide. One id in `Posted` is on record in some states
and not in others. Two seconds of clock suffice: a request beyond
`max_age` is cut to the next second, so a certificate of the first second goes
out of force in the second while its record is still listed, and one of the
second is in force at the end; a request before 1970 (`ca_sql`) makes a record
that is expired, and dropped from the list, from the start. One restart
separates everything before from everything after; the state after it is an
initial one but for the histories. `Half = 8` leaves room for `max_age` and the
clock below it, as the code has. For the client, two requests are what it takes
to compete for a channel of capacity one. For the providers, two users and two
groups, the name of one inside the other's, are what the checks tell apart; one
change lets every pair of checks disagree. For the login, one page besides `/`,
two tabs, and one thing expiring or changing. For the daemon, one setting of
each kind (from the environment too, in a required section, in the optional
one), a grace period of none and of one tick, and two requests, one of which can
end while the other goes on. For the client's input, chunks of two and tokens of
up to four characters, so that the last chunk is full or not, alone or not;
every key type with no size, a negative one, one that only some types take, and
one that others do. Serials, processes, tokens and key ids are symmetric where only safety is
checked.

`CHECK_DEADLOCK FALSE` appears only for `Login`: when every tab is at rest and
has used its visits, nothing need happen.

### Fairness

- `MemStore`: a goroutine in a call keeps running (weak fairness), and
  `sync.Mutex` hands itself to the longest waiter after a millisecond, so a
  waiting goroutine gets it if it is free again and again (strong fairness of
  `Lock`).
- `Client`: goroutines run; the CA answers or the 30 seconds of the HTTP client
  are up; the agent answers; time passes. Nothing is assumed of the user:
  neither a token nor a reason need come, so `MainEnds` starts after the token
  and ends at a prompt.
- `Login`: requests are answered, redirects followed, and a user at the
  provider's page comes back or gives up.
- `Daemon`: `main` runs and time passes; `select` does not for ever prefer the
  polling timer to a deadline that has passed (Go chooses at random). Nothing is
  assumed of handlers: they may go on for ever.
- `ClientInput`: the goroutine that reads stdin and `main` run.
- `CA`, `Provider`, `SqlStore`: only safety is claimed, no fairness assumed.

## The proofs

A theorem holds for every value of the constants that satisfies the named
assumptions: sets of any size (the tabs of a browser are finitely many, which
the model needs and the proof does not), any clock, any number of restarts,
visits or requests. Most assumptions are typing (`RecordAssumption`,
`TypeAssumption`, `TimeAssumption` and their copies in the stores,
`MemAssumption`, `SqlTypeAssumption`, `ClientAssumption`, `DaemonAssumption`,
`LoginAssumption`, `ProviderAssumption`, `SignerAssumption`, `InputAssumption`,
`UnsetAssumption`: model values that stand for "none" differ from the values
proper). Two say more:

- `CAAssumption` has
  `Start >= Backdate /\ MaxTime + Validity < Half`: the clock plus `max_age` fits
  an `int64`, and the server does not run in the first five minutes of 1970;
- `SqlImplements` and `RevokedReturned` assume `NotWest`: MySQL, or SQLite on a
  server that is not west of UTC. `sql_zone` is the counterexample without it.

Every proof has the same plan: an inductive invariant, one lemma per part of it
with one step per action, and the theorems from the invariant. The invariants
`CAInv`, `MemStoreInv` and `SqlStoreInv` are checked by runs as well;
`ClientInv`, `InputInv`, `ProviderInv`, `LoginInv` and `DaemonInv`, which are
in the proof modules, hold under TLC with the constants of their runs (a module
that extends the MC module and the proof module, and the run's cfg with the
invariant in place of its properties, shows it).

| Property | Theorem | Invariant |
|---|---|---|
| bounds of a `GetRevoked` | `CAProofs!GetRevokedBounded` | itself |
| `RevocationSticks` | `CAProofs!SqlRevocationsStick` (of `CertStorer`), `RevocationsStick` (of `CA`) | |
| `CAInv`, `CATypeOK`, `RevocationHolds`, `KRLCovers` | `CAProofs!Invariance`, `TypeCorrect`, `RevocationsHold`, `ListsCover` | `CAInv` |
| `AuditTrail`, `ReasonRecorded`, `MaxAgeUnlessWrapped` | `CAProofs!TrailKept`, `ReasonsRecorded`, `MaxAgeKept` | `CAInv` |
| the CA, its own variables hidden, implements `CertStorer` | `CAProofs!UsesStore` | `CAInv` |
| `MemStoreInv`, `ImplementsCertStorer` | `MemStoreProofs!MemInvariance`, `MemImplements` | `MemStoreInv` |
| `SqlStoreInv`, `AuditRowsStay`, `GetRevokedReturnsAll`, `ImplementsCertStorer` | `SqlStoreProofs!SqlInvariance`, `AuditRows`, `RevokedReturned`, `SqlImplements` | `SqlStoreInv` |
| `YesIsEarned`, `AdmitsUnlessIgnored` | `ProviderProofs!YesEarned`, `AdmissibleAdmitted` | `ProviderInv` |
| `RightPage` | `LoginProofs!PageAskedFor` | `LoginInv` |
| `SuccessIsReal`, `RespondHasRoom`, `TokenUsed` | `ClientProofs!RealSuccess`, `RoomToRespond`, `WholeToken` | `ClientInv` |
| `KeyAsAsked`, `TokenArrives` | `ClientInputProofs!KeyMade`, `TokenWhole` | `InputInv` |
| `ServesAsConfigured`, `CompleteConfigRead`, `GraceKept`, `LogsKept` | `DaemonProofs!ServedAsConfigured`, `ConfigRead`, `RequestsGraced`, `KeptLogs` | `DaemonInv` |

### CA

`RevocationHolds` is not inductive. It speaks of acknowledged key ids, and an
acknowledgement is the last of several steps: it needs to be known that the ids
a `Revoke` has done with are flagged already if there is a promise about them,
that these have records (an `UPDATE` of an unknown id flags nothing), that a record agrees with the
certificate it was made from (or its expiry would say nothing about the
certificate's), and that a flag only goes away with a collision or a wiped
store. `CAInv` says this in parts:

- `CallsMatch`: a handler and the store call it waits for go together;
- `LocalsMatch`: a signing handler has its request and its own certificate;
- `RecordsMatch`: every record stands for a signed certificate with its key id
  and expiry, and a certificate still to be recorded is not in the table yet;
- `RevocationsMatch`: the ids a revocation is owed for have records; of these, the
  ones it is done with, and the acknowledged ones, are flagged or excused; and what a `GetRevoked` in
  progress owes is still in `must`, excused or expired, which is what
  `KRLCovers` needs;
- `TracesMatch`: a handler about to send its certificate has left the trace of
  it, and one that is to record it was given a reason, which is what
  `AuditTrail` and `ReasonRecorded` rest on: both are about what a request has
  done in an earlier step.

`MaxAgeKept` is the arithmetic of `Clip` and the conversion to `uint64`, by cases
on where the requested expiry lies.

### Stores

The two refinements are what makes the CA's theorems say something about the
code: `CA` runs over the abstract `CertStorer`. Both map every step to a step of
`CertStorer` or to a stutter: the abstract `Revoke` flags with each turn of the
memory store's loop, and with the one `UPDATE` of the SQL store; `GetRevoked`
returns what lies between `must` and `may`.

For the memory store the hard part is the last: its second loop reads the flags
without the mutex, through pointers taken earlier, while others replace records
and set flags. `LoopsGather` says that what the call owes is at every moment
still to be visited, found, or behind a pointer it holds that is still the one
in the map; `PointersOwned` (a record is under one key only) makes a flag seen
through a pointer a flag of that key. `LoopsExclude` and `PointersValid` are
about the mutex and about what a pointer leads to.

For the SQL store the answer of a query is fixed when it runs and returned
later. `must` only shrinks, so what the query found still covers it
(`GetRevokedReturnsAll`, inductive with `SqlStoreInv`); `BoundsTrack` has the
time the query asked for behind the clock, which is where `NotWest` comes in.

### Providers

`PassedInOrder` says of each check which conditions have been seen to hold when
`Valid` comes to it, and `AskedSoFar` which groups are left: in a call without
failures and changes the account's groups are still among them, so that the
last no is deserved. `GroupsAskedAbout` compares the groups `Valid` asks about
with those the options name: they are the same unless an option is `Ignored`,
and nobody is let in for a group the options do not name.

### Login

`RightPage` is about a page that came through two cookies and a redirect.
`PagesAskedFor` says that every page in a cookie, in the browser, in a request
or in an answer, was asked for. `OriginKept` says where a login has its page
until something expires, which excludes `/` instead of it: in the answer of
`authed`, then in the browser's cookie whatever other tabs store there, then in
the requests for `/auth/login` and `/auth/callback`. It needs `TokensFit`: only
a cookie with a token can be too long to be stored.

### Client and daemon

`ClientInv` adds what has been done by the time `main` is at each of its steps
(`DoneInOrder`), that a response is in the channel only after the one place
that puts it there (`RespondsOnce`), and what `encodedToken` holds by how far the
two goroutines that assign it are (`WrittenInOrder`). `DaemonInv` adds what the
start has set up at each step (`SetUpInOrder`), when requests can be in progress
(`RequestsInTime`), and that the log is closed only after a signal
(`ClosedOnSignal`), which `LogsKept` needs: the write looks at the file, the
property at the signal.

### Client input

`InputInv` has three parts. `OptionsRead`: once `ReadConfig` is through, each
option is what `Get` made of flags and file, and the key is one that
`GenerateKey` makes of them, which is what `KeyAsAsked` follows from by cases on
the type. `PasteRead`: while the loop of `main.go:72` runs, there is a `k` such
that the lines from the `k`-th on are still in stdin and the buffer is the first
`k - 1` chunks joined (`Prefix`); a paste without the `"."` has no line that is
one. `TokenRead`: what is decoded is the token, or the token as a query string
spells it.

Both ways of the token rest on the same fact, `PrefixGrows`: the first `k - 1`
chunks and the next are the first `k`, which is the arithmetic of the slice
`runes[i:end]` and of its last, shorter piece. With `PrefixEnds` (no chunk is
nothing, `Count` chunks are the token) the paste follows step by step. For the
browser, which joins all lines at once, `FlattenToken` shows what `FlattenSeq`, a
recursive function, computes. There is no induction rule to cite for that; the
proof exhibits a function that satisfies the recursion (`Prefix`), and takes the
least line at which `FlattenSeq`'s could differ from it (`LeastNumber`, from the
well-foundedness of `<`), where the recursion says that it does not. So the
theorem holds for every chunk size, 70 included, and tokens of every length.

### Only model-checked

Liveness (`CallsReturn`, `MainEnds`, `AgentForgets`, `LoginEndsAlone`,
`SignalEnds`, `PasteEnds`) is out of the prover's reach. Every safety property
of a passing run is proved.

## Not modelled

- `Provider`'s checks inside `CA` and `Login`: both take the verdict as a fact
  that may change between any two calls, which is all `Valid` promises them.
- The oauth2 client's renewal of an expired token, and what GitHub says of the
  membership of the user `""` (taken to be no).
- A SQL statement that is carried out after the server was killed: `Restart`
  ends the calls in progress, before or after their effect.
- The fractions of a second in `time.Now()` at `mem.go:44`, and `len()` of the map
  read without the mutex at `mem.go:39`, which only sizes a slice.
- Permissions and additional principals: constant for all certificates.
- `httpclient.ClientCache`: dead code; no provider or handler uses it at this
  commit, so there is no program it could be composed with.
- Migrations: carried out by a library; `SqlStore` starts after them.
- A change of the server's time zone (summer time) between storing a row and
  listing it: `Zone` is constant.
- `Stat`, `Remove` and `OpenFile` of the Vault file system, and S3: only the
  certificate cache of a library calls them.
- Routes and middleware (version header, CSRF): they choose the handler and
  change no state of the server.
- Metrics, other templates, JSON of the list column: no state that any other
  part reads.

## Plan

Done: `CertStorer` and its two implementations, `Signer`, `CA`, `Client`,
`Provider`, `Login`, `Daemon`, `ClientInput`, and the proofs of their safety
properties. The most important behaviour, that a revocation holds, came first.
Left: permissions as critical options and extensions of a certificate.
