# protonmail-mcp: a TLA+ model

`protonmail-mcp` is an MCP server that gives an assistant access to one Proton
Mail account. It is a single Go binary: started without arguments it serves
tool calls over stdio or HTTP/SSE; `login`, `status` and `logout` are commands
of the same binary that share the credential store with the server.

The logic that is hard to get right is the **custody of the Proton session**.
Refresh tokens are single-use: every refresh, by the program or by the
go-proton-api library behind its back, retires the token that was stored. So
the in-memory client, the in-memory bundle, the raw HTTP client and the
credential store have to follow each other under concurrent tool calls, lost
replies, failed writes and crashes, and the program heals itself by logging in
again, at most a bounded number of times. Around that custody stand the tool
handlers, which act on the account in several requests each, and a number of
small algorithms whose order of checks matters.

## 1. Inventory

| Component | State | Operations | Correct when |
|---|---|---|---|
| `internal/session` Session | client, raw bearer, current bundle, cached keyrings, four flags, two locks | Client, Raw, Keyrings, CalendarKeyring, Status, Login, Logout, OnAuthRotated | the copies of the tokens agree, a restart finds the newest or the session says it is degraded, unattended logins are bounded, no call blocks for ever |
| `internal/keychain` | eight OS keychain entries | Save/Load Creds and Session, Clear, each several calls | a reader never takes a mixture of two sessions for one |
| `internal/credfile` | one JSON file, a lock file | the same interface: flock, load, change, temp file, rename; Clear | no lost update between processes, a crash leaves old or new |
| `internal/keyring` | none | Unlock (passphrase from password or mailbox password, user and address keys), DecryptBody, ClearPrivateParams | some address key, or an error; key material wiped |
| `internal/proterr` | none | Map: Go, HTTP and Proton errors to one tool error; RefreshRejected, ScopeDenied, IsTOTPRejected | the predicates that start a relogin fire exactly on the errors a relogin cures |
| `internal/calendar` | none | ResolveKeyring, decrypt, parse, Expand | occurrences in the window, none outside |
| `internal/tools` | none | one handler per tool, gated by two environment variables | writes only when enabled; a handler of several requests reports what it did |
| `internal/server` | listener, sessions of clients | RunWithOptions, serveSSE, bearerAuth, transport selection | a request is served only with the bearer token; a shutdown drains |
| `cmd/protonmail-mcp` | process | run, login, status, logout, signal handling | exit codes; the commands and a running server share the store |
| `internal/protonraw` | none | typed requests for domains, addresses, catch-all | a refusal is an error, of the code the library's client would give (not so a demand for human verification: see section 3) |
| `internal/log`, `internal/version` | none | redacting log handler | no value under a sensitive name is logged (under that of a group it is: see section 3) |
| `internal/testvcr`, `internal/testharness`, `cmd/record-cassettes`, `cmd/testvcr-lint` | cassettes | recording and replay for tests | not part of the running program |

How they interact. A tool handler asks the Session for a client
(`Session.Client`), a raw client (`Raw`) or keyrings (`Keyrings`,
`CalendarKeyring`), and sends requests with it. `Client` loads the stored
session, refreshes it with Proton and registers `OnAuthRotated` with the
library, which calls it from whatever goroutine's request found its access
token expired. `Keyrings` calls `Client`, loads the credentials, unlocks the
keys, and on a scope denial logs in again (`reloginForScope`) and retries. The
Session writes the store through the `keychain.Store` interface, which
`session.SelectStore` binds to the OS keychain or to the file.

What makes it hard:

* several goroutines (MCP requests, library callbacks) in one Session, two
  locks nested as `unlockMu` then `mu`, and state read in one lock section and
  used in another;
* `OnAuthRotated` writes the store *outside* `mu` and records the outcome
  under it afterwards;
* a login writes credentials and session in two calls, each of which may fail,
  as may the `Clear` that undoes them;
* the reply of a token-rotating request may be lost; the process may die
  between a rotation and its save;
* Proton may revoke a session at any time, or grant one without full scope;
* a second process (`status`) refreshes the same stored token;
* a self-heal replaces a client that other goroutines still use;
* the OS keychain stores a bundle in several entries with a call each, so that
  a save may stop half way and two processes may interleave inside one;
* a handler makes several requests; between two of them other calls and the
  owner in a browser change the account, and an answer may be lost although the
  request took effect;
* a signal ends the process 50 ms later whatever it is doing, while the SSE
  listener drains, and may have failed at the same moment.

`PROJECT.json` lists each of these as a hazard at its line, with the properties
that cover it or the reason none does yet.

## 2. Modules

| Module | What it is |
|---|---|
| `Session` | the state machine of `internal/session.Session` in one process, over an atomic store and Proton |
| `MCSession` | its TLC instances (symmetry of the goroutines) |
| `SessionProofs` | type correctness, proved for every value of the constants |
| `SessionLockProofs` | the lock discipline and what follows from it, proved |
| `SessionTokenProofs` | the custody of the tokens: the copies in memory, the store and the degraded flag, proved |
| `SessionLatchProofs` | the server: its self-heal latch, its unattended logins, its cached keyrings, proved |
| `CredStore` | the abstract credential store several processes share: every call takes effect at one moment or fails |
| `CredFile` | `internal/credfile`: lock file, load, temporary file, sync, rename, `Clear`; implements `CredStore` |
| `CredFileProofs` | type correctness and the refinement, proved |
| `Keychain` | `internal/keychain`: a bundle spread over entries, each written, read and deleted on its own |
| `Deployment` | servers and the commands `login`, `logout`, `status` as processes over one `Keychain` and Proton; `MCDeployment` |
| `DeploymentProofs` | what the commands and the server leave in the keychain, proved |
| `Server` | the life of one server process: start, transport, SSE listener, shutdown, forced exit |
| `Tools` | the handlers of `internal/tools` running concurrently in a `Server`, over the account; `MCTools` |
| `ToolsProofs` | theorems about `Tools` and `Server` |
| `ProtErr` | `proterr`: error chains and the code a tool reports |
| `Decrypt` | `keyring.Unlock`, `calendar.ResolveKeyring` and the tools that decrypt, up to that code; extends `ProtErr` |
| `Events` | expansion of recurrences and the truncated listing of `proton_list_events`, with a reference definition |
| `Inputs` | the two-factor token capture, `protonraw`, the sender of a draft, `status`, the log's redaction |
| `Algorithms` | runs each of the four modules above on an input; `MCAlgorithms` enumerates the inputs |
| `AlgorithmsProofs` | theorems about the algorithms, for every input |

### 2.1 `Session`: state and actions against the code

| Variable | Code |
|---|---|
| `mu`, `unlockMu` | `Session.mu` (RWMutex), `Session.unlockMu`; who holds them for writing |
| `client` | `s.client`, as the token pair it authenticates with; `NoToken` is nil |
| `raw` | the bearer and UID of `s.raw` (`rawClient.setAuth`) |
| `current` | `s.current`, the `keychain.Session` bundle |
| `open` | the `proton.Client`s that have not been closed, the replaced ones included |
| `persistDegraded`, `poisoned`, `reloginExhausted`, `scopeReloginExhausted` | the fields of those names |
| `keyrings`, `calKeyrings` | `s.keyrings`, `s.calKeyrings`, as the Proton session they were unlocked with |
| `store` | what the `keychain.Store` holds: credentials, session bundle |
| `proton` | Proton's side: newest token generation, whether revoked, scope granted |
| `pc`, `frame` | each goroutine's position and locals |
| `hist` | counters that only properties read |

Tokens are abstracted to *(Proton session, generation)*: Proton rotates the
access and the refresh token together and honours only the newest generation.
Credentials are abstracted to how the login answered the 2FA challenge: with a
stored TOTP secret (`"secret"`, which also stands for an account that needs no
second factor) or with a one-shot code (`"code"`), after which no unattended
login can succeed.

A critical section without store or network access is one step. Where the code
holds `mu` over such accesses (`Client`'s slow path, `loginLocked`, `Logout`)
each access is a step of its own and the thread keeps `mu`; where it does not
(`OnAuthRotated`, `unlockOnce`, `CalendarKeyring`) the steps interleave with
everything. Read sections are steps enabled when no writer holds `mu`.

| Actions | Code |
|---|---|
| `ClientCall`, `ClientFast`, `ClientNoRefresh`, `ClientLoad`, `ClientRefresh`, `ClientRefreshFails`, `ClientRejected`, `ClientSave` | `Client`, fast and slow path, with its three failure classes |
| `RawCall` | `Raw`, when it has to refresh first |
| `LoginCall`, `Authenticate`, `AuthenticateFails`, `PersistCreds`, `PersistSession`, `PersistSessionFails`, `Rollback` | `Login`, `loginLocked`, `persistLoginState`, `rollbackLoginPersist`; shared with the two relogins |
| `ReloginLoadCreds` | `reloginLocked` |
| `LogoutCall`, `LogoutClear` | `Logout` |
| `LibraryRotates`, `RotatedApply`, `RotatedSave`, `RotatedFlag` | the library's refresh and `OnAuthRotated` |
| `KeyringsCall`, `UnlockAcquire`, `UnlockRecheck`, `UnlockSucceeds`, `UnlockDenied`, `UnlockFails`, `StoreKeyrings`, `DeniedDecides`, `HealRelogin`, `HealLatch` | `Keyrings`, `unlockOnce`, `storeKeyrings`, `scopeReloginSpent`, `healScopeDenial`, `reloginForScope` |
| `CalendarCall`, `CalendarResolve`, `CalendarStore` | `CalendarKeyring` |
| `Restart`, `Revoke` | the environment |

`FailsOtherwise`, `LoginFails`, `ClientReturns`, `KeyringsReturn` and `Return`
are the ways a call hands its result to whoever called it, so that one
description of `Client` serves its three callers and one of the login its three.

`Ops` says which operations a process performs. The server performs `Client`,
`Raw`, `Keyrings`, `Calendar` and the library's rotations; `Login` and `Logout`
are called only by the CLI commands. The runs use such profiles and one,
`session_login`, that lets everything race, which the type allows.

### 2.2 `CredStore` and `CredFile`: the file store

`CredStore` says what `internal/session` asks of a store. It keeps two bundles
(`store`), what a power loss would leave of them (`durable`) and the call each
process has begun (`call`). A save takes effect as a whole at one moment
between its begin and its end, a load returns what one moment held, a call that
fails changed nothing, and a call cut short by a death did either. With
`AtomicClear` FALSE it allows one thing more: a save that a `Clear` overlapped
may bring back what that `Clear` removed.

| Variable of `CredFile` | Code |
|---|---|
| `file` | `credentials.json`: a document, `Absent`, or `Torn` (does not parse) |
| `fileDirty`, `disk` | whether the file's bytes were never synced; what a power loss leaves |
| `lock` | who holds the flock on `credentials.lock` |
| `pc`, `op`, `buf` | the position of each process, its call, the document it loaded and changed |
| `dirty` | the processes whose temporary file is not synced |
| `ret`, `cleared` | what the last call returned; which document a `Clear` removed under a save (history, kept by both levels) |

| Actions | Code |
|---|---|
| `BeginSave`, `Open`, `Lock`, `Load`, `Write`, `Sync`, `Rename`, `MergeFails` | `SaveCreds`, `SaveSession`, through `merge`: `prepareDir`, `lock`, `load`, `save` |
| `FlockFails` | `flock` itself returns an error; never assumed to happen |
| `BeginClear`, `Clear`, `ClearFails` | `Clear`, which removes the file without the lock |
| `BeginLoad`, `LoadBundle`, `LoadFails` | `LoadCreds`, `LoadSession` |
| `Succeeds`, `Return` | the return of a call; deferred unlock and removal of the temporary file |
| `Die`, `Flush`, `PowerLoss` | the environment |

The refinement mapping takes the store to be the document in the file (an
absent file is an empty document), `durable` the one on disk, and a call to be
over when the rename, or the removal, has happened. Everything before the
rename is a stutter of the abstract store.

### 2.3 `Keychain` and `Deployment`: the processes of an installation

`Keychain` has the entries (`keys`) and the call each process is in (`call`:
the operation, the entry it is at, the bundle, the result). `WriteEntry`,
`ReadEntry` and `DeleteEntry` are one `Set`, `Get` or `Delete` of the backend;
`EntryFails` ends the call with what it has done so far. `totp` stands for the
three optional entries, which are saved by the same function, and `refresh` for
the access and the refresh token, written one right after the other with the
same failures. The scope, the optional entry written last of a session, is left
out: nothing in `Deployment` reads it, and a save that fails there, with both
tokens written, counts as one that did not fail.

`Deployment` composes it with Proton and with the processes. `Session` has the
goroutines of one process over an atomic store; `Deployment` has several
processes over the store as it is. Inside a process one operation of the Session
runs at a time, but a scope self-heal leaves the client it replaced in use, as
the code does: `clients` holds the tokens of all of them, each may rotate, and
`current` is what the last rotation, cold start or login left. `proton` gives
each Proton session its account and newest token generation.

| Actions | Code |
|---|---|
| `ToolCall`, `ColdFails`, `Refresh`, `RefreshSaved`, `RefreshRejected` | `Client`'s slow path |
| `HealScope` | `Keyrings` up to `reloginForScope`: the salts are denied and the scope latch is not spent |
| `ReloginFails`, `Relogin`, `Latched` | `reloginLocked`, for `Client` and for `healScopeDenial`, and the latch each sets after it in vain |
| `CredsSaved`, `Rollback`, `RolledBack`, `LoginSaved` | `persistLoginState`, `rollbackLoginPersist` |
| `Rotate`, `RotateSaved` | the library's refresh and `OnAuthRotated` |
| `Login`, `Logout`, `LogoutEnds`, `Status`, `StatusEnds` | `runLogin`, `runLogout`, `runStatus`; `Exit` with 0 records what it claims |
| `StartCommand`, `StartServer`, `Refused`, `Die` | `main`, a refused environment, a death anywhere |

`calm` and `promise` are history: whether another process has changed an entry
since this one started, and what the last exit with code 0 says of the
entries. Two processes that write at once may leave a mixture of two bundles;
no lock prevents it and nothing promises more. The properties say what holds
for a process nobody interferes with, and that even then a session which could
be loaded stays loadable.

### 2.4 `Server` and `Tools`: handlers over the account

`Server` follows `main` and `RunWithOptions`: `stage` is where the process is,
`serve` is what `errCh` holds or will hold, `signalled` that the context is
cancelled, `code` the exit code. `SelectError` and `SelectDone` are the two
branches of the `select` in `serveSSE`; `ShutdownDone` drains `errCh`;
`ForceExit` is the `AfterFunc` of `main`.

In `Tools` a handler is the sequence of its requests (`Whoami`, `SetCatchAll`,
`UpdateAddress(given)`, and so on, one definition per handler); a call runs it until the
first error. `Registered` are the tools the two gates let in. `Invoke` is a
request over the transport with the bearer check; `Invalid` a refused argument;
`Succeeds`, `Refused` and `Lost` one request with the answer, with an API error,
and with an effect whose answer never comes; `Edit` the owner in a browser. `Undone`
is what the library takes back when a later label batch fails: the earlier ones
when Proton refused the batch, nothing when it could not be sent or the undo
fails too.
`After` is what a request does to the account, `Possible` when Proton, or the
lookup in `set_catchall`, lets it succeed. A setting holds who wrote it last.
Batched requests of the library (labels, marks, deletions of more than 150
messages) have two batches.

### 2.5 The algorithms

`ProtErr`, `Decrypt`, `Events` and `Inputs` define functions without state. A Go
function that returns a value or an error returns `Ok` or `Err`; its early
returns are a list of `Probe`s of which the first that holds decides (`First`),
in the order of the code. The codes of tool errors are written without their
common prefix `proton/`. In `Decrypt` the three tools go the whole way from the
client to the plaintext: `Client` with a refresh that is refused and the
unattended login it may start, `Keyrings` with the self-heal of a denied scope
(`HealScopeDenial`: logged in and unlocked again, challenged, or declined),
which may be spent, and then the keys. An error that `Map` has made is `Mapped`,
in which a second `Map`, as `client()` of the tools does, finds nothing. A name
in a log record is the sequence of its parts, so that a sensitive substring, in
either case, is a part. `Algorithms` has one step per function: it takes one
of the inputs and stores what the function gives, and the properties compare
that with what it should be. Loops are folds, or set definitions where their
order does not matter; the body of a loop is an operator of its own (`Hook`,
`Better`, `Step`, `AddEvent`, `AddCalendar`).

### 2.6 Assumptions about the environment

* Each call of `keychain.Store` is atomic in `Session`. `CredFile` shows it of
  the file store's saves and loads. The OS keychain backend is not atomic:
  `Deployment` has it entry by entry.
* Proton honours no pair of a UID and a refresh token from two different
  sessions, and a refresh retires the token it used (`Honoured`).
* In `Tools` Proton refuses an address as a catch-all that does not exist, and
  requests for things that are absent; a rename or a change of keys elsewhere
  is not modelled.
* In `Decrypt` a key opens or does not, and a ciphertext is sealed to a key that
  is held, to another, or to none. The parsers of iCalendar and RRULE are
  libraries: an event has a start or a list of times, or does not parse.
* An opened file keeps its contents while another is renamed over its name, so
  reading the document is one step. The kernel releases the flock of a dead
  process. A rename is durable some time later; what it makes durable of a file
  that was not synced is torn. Platforms without flock (`flock_other.go`) have
  no lock and are not modelled.
* The checks of the state directory (`prepareDir`, ownership, modes) are
  failures without a cause. Temporary files left by a death are never read and
  not counted.
* The library (go-proton-api, not in the repository) handles one refresh per
  client at a time and calls the handler before the next one.
* `proton.Client.Close` returns at once. Whether it can wait for a refresh
  whose handler waits for `mu`, which `Logout` holds, cannot be seen from the
  repository.
* A refresh that Proton accepts may omit the scope, and may return a
  zero-valued `Auth` (`"noop"`): the code handles both.
* One calendar stands for all: each has its own cache entry.

## 3. Runs

Every run of `Session` has two or three goroutines, interchangeable (symmetry),
except where liveness is checked, where no symmetry is used.

| Run | Question | Instance |
|---|---|---|
| `session_daemon` | In the server, are caches, in-memory tokens and latches right? `TypeOK`, `KeyringsUnlockedOnce`, `CurrentFollowsClient`, `UnattendedLoginsBounded`, `LatchHeld`, `KeyringsNeverWiped` | 2 goroutines, 3 sessions, 2 generations, every fault but the zero-valued reply, crashes, revocations |
| `session_rotation` | Does the store end up with what a restart needs? `PersistedIsNewest`, `DegradedIsExact`, `PersistedNeverRegresses` | 3 goroutines, 3 sessions, 4 generations, every fault |
| `session_login` | Are credentials and session kept together, is a poisoned store left alone, does every call return? `CredsPairSession`, `PoisonedNeverColdStarts`, `CallsReturn` | 2 goroutines, login and logout against cold starts |
| `session_heal` | Does a process without a client recover, and does no self-heal block another call? `ColdSelfHeals`, `CallsReturn` | 2 goroutines, lost replies, revocations, logins that succeed, sessions with and without full scope |
| `credfile` | Does the file store implement the abstract one, parse after every failure, and give its lock back on every way out of a merge? `TypeOK`, `NeverTorn`, `ImplementsStore`, `CallsReturn` | 2 processes, one bundle of each kind, deaths and power losses at every point |
| `deployment` | Do the commands and the server leave the entry-wise keychain as they say, whatever fails half way? `TypeOK`, `LoginStoresBoth`, `LogoutLeavesNothing`, `StatusKeepsTokens`, `UndegradedIsStored`, `OnlyClearMakesUnreadable` | 1 server with its self-heals and the clients they replace, 1 slot for commands one after another, 2 accounts (one with a TOTP secret), 2 sessions, 2 generations, entries that fail, a backend that is down, deaths |
| `tools` | Do handlers report what they did, do the gates hold, does a signalled process end? `TypeOK`, `AppliedAsReported`, `ReportsOwnUpdate`, `CatchAllOnDomain`, `WhoamiReportsOwnRotation`, `ServeFailureReported`, `GatesHold`, `SignalledEnds` | 2 calls of any tool, 2 addresses, 1 browser edit, 1 rotation that changes the flag, 6 environments |
| `algorithms` | Do the functions agree with what they are for? `DiagnosisFits`, `OneKeyIsEnough`, `ListingFaithful`, `TwoFactorKeepsTokens`, `RefusalsReadTheSame`, `SenderCanSend`, `NotLoggedInIsTrue`, `LeavesRedacted` | about 190 000 states, half of them inputs |
| `session_revoked`, `session_status`, `session_down`, `credfile_clear` | findings 1 to 4 below: `RevokedSelfHeals`, `StatusTruthful`, `CredsPairSession`, `ImplementsAtomicStore` | 1 or 2 goroutines or processes with the one fault each needs |

Bounds. A race in `OnAuthRotated` needs a rotation, another one or a cold start
and a third thread that looks at the result: three goroutines, four
generations. A self-heal and the client it replaces are two sessions, a second
self-heal would be a third: `MaxSession = 3` lets a violation of the bound of
one relogin happen (and the mutants of `UnattendedLoginsBounded` and
`LatchHeld` show it would). At the bounds the model never deadlocks or loses
behaviour silently: with no session left a login fails, which the code handles
as any failed login; at the last generation a refresh fails as a transient
error. Both are failures the environment may produce anyway.

A lost update needs two saves, a resurrected document a save and a `Clear`, and
a torn one a rename and a power loss: two processes with unboundedly many calls
one after another reach all of them. A save loads the half it does not change,
so one bundle of each kind lets it be seen to write back an old other half; for
any number of bundles there is `Refinement`.

In `deployment` a partial save needs one process, a mixture of two bundles two,
and a promise broken by a later command a second command in the slot: one server
and one slot have all of them. Two accounts let a stale entry of a prior login
be told from one of the new, and the account without a stored secret is the one
whose login must delete the entry. In `tools` a property relates two requests
of one call with one of another call or a browser edit between them; two calls
with any tool each give every such triple. The six environments are no gate
open, writes, both gates, the dangerous gate alone, an unusable token and an
unusable backend. In `algorithms` the limit of a listing is 2 instead of 500 and
the window 1 to 2 in times 0 to 3, so that times fall before, on, inside and
behind its ends and a rule can exceed the limit; two calendars, events, members,
parts and responses let the first decide against the second; the HTTP statuses
are all those the code tells apart and some it does not.

Deadlock is checked in every run but `tools`, where the process exits for good,
and `algorithms`, where a function returns once.

Where properties hold. `CurrentFollowsClient` and `PersistedIsNewest` are about
a process that has used one `proton.Client`: the code does not close a client
it replaces, and the replaced client's later rotations overwrite the bundle and
the store (finding 2). `DegradedIsExact` is about the same process: a self-heal
that could not be saved empties the store under a live client (see below), which
is also why `UndegradedIsStored` of `Deployment` leaves out a server whose scope
latch is spent. `CredsPairSession` assumes a backend that fails writes
but is not unreachable (finding 3). `StatusKeepsTokens` is about the next
process to start: a status check retires the tokens in the memory of a server
that is running, and that server, which has a client, does not read the store
again (finding 1 is what it comes to).

Fairness. `FairSpec` is strong fairness of the steps of a call already begun,
per goroutine: the scheduler runs every goroutine, requests and store calls end
(the HTTP client and the OS answer or fail), and `sync.Mutex`/`RWMutex` do not
let others overtake a waiter for ever (their starvation mode and the writer
preference), which is why it is strong. Nothing forces a call to begin, a fault
to happen or not to happen, or a rotation. `LiveSpec` adds that tool calls keep
arriving, since the program only heals when called. In `CredFile` it is strong
fairness of each process's steps: the kernel queues the processes that wait in
flock and passes the lock to each of them. A process that waits in flock has no
step but taking a lock that is free (there is no timeout, and an error of flock
itself is outside the fairness), so only the holder's unlocking lets it on. In `Tools` only the forced exit is
fair: it is a timer of the Go runtime and waits for nothing. Requests may hang
for ever, connections stay open, stdin never close, and a process that got a
signal still ends.

### Findings

1. `session_revoked`: the deployment guide says a revoked token is healed on
   the next call. It is when the process has no client yet; a process that has
   one returns it for ever (`Client`'s fast path), and only a restart heals.
2. `session_status`: a relogin leaves the replaced client open with its auth
   handler. When that client rotates and the reply omits the scope,
   `OnAuthRotated` fills in the scope of the *new* session, and `Status` says
   the keyring can be unlocked with tokens that cannot.
3. `session_down`: `rollbackLoginPersist` takes a backend-unavailable error to
   mean the first write failed; when it was the second, credentials stay
   behind without a session, and nothing says so.
4. `credfile_clear`: `merge` is documented to keep two writers from losing an
   update, but `Clear` removes the file without taking the lock. A save that
   loaded the document before the removal renames it back, and with the bundle
   it saves it puts back the other one, which it never meant to change: what the
   `Clear` removed is the lost update. `ImplementsStore` shows that this is the only way the
   file store departs from an atomic one.

Four more disagreements need no interleaving to be seen. The definitions have
what the code does, and the properties that pass state it as it is:

* A self-heal of a live client whose `SaveSession` fails is rolled back with a
  `Clear` (session.go:842); the relogin drops the error, the client goes on
  working, and `persistDegraded`, "true when the most recent SaveSession write
  failed" (session.go:69), stays false over an empty store. `DegradedIsExact`
  with `Keyrings` among the operations fails in one goroutine.
* `Client` maps a refused refresh, to "forward a stable auth_required code +
  hint" (session.go:517). `client()` of the tools (tools.go:96) maps that once
  more, and a second `Map` finds nothing in an error the first has made: the
  tool reports `proton/upstream`, with the real code in the text of its hint.
  The challenge that an unattended login met goes the same way, also through
  the tools that unlock keyrings.
* Code 9001 in a refusal is `proton/captcha` through the library and the mere
  status, mostly `proton/validation`, through `protonraw` (client.go:42), whose
  errors are to be "mapped through the same taxonomy" (proterr.go:32).
  `RefusalsReadTheSame` has this one exception.
* "Redaction is applied to all attribute names regardless of nesting"
  (log.go:22), but not to the name of a group (log.go:67): under it the values
  of members with plain names are written. `LeavesRedacted` is about each
  attribute's own name.

## 4. Proofs

TLC checks small instances; the theorems hold for every value of the constants.
They assume of them only what the `ASSUME`s name, which TLC evaluates in the runs:

* `Session`: `ThreadsAssumption` (`NoThread` is not a goroutine),
  `BoundsAssumption` (bounds of at least 1), `ChoicesAssumption` (the sets of
  operations, faults and outcomes are of the declared ones). So the results are
  for any number of goroutines, any bounds, operations and faults;
* `CredFile`: `NamesAssumption`, the distinct names of documents;
* `Deployment`: `DeploymentAssumption` (servers are not commands, accounts are
  numbers, the absent entry is no value, bounds of at least 1);
* `Tools`: `ToolsAssumption` (`Old` is not a call, `None` not an address, the
  domain's and the existing addresses are addresses);
* `Algorithms`: `AlgorithmsAssumption`, the shape of the inputs: the tools and
  the request errors there are, the stores `status` may find, log records,
  addresses, responses of any number, no two addresses with one ID, and
  calendars with events whose rule, of any length, yields its times in order (a
  library's promise). Accounts, keys, members, parts and direct responses are
  any. `EventsAssumption`: the window does not end before it starts (`parseWindow`
  refuses it), and the limit is at least 1.

| Theorem | States |
|---|---|
| `TypeCorrect` (of `SessionProofs`) | `Spec => []TypeOK` |
| `LocksHeld` | `Spec => []LockInv`, the lock discipline |
| `LocksExclude` | two goroutines are never in a section of the same lock |
| `UnlockSingleFlight` | `Spec => []KeyringsUnlockedOnce` |
| `PoisonRespected` | `Spec => []PoisonedNeverColdStarts` |
| `NeverRegresses` | `Spec => PersistedNeverRegresses` |
| `CurrentFollows` | `Spec => []CurrentFollowsClient`, without `Logout` (`NoLogout`) |
| `StorePaired` | `Spec => []CredsPairSession`, for `PairProfile` |
| `NewestPersisted` | `Spec => []PersistedIsNewest`, for `CustodyProfile` |
| `FlagExact` | `Spec => []DegradedIsExact`, for `CustodyProfile` |
| `LatchNeverReset` | `Spec => LatchHeld`, for `ServerProfile` |
| `LoginsBounded` | `Spec => []UnattendedLoginsBounded`, for `ServerProfile` |
| `KeyringsKept` | `Spec => KeyringsNeverWiped`, for `ServerProfile` |
| `TypeCorrect` (of `CredFileProofs`) | `Spec => []TypeOK` |
| `FileInvariant` | the inductive invariant of `CredFile` |
| `DocumentWhole` | `Spec => []NeverTorn`, for `CredFile` |
| `Refinement` | `Spec => ImplementsStore`: `CredFile` implements `CredStore` |
| `TypeCorrect` (of `DeploymentProofs`) | `Spec => []TypeOK` |
| `LoginIsStored` | `Spec => []LoginStoresBoth` |
| `LogoutClears` | `Spec => []LogoutLeavesNothing` |
| `StatusSaves` | `Spec => []StatusKeepsTokens` |
| `UndegradedStored` | `Spec => []UndegradedIsStored` |
| `ClearAlone` | `Spec => OnlyClearMakesUnreadable` |
| `Inductive` | `Spec => []IInv`, the inductive invariant of `Tools` |
| `TypeCorrect` (of `ToolsProofs`) | `Spec => []TypeOK`, for `Tools` and `Server` |
| `ReportsAreTrue` | `Spec => []AppliedAsReported` |
| `Gated` | `Spec => GatesHold` |
| `CatchAllChecked` | `Spec => []CatchAllOnDomain` |
| `UpdatesReported` | `Spec => []ReportsOwnUpdate` |
| `WhoamiReports` | `Spec => []WhoamiReportsOwnRotation` |
| `FailureReported` | `Spec => []ServeFailureReported` |
| `DiagnosisRight` | `Spec => []DiagnosisFits` |
| `OneKeySuffices` | `Spec => []OneKeyIsEnough` |
| `RefusalsAgree` | `Spec => []RefusalsReadTheSame` |
| `StatusIsTrue` | `Spec => []NotLoggedInIsTrue` |
| `LogIsRedacted` | `Spec => []LeavesRedacted` |
| `ListingIsFaithful` | `Spec => []ListingFaithful` |
| `TokensAreKept` | `Spec => []TwoFactorKeepsTokens` |
| `SenderIsAble` | `Spec => []SenderCanSend` |

Profiles. Some properties of `Session` are true only of a process that leaves
some operations alone, and the theorem names them as its hypothesis:

| Profile | Operations | Why |
|---|---|---|
| `ServerProfile` | neither `Login` nor `Logout`: the server | both reset the latches and the caches on purpose, and a self-heal can overlap them |
| `NoLogout` | no `Logout` | a rotation of a client that `Logout` closed is applied to the session that follows |
| `PairProfile` | neither rotations nor restarts, and a backend that is not `"down"` | `OnAuthRotated` can write a session into a store that `Logout` has emptied; a death falls between two writes; finding 3 |
| `CustodyProfile` | no login or self-heal beside a live client: `Client`, `Raw`, rotations, restarts, revocations | the replaced client's handler writes too (finding 2) |

Each profile contains the operations of the run that checks the property. None
could be dropped: TLC finds a counterexample to `CurrentFollowsClient` with
`Logout`, to `CredsPairSession` with rotations, with restarts and with `"down"`,
to `PersistedIsNewest` and `DegradedIsExact` with `Keyrings`, with `Login` and
with `Logout`, to `LatchHeld` and `KeyringsNeverWiped` with `Login`, and to
`UnattendedLoginsBounded` with `Logout`.

### 4.1 The locks of `Session`

`TypeOK` is inductive with the assumptions; the lemmas treat one group of
actions each. The theorems about locks rest on one inductive invariant, `LockInv`. None of
the three properties is inductive: that nobody fills the cache during an unlock
needs that the thread in the unlock is the holder of `unlockMu`, *and* that it
still is after `Client()` and the relogin it called returned to it, which is
what `frame[t].phase` records. `LockInv` therefore says, per goroutine: at a
position inside a `mu` section it is the holder of `mu`; in phase `unlock` or
`retry` it is the holder of `unlockMu`; at each position the phase and the
reason of the login are ones that lead there; and the conditions that
`KeyringsUnlockedOnce` and `PoisonedNeverColdStarts` read are stable while the
lock is held.

The argument is rely/guarantee. A thread's part of the invariant reads only its
own `pc` and `frame`, the two locks, the cache and `poisoned`. `Footprint`
says what a step of another thread may do to those: leave them alone, take a
lock that is free, release one it holds, or write what the lock it holds
guards. A lemma shows that every step of the other threads has that footprint,
and another that a footprint preserves a bystander's part; what is left is the
acting thread itself, one step per action. The other invariants of `Session`
are proved in the same form: what each step does to the tokens, the store and
the flag is stated once per action (`LoadEffect`, `RefreshEffect` and so on),
and the invariants use only that.

### 4.2 The tokens of `Session`

`NeverRegresses` is about all writers at once, two of which hold `mu` while
they write and one of which, `OnAuthRotated`, does not. `WriteInv` says: the
bundle of a rotation that has not been saved has the newest generation Proton
issued for its session and is newer than the store's (`WriteOf`); a second
thread may hold tokens of that session only in a cold start, older ones, and
once that is about to save them the rotation has not yet been applied, because
it needs the `mu` which the cold start holds (`Apart`); a login's session is
unknown to the store and to every client. It is inductive because nobody can
get newer tokens meanwhile: the client that rotated handles one rotation at a
time, and a cold start would have to read the newest generation from a store
that does not have it. This is why the program is safe although a rotation's
save is not ordered with the others by any lock.

`CurrentFollows` needs `CurrentInv`: the client is among the open ones; if it
is the only one, bundle and bearer are its tokens or some handler is still to
apply its rotation; and a handler's tokens are always those of an open client.
`StorePaired` needs `PairInv`: the store belongs to whoever holds `mu`, and at
each position of the login path it is known which of the two bundles is there.
`NewestPersisted` and `FlagExact` need `CustodyInv`: a thread in a cold start
or in `OnAuthRotated` is the only one with the session in its hands; its
bundle, the store and the outcome of its save are what its position says; and
when nobody is at either, flag, last write and store agree.

`LatchNeverReset` adds `LatchInv` to `LockInv`. The step to be excluded is
`PersistSession`, which assigns FALSE to the latch on every path. On the cold
path the latch cannot be set: it is only ever set when a client exists, a
client never goes away in a process that does not log out, and a thread on the
cold path holds `mu` and saw none. On the healing path it cannot be set because
the thread saw it unset and still holds `unlockMu`, which whoever sets it needs
too. So `LatchInv` says, per goroutine, that the client is absent in the cold
section and present after `Client()`, that the latch is unset in the healing
section, and that a bundle about to be adopted belongs to a real session
(otherwise adopting it would look like having no client). `Kept` is the rely
condition: how another goroutine's step may change the client and the latch.

`LoginsBounded` and `KeyringsKept` add `BoundInv`: a cold relogin that was
counted is under way or has left a client or its latch behind, a counted
self-heal is under way or has left keyrings, its latch or a counted passing
error behind (`CountOK`), and cached keyrings imply a client and stay
(`CacheOK`).

### 4.3 The stores

`FileInvariant` says that a process between its load and its rename holds the
lock, and that its buffer is its change applied to the current document or to
the one a `Clear` removed since; that only such a process has an unsynced
temporary file; and that the file and the disk hold whole documents. The
refinement is then one lemma per action: `Rename` maps to `Save`, the removal
to `Clear`, returns and loads to their like, and the rest to stutters. The
constants are arbitrary sets with the distinct names of `NamesAssumption`.

`Deployment`'s properties relate the entries to what a process did, which an
entry-wise store says nothing about until the last entry. Its `IInv` says of
every call which entries it is done with (`Done`), and that a load has the
values it read and a save a whole bundle (`CallOK`); of every process that its
position, command, memory and call fit (`ProcOK`); of a process nobody interfered with
(`calm`) that the entries its call is done with have its values, that the tokens
of a server that is neither degraded nor has its scope latch spent are in the
entries, and that a login that saves its
session has its credentials there already (`Knows`); and of a process that has
exited, that the entries still are what its promise says (`Holding`). A step of
another process that changes an entry takes the calm and the promise away, one
that changes none keeps both. `ClearAlone` needs no more than the types: of all
the steps only `DeleteEntry` empties an entry of a session, and only a `Clear`
has it.

### 4.4 The tools

`IInv` says of every call of `Tools` how far it has come in its program: there
is a `k` such that what is left is the program from `k + 1` on and what is done
are its first `k` requests (`Reached`). `AppliedAsReported` alone is not
inductive, because it does not know what is left to do. Four facts about the
programs make the steps go through, and are proved of every tool a gate lets in
(`RegisteredPrograms`, over the definitions of the handlers): each request is
one the gates allow (`Allowed`), which with `AfterGates`, what each request may
change, gives `GatesHold`; no request recurs across another that counts
(`Spread`), so that a request found done tells how far the call is; a catch-all
is written right after the lookup (`Routed`), so that at the write the argument
is an address of the domain; and a program that sets something ends with a
request that does (`Concluded`), so that the answer an update returns was given
after its last write. The undo of a label batch, which may or may not happen,
is the one place where a program goes back. `session_status` stands apart, since it goes on after an
error: for it nothing is claimed of `done`.

`UpdatesReported` adds `UpdateInv`: a setting in anybody's `done` has been
written by some call, and no request takes that back. `WhoamiReports` adds
`WhoamiInv`: a whoami that has its user and not yet its status has the present
value of the flag in `flags`. A rotation keeps it so by adding the new value,
and no other step writes the flag.

### 4.5 The algorithms

A function with early returns is a list of probes, so the lemma that carries
these proofs is `FirstAnswers`: if the last probe holds, the result is that of
a probe that holds and before which none does. (The least index comes from the
well-foundedness of the natural numbers; a list may have any length.) From it
each function gets a lemma of its own that says when it returns what:
`UnlockAnswers`, `ResolveAnswers`, `BodyAnswers`, `PartsAnswer`, `MapAnswers`.
`DiagnosisRight` then follows from `EndsRight`: a decrypting tool ends with the
error of the request that failed, or with a challenge met on the way, names the
scope exactly when Proton denied the salts to the last unlock that was tried,
and speaks of a locked keyring only where the password is wrong or no key
opens (or, for an event, its calendar's do not); `Map` keeps these apart. In
`OneKeySuffices` the number of addresses, members and keys is arbitrary, and the
unlock that serves may be the one after a self-heal. The response in
`RefusalsAgree` is any, with human verification as the one stated exception, and
so are the attributes of a record in `LogIsRedacted`, which is about each
attribute's own name. `StatusIsTrue` says what `status` tells of the other
backend; of the exit code it says nothing: `status` exits with 0 after any
failed refresh of a session it does not know to be degraded.

Three results are about loops, written as folds. A fold is defined by a function
on sets of indices that it chooses, and the induction theorems of the library
cannot be applied to it (they take an operator). The proofs go around that in
three lemmas about sets and functions only, which any loop can cite:
`LoopInduction` (a set of indices that has 0 and, with `k - 1`, has `k` has them
all: there is no least index it lacks), `FoldExists` (a function that the fold
may choose exists: the one for the indices below `m` extends to `m` by one pass)
and `LoopOf` (its values on `1..k` are the states of a loop). Each loop then has a lemma
that there is a sequence of states, from the first to the result, of which each
is the body's of the one before, in every set the body keeps: `HookLoop`,
`BetterLoop`, `StepLoop`, `KeepLoop`, `EventLoop`, `CalendarLoop`.

* `TokensAreKept`: after `k` responses the hook holds the tokens of the last
  usable one among them, or none.
* `SenderIsAble`: after `k` addresses the best is one of the lowest order among
  those that can send, or there is none.
* `ListingIsFaithful` compares a listing with cardinalities of sets of places (a
  calendar, an event, an occurrence). The invariant of its loops says it with
  functions: a sequence `Draws` from a set of places if there is an injection
  from its entries to places of their times, onto all places if nothing was cut.
  Draws can be joined (`DrawsJoined`), extended (`DrawsAppended`), renamed and
  permuted, which the sort needs; in the end they bound the cardinalities
  (`DrawsCounted`, `DrawsAllOf`). `IterateRight` has it of the expansion of one
  rule, where the order of its times lets the iteration stop at the first after
  the window; `Counts` of the inner and the outer loop, up to event `j` of
  calendar `i`, together with the number of events passed over, and that the
  listing ended exactly when it is full. `Opened` says that a listing that has
  not failed read every calendar so far. That the chosen order of `Sorted`
  exists at all is `OrderExists`.

### 4.6 Only model-checked

* Liveness, which is out of the prover's reach: `CallsReturn` (of `Session` and
  of `CredFile`), `ColdSelfHeals`, `SignalledEnds`.
* The four findings (section 3): a counterexample is all there is to show.

## 5. Plan

What was planned and is there: the session, the two stores, the processes over
the keychain, the server with its tools, the algorithms, and the theorems above.

Next, proofs, in this order:

1. A wider profile for `NewestPersisted`: with logins, as long as no second
   client is open, as `CurrentFollows` has it.
2. A property of `Deployment` that relates two servers on one keychain, and its
   proof.

Not modelled, and why:

* the generation of TOTP codes, the version header, URL building, header and
  address formatting, messages and hints of errors: formatting, which no
  property is about;
* the cryptography and the parsers of iCalendar and RRULE: libraries;
* prompts and arguments of the commands, bytes on the wire of the transports:
  pure I/O;
* paging and the contents of listings other than the events: no state, one
  request, nothing to go wrong that the type of the reply does not show;
* `internal/version` and the tooling that records and replays HTTP for tests:
  not part of the running program;
* the data race on the header map that `Raw` shares with a rotation (a hazard
  without a property), and what `proton.Client.Close` may wait for: the code that
  decides them is not in the repository.
