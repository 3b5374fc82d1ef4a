# Verification of OpenSigner

OpenSigner splits a wallet's key into shares. This directory holds TLA+ models of
the parts of the repository that keep those shares and decide who gets them, the
TLC runs that check them on small instances, and TLAPS proofs of what matters most
for every value of the constants. Paths below are relative to the repository root.

## The system

| component | state it keeps | operations | hard behaviour |
|---|---|---|---|
| hot storage, share store (`hot_storage/sample/handlers.go`, `models.go`) | `devices`, `signers`, `accounts`, `migrated_account_data` in Postgres | 15 endpoints of `apiMux` | one goroutine per request; most handlers read in several statements without a transaction; four open one; unique indexes serialise clients' ids; revocation is a conditional UPDATE |
| hot storage, start (`main.go`, `db.go`, `crypto.go`) | the encryption key, the share format | migrate, count unbound shares, serve or exit | what an earlier life left in the tables decides whether the process serves |
| key set cache (`jwk.go`) | map of key sets under a readers-writer lock | validate a token | double-checked fetch under the write lock |
| rate limiter (`ratelimit.go`) | visitors and their buckets under a mutex | allow, sweep | eviction against refill |
| request pipeline (`middleware.go`, `auth.go`, `config.go`, `crypto.go`, `main.go`) | the configuration read at start | start checks, CORS, content type, token extraction, provider choice, validation | what a browser sends at all depends on a preflight; keys are replaced under a cache |
| auth service (`auth_service/src`) | users, sessions, signing keys, in the better-auth library | sign-in, token, key set, origin check | start checks; client address behind a proxy |
| iframe gateway (`iframe/iframe_nginx.conf`) | none | origin subrequest before the iframe is served | fails closed |
| sample page (`iframe/sample/index.html`, `keys-client.js`) | tokens, project credentials, pending credentials, iframe connection, passkey result: global variables | asynchronous functions behind buttons | functions interleave at each `await`; answers are late, lost or cut off |
| cold storage (Shield), iframe worker | outside the repository | shares, credential rotation | seen only through the page's calls |

A request to hot storage passes CORS, the content type check, authentication (key
set cache), the rate limiter and then one handler, which alone touches the
database. The page calls the auth service for a token, hot storage and cold storage
with it, and hands tokens and shares to the iframe worker. Hot storage and the page
never share memory; hot storage's handlers interact through the tables only.

What makes each part correct: the store must keep wallets whole (an account, its
signer and exactly one live primary device) and apart (no two accounts share a
signer, an id or an address), serve a share only to the subject that submitted it
for that device, and never serve a revoked one; the limiter must bound what a user
does in every window of time and forget users it has not seen; the cache must hold
one key set an address; the page must never throw away the only credential that
cold storage still accepts.

## Modules

| module | models | checked by |
|---|---|---|
| `ShareTables` | rows, encryption as binding to a device and a key, queries, unique keys and the rows a transaction has locked | with `HotStorage` |
| `HotStorage` | one action per statement of a handler that reads or writes the database, transactions, faults, lost replies, crash and boot, an operator's hand on the tables | `MCHotStorage` |
| `HotStorageProperties` | the properties of the store, and the refinement mapping to `ShareRegistry` | `MCHotStorage` |
| `ShareRegistry` | what the store promises: a wallet is opened at once or not at all, a device revoked once and for good | by refinement |
| `HotStorage_proofs`, `HotStorageWallets_proofs`, `HotStorageDevices_proofs`, `HotStorageAnswers_proofs` | proofs, each on top of the one before | TLAPS |
| `RateLimiter` | `visitors`, the mutex, buckets, sweeper, time in ticks of one token | `MCRateLimiter` |
| `TokenBuckets` | one everlasting bucket per user | by refinement |
| `RateLimiter_proofs` | proofs | TLAPS |
| `KeyCache` | `getOrCreateKeyfunc` around the readers-writer lock | with `Admission` |
| `RequestChain` | what a browser sends, CORS, content type, token delivery: the decisions about one call that need no state | with `Admission` |
| `Admission` | composes both: start of the process, a call's way to the rate limiter, tokens and claims, providers that replace their keys | `MCAdmission` |
| `Admission_proofs` | proofs about `KeyCache`, `RequestChain` and `Admission` | TLAPS |
| `Rotation` | the rotation functions and project creation of the page, and cold storage's side of them | `MCRotation` |
| `Rotation_proofs` | proofs | TLAPS |
| `Session` | the page's sign-in, tokens, iframe connection, worker requests and recovery dialog | `MCSession` |
| `Session_proofs` | proofs | TLAPS |

### The share store

`job[w]` is the goroutine of one request: `pc` names the statement it executes next,
and the transaction it has open holds the rows it has inserted (`writes`), which no
other reader sees (READ COMMITTED) but whose keys other inserts wait for. A handler
is a chain of actions, e.g. `CreateDeviceV2` (the Unscoped lookup), `InsertSigner`,
`InsertPrimaryDevice`, `InsertAccount`, `Commit`. An insert is enabled when nobody
else holds the key uncommitted; it fails when the key is taken, and the handler
answers as the code does. `DbFails` is an error of any statement,
`CommitReplyLost`, `AddDeviceReplyLost` and `RevokeReplyLost` are writes whose
confirmation is lost; `Crash` ends every request and rolls open transactions back,
and `Boot` runs the startup check. `MoveCiphertext` and `SoftDeleteAccount` are the
hand of an operator: no endpoint does either, but the code defends against both
(`boundSharePrefix`, `Unscoped`).

A share is `[secret, fmt, dev, key]`: the plaintext is whose wallet it is and for which
device, the ciphertext names the device id and the key it is bound to. Ids that the
server mints are always fresh; ids that clients choose (`signerUuid`, `account`) may
collide. Counters `faults`, `crashes` and `interventions` bound the environment. Two
histories remember what clients were told: `acked` the revocations, `receipts` every
device and wallet that an answer said is stored, with the key of the process that said
so. No handler reads either; properties compare the tables with them ever after.

### The rate limiter

A tick is the time of one token (100 ms), so buckets hold whole tokens. `Lookup` and
`Decide` are the two readings of the clock inside `allow`, both under the mutex;
`StartSweep` takes the cutoff, `EvictIdle` applies it once it has the mutex. `Tick` may
not run ahead of a request that holds the mutex longer than `MaxHold` or of a sweeper
later than `MaxDelay`: without some such bound the code makes no promise about time.
The constants of the code are `Burst` 20, `TTL` 6000 and `SweepEvery` 600 ticks;
`LifetimeAssumption` says the one thing about them that correctness needs, that a
visitor outlives the refill of its bucket.

### How a request is admitted

In `KeyCache` a request is at one of the lock operations of `getOrCreateKeyfunc`; a
writer announces itself (`Lock`) and then waits for the readers inside (`Drained`), as
Go's `RWMutex` does. A fetch that succeeds is numbered; the number stands for the key
set and for the refreshing goroutine the library starts with it.

`RequestChain` enumerates the shapes of a call (page, method, content type, headers,
how the token is delivered) and says what becomes of each before a key is needed:
`BrowserSends` is the browser's rule about preflights, external to the repository,
applied to the lists of `corsMiddleware`; `Answer` is the order of `buildHandler`.
`ClientCalls` are the shapes `keys-client.js` produces.

`Admission` starts the process from any environment (`Start` is `main`), lets calls
arrive, and composes the two: `Authenticate` chooses the provider and enters the cache,
`Authenticated` looks at a token for the first time, so it is chosen there. A token has
a signer and a key, and claims that anybody can write: `Issued` are those that a provider
signed so far, for this deployment or another, in time or not; `Forged` are signed by
neither and claim what they like. `Signed` looks at the signer only, `Claims` at the
claims only, as `jwt.Parse` does. `keys[n]` is what the set of fetch `n` holds; it is empty when the library got no
answer, and `Refresh` makes it what the provider publishes. `ReplaceKey` is the purge
that `.env.example` and `setup.mdx` prescribe.

### The session

`page` holds the global variables and the parts of the document that functions read;
`call[i]` is one function suspended at an await, with what it keeps for afterwards (a
function reads `userId` before the passkey prompt and `jwtToken` after it). The user
may press anything at any time: nothing in the model makes him wait, except the dialog
that covers the page. `orderly` records whether he happened to wait where the page
does not make him: `OneUser` and `PasskeyFits` say what then holds, so each names what
the page leaves to its user. Hazard notes in `PROJECT.json` say where that is.

### The rotation

`page` holds the global variables; each handler is one invocation of a page function,
suspended in the call it awaits. A handler's step runs from one `await` to the next.
`Together` names which functions the user lets run at the same time: `{"key","part"}`
is both rotations at once, `{"part"}` a double click. Cold storage is modelled from
the calls the page makes and the answers it tells apart. `Lose` drops a call or an
answer, `CutBody` drops an answer's body and keeps its status.

## Runs

Bounds are named in each `.cfg`. Symmetry is used for model values that no property
tells apart, and not in runs of a liveness property.

| run | instance | shows |
|---|---|---|
| `open_wallets` | 2 requests, 2 subjects, 2 addresses, 2 signer and account ids, 1 fault, 1 crash, 1 intervention | openings race on every unique key, fail half way, lose their commit's reply; wallets stay whole and apart, what a client was told is stored stays so through what comes after, and the store implements the registry |
| `revocation` | 2 requests, 1 subject, 3 devices, 1 fault, 2 restarts, 2 keys | a device is revoked once and for good and stays listed; a serving process holds live shares in the bound format only, and of those acknowledged to clients it reads exactly the ones sealed under its own key |
| `serving` | 2 requests, 2 subjects, 13 endpoints, 1 intervention | a share is served to its own subject and device only, and never after its revocation was acknowledged |
| `requests_end` | 2 requests, 1 fault, 1 crash, fair handlers | no request waits for ever |
| `rate_limit` | 1 user, 2 requests, burst 2, lifetime 3, 8 ticks | eviction neither gives nor takes tokens, and forgets in time |
| `admission` | any environment, 2 requests, 3 pages, all shapes of a call, 2 providers, 2 fetches, 2 keys of the auth service | unlisted pages stay out and the page's client gets through; a token opens the door if and only if it should; cached keys catch up; one key set an address, no map race, validations end |
| `rotation` | 2 projects, 2 handlers, 7 credentials, 2 losses, 1 cut answer | the page keeps the encryption part that works, and the API key as long as no answer loses its body |
| `boot_after_revoke` | one request | counterexample: after one revocation the server refuses to start |
| `second_chain` | one subject, two chains | counterexample: registering an address again on another chain is answered 500 |
| `rotation_double_click` | the encryption key button pressed twice | counterexample: the page loses the part |
| `session` | 2 users, 2 imported accounts, 2 functions at a time, 2 iframes | a connection is never to a removed iframe, requests are of one user, a passkey fits the account, timed waits end |
| `native_passkey` | one user, a native and an imported account | counterexample: the owner of a native account is never prompted for the passkey |

Two requests are enough for the store: what a handler reads depends on the tables,
and each race in the code is between one statement and one other request's
statements; a third party appears as the crash, the fault or the intervention. Two
of each id are what a collision needs. Three devices are a primary and two that are
revoked or read concurrently. The limiter's clock runs long enough for a visitor to
be seen, idle out, be swept and come back. In `admission` two requests are a writer and
whoever it must exclude, two fetches are enough for one address to be
fetched twice, and a second key is a replacement. In `session` two
functions are what an interleaving takes, two iframes the one that is removed and the one
that stays; the accounts were imported from two users, so that passkeys of different
accounts differ.

Two more disagreements are in these models and have no run. Of two imports that race on
one address the loser is answered 500, where `hot_storage.yaml` documents 409: both find
the address free, and the unique index stops the second. And an API key rotation
whose answer breaks off after the status line loses the key: `MCRotationDoubleClick.cfg`
with `Together = {}` and `MaxCut = 1` shows it in nine steps of a page on which nothing
else goes on.

## Fairness

`requests_end`: a goroutine that can go on does: weak fairness of `Handle`, the handler
steps of one request, and nothing else. That is enough for an insert that waits for
another's row, because whoever holds the row is itself a handler that goes on, and what it
leaves behind stays. No fairness on arrivals, faults, crashes, starts or the operator.
`admission`: `Unlock` lets all waiting readers in before the next writer and the mutex
between writers passes to the longest waiter, hence strong fairness of `RLock` and
`Lock`; a fetch ends, by answer or by the client's timeout; and the library's goroutine
refreshes every set again and again. `CHECK_DEADLOCK FALSE` there, because a process with
a wrong configuration exits. `session`: only the two timers, the 5 s of a connection and
the 30 s of a recovery; the worker, the network and the user owe nothing.

## Proofs

TLAPS checks every theorem for all values of the constants that satisfy the named
assumptions: any number of requests, subjects, ids, faults and users.

**Share store.** `TypeCorrect` (in `HotStorage_proofs`) says that every reachable state is well
typed; it needs one fact more than the types, what each place in a handler has already
read, because a step uses what an earlier one found. `AccountsKeepKeys`, `OnePrimaryEach`
and `WalletsWhole` (in `HotStorageWallets_proofs`) are `OneAccountPerKey`, `OnePrimary` and
`NoOrphans`. None of them is inductive: a commit publishes rows that were inserted some
steps ago, when the tables were different. The inductive invariant `WalletInv` adds, for
each request,

- `StagedOK`: what its transaction has inserted so far is exactly the part of a wallet
  that its place in the handler says,
- `FoundOK`: the signer of the account it looked up is stored when it adds to it,
- `ApartOK`: its staged rows share no unique key with the stored rows or with another
  transaction's, which is what waiting on an uncommitted key buys.

The proof has one lemma per statement of a handler. Assumptions: `NoneAssumption`,
`BoundsAssumption`, `OpsAssumption`, `RowsAssumption` (`None` is no secret, account or
device); the kinds of request in use are a parameter.

**Device rows.** `HotStorageDevices_proofs` proves `PrimaryShareIsOwn` (`PrimaryHoldsOwnShare`), `DeviceRowsStay`
(`DeviceRowsAreKept`) and `RegistryImplemented` (`ImplementsRegistry`). `DeviceInv` adds to
`WalletInv` what the rows hold: live rows are in the bound format whenever a process
serves (`BoundFormat`); device ids are unique, in the tables and from the request
that draws one to the row (`IdOK`); a row is empty exactly when it is revoked; a share
that is sealed names a stored device and a secret submitted for that device and its
wallet, wherever an operator has copied the ciphertext (`SealedOK`); and a handler that
has found an account inserts into that account's wallet (`FoundOwn`, `StagedRows`). For the
refinement each action is shown to be one of `Open`, `Add`, `Revoke` or a stutter: a commit
opens a wallet, since by `StagedOK` all its rows come at once, and everything else that
writes touches secondaries or revocation marks only.

**Answers.** `HotStorageAnswers_proofs` proves `HeldIsConflict`, `OnlyOwnShares`, `RevokedIsHidden`, `OwnDevicesListed`,
`RevokedDevicesListed`, `RevocationIsWonOnce` and the action property `FoundSharesServed`
(`FoundIsServed`). An answer promises something about rows. `GoodAnswer` lists the
promises, of the request, the answer and what was known when the request came; `AnswerInv`
says that every answer given keeps them, that what was known then is still so (`PastOK`),
and what a handler between arrival and answer has established (`ProgressOK`). The step
that answers makes the promises true; every later step keeps them because accounts and
device rows are kept and revocations final. `OneRevokeWins` is counted by the tables: an
acknowledged revocation belongs to a row that is revoked, and the conditional UPDATE finds
none twice.

`SuccessStays` (`SuccessIsDurable`) and `SharesAreReadable` (`ServingIsReadable`) are about
every answer ever given, whatever happened since. `ReceiptInv` adds to `AnswerInv` that each
receipt names rows that are stored, and that its device's share, until it is revoked or an
operator comes, is sealed for that very row under the key of the process that answered; and, for a request whose answer is
still to be written, that the rows it will name are stored and sealed under the key of the
process that runs. A crash ends every request, so no answer outlives its process; the rows
and their receipts do, under whatever key the next process starts with.

**Rate limiter.** `RateLimiter_proofs` proves `TypeCorrect`, `IdleForgotten`
(`VisitorsAreRecent`), `BurstBounded` (`WindowBound`) and `BucketsImplemented`
(`ImplementsBuckets`: every step is a step of `TokenBuckets` or a stutter). The invariant
`Inv` says that a bucket was last charged within `MaxHold` of its visitor's `lastSeen`
(`SeenInv`), how far the ticker may be behind (`SweepInv`) and how old what it left can be
(`AgeInv`). An eviction then finds a bucket untouched for a whole refill, so that
`BucketLevel` does not change (`KeepsLevel`); this is where `LifetimeAssumption` is used.
`MutexComesBack` (`HolderDecides`) is that the mutex is never left behind.
`BurstBounded` needs an accounting on top, `PaidOf`: since any request that was let
through, what was spent since and what is left are covered by the burst and the ticks
gone by. The run `rate_limit` has one user; the theorems are for any set of users, which
is how "no user's requests are paid for by another" is established.

**Admission.** The key set cache is proved about by itself, for its own next-state
relation. `CacheInv` (theorem `CacheCorrect`) says that the writer is the one the mutex
names, that no reader is inside once it is past `Drained`, and that while a set is fetched
and stored its address has none, which is what looking again under the write lock
establishes; hence `OneSetEach` and `MapIsGuarded`. `ChainUsesCache` shows that every
behaviour of the chain is one of the cache, so all of it holds there. `AdmissionInv` adds
where a call may be, given how far its validation is, and gives `ForeignStayOut`,
`ClientsServed` and the action properties `OnlyOurTokens` (`AdmittedForUs`) and
`RefusalHasCause` (`RefusedForCause`). The first two need that no unlisted page can make any of the calls of
`RequestChain` past the preflight and the content type, and that the page's own client can
(`ArrivalsInOrder`, over all shapes of a call, for any origins and any allow list). `OnlyOurTokens` goes from the signature to the signer: every set that the
cache holds was fetched from the address it is held under, so it has keys of that provider
only, and only that provider signs with them. The claims do not enter into it: without the
look at the signature the property fails, whatever the claims say.
Assumptions: `KeyCacheAssumption`, `OriginsAssumption`, `AdmissionAssumption` (the two
providers of the code), `NoneAssumption` (`None` is
neither a token nor the sender of a call).

**Session.** `ConnectionLives` holds whatever the visitor does. `OneUser` and `PasskeyFits`
are about a visitor who waits (`orderly`), and need what he can rely on: `UsersInOrder`
(signed in, token and client are those of the session's user; one function at a time
changes who he is) and `PasskeysInOrder` (one authentication at a time, of the account in
the open dialog; a closed dialog keeps nothing). Both are part of `SessionInv`, under the
hypothesis `orderly`; `SessionAssumption` is the only assumption.

**Rotation.** `TypeCorrect` holds whichever functions run together. `KeyKept` and `PartKept`
are theorems with the hypothesis `OneAtATime`, that the user does not start a function
twice, nor beside the creation of a project: both rotations may run side by side. Without
it they are false, as `rotation_double_click` shows. `KeepsKey` and `KeepsPart` are not
inductive: that what is current is held or pending survives a commit only because the page
and cold storage agree on what the commit is about. `RotationInv` adds that functions under
way are the two rotations at most (`Apart`), that a rotation is about the page's project,
that nothing of its kind is pending while it prepares and what is pending is what it sent
while it commits, and that what it hears is so: after a success the new credential is
current, after a refusal that the page takes as definitive the held one is (`InStep`). The
last holds of an API key only while no answer was cut off: after that the page sends an
empty credential, is refused, and drops what it never had. `NothingIsLost` concludes that
without such an answer the comment above the two functions is right, for that user.
Assumptions: `RotationAssumption`, `StoredAssumption`.

## Only model-checked

Liveness: `EveryRequestEnds`, `KeysCatchUp`, `ValidationEnds` and `WaitsEnd`, which need
fairness and ENABLED and are out of the prover's reach. The four runs that expect a
counterexample are single executions. Every invariant, every action property and both
refinements that a passing run checks are theorems.

## Not modelled

Empty strings as ids or addresses, the limit of 100 rows in a listing, JSON and HTTP
details, `/health`, fractions of a token, a token without a subject, the listing order;
the page's buttons for cold storage shares and its share imports, one call each. The
iframe worker and cold storage are images outside the repository. Components with status
`not_modelled` in `PROJECT.json`, each with its reason.

## Plan

1. Proofs: shorter leaves where a step cites more than it needs.
2. The iframe gateway's origin check, against the auth service's list of origins.
