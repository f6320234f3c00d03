# A verification project for usrak

usrak is an authentication backend for FastAPI: cookie sessions made of signed
tokens, API tokens, sign-up and OAuth, and user management by administrators.
It runs as asyncio coroutines on one event loop per worker process. Between two
`await`s a handler runs alone, at each `await` any other request may move on,
and every key-value operation runs in a thread of its own. This directory holds
TLA+ models of its stateful parts, the TLC runs that check them and TLAPS
proofs about them. Paths below are relative to `src/usrak/`.

## 1. Inventory

| Component | Code | State it keeps | Operations | What makes it hard | What makes it correct |
|---|---|---|---|---|---|
| Session tokens | `core/managers/tokens/{auth,base}.py`, `core/security.py` | one registered jti per user and token type, in the key-value store | create access/refresh, validate, rotate, terminate all | each is several awaits; requests of one user interleave on the same two keys; two clocks (JWT `exp`, store deadline) | a revoked token stays revoked, one refresh token yields one session, logout ends everything, an old password carries nothing |
| Session routes | `routes/{login,logout,refresh,check_auth,user}.py` | none; the cookies are the client's | sign-in, check, refresh, logout | a user row read before an await and used after it; responses lost; old cookies shown again | as above |
| LMDB store | `core/managers/key_value_store/lmdb_store.py` | JSON values with a deadline | get/set/delete/expire, hash commands, watcher thread | late deletion of an expired key, threads against the watcher, restarts | keys live to their deadline, not after, and are purged |
| In-memory store | `.../in_memory.py` | two dicts under a lock | the same | hash fields that outlive their key's deadline | the same contract |
| API tokens | `routes/tokens.py`, `auth.py`, `core/resolvers/api_token.py`, `core/models/tokens.py` | rows of a table shared with the application | create (limited), list, delete, resolve | count then insert, read then commit, expiry while a request waits | bounded per owner, revoked by their owner only, never admitted once revoked or expired |
| User management | `routes/admin/register.py`, `core/policies/user_management.py`, `core/roles.py` | users, roles, rules | create, update, deactivate | roles read before the commit, version computed from a stale row | an action is allowed by the rules at its commit |
| Accounts | `routes/{signup,google,telegram}.py`, `core/managers/sign_up/mail.py` | users | sign-up, verify, OAuth callbacks | look up then insert, missing awaits | one account per e-mail, verified only by its owner |
| User dependencies | `core/dependencies/{user,role}.py`, `core/resolvers/user.py` | a cache and a database session per request | resolve by cookie or API token, filter | accounts, cookies and tokens change between two dependencies | a request acts for one user, in one state of the account |
| Body capture | `core/middleware/save_request.py` | the body read so far | receive, replay | chunks, limit, disconnect | what is replayed is what was sent, and memory is bounded |
| Remote address, limits | `remote_address.py`, `core/limiter_identifiers.py`, `core/dependencies/limiters.py` | counters in Redis | resolve through trusted proxies, identify, count | headers a client writes itself | a client is known by the address the first trusted proxy saw, and limited for what it asked itself |
| Trusted host middleware | `core/middleware/trusted_host.py` | none | print an untrusted peer, pass on | nothing | nothing changes |
| Configuration | `core/dependencies/{config_provider,managers}.py` | two globals, memoised accessors | set, get | memoised values after a reconfiguration | accessors agree with the configuration |
| Rate limiter | `core/_rate_limit/*.py` | counters in Redis | create, verify | read, compute, write without a transaction | attempts are bounded (no caller at this commit) |

The parts interact by calls and shared state. A route asks
`core/dependencies/user.py` for its user; that decodes the access cookie or the
API key, reads the users or tokens table, and asks the token manager, which
reads the key-value store. Sign-in, refresh and logout write the store.
Administrators write the users table, which the next request reads: nothing
tells the store that a password changed, only `password_version` inside the
signed token and the row.

`PROJECT.json` lists every component with its status and every hazard with its
line and the properties that cover it.

## 2. Modules

### Sessions

One module for the token manager, the routes over it and the store below it,
because the properties are about their interplay.

| Variable | Code |
|---|---|
| `db` | users table: `password_version`, and verified-and-active as one flag |
| `store` | the hash keys `jti:access_token:<user>` and `jti:refresh_token:<user>`, each with field "0" and a deadline |
| `req` | handlers in flight: program counter, the row and cookies read, tokens minted |
| `adm` | password updates in flight, with the row each has read |
| `now`, `nextJti` | the clock; freshness of `uuid4` |
| `granted`, `ended` | history for properties: pairs that were received, and how far the last completed logout of a user reaches |

A step is what the code does between two awaits. Minting is
`StartLogin`/`DropAccess`, then `RegisterJti`, `ExtendJti`, `RegisterJti` and
`MintSecond` or `MintDone`: `create_token` and `create_access_token` /
`create_refresh_token` each call `hset` and `hexpire` on the same key, so each
jti is registered twice. Validation is one `hget` (`VerifyUnknown`,
`VerifyFailed`, `AdmitAccess`, `AdmitRefresh`) and possibly an `hdel` in a later
transaction (`Erase`, which is also the late deletion inside `hget`). Rotation
is `DropRefresh`, `DropAccess` and a mint; logout is `EndAccess`, `EndRefresh`.
`Fail` ends a handler at any await, or loses its response; nothing is rolled
back, as in the code. `Purge` is the watcher, `Tick` the clock.

Cookies are the client's, and the server only knows what it is shown. A request
(`Present`) carries an access token and a refresh token that were received at
any time before, not always together (`Shown`): copies, backups and several
browsers are all covered, and so are cookies that were replaced or deleted long
ago. That a spent or revoked token yields nothing is the server's doing alone.

Abstractions: a token is a record of what the code reads from it, and
signatures are perfect; a token that was never received cannot be shown; `gen` and `parent` on tokens and rows are
history that no guard reads.

### ApiTokens

`rows` is the tokens table, one row per secret that may be drawn; `op` is the
requests in flight; `now` is the clock. `CreateCount`/`CreateInsert` and
`DeleteRead`/`DeleteCommit` are the two statements of each operation, `Arrive`
and `LookUp` the arrival of a request and the select that decides it, `AppInsert`
and `AppRevoke` the application's own tokens (external code). The list route
only reads and is left out. `sound` is history: whether the key was good when
the request arrived. A lookup that fails also covers an owner whose own row the
route's filters refuse.

### KeyValues, KeyValueStore, LMDBStore, InMemoryStore

`KeyValueStore` is the contract of `KeyValueStoreABS` (`.../base.py`), written as
a specification of its own: keys that hold a value and keys that hold fields,
each with an optional deadline, readable until it has passed and then removable
at any time. `reply` is the last answer, so that an implementation has to give
the right answers and not only to hold the right data. Three constants name the
ways in which a store may fall short; each store is checked with those it needs,
and TLC refutes the refinement without them.

| | `LMDBStore` | `InMemoryStore` |
|---|---|---|
| `entries <-` | `db`, the committed environment | `Items`, the two dictionaries as one function |
| `LosesTimedKeys` | TRUE: `get`, `hget` and `hgetall` delete an expired key in a second transaction, and may delete what was written since | FALSE: a command holds the lock throughout |
| `KeepsDeadFields` | FALSE: `hset` and `hdel` look at the deadline | TRUE: `hset` and `hdel` do not |
| `Durable` | TRUE | FALSE: `Restart` starts empty |
| `DefaultTTL` | `LMDB_DEFAULT_TTL` | none |

`timed` is history: a loss can only hit a key that has had a deadline. In
`LMDBStore` a command is one write transaction, hence one step, and a read is
either one step or is held up (`req`) before its late delete (`EraseLate`).
LMDB's second transaction of a read commits before it answers, and its check of
the clock counts with the transaction unless the read is held up. In
`InMemoryStore` a command is one step; the watcher's clock is read just before
it takes the lock, and a pass with an earlier reading purges less, as an
earlier pass would. `WatcherFault` is a pass lost to an exception; `Restart` is
a new process.

### Accounts

`rows` is the users table and `req` the requests between their reads and their
commit; `made` and `sessions` are history. Every route reads, decides and
commits later: `SignUp` or `Google` then `Insert` (the unique index decides);
`Act`, then `AdminCreate`, `AdminUpdate` or `AdminDelete`, then `Insert` or
`Commit`, which writes the columns that differ from what was loaded. `Known`,
`Rules`, `Reaches` and `Authorized` are `UserManagementPolicy`. Refusals change
nothing and are no step. `Actors`, `Inserts` and `Commits` are what a
request under way holds, `Changes` what an update may ask: any columns, but no
role NULL, which `AdminUserUpdate` refuses (`HostAssumption`). `UniformRules`
says of the rules that all managing roles manage the same ones, and none of
those manages. `AutoVerify` is a flag of the configuration that no action reads.
Passwords and tokens belong to `Sessions`; addresses are
canonical, and `Google` says whether its spelling is. `VerifyLink` and `Telegram`
without a row change nothing, because the code fails before it does.

### RemoteAddress, BodyCapture, AuthResolution, RequestPipeline

Three components a request passes, and `RequestPipeline`, which extends and
composes them:

| Phase | Actions | Code |
|---|---|---|
| sent | `Begin`, `Forward`, `Deliver` | header and peer of the connection; proxies append |
| body | `BodyMessage`, `Parse` | the middleware's loop, its replay, and FastAPI's parse, which comes before any dependency |
| limit | `Limit` | the limiter of the route, on `Identifier` of the address and the e-mail or cookie text |
| auth | `Ask`, `Authenticate`, `Answer` | the user dependencies of the route in order, one step per await |

`Meanwhile` is everybody else: an account changes or is deleted, the access
token expires or is revoked, the API token is deleted. `loaded` is the identity
map of the request's database session: a row in it is not refreshed by another
SELECT. An expired or undecodable cookie raises; only a cookie that is absent or
names nobody leaves the request to the API token. `made`, `limited` and `seen`
are history. Bodies are sizes; an e-mail is a value in lower case.

The limits of `/logout` and `/refresh` count by the first ten characters of a
cookie that nobody has verified. `text` is what the client writes there, for each
request anew (`Writes`): `Header`, with which every JWT begins, any other of
`Texts`, or none, which the code gives the text `no_token`. A valid access token
ties it to `Header`; the refresh token of `/refresh` may be anything, since the
user is found by the access token. The limiter's counters (`hits`) and their
history (`made`) are bags read by `Count`: `hits` by the identifiers the code makes,
`made` by the client's true address and what it wrote.
A route's roles are the list as it is written: an empty one and one with `*` in it
ask for no role (`Admits`).
Routes of usrak have at most one user dependency each; the run adds a route as a
host application may write it, with three.

### Deviations

Next to some definitions stand others headed "Deviation": the same definition
with a mistake a programmer could make. `PROJECT.json` pairs each property with
a deviation it refutes, which shows that the property depends on the code.

## 3. Runs

| Run | Question | Bounds | Result |
|---|---|---|---|
| `sessions_serial` | Are sessions right when requests come one after another? | 1 administrator, starting versions 1 and NULL, 2 passwords, 7 jtis (three pairs), 3 time units; any cookies received so far, at any time | holds: `RefreshSingleUse`, `LogoutEndsSessions`, `PairedWhenQuiescent`, `StalePasswordNeverAccepted` |
| `sessions_concurrent` | What still holds when two requests interleave and may fail? | 2 requests, 5 jtis (two pairs), failures anywhere; any cookies received so far | holds: `RevocationIsFinal`, `RotatedSessionIsDead`, `StoreOutlivesToken` |
| `sessions_double_refresh` | Can one refresh token be spent twice? | 2 requests | violated |
| `sessions_logout_race` | Can a session outlive a logout? | 2 requests | violated |
| `api_tokens` | Who may hold, use and revoke a key? | 2 owners, 3 keys, 2 addresses, 2 requests, limit 1 | holds: `QuotaOvershootBounded`, `AdmittedOnlyIfUsable`, `OnlyOwnerRevokes` |
| `api_tokens_quota` | Does an owner stay within the limit? | 1 owner, 2 requests | violated |
| `lmdb_store` | Does the LMDB store keep the contract? | 1 name in both namespaces, 2 fields, 2 values, 1 held-up read, 3 instants | holds: `Implements` (refinement), `EventuallyPurged` (liveness) |
| `in_memory_store` | Does the in-memory store? | the same, TTL 1 | holds: `Implements`, `EventuallyPurged` |
| `accounts` | Who gets into which account, and who may change it? | 2 requests, 4 rows, 4 addresses, 5 roles: two that manage, by default and from the table, and two that are managed | holds: `GrantedToOwner`, `AuthorisedAtCommit` |
| `accounts_verification` | Does the link verify? | 1 request | violated: `LinkVerifies` |
| `accounts_auto_verify` | Is a new account active at once if the configuration says so? | as `accounts`, the flag set | violated: `AutoVerified` |
| `request_pipeline` | Whose address, whose body, which user? | 2 requests in a row, 2 clients and a proxy, a made-up address and an empty entry in the header and up to two hops, bodies of 0, 2 and 5 against a limit of 2, 5 routes, 3 cookie texts, 2 users, 1 change meanwhile | holds: `AllowlistHonoured`, `LimitedByOwnRequests`, `TurnedAwayForCause`, `BufferBounded`, `OneIdentity`, `OneSnapshot`, `Answered` (liveness) |

Each module's `TypeOK` is checked by one of its runs. `RefreshSingleUse` and
`LogoutEndsSessions` hold in `sessions_serial` and are refuted in the two violation
runs. When requests come one after another, an old refresh token that is shown
again, with its own access token or with a newer one, yields no second session,
because the registration it needs is gone: if the server took any registration for
the token's own, `RefreshSingleUse` would fail (its deviation, `RecognisedAnyJti`).
As soon as two requests overlap both properties fail, and no test of the
repository tries that.

Why the bounds are enough. TTLs are ordered as in the default configuration,
access (15 min) < store default (1 h) < refresh (7 d), as 1 < 2 < 3, so every
order of deadlines occurs. The administrator's steps interleave with the one
request of the serial run at every await, which is what can mix up versions; for
more requests at a time there is the theorem (`PasswordCorrect`). Three pairs let a
session be replaced, rotated and replaced again, and two pairs let every pair of
requests collide. All requests of a user meet on two keys and never touch
another user's, so one user shows every interference; the theorems cover many.
In `ApiTokens` a limit of one with three keys lets an owner reach, pass and fall
below it; lifetimes are "never", "already past" and "passes during the run".
Counters (`MaxTime`, `MaxJti`, `MaxGeneration`) appear only in guards; states at
their bounds have no successor, so the runs do not check deadlock.

In the stores every command meets every other on one name per namespace, and
keys do not touch each other except in the watcher's pass, which the two keys
show. Three instants let a deadline lie ahead, be reached, be passed and be
renewed; a single held-up read is enough for a late delete to meet any sequence
of commands. In `Accounts` two requests let any read and any commit be separated
by any other commit, and two managed roles let that commit change the role which
was read; an update writes a role or, in one go, an address, an external identity
and the activation. In `RequestPipeline` a cookie, a row and a token are each
read at most once per request, so one change between two reads gives every
mixture; two requests under a limit of one let the limiter turn one away. The
limiter is within one window, and requests come one after another because they
share nothing but the counters.

### Fairness

* `LMDBStore`: the watcher wakes (weak fairness: the loop never ends) and its
  passes do not all fail (strong fairness of `WatcherPass`: an exception loses a
  pass, and another follows). A store whose every pass meets an exception purges
  nothing, and no code could.
* `InMemoryStore`: weak fairness of the two halves of the loop; the pass waits
  for a lock that every command gives back.
* `RequestPipeline`: the server goes on with a request it has, and a client that
  has begun a body goes on with it or is disconnected. The second is a promise
  of the ASGI server and of TCP: the middleware has no timeout of its own.
* `Accounts`: requests under way commit, and whoever has a link follows it.
  Only the violation run uses this: the account stays unverified even so.

`Sessions` and `ApiTokens` have no fairness: clients owe the server no request,
and every handler is free to fail.

### What the violations show

* `handle_refresh_token` validates (`auth.py:191`) and deactivates
  (`auth.py:200`) in different awaits. Two refreshes with one token both pass,
  and both callers receive a new session.
* `terminate_all_user_sessions` (`auth.py:229`) deletes what is registered. A
  sign-in or a refresh in flight registers again afterwards and survives.
* `create_api_token` counts (`auth.py:105`) and inserts later. Concurrent
  creations pass the limit, by one key per request beyond the first.

* `MailSignupManager.verify` (`core/managers/sign_up/mail.py:122`) does not await
  its lookup and fails on the coroutine. A self-registered account stays
  unverified, whatever its user does.
* `AUTO_VERIFY_USER_ON_SIGNUP_IF_CODES_DISABLED` is read nowhere: the sign-up route
  (`routes/signup.py:42`) passes no `is_active`, and the new account is inactive
  although the flag's comment (`core/config_schemas.py:141`) says it is active at once.

### Known limits that are not findings

Two sign-ins of one user at the same time can leave the access registration of
one and the refresh registration of the other, and then neither client can
refresh (`PairedWhenQuiescent` is checked with one request at a time). Two
administrators who change one password at the same time can write the same
`password_version`, and a session that descends from the first new password
passes for the second: `StalePasswordNeverAccepted` needs that the updates of one
account do not overlap (`PasswordCorrect`); its run has one administrator. Logout with an expired access token deletes the cookies and leaves
the refresh registration. An administrator whose role may be given to others
by rule (a wildcard, say) can be demoted between the read and the commit of a
change that is then no longer allowed: `AuthorisedAtCommit` needs `UniformRules`,
which the default rules are, and TLC refutes it with a wildcard. A deactivated administrator
goes on acting while the session lives, since the routes ask for no active
account. A Google user whose address is spelled with capitals gets a row once
and is turned away by the unique index later. A first Telegram sign-in fails;
`src/README.md:51` lists Telegram as supported, which sign-ins of existing accounts
are. An account its user registered has no role, and so no administrator, whatever
rules they have, can change it. The limits of `/logout` and `/refresh` cannot tell
two users behind one address apart, and a client that writes a new text into the
cookie starts a new count, so they bound no client; `src/README.md:55` calls the
limiter's backend "Not yet". We know of no text in the repository that promises
otherwise in so many words.

## 4. Proofs

All hold for any number of users, requests, administrators, accounts,
keys, threads and workers, any routes, headers and rules, any TTLs and any
bounds, under the assumptions the modules declare: `None` is none of the values
it is told apart from; TTLs, sizes and bounds are numbers; `Keys` and `Workers`
are finite, and there is a worker; no client is a trusted proxy; payloads and the
rows a host starts with are well formed. What a theorem needs beyond these it
says in its statement.

`SessionsProofs`:

* `TypeCorrect`. `TypeOK` is not inductive: that `RespondPair` hands out two
  tokens depends on what a request holds at each point of its program. `Shape`
  says so, and `TypeInv == TypeOK /\ Shapely` is inductive.
* `FreshCorrect`. Every jti of a token handed out or in the making is below
  `nextJti`, and no two coincide (`FreshInv`). Every step is one of three kinds,
  it mints, delivers, or does neither, and each kind has a lemma.
* `RevocationCorrect`, the action property `RevocationIsFinal`. `StepStore`: a
  registration only appears with the jti of a token some request is minting. By
  `FreshInv` that is never the jti of a delivered token.
* `RotationCorrect`, `[]RotatedSessionIsDead`. A jti is `Spent` when it belongs
  to no token registered or about to be delivered. `SpentStays` follows from
  `RevocationStep`; `Provenance` says that cookies shown are of pairs
  that were granted, not always of one pair;
  `Succession` says that the parent of each token, minted or delivered, is spent,
  because `DropRefresh` removed its registration before the mint. `LineageCorrect`
  is the two together.

`ApiTokensProofs`:

* `TypeCorrect`, with `Pending`: a request in flight refers to a row that is
  there and, to delete, is a usrak key of its user.
* `OwnershipCorrect`, the action property `OnlyOwnerRevokes`, from `RowStep`.
* `AdmissionCorrect`. The inductive part is that a key good at the select was
  good at arrival: validity only fades, as rows are never restored and the clock
  never goes back (`ValidOnlyFades`).
* `QuotaCorrect`. The bound alone is not inductive; what is adds the creations
  in flight: live keys + creations in flight + 1 <= limit + workers. A count
  below the limit is made by a worker that is in no creation itself; an insert
  turns a claim into a key.

`SessionsTokensProofs`, over the invariants of `SessionsProofs`:

* `OutlivesCorrect`, `[]StoreOutlivesToken`. The difficulty is a token in the
  making: `hset` keeps the deadline of the live entry it overwrites, until
  `hexpire` moves it, so the property is not inductive. `LifeInv` has it also for
  minted tokens that are no longer being registered, and leaves out only those
  that are (`Open`). That an `hexpire` is always long enough, whichever request
  made the entry it moves, is because no token of its type expires later than
  one signed now (`Timely`).
* `PasswordCorrect`: `Spec /\ []UpdatesExclusive => []StalePasswordNeverAccepted`.
  A session carries a version and not a password. `PasswordInv` says what makes
  the one stand for the other: in the row, in every token and in every request
  the distance between the generation of the password and its version is the
  same (`Aligned`), and an update in flight has read the current version. Two
  overlapping updates of one account break exactly this. `OneAdministrator` is
  the case the run checks.
* `SingleUseCorrect`, `LogoutCorrect`, `PairedCorrect`: `Spec /\ []Serial` implies
  `RefreshSingleUse`, `LogoutEndsSessions` and `PairedWhenQuiescent`, where
  `Serial` says that no two requests of one account overlap; requests of
  different accounts may, any may fail, and any may show whatever was ever received. The two violation runs show that
  the condition is needed. `SerialInv` adds to the three what holds while a
  request is under way: a token in the making is the only successor of its parent
  and, once registered, has displaced its predecessors (`MakingInv`); a rotation
  and a logout half done have achieved their first half (`UnderWayInv`).
  `OneRequestSlot` is the case `sessions_serial` checks.

`LMDBStoreProofs` and `InMemoryStoreProofs`, over lemmas on keys, entries and
hashes in `KeyValuesProofs`:

* `ImplementsContract`, the refinement `Implements`: initial states map to the
  contract's, and every command, late delete, pass of the watcher and restart is
  a step of the contract or leaves its variables alone. It rests on `StoreInv`.
  In LMDB it says that whatever a read held up may yet delete has had a
  deadline, and that a hash always has one: without the first, a late delete
  would lose a key the contract keeps for good. In memory it says that whatever
  has a deadline is in `timed`.
* `TypeCorrect` of both, from the same invariants.

`RequestPipelineProofs`:

* `BufferCorrect` and `TurnedAwayCorrect`, from `BodyInv`: while a body comes in,
  what is held is what was sent, and within the limit.
* `AllowlistCorrect` and `LimiterCorrect`, from `AddressInv`: the peer is the
  origin, or it is a trusted proxy and the origin stands in the header with
  nothing but trusted proxies to its right, which is where the code looks.
  `LimiterInv` adds that a counter is the requests made with its address and its
  e-mail or cookie text, up to the limit. The code's identifier and the history
  are not the same thing: `OneCounter` shows that they tell the same requests
  apart, for any texts and e-mails.
* `IdentityCorrect`. `IdentityInv`: a cache holds only the one user its
  credential names, and a request that had no cookie user acts by its API token.
* `SnapshotCorrect`. `SnapshotInv`: a row the session has loaded is a state the
  account had during the request, and every result rests on the loaded row.
* `TypeCorrect`.

`AccountsProofs`:

* `TypeCorrect`: the row a request acts on or commits to is still there.
* `GrantedCorrect`: `provider` is in no update, so it never changes.
* `AuthorisedCorrect`, the action property `AuthorisedAtCommit` under
  `UniformRules`. The invariant is that a request between read and commit stays
  entitled (`Entitled`): commits move roles only among the managed ones, none of
  which manages, so no actor loses the right it had. `DefaultRulesUniform` shows
  that the rules of a configuration that gives none satisfy the hypothesis; TLC
  evaluates it on the run's constants (`MCAccounts`).

So each safety property of a passing run is a theorem. Only model-checked are the
liveness properties (`EventuallyPurged` of both stores, `Answered`), since liveness
under fairness and ENABLED are out of the prover's reach, and the refuted
properties of the violation runs, which hold in no general form. The proofs use
no recursive definition and no induction over data.

The hypotheses `UpdatesExclusive` and `Serial` speak of behaviours and not of
constants, and they are met by some: one administrator and one request slot
make them true throughout (`OneAdministrator`, `OneRequestSlot`).

## 5. What is not modelled

* The SQL engine beyond "a statement or a commit is one step"; cryptography
  (unforgeable signatures, fresh identifiers); mail, SMTP and templates (pure
  I/O).
* `redis_store.py` (no hash commands), `password_reset.py`, `verification/` and
  `_rate_limit/` (commented out, incomplete or never constructed), the password
  routes (stubs).
* Configuration and its accessors, but for the validator of the default rules,
  which is `ConfigAssumption` of `Accounts` (and what the token types promise,
  which `ApiTokens` has): one object validated once by sequential code, two globals, a route table and getters memoised with `lru_cache`. A process that
  configures itself twice keeps the old models and the old store.
* `TrustedHostMiddleware` only prints the address of an untrusted peer.
* Schemas, exceptions and response models: declarations.
* Several worker processes on one LMDB environment behave as more request slots
  and more held-up reads; each has a watcher of its own, which is as one that
  passes more often.

## 6. Plan

Done: every component of section 2 modelled and checked, and every safety
property of a passing run proved. What is left:

1. `SingleUseCorrect` and its like assume that no two requests of one account
   overlap. Weaker conditions would do: `RefreshSingleUse` needs only that no
   two refreshes with one cookie overlap, `LogoutEndsSessions` that no mint
   overlaps a logout. Each would say more exactly which race does the harm.
2. `AuthorisedCorrect` for rules that are not uniform but well-founded: roles that
   manage others and are managed themselves, where a role is only ever changed
   by one above it.
3. What the violation runs leave of a property: after the two refreshes of the
   race, at most one of the two sessions can be refreshed again.

## 7. Running

    tlc -workers 2 -config SessionsSerial.cfg MCSessions
    tlc -workers 2 -config ApiTokens.cfg MCApiTokens
    tlc -workers 2 -config LMDBStore.cfg MCLMDBStore
    tlc -workers 2 -config InMemoryStore.cfg MCInMemoryStore
    tlc -workers 2 -config Accounts.cfg MCAccounts
    tlc -workers 2 -config RequestPipeline.cfg MCRequestPipeline

    tlapm SessionsProofs.tla
    tlapm SessionsTokensProofs.tla
    tlapm ApiTokensProofs.tla
    tlapm KeyValuesProofs.tla
    tlapm LMDBStoreProofs.tla
    tlapm InMemoryStoreProofs.tla
    tlapm RequestPipelineProofs.tla
    tlapm AccountsProofs.tla
