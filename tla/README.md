# Verification of tenantos-backend

TLA+ models of the NestJS service in `src/src`, the TLC runs that check small
instances of them, and TLAPS proofs that hold for every value of the
constants. Paths below are relative to `src/src` unless they start with
`prisma/` or `docs/`.

## 1. The system

The service is a set of stateless Node processes over PostgreSQL (Prisma) and
Redis. A request runs between awaits without interruption; at every await any
other request, in this process or another, may run. There is no lock in the
code: what protects the data is the database (unique indexes, conditional
updates, transactions at READ COMMITTED) and a version column.

| Component | State | Operations | Interacts with | What is hard, and what makes it correct |
|---|---|---|---|---|
| Login (`application/auth/login.usecase.ts`) | users, refresh_tokens | find, verify, rehash, issue, touchLastLogin | user repository, hasher, token service | five awaits racing edits of the account; no password or token version lost |
| Refresh (`refresh-tokens.usecase.ts`) | refresh_tokens | consume (compare-and-swap), load, create successor; reuse detection revokes the family | the same | two refreshes with one token; a crash between consume and create; a session is one chain, a token works once |
| Logout (`logout.usecase.ts`) | refresh_tokens, users, denylist | revoke family / all, bump token version, deny the access token | Redis | partial failure, Redis down; what is signed out stays out |
| Password change (`update-user.usecase.ts`) | users, refresh_tokens | verify, save, revoke all | | logins in flight; old sessions end |
| User (`domain/user`, `prisma-user.repository.ts`) | a row with `version` and `tokenVersion` | mutations, `save` with the optimistic lock | all of the above | lost updates; the token version never goes back |
| Bearer guard (`modules/auth/strategies/jwt.strategy.ts`), denylist | denylist keys with expiry | denylist check, snapshot check | Redis, users | fails closed; rejected stays rejected |
| Workspaces, folders (`application/workspace`, `prisma-workspace`, `prisma-folder`) | workspaces, folders | create both, rename, make default | users own workspaces | multi-statement transactions under READ COMMITTED, deadlocks; always a default folder, names and slugs unique |
| Workflows, variables, credentials (`prisma-workflow`, `prisma-variable`, `prisma-connection`) | their rows, workflow versions | create, update, delete in a folder | folders, workspaces | checks before writes, half-made workflows, update against delete; only owners write |
| Namespace overview, lists (`application/namespace`, `workspace.service.ts`) | none | reads of one to five statements | the tables above | no transaction around the reads; nothing of another user is shown, nothing left out |
| User listing (`prisma-user.repository.ts`, `shared/http/pagination.ts`) | the cursor a client holds | pages by cursor | users | rows created, edited and deleted between pages, equal timestamps; nothing skipped or repeated |
| Rate limiting (`redis-throttler.storage.ts`, `app.module.ts`) | a counter and a block per key | one Lua script, fails open | Redis | two expiries of different starts; limits hold and end |
| Cache (`cache.service.ts`, `http-cache.interceptor.ts`) | Redis keys, in-flight loads | getOrSet, set, delete, deleteByPrefix | Redis | loads against invalidations, a scan against writers; single flight, scope, staleness ends |
| WebSocket gateway (`modules/websocket`) | a principal and rooms per socket, a gauge | handshake, subscribe, emit | users, denylist, Redis adapter | three awaits of a handshake against edits of the account; rooms are the boundary |
| Request pipeline (`app.module.ts`, `shared/interceptors`, `shared/filters`, `observability`) | a gauge, a counter, a timer per request | guards, interceptors, handler, filter | everything a handler does | a handler that settles after its timeout; one answer, no leak of internals |
| Health (`modules/health`) | none | readiness asks the database and Redis | both | dependencies that come and go while asked |
| Shutdown (`main.ts`) | a flag, a timer, two chains of hooks | signal, close, timeout, crash | orchestrator, Nest's own hooks | races for the exit; nobody unanswered on exit 0, an end in any case |
| Configuration (`env.schema.ts`) | the environment | validate, refuse with a report | operator | checks that run only if others passed; few repairs |
| Switch tenant, read-only services, logging | none | | | see section 8 |

`PROJECT.json` lists every component with its status, and every hazard at the
line where it bites.

## 2. Modules

| Module | Models |
|---|---|
| `UserEntity` | a users row, every mutation of the entity, the version-conditional write of `save`, `touchLastLogin` |
| `RefreshTokenTable` | the refresh_tokens table: create, `consume`, `revokeFamily`, `revokeAllForUser`, `findActiveByUser` |
| `AuthSessions` | login, refresh, logout, logout everywhere, password change, administrative edits and the bearer guard as processes over those two tables, the access tokens and the denylist |
| `SessionChain` | the abstract session: opened once, rotating one refresh at a time, ended for good |
| `AccessGrants` | the abstract access token: prepared for an account in service, honoured until its credentials change or it leaves service |
| `AuthSessionsProperties` | type invariant, properties, the refinement mappings to `SessionChain` and `AccessGrants`, statements of the documentation |
| `MCAuthSessions` | TLC instances |
| `AuthSessionsProofs`, `AuthSessionsChainProofs`, `AuthSessionsAccountProofs` | proofs |
| `WorkspaceTables` | workspaces, folders, workflows, versions, variables and connections as one function from row id to row; the unique indexes; ownership |
| `Workspaces` | the operations of `WorkspaceService` with their statements and transactions |
| `WorkspacesProperties`, `MCWorkspaces` | properties and instances |
| `WorkspacesProofs` | proofs about the tables |
| `WorkspaceReads` | the namespace overview, the lists and the counts, over `Workspaces` |
| `UserListing` | the pages by cursor of the user repository, and the client that follows them |
| `WorkspaceReadsProperties`, `UserListingProperties`, `MCWorkspaceReads` | properties and instances of both |
| `WorkspaceReadsProofs` | proofs about the reads beside any writers |
| `UserListingProofs` | proofs about the walk by cursor |
| `RedisServer` | the clock and the connection to Redis that the next three share |
| `Throttler` | the guard's choice of buckets and the Lua script of `RedisThrottlerStorage` |
| `CacheService` | `CacheService` and `HttpCacheInterceptor` |
| `RedisClients` | the limiter and the cache over one Redis |
| `ThrottlerProperties`, `CacheProperties`, `MCRedisClients` | properties and instances |
| `RedisClientsProofs` | proofs about the limiter and the cache |
| `EventsGateway` | handshake, rooms, gauge, emissions across replicas, over `UserEntity` and `RedisServer` |
| `ErrorMapping` | `GlobalExceptionFilter.normalize` and its log level, as operators |
| `HttpServer` | a request's way through guards, interceptors, handler and filter; the readiness probe |
| `Process` | graceful shutdown around `HttpServer` |
| `ServerLife` | the abstract server: takes clients in while its port is open, stops with success only when they have gone |
| `Configuration` | the environment schema, the boot and its repair |
| `ProcessProperties`, `GatewayProperties`, `ConfigurationProperties`, `MCProcess` | properties and instances |
| `ProcessProofs` | proofs about the server and its shutdown, the gateway and the configuration |

### AuthSessions

`pc[r]` is the await request `r` is at, `cmd[r]` its command, `loaded[r]` the
entity it holds in memory (which may be stale), `now[r]` the instant it read
the clock. `users`, `tokens`, `access`, `denylist`, `redisUp` and `clock` are
shared. One action is the code from one await to the next; for example
`RefreshConsume` is the compare-and-swap of
`refresh-tokens.usecase.ts:80-85`, and `RefreshReuse` what follows when it
matched no row. A refresh token and an access token are named by the request
that drew them, since both are random. `Save` writes the whole row if the
version is the one loaded, as `PrismaUserRepository.save` does, and otherwise
ends the request in `conflict`. `EditFind`/`EditSave` are any other user of
the entity: load, mutate, save. They stand for administrative operations the
repository defines on the entity and has no route for yet; every mutation of
the entity is one of them. `Die` ends a request at any await: the process
exits or a statement fails. A client that times out is a request whose answer
nobody waits for, which needs no action.

Reads are admissible at the granularity of statements: PostgreSQL runs each
statement of these paths atomically, and `save`'s update and re-read are one
transaction.

### Workspaces

`rows` is what is committed. `draft[r]` is what the open transaction of `r`
has written, and the rows it has locked; `targets[r]` the rows an `UPDATE` of
many rows has yet to visit. A statement inside `runInTransaction` is `Stage`:
it waits while another transaction holds the row or an equal entry of a
unique index (`Awaits`), then writes to the draft, or rolls back on a unique
violation. A statement outside is `Execute`. `Commit` publishes the draft.
`rename` takes four kinds of step because PostgreSQL does: the row lock, the
write, the snapshot of the rows that match the `updateMany`, and each of
those rows in turn, re-checked once its lock is obtained. `Cancel` is
PostgreSQL's deadlock detector and `Die` a request that fails or a
transaction that times out. Each route has an action of its own
(`CreateFolder`, `DeleteVariable`, ...), and so has each statement of a
repository (`InsertVariable`, `EraseVariable`, ...).

The service's checks (`assertFolder`, `assertOwned`) read a workspace's owner
and a folder's workspace, which nothing writes again, and folders and
workspaces are never deleted, so performing both with the arrival of the
request is the same as performing each at its await. Names and slugs are model values, with `SlugOf`
mapping two names to one slug as `slugify` does. `prisma/schema.prisma` is
taken as the schema; the migration scripts beside it still carry older
indexes.

### WorkspaceReads and UserListing

`at[d]` is the statement reader `d` is at, `view[d]` the ids it has read so
far and `before[d]` the rows that were committed when it began, for the
properties. A statement reads what is committed at its step; the writers are
the actions of `Workspaces`. The workflow lists include each workflow's current
version (`WITH_CURRENT_VERSION`, `prisma-workflow.repository.ts:88-92`), which
Prisma reads with a statement of its own; the model reads the workflows only,
in one step, and no property is about the versions shown.

`UserListing` has the rows (`users`), one client (`walk`: its direction and
cursor) and the number of times each row was sent to it. `AskPage` is
`findManyByCursor` for that cursor: the seek condition of
`toKeysetCondition`, the order by `(createdAt, id)`, one row more than the page to know whether to go
on. A cursor may get damaged (`LoseCursor`): one that does not decode is
refused; one that happens to decode, or is empty, is answered a page of another
walk, and the properties speak of this one only. `CreateUser` and `SaveUser`
insert and change rows anywhere in the order (a row carries the clock of the
replica that made it). A `createdAt` is taken to be a millisecond, as the JavaScript
`Date` that `create` passes is; the column holds microseconds, and a row
written by anything else could fall between two cursors.

### RedisServer, Throttler and CacheService

A key that expires is represented by the last tick of its life, so
`counter[k].until` and `block[k]` are the two expiries of a bucket. `Visit`
decides the buckets of a request from the decorators of its controller;
`MeetBlock`, `Admit` and `Exceed` are the branches of the Lua script, each
atomic as Redis runs it; `FailOpen` is the catch around it, and the script
whose answer came too late may have counted a hit or set a block (`Count`).
`hits` are the hits that were counted, with the script's verdict.

`pc[c]` is the await cache call `c` is at, `flight[p][k]` the entry of process
`p`'s `inFlight` map. `Get`, `Load`, `Store` and `Settle` are the awaits of
`getOrSet`; `Handle` and its store those of the interceptor, which does not
wait for the store (`Remember`); `Update` and `Invalidate` a writer's; `Scan`
and `Unlink` one round of `deleteByPrefix`. When Redis does not answer, a
command of the client may have been executed all the same, by the time its
error is caught: this holds of the cache (`Executes`), of the limiter and of the
denylist's `SET` (`LogoutDeny`). A command that takes effect later than that,
out of the offline queue of `ioredis`, is not modelled. No handler of this
commit uses the cache, so the callers are those its documentation provides for.

### HttpServer, Process, EventsGateway, Configuration

`stage[r]` is how far request `r` is (guards, handler, answered), `work[r]`
the promise of its handler, which outlives the answer: `TimeOut` answers 408
and `SettleLate` is what the handler comes to afterwards. `Finalize` is the
metrics interceptor's `finalize`, which runs before the filter. `Ping` and
`Report` are the readiness probe. `Authenticate` is the bearer guard in one
step: its two awaits, of Redis and of the database, are apart in `AuthSessions`
and in `EventsGateway`, and here only what it answers matters. The filter's
branch for a response that has begun to stream
(`global-exception.filter.ts:107-110`) is left out: no handler streams one.

`chain["close"]` is `app.close()` called by `main.ts`, `chain["cleanup"]` the
chain Nest starts for the same signal because `enableShutdownHooks` is on. Both
run the hooks of the modules (`Destroyed`, `Drained`) and wait for the server
to drain; the first ends in `Closed`, the second sends the signal again
(`Echo`). `ForcedExit` is the timer.

A socket of `EventsGateway` goes through `CheckDenylist`, `CheckAccount` and
`Connect`, one await each, while `Sign`, `Deny` and `EditAccount` stand for
what `AuthSessions` models in full. `Emit` reaches the sockets of its replica
at once, and those of others through `wire`, which loses its messages with
Redis.

`Configuration` keeps the variables the checks across variables read; a value
is a class the checks tell apart. `Problems` follows Zod: `superRefine` runs on
an object with dirty values, and does not run on one that was given up on.

## 3. Runs

Each run of `PROJECT.json` states its question. `pass` runs explore the whole
state space of the instance.

| Run | Instance | Properties |
|---|---|---|
| `rotation` | 4 requests among login, refresh, logout; expiry at 1, clock to 1; death anywhere | `OneLinkPerFamily`, `SingleUse`, `FirstRevocationWins`, `ImplementsSessionChain` |
| `accounts` | 3 requests among all operations; 2 passwords; hashing cost may rise; Redis fails and recovers; lifetimes of 2, clock to 2 | `TypeOK`, `ImplementsAccessGrants`, `PasswordOnlyByVerifiedChange`, `CredentialChangeKillsTokens`, `RejectedStaysRejected`, `DenylistHonoured` |
| `workspaces` | 3 requests of one user creating workspaces and folders and renaming, with 3 names and 2 slugs; and, from other tables, 2 requests of 2 users on the workflows, variables and credentials of 2 workspaces; death anywhere | `TypeOK`, `NoTwins`, `AlwaysADefault`, `WholeWorkflows`, `FiledInOwnWorkspace`, `OnlyOwnersWrite` |
| `reads` | 1 reader among 2 writers, 2 users, with fairness; beside it a walk through 3 accounts | `OnlyOwnRowsShown`, `DefaultsAreListed`, `NothingLeftOut`, `EveryRequestAnswered`, `NoneSkipped`, `NoneTwice` |
| `redis` | 3 requests of one client on an auth and a resource handler; 3 cache calls in 2 processes; Redis is lost and returns | `BurstBound`, `BlockHolds`, `NoLockout`, `SingleFlight`, `ScopedResponses`, `PrefixGone`, `CallsAnswered`, `StaleEntriesGo` |
| `process` | 2 requests, a probe among them, 2 signals, a crash; 2 sockets on 2 replicas; every environment | `ImplementsServerLife`, `RedisOutlivesRequests`, `GaugeCountsInFlight`, `FailuresAreOpaqueAndLogged`, `NoDeadTokenAdmitted`, `GaugeCountsOpenSockets`, `OnlyOwnEvents`, `TwoRepairsAreEnough`, `ShutdownEnds`, `RequestsEnd` |

What the properties say, beyond their names. Sessions: a token family never
has two usable tokens, counting the successor a refresh is about to create; a
save built on a stale entity cannot undo a credential change; a token rejected
for its account is not revived by reactivating the account. Workspaces: no
interleaving of inserts, renames and the move of the default exposes a
workspace without a default folder; no combination of ids from the client
reaches another user's rows, to write or to read (the list of workspaces
apart, which is of all users by its description,
`workspace.controller.ts:59`); an overview assembled from five statements names
a default folder that it lists, and leaves out nothing that was there
throughout. Redis: of the hits it counts, a bucket lets in at most twice its
limit in any stretch as long as its window (a request that passes because Redis
does not answer is limited by nothing), and a window after the last counted hit
nobody is locked out; a key is loaded once at a time in a process, also when a
loader rejects; after a sweep only keys stored since it began are left; an
entry put back after its invalidation goes in the end. Process: the port closes
once, exit 0 comes after it and after the last client, which `ServerLife` says
without handlers, hooks or signals, and Redis is closed after them; a shutdown ends whatever hangs; a token that was dead at the start of a
handshake opens no socket; a socket receives its own events only.

`redis` and `process` are run without the deadlock check: their clients stop
asking, and a process exits. In `reads` no request dies, since its question is
whether the survivors of a deadlock are answered.

### Where the code and its documentation differ

Each of these runs checks one statement of the repository and finds it
violated; `findings` quotes the statement.

| Run | What happens |
|---|---|
| `reuse` | two refreshes present one token: the loser revokes the family before the winner creates the successor, which stays usable |
| `signed_out` | Redis is down when a logout denies its token: the error is swallowed, the logout reports success, and the token is accepted again once Redis is back |
| `one_default` | two renames leave two default folders |
| `overview` | nothing ever makes a workspace the default of its user, so the overview of a user who owns workspaces is empty |
| `error_rate` | a request times out with 408 and is counted in `http_requests_total` as 200 |
| `crash_exit` | an unhandled exception ends in a shutdown that exits 0 |

Other differences met while modelling. They need no run: they are races of
the kind `reuse` shows with another operation in the place of one racer, or
visible in a line or two. The model follows the code in each.

Sessions:

- A login admitted by the old password issues its refresh token after the
  change's `revokeAllForUser`, and keeps it.
- `executeAll` that loses the version race ends in a conflict after the
  revocation: the access token stays valid (`logout.usecase.ts:82`).
- The guard's `findAuthSnapshot` has no `try`: an outage of the database there
  is answered 500, in a repository 503.
- A logout that revokes the family while a refresh of it is between consume
  and create leaves the successor active (`logout.usecase.ts:55-59` says
  leaving successors alive would leave the session usable).
- Two logins that both rehash collide on the version, and one is refused with
  a conflict, which `prisma-user.repository.ts:273-275` means to avoid.
- A new workflow is inserted with its version 1, `active: true`
  (`prisma-workflow.repository.ts:113`), and points at that version.
  `workspace.controller.ts:234-236` describes the route as creating "the workflow
  row only — `draft`, inactive, and with no version yet";
  `workflow.repository.port.ts:19-21` has `currentVersionId` null and `active`
  false by default, and `workspace.service.ts:296` says inactive. The response
  documented beside the description (`workspace.controller.ts:241-244`) has the
  version. `WholeWorkflows` is what the code does, not what the description says.
- Variable and credential names are unique per folder
  (`prisma/schema.prisma:246`), where `workspace.controller.ts:322` and `:403`
  say per workspace.
- Updating a variable drops the value, which is spread under a key the
  repository does not read (`workspace.service.ts:409`).
- A workflow name in use is answered 503: `prisma-workflow.repository.ts:151`
  recognises a violation on the slug only, and the index is on the name
  (`prisma/schema.prisma:120`). For the same reason nothing keeps the slugs of
  workflows unique, which `workflow.repository.port.ts:102-105` promises.

Redis and HTTP:

- A bucket is per handler and client, where `docs/AUTH.md:297` says that all
  auth routes share one.
- Resource routes are charged in the `auth` bucket too: they do not skip it,
  where `app.module.ts` and `docs/ENVIRONMENT.md:142` say auth routes only.
- `Retry-After` is 60 whatever `THROTTLE_TTL_S` is
  (`global-exception.filter.ts:112-117`); the guard's own header has another
  name, `Retry-After-auth`.
- A readiness probe that fails is answered in the filter's envelope, without
  the details of Terminus. What a handler throws after its 408 is not logged.
- `METRICS_PATH` has no effect.

Process:

- One signal starts two shutdowns, `main.ts`'s and Nest's. After a clean drain
  the process may still exit 1, when the signal Nest sends again arrives before
  `process.exit(0)`.
- Prisma's pool is closed with the first hooks, before the server has drained
  (`main.ts:160-166` and `docs/DEPLOYMENT.md` close it afterwards); Prisma
  connects again when asked, which is why nothing is lost.
- A boot that fails after the crash handlers are installed exits 0.
- A repair may take two boots, not one (`env.schema.ts:216-218`), when a
  variable is missing or of no known kind: the cross-checks wait for it.
- Platform admins may ask to join a tenant's room, where `docs/AUTH.md:323-326`
  says nobody may. A socket keeps its principal after a suspension or a logout.
  `WsExceptionFilter` is registered nowhere.

## 4. Bounds

The races of the session code involve a request that opens the session and
two that race; a fourth observes. `rotation` has all four. `accounts` has
three of any mix, which is what its properties take to break: a login, a
suspension and a reactivation; a login, a logout and an access; a login that
rehashes against a password change. Clock and lifetimes let a token be
valid, be denied half-way, and expire together with its denylist key. Three
requests on folders are two transactions that wait for each other while a
third dies or commits; two on the filed rows are a creation, or an update,
against a deletion or against another user. Requests and passwords are
symmetric. `reads` has the reader's longest question against two writers, one
of which can wait for the other. In `redis` the window is 2 of 4 ticks, so a
counter and the block after it both expire; three hits meet a limit of 1 and
of 2 exactly and by one too many; three cache calls are a load, one that joins
it and a writer, or a sweep among two. In `process` one request shares the
shutdown or the outage with another, and 2 signals are a first and a second;
token versions to 2 let an account be suspended, active again and edited once
more around a handshake.

Some of these runs put two systems with no variable in common side by side and
let a behaviour use one of them (`MCRedisClients`, `MCProcess`, and the listing
in `MCWorkspaceReads`), which loses no interleaving of either. `MCProcess` also
keeps shutdowns apart from probes and outages, which a shutdown does not ask,
and lets time pass and an account change around one handshake only, since
handshakes share nothing but the gauge and read one account each. The theorems
of section 6 have none of these bounds.

`MCWorkspacesSpec` is two instances in one run, told apart by the stored tables:
in one, folders are created and renamed; in the other, rows are filed and used.
All that filed rows need of a folder is its id and its workspace, which no
operation changes.

The stored tables of `MCWorkspaces` are rows the program's own operations
produce, the two default folders of `reads` included (run `one_default`).
Only the default flag of the workspace in `reads` has no operation that sets
it; the overview shows nothing without it (run `overview`).
A workspace older than the default-folder rule, which `getDefaultFolder`
mentions, is not among them.

## 5. Fairness

`AuthSessions` is checked for safety only: a request may stop at any await,
so nothing is promised to happen.

- `ReadFairness` (`EveryRequestAnswered`): weak fairness of each request's and
  reader's next statement (Node resumes a request whose statement was answered)
  and of `Cancel` (PostgreSQL breaks deadlocks). No order of the locks is
  assumed; with finitely many requests none can be overtaken for ever.
- `CacheFairness` (`CallsAnswered`, `StaleEntriesGo`): weak fairness of each
  call's next await, which a client with a `commandTimeout` justifies also
  while Redis is away, and of the expiry of an entry, since each is set with
  `EX`.
- `ProcessFairness` (`ShutdownEnds`, `RequestsEnd`): Node runs its timers and
  the guards, which wait for Redis no longer than `commandTimeout` and for the
  database no longer than its statement timeout. Handlers, hooks and
  dependencies may take for ever.

## 6. Proofs

Assumptions: `SessionAssumption` and `NullAssumption` (lifetimes are naturals,
`Null` is no request, user or password), and for the listing
`ListingAssumption` (ids and instants are naturals, the ids are finitely many,
a page has a row), `ThrottlerAssumption` (the window is at least 1 and so is
every limit), `CacheAssumption` (`None` is no call, and the key of a response,
which has the prefix of `HttpCacheInterceptor.buildKey`, is not one that
`getOrSet` is called with), and for the process `ServerAssumption`, `ProcessAssumption` and
`UnsetAssumption` (`Unset` is no answer, and no handler throws an
`HttpException` of 500 or more: the only one in the code is Terminus's, of the
readiness probe). `GatewayAssumption` and `RedisAssumption` say what the
constants are; `ConfigurationAssumption` also that a secret the operator
generates is in no environment before. For the workspaces,
`TableAssumption` and `WorkspaceAssumption` say what the constants are (the
default's name and slug are among the names and slugs, `slugify` is a function),
and `StoredAssumption` what a run starts from: tables at rest, as earlier
requests leave them, and no id that `randomUUID` will mint again. A table at
rest (`AtRest`) has its columns' types, its unique indexes and foreign keys, and
a default folder in every workspace; it leaves out the workspaces older than
the default-folder rule, of which `AlwaysADefault` does not hold. Nothing is
assumed about how many requests, users, passwords, accounts, clients, signals,
names or rows there are.

- `TypeCorrect` — `TypeOK`. Inductive as `TypeInv == TypeOK /\ ControlOK`:
  `ControlOK` says what a request at each await has (a command of that
  operation, a loaded entity, a token that exists).
- `OneLink`, `TokensWorkOnce`, `RevocationFinal`, `OneEntry` — from
  `ChainInv == FamilyRoots /\ WonOnce /\ OneLinkPerFamily`. `OneLinkPerFamily`
  is not inductive alone: that a refresh which won the compare-and-swap is the
  only one for its token (`WonOnce`), and that a family's first token exists
  (`FamilyRoots`), are what make creating the successor safe. The steps are
  classified into four kinds (nothing added, a family opened, a rotation won,
  a rotation finished), and each theorem is proved over the kinds.
- `SessionsAreChains` — `Spec => Chain!Spec` under `SessionOf`: every step is
  an abstract step or a stutter. Reuse detection or a logout in the middle of
  a rotation is a stutter: the abstract session stays `rotating` and becomes
  live again, which is exactly the behaviour run `reuse` reports.
  `SessionsEndForGood` follows: a session of the code, seen through the
  mapping, does not come back.
- `VersionsGrow`, `PasswordsProved`, `CredentialsRevoke`, `RejectionFinal` —
  from `AccountInv`: an entity in memory never has a later version than the
  row, and one of the row's own version agrees with it on all that the lock
  protects (`SnapshotOK`); a token version that is still current was read
  while the account was in service (`IssuerOK`, `AccessOK`); a password about
  to be written was proved against the entity read (`ProofOK`).
  `SnapshotOK` is the optimistic lock's argument: a save that matches the
  version writes over exactly what it read.
- `TokensFollowAccounts` — `Spec => Grants!Spec`: the token versions, the lock
  and the stale entities disappear behind `GrantOf`. A step changes what the
  lock protects of at most one account, or moves one request (`Splits`), never
  both: a save that succeeds leaves those about to sign where they are. When the
  version grows, all that was signed or read under an older one is outdated
  (`AccountMoves`); when it stays, the account can only come back into service,
  with no grant of it left to revive.
- `DeniedTokensStayOut` — from `DenyInv`: a denylist key expires with its
  token, and a logout that ended in `done` left the key or came after the token's
  life. Redis failing and coming back changes nothing of it, because a denylist
  that does not answer refuses. Of a logout whose key Redis did not take
  (`undenied`), which is answered with success as well, it says nothing: that
  token is accepted again, which run `signed_out` shows.

- `WalksSkipNothing`, `WalksRepeatNothing`, `ListingTyped` — from `WalkInv`: in
  the middle of a walk, a row that was sent is not beyond the cursor
  (`SentIsBehind`), and a row listed since the walk began was sent or is beyond
  it (`KeptIsSentOrAhead`). Neither theorem is inductive without both. The
  page step rests on three lemmas: `(createdAt, id)` is a strict linear order,
  the seek condition is that order, and a page shorter than asked is all there
  is.

- `WorkspacesTyped`, `DefaultsRemain`, `WorkflowsAreWhole`, `FilingsAreOwn` —
  from `TablesInv`. What a transaction will leave is settled before it
  commits: the invariant says of every draft, point by point, which rows it has
  (`Extent`) and what is in them (`Content`), that no two drafts share a row and
  an id is in the tables only once its request is done (`Exclusive`), and that
  what a request's checks found stays so (`AllAdmitted`), since workspaces and
  folders stay where they are. `AlwaysADefault` is the hard one. A rename that takes
  the default from a folder holds, in the same draft, the row of another folder
  of that workspace that is the default (`KeepsADefault`), so whichever of two
  drafts commits leaves one.
- `PathsAreUnambiguous` — needs `Indexed` beside it: an entry in a draft is in
  no committed row of another id, and in no other draft. The wait for an equal
  entry of another open transaction (`Awaits`) is what keeps it.
- `OwnersWrite` — from `AllAdmitted`: the folder and the workspace a statement
  names were the caller's when the request came, and nobody moves them.
- `ReadsAreOwn`, `OverviewsAgree`, `OverviewsAreWhole` — from
  `ReadsInv == TablesInv /\ ReadersInv`. What a reader has seen is sound for the
  statement it is at (`OverviewOf`, `AdmittedTo`), and every write leaves it
  so: a write moves no row to another owner, makes no row of an id that was there
  before and went (`Steady`, with `Past`: an id in a reader's hands is not to be
  minted any more), so what the reader saw early can be set beside what it sees
  late.

- `BlocksHold`, `NobodyIsLockedOut` — from `BucketInv`: a block that a refusal
  set has not been shortened (`BlockLasts`), and neither the counter nor the
  block of a bucket outlives the window after its last hit (`ExpiriesEnd`).
  The first makes a hit after a refusal wait, since a hit is counted only in a
  bucket without a live block; the second ends the wait.
- `BurstsAreBounded` — adds `CounterBounds` and `BurstOK`: the hits let in while
  the present counter lives are at most its count and its limit, and those of
  the window before that life began were let in under one counter too, since a
  counter lives as long as a window. Hence two limits, and not one.
- `OneFlightPerKey`, `ResponsesStayScoped`, `SweepsLeaveNothing` — from
  `CacheInv`. A call that loads is the one its process's `inFlight` map holds
  for that key from the miss until the load lands; what is stored or in flight
  under the key of a response was rendered for someone that all who build that
  key share it with; and a key that was under the prefix when the sweep began,
  and has not been stored since, is in the page the sweep holds or ahead of its
  cursor.
- `EachAsAlone` — `RedisClients` implements both `ThrottlerSpec` and `CacheSpec`:
  a step of either, of the clock or of the connection is a step or a stutter of
  the other.
- `CleanExits`, `RedisOutlives`, `GaugeCounts` — from `ProcessInv`. A chain past
  its first hooks has closed the port, and one past the drain has seen every
  connection end (`DrainedInTurn`); with the port closed no step of the server
  connects anybody new, so both stay true whatever the other chain, the timer
  and the signals do. The handlers that run are finitely many and the gauge
  is their number (`Gauged`), because each begins and ends with the interceptor.
  The lemma `NormalizeTyped` says that the filter has a status for every error.
- `ServesAsPromised` — `ProcessSpec => Life!Spec` with the port as `PortOf` and
  each request as the client `ClientOf`. A step of the server is one client
  going, or a stutter (`OneGoes`); a step of the shutdown moves the port
  (`PortMoves`), to `clean` only with the drain behind it. Only who came leaves
  (`LeftCame`), so a request that is accepted is a client that waits.
- `FailuresKeepQuiet` — an answer, once given, is not given again
  (`FailuresTold`), and the filter's verdict on every class of error hides what
  it logs as an error (`NormalizeHides`).
- `DeadTokensStayOut`, `SocketsAreCounted`, `RoomsAreTheBoundary` — from
  `GatewayInv`. The guard reads the denylist, then the account, and both may
  change in between. A token of an account's current version was signed while
  it was in service (`SignedSound`), so a rejection because of the account is
  for good; the key of a revoked token lives until its token expires. A token
  that is dead at the handshake is therefore caught by one of the two reads or
  has expired by the time it passes (`Caught`).
- `TwoRepairs` — from `RepairsInv`: the checks across variables are not reached
  while one is missing or no member of its enum, so the first report may leave
  them out; after its repair nothing is missing, and after the second the
  secrets are sound and distinct.

Every safety property the runs check is a theorem. Only model-checked: the
liveness properties (`CallsAnswered`, `StaleEntriesGo`, `EveryRequestAnswered`,
`ShutdownEnds`, `RequestsEnd`), which are out of the prover's reach.

## 7. Plan

Done: the session core, the workspace core and its reads, the listing, the
limiter and the cache, the request pipeline and the shutdown, the gateway and
the configuration, all with their proofs; the abstract session, the abstract
access token and the abstract server, all shown to be implemented.

Next: an abstract bucket for the limiter to implement.

## 8. Not modelled

- Switching tenant: no route reaches it, and it changes no state.
- The services of executions, webhooks, schedules, folders, variables and
  connections whose one operation is `findAll`: a SELECT, passed on. The
  entities of executions, schedules, webhooks and queue items have tables and
  no operations at this commit.
- Logging, the request context, Swagger, the set-up of middleware, cookies, DTO
  validation and the getters of `AppConfigService`: no state a property is
  about. Histograms, labels and the exposition format of the metrics likewise.
- Pages by number: arithmetic on a table at rest, within a unit test's reach.
- Prisma's pool as a limit, foreign-key share locks (they delay statements
  which hold nothing yet, and remove no row here), Redis losing keys it has
  acknowledged.
- `deleteExpiredBefore`, `RefreshToken` `save`, `existsByEmail` and
  `RealtimePublisher` have no caller. `findManyByCursor` and the cache have
  none either, and are modelled for the callers their documentation provides
  for.
