# A TLA+ model of Data Explorer

Data Explorer is a NestJS server and a React client with which users connect to
their databases, query and edit them, migrate tables between them and share the
results.  This directory holds specifications of the parts of the server and of the
client whose correctness rests on the order of steps, the configurations with which TLC
checks them, and TLAPS proofs.  Paths below are relative to `server/src/` of the
repository, those that begin with `client/` to `client/src/`.

## 1. Inventory

The server is a set of NestJS services in one or more Node.js processes.  Inside a
process there is one event loop: the code between two `await`s is atomic, and every
`await` lets every other call run.  The processes share PostgreSQL (Prisma) and Redis
(cache, presence, notifications, BullMQ queues).  Services call each other directly;
the browser calls controllers over HTTP, and receives events (SSE).  A browser has
several tabs, each with a store in memory (Zustand); they share one cookie and the store
as it was last persisted.

| Component | State | Operations | What is hard | What makes it correct | Module |
|---|---|---|---|---|---|
| **Connection pools** `connections/` | maps `pools`, `poolCreations`, `tunnels`; row and health state in PostgreSQL | `getPool`, timer `cleanupPools`, `update`, `remove`, `removePool`, `onModuleDestroy` | requests and closers interleave at every await; failures between tunnel, pool and health write; soft limits | one creation per key; no pool or tunnel lost; every call answers | ConnectionPools, PoolCache |
| **Migration jobs** `migration/` | BullMQ job and progress; buffer, cursor, batch size, promise chain in memory | worker `process`, stream events, `flushBuffer`, `handleEnd`, `handleError`, `closeResources` | data, end and error events race with asynchronous flushes; retries with smaller batches; worker death and second run | completed means every row arrived; no row twice but for retries; exact progress; pools closed; the job ends | MigrationPipeline, BatchSizing |
| **Billing** `billing/`, `users/` | payments, subscription, user rows in PostgreSQL | `createCheckout`, webhooks, expiry in `findById` | notifications repeated, concurrent and late; READ COMMITTED, row locks, deadlocks | a payment counts once and for good; days add up; only what is over expires | Billing |
| **Cache freshness** `common/freshness`, `metadata/`, `query/`, `ai/ai.schema-context.service.ts` | version per namespace and scope, cached values, all in Redis | `buildKey`, `bump`, fills; `invalidateQueryCache`, `refresh`, `clearCache` | read-then-write versions, fills started before an invalidation, two keys of one request, scopes derived in two ways | no stale value served to who asks after an invalidation of its scope | Freshness |
| **Organizations** `organizations/` | members, invitations, roles | create, invite, accept, decline, change role, remove, delete | check-then-act between requests, a crash between two inserts | an organization keeps an owner; an invitation never changes a member's role | Team, Workspaces |
| **Saved queries, dashboards, ERD workspaces, permissions, teamspaces, version history** | row, policy, teamspace, versions | save, share, unshare, restore, remove, assign | largest number plus one, read before the write; rows written back as they were read; several writes without a transaction | numbers without gaps; the history is current; policies follow sharing; who may edit may not share | Sharing, Workspaces |
| **Backup and restore** `organizations/services/organization-backup.service.ts` | snapshot, new teamspaces and copies | export, restore | no transaction; teamspaces created and deleted meanwhile | a copy lands in the copy of its teamspace | Backup |
| **Presence** `presence/` | Redis hash with time stamps | heartbeat, list, leave | the sweep of a list against a heartbeat | a fresh entry stays | Presence |
| **Notifications** `notifications/` | subject and reference count per user, Redis subscription | stream, release, emit | unawaited unsubscribe before a subscribe | an open stream has its channel, and hears | Notifications |
| **Search index** `search/` | Redis keys per user | rebuild, search | two rebuilds at once, one cut half-way, refused commands nobody notices, ids that collide | what one rebuild wrote alone is found exactly | SearchIndex |
| **Collaboration, audit log, retention** `collaboration/`, `audit/`, `data-retention/` | audit rows | comment, reply, resolve, clean up | threads rebuilt from a bounded part of a log that loses and forgets rows | an answered thread stays | Comments |
| **Authentication and client session** `auth/`, `client/core/services/` | refresh hash per user; cookie; store of each tab, `refreshPromise` | bootstrap, login, requests, refresh, logout | several tabs, users and requests over one cookie; answers lost or late | logout is final; a tab shows its user's work; no tab ends another's session | Session |
| **AI assistant** `ai/`, `client/presentation/hooks/useAiChat.ts` | provider chain, response; messages in panel and database | generate, stop, edit, regenerate, reload | fallback after partial output, hanging providers; saves nobody awaits | one voice per answer; the response ends; a reload shows the same | AiStream, AiChat |
| **Query execution** `query/`, `client/presentation/modules/Query` | cache of results, tabs, one question | run, confirm, clear, switch, load | results cached across tabs, statements executed again | nothing executes unasked; a destructive statement only when confirmed | QueryTabs |
| **Data grid** `client/presentation/modules/DataGrid` | pending changes, saves under way | edit, save, cancel, schema, insert, delete | edits during a save, switches, failures half-way | an edit is stored, discarded or shown | GridEditing |
| **ERD canvas** `client/presentation/modules/Visualization/ERDWorkspace`, `erd-workspaces/` | canvas, what its tab or page remembers, list of workspaces, rows | draw, remember, save, open, delete, leave, return | answers that come after the canvas has turned to something else; a timer and a list that lag | a drawing stays in its workspace and database | ErdCanvas |
| **Accounts** `auth/`, `users/` | password, code of the verification and of the reset, in the user's row | register, verify, resend, forgot, reset, change, sign in by OAuth | a row read before bcrypt and written after it; codes that expire or are replaced meanwhile | a code is good once; a verified password is its owner's | Accounts |
| **Query guard, SQL splitter** `query/query-guard.util.ts` | none | split, normalize; classify | quotes and comments that contain each other | statements split at the right places | SqlBatch |
| Database strategies, NoSQL, other pages and dialogs, prompts, mail, seed | none, or that of one component | driver calls, rendering | - | - | - |

## 2. Plan

Done: the pools and their abstract cache, migration and its batch plan, billing, freshness,
teams and shared resources, presence, notifications, search index, comments, sessions,
accounts, the assistant's stream and chat, query tabs, grid edits, ERD canvas, backup, the
splitting of SQL; and theorems about all of them.  What follows, most useful first:

1. Tunnels that die after they were opened, in `ConnectionPools`.
2. An abstract session (one user per tab, or none) that `Session` implements.
3. The query guard's lists of keywords, and the dialects that `SqlBatch` leaves out.

## 3. The modules

### ConnectionPools, PoolCache

A *client* is a request inside `getPool`, a *janitor* a call that closes pools; both
sets are constants, so their number is unbounded in the proofs.  `pools`,
`lastAccessed`, `poolCreations` and `tunnels` are the maps of the service, keyed by
connection and database; `row[c]` is the version of the stored configuration.  The
program counter of a client stands at its awaits:

| `pc` | await in `connections.service.ts` |
|---|---|
| `fetched` | `findUnique` and the permission check of `getPool` |
| `joined` | the pending promise of another creation |
| `sweeping` | `cleanupPools` at a soft limit |
| `ssh` | `openTunnel` |
| `connect` | `strategy.createPool` |
| `health` / `failing` | the health write after the pool / in the catch |
| `using` | the caller's query |

`closePoolByKey` has two awaits (`lookup`, `ending`); its loops are `job` and `todo`.
A creator runs a loop itself when it sweeps, so loops belong to clients too.  `EndPool`
joins the strategy's close and the fallback, which differ only in the driver call;
`Settle` is the moment a promise settles: the creator and those who joined it go on.
`PoolCache` is the abstract specification: a key is filled by one caller at a time,
only when empty, with a new pool.  `MCConnectionPools` has the instances.

Two history variables name the exceptions the code does have.  `overlapped` holds the
keys that two closers were closing at once, `stranded` the pools whose health write
failed after they were cached.  The properties say that *nothing else* loses a pool or
a tunnel.

### MigrationPipeline

One job.  `kind` chooses between the event stream and the iterator (SQLite); both are
explored.  Rows are numbered and leave the source in order, so the promise chain, the
buffer and the pending rows are three counters and `imported[r]` tells what the target
has.  `owner` and `flush` say who is inside `flushBuffer` and at which await; `endPc`
follows `handleEnd`, `failing` counts the `handleError` calls that await `failJob`.
`ImportFails(n, retryable)` lets the target keep any `n` first rows of the attempt.
`ProgressFails(retryable, applied)` is an `updateJob` that rejects before its update was
applied, or after it (the reply of Redis is lost, or a listener of the emit throws); then
the retry counts the batch again, which `recounted` records.
`Crash` is the death of the worker, after which BullMQ runs a stalled job again from
the first row; a rejection that nobody handles ends the process too (`FailRejected`).
The batch plan is a pair of constants: `PlanAssumption` is what the clamp of
`planMigrationBatchSizing` guarantees.

### Billing

The rows of one user: `status[p]` for each payment, `sub`, `user`.  Rows of different
users share nothing.  A *handler* is one webhook request, a *reader* one `findById`.
Each statement is an action that sees committed data; `claimer`, `extender` and
`expirer` are the row locks, whose holders' writes appear at commit.  An `UPDATE` that
waits tests its `WHERE` again when it is granted the lock, which is why `Claim` tests
`status` together with the lock.  `Deadlocked` is PostgreSQL's detector; `Abort` and
`AbortExpiry` roll back, for it or for a fault.  Time is a clock that ticks, expiry
dates are clock values.  `base[h]` is the expiry a handler has read; `outdated` and
`raced` record that another activation overtook what a handler or reader has read.

### Freshness

The cached values of one database of one connection.  A call names the database or leaves it
to the connection (`Configured`: whether the connection has a default one), and the scope of
a version follows from that in two ways: `WriteScope` falls back to the connection's
database, as `QueryService` does; `ReadScope` is that of the AI context and of `refresh` and
`clearCache`, which do not.  A *space* is a namespace with a scope.  A *reader* is a request
for a row count, for metadata ("hierarchy" stands for the six kinds, which are read and
bumped alike) or for the AI schema context; a *job* is a write, a `refresh` or a
`clearCache`.  Servers share the cache and await each of its calls, so a step is one call.
A value is the number of changes of the database it has seen.

| `pc` | await |
|---|---|
| `keying`, `keyed` | the read of a version for the second key of a context; the read of the value |
| `sourcing`, `fetching` | the read of the cached inventory; the queries to the database |
| `storing`, `composing` | the write of what was fetched; the columns of the context and its write |

`todo[j]` are the spaces job `j` has yet to bump, in the order of the code
(`Target`), `base[j]` the version it has read of the first.  `ChangeSilently` is a change
that no bump follows: raw SQL, other clients of the database, and the first statements
of a schema change that fails.  Two history variables name what the code does not
promise: `regressed` holds the spaces whose version a slow bump has set back,
`mixed` those of which one request saw two versions between its two keys; without
either exception the property fails.  `Requests`, `Calls` and `Namespaces` say which requests,
jobs and namespaces an instance looks at: namespaces do not depend on each other.  `floor`
is what the space of a request's key had been told of when it started, `owed` what any
finished job had; AnswersFresh promises the first, and the run StaleReaders
shows that the second is not kept.

### BatchSizing

`planMigrationBatchSizing` as operators on integers.  It is not a state machine: its
results are the constants `MinBatch` and `Recommended` of the pipeline.  That they meet
`PlanAssumption` is proved for every engine, number of columns and size of a row.

### Team, Sharing, Workspaces, ErdCanvas, Designs (MCWorkspaces)

`Team` is one organization from its creation to its deletion.  A request checks with one
query (`Check`) and writes with later ones (`pc` is `write`, or `mark` for the acceptance
of an invitation after the membership).  The checks of one request are one step.
`overtaken` says that some write followed a check that another request had made untrue,
`halfMade` that a creation was cut between the row and its owner: OwnerRemains says that
it takes one of them to leave a team without an owner.

`Sharing` is one query, dashboard or ERD workspace (`kind`), its row, policy, teamspace
and versions.  The program counter of a request names the await it is at: `find`,
`check`, `manage`, `write`, `policy`, `read` (the latest version) and `insert`.  `crossed`
says that two saves met or one left no version (the history's table may be missing, and
the number a save wants may be taken).  An assignment asks for the role of who assigns and
for the teamspace, and makes a policy row for any resource, shared or not, there or not
(`Assign`, `WriteAssignment`); a removal of the policy that fails is swallowed
(`PolicyFails`).  `dangling` says that one of the two has left the policy as it is, until
a save that keeps the policy in step mends it.  `Workspaces` composes both: roles come from the
team, and deleting the organization takes the policies and the teamspace away.

`ErdCanvas` is the browser's side of an ERD workspace.  `canvas` is the state of the
component while it is mounted, `remembered` what `setPageState` or `updateTabMetadata` has
last kept of it under `Key`, `listed` the browser's list of workspaces.  A save in `posts`
carries what the canvas showed when it was sent; `here` says whether the component that
sent it is still mounted.  A page is keyed by its database, so that opening a workspace of
another database mounts that database's canvas.  `astray` and `unheard` name the drawings
for which the code gives no promise: among the latter those whose canvas was left, or whose
workspace was deleted, while what was remembered under its key still lacked that workspace
(`Unlearned`).  `Designs` has the server and the canvas, and a behaviour exercises one of
them.

### Presence, Notifications, SearchIndex, Comments, AiStream, SqlBatch, Services (MCServices)

Small protocols over Redis, PostgreSQL and providers; each command or row is a step.

- `Presence` keeps ages instead of times, so that behaviours need not end.  `visit` is a
  request: a heartbeat writes, renews the expiry and goes on with the list's sweep.
- `Notifications` has one connection to Redis whose commands are answered in order
  (`pipe`); `subscribers` is the reference count, `owed` the streams that a notification
  has to reach.
- `SearchIndex`: a rebuild reads the manifest, deletes, and writes in pipelines.  Items of
  two connections may have one id (`IdOf`), under which the hash keeps the last written.
  `Commands` are those of a pipeline; Redis may refuse some (`Refusals`), which nobody
  reads.  `wanted` is known when the last rebuild ran alone and had none refused;
  `orphaned` says that the hash may lie outside the manifest, where the next rebuild alone
  does not delete it.
- `Comments`: threads are put together from the first `Window` rows of a log
  (`Read`, `Threads`).  `acked` are threads whose creation was answered with the thread.
- `AiStream`: an answer goes through the chain of providers with attempts, a fallback of
  the response format and timeouts.  The server does not notice that a client has gone.
- `SqlBatch` has no protocol: its state is a text that grows by a character, and
  `Cuts`, `Blank` and `Statements` are what the code makes of it.  A loop is a recursive
  function from the positions of the text to the state behind each (`Loop`, `Replaced`).
  `Lexemes` and `SaysNothing` are written from the language instead.

### Session (MCSession)

Tokens are numbered as they are issued, older ones expire first.  `row[u]` is the token
whose hash the server stores, `cookie` the browser's, `tab[t]` the page's user, access
token and workspace.  `req` are API requests (sent, or waiting for the refresh of their
tab), `call` calls to `/auth` with an answer that may be lost, late or for a page that is
gone.  bcryptjs compares 72 bytes, which is why `Matches` takes every token of the user:
two tabs that refresh with one cookie both succeed.  `mixed`, `ended` and `out` are
history variables that the properties name as exceptions.

### AiChat, Assistant (MCAssistant)

One chat: `messages` is the panel, `rows` the database, `posts` saves under way, `gen[g]`
the generation that answers question `g`, `hook[p]` the refs and state of the panel's
`p`-th opening.  A message sent here keeps an id that the server has never heard of, so
an edit of it deletes nothing there.  `drifted` are the messages that the code lets
differ, for the reasons that ReloadShowsTheSame names.  `Assistant` has the chat beside the
cached schema (`Freshness`) that prompts are built from.

### QueryTabs, GridEditing, Backup, Accounts, Editors (MCEditors)

- `QueryTabs`: `cache` has one entry per connection, statement and number of the run;
  `Render` is React's: every change of the store lets each tab fetch what its key lacks.
  `requests` are under way (`sent`, `asked`, `again` with the confirmation), and `home`
  tells whether somebody still waits for the answer.  The counters `pressed`,
  `occasions`, `confirms` and `ran` state what was asked for and what was executed.  The
  databases may execute a statement whose answer is lost.  Pages of results are left out:
  only reading statements have them.
- `GridEditing`: edits are numbered as they are typed.  `save[s]` is a run of
  `handleSaveData` with the changes it captured, which goes on when the grid is left;
  `jobs` are schema changes, deletions and insertions.
- `Backup`: an export reads teamspaces and policies; two restores of it create teamspaces (a
  slug is probed, then created) and copy the resources, while others create and delete
  teamspaces, assign resources and copies (`Assign`) and withdraw copies from the
  organization (`Withdraw`).  `copied` are the copies there are, `moved` those that somebody
  has assigned or withdrawn since the restore attached their policy.
- `Accounts`: a call reads the row of one address (`Ask`), waits for bcrypt, and writes it
  by its id; `seen` is the row as it was read.  Codes and passwords are numbers.  `rivals`,
  `undone` and `raced` name what two calls that met may do to each other.

`Services`, `Designs`, `Editors` and `Assistant` compose several modules that share nothing;
a behaviour exercises one of them (`focus`), so that one run checks each without their
product.  The theorems `ServicesKeepApart`, `DesignsKeepApart`, `EditorsKeepApart` and
`AssistantKeepsApart` say that nothing is lost by it: a behaviour of the composition is one
of each module.

## 4. What TLC checks

| Run | Question | Bounds |
|---|---|---|
| PoolsOverlap | do creations, failures and overlapping closes of one key lose a pool or a tunnel, and is the cache a `PoolCache`? | 2 clients, 2 janitors, 1 key with SSH, 2 pools, 2 tunnels, 2 configurations |
| PoolsPressure | does every `getPool` answer when creators sweep at the soft limit? | 2 clients, 2 connections (one without a strategy) of 2 databases, limit 1, 2 pools, 1 tick |
| MigrationFlow | what does `completed` mean, what its progress; does a job end and return its pools? | 7 rows, sizes 3 to 5, 3 failures, 1 second run |
| MigrationRace | does a failed import fail its job? **No**, see 5 | 4 rows, 1 failure |
| Billing | are payments counted once, for good and in full, and does one that was made become paid? | 2 payments (one per provider), 2 webhooks, 1 reader, 1 fault, clock to 2 |
| Assistant | is a schema context served that an acknowledged change made stale; does a chat reload as it was shown? | 1 reader that names the database, 2 jobs (writes that leave it to the connection, refreshes and clears that name it), 2 changes, 2 bumps; 2 questions, 2 openings of the panel, 1 lost request |
| StaleReaders | does a write reach the metadata, or the context of who does not name the connection's default database? **Neither**, see 5 | 2 readers, 1 job |
| Workspaces | does a team keep its owner, a history its numbers, a resource its policy and its scope, a drawing its workspace? | 2 users, 2 requests each, 6 calls of the team, 3 of the resource, 1 crash, 1 failed query; 2 databases, 2 saves, 2 drawings, 3 turns of the canvas |
| Services | six questions of MCServices, two of them about liveness | presence: 2 users, 2 visits, window 2, life 4; 3 streams, 5 openings, 2 notifications, 1 refusal; 3 items of 2 ids, 2 terms, 3 rebuilds (2 at once), 1 death or pipeline with a refused command; 4 comments, window 3, 1 lost row; 3 providers, 3 attempts, 2 chunks; texts of 7 characters, 6 with quotes |
| Editors | what executes, what edits become, where a restore puts things, what a code is good for | 2 tabs, 2 connections, 2 runs, 2 moves, 1 fault; 2 rows, 3 edits, 2 saves, 2 moves, 1 fault; 1 resource, 2 restores, 1 creator, 2 other acts; 2 requests, 4 calls on an account |
| Session | is logout final, is a tab its user's, does every request settle? | 2 tabs, 2 users, 2 requests of one tab, 2 calls, 4 acts |
| RecoveryLost | does an expired session keep the recovery of its workspace? **No**, see 5 | as above |

Why the bounds suffice.  Two clients are the creator and the one who joins or comes late,
two janitors the two closers that overlap, two pools the one that is closed and the one
created meanwhile.  Seven rows with sizes 3 to 5 give a full, a reduced and a short last
batch; three failures reduce the size to its minimum.  Two webhooks of two payments give
duplicates as well as concurrent activations, and plans of two units and one unit expire
within the clock.  Two jobs are the bumps that read one version, and three versions let the
slower be overtaken twice.  Two members are two owners who demote each other, or an owner
and the guest invited; a team is founded, joined and changed within six calls.  Three calls
on a resource are two that meet and one that looks.  Two drawings and three turns are two
workspaces saved at once, the first opened before the second is answered; more are left to
the theorem about any number.  While the team does not change, an administrator may do to a
resource what an owner may, so that the run leaves one of them out.  Three streams are one
that leaves, one that comes, and one that stays; five openings let each be used again.
Window 3 with four comments drops the last.  Three providers tell the first, one between and
the last apart.  Four acts of a session are a logout, a login, a loss and an expiry, in any
order; the calls they start add the refreshes and boots.  Two runs in two tabs meet in one
cache entry; two moves are a load after a switch.  Two restores meet at one slug; two acts
are a teamspace deleted and a copy moved.  Three rebuilds are two that meet and one alone
behind them; three items are two of one id and one beside them; a refused command leaves the
hash or a term unregistered.  Four calls are a registration, a code, and two that use or
replace it.  Six characters hold every pair of lexemes that can be mistaken for each other
with a semicolon between them, seven the exception named in 5.  The readers of the caches,
the requests of a tab and the restores interact only through what is stored, so that more of
them repeat what two can do; where a theorem exists (6), it is for any number.  Deadlock is
checked in the runs of the pools.  In the others the bounds, the clock, the faults, the
changes and the versions run out, or a job ends for good.

Fairness.  Pools: a driver, the tunnel and PostgreSQL answer or time out, so the next
step of a call that began is taken (weak fairness per call); that a request, a timer or
a tick ever comes is not assumed.  Migration: the same for the databases and the queue,
and the source produces its rows; failures are never forced.  Billing: requests go on;
PostgreSQL serves the waiters of a row in turn and a provider repeats the notification
of a payment until it is acknowledged (strong fairness: waiters and the handlers of the
model are not enabled all the time).  Notifications: Redis answers and hands messages
over.  AiStream: the context is built or not, and the timeouts of attempts and chunks
fire; that a provider answers is not assumed.  Session: the server answers, the network
delivers or reports that it does not, and callbacks run; what users do is never forced.

Symmetry is used for clients, janitors, handlers, jobs and requests, in runs without liveness
properties only.

## 5. Where code and text disagree

Runs that show it:

- **MigrationRace**: a flush that fails is turned into an `error` event, so the promise
  chain `handleEnd` awaits resolves; when the stream has ended, `handleEnd` can finish
  before `failJob` is done, and the job completes with rows missing.
- **StaleReaders**: writes and schema changes bump the namespace `metadata`, but no key of
  `MetadataService` is built from it; what it has cached is served until its TTL or until
  somebody calls `refresh`.  They also bump `ai-schema`; but on a connection with a default
  database, a write that does not name it does so under that database
  (`query/query.service.ts:789-792`), and a context asked for without naming it is keyed under
  `default` (`ai/ai.schema-context.service.ts:117`): it too is served as before.  The write's
  test expects both bumps (`query/query.service.spec.ts:141`, `:171`, `:172`).  One trace shows
  both.
- **RecoveryLost**: when the refresh of an expired session is refused, `tryRefreshSession`
  logs out and saves the recovery; the request that asked for it logs out once more and
  clears it.

Exceptions that the properties have to name, because the code has them:

- Pools.  `update` closes pools before it writes the row, several awaits later: a
  `getPool` in between caches the old configuration until its TTL.  Of two overlapping
  closes the second removes a pool that was created in between and stays open.  A type
  without a strategy throws after its tunnel was opened and outside the `try` that closes
  it.
- Migration.  An `updateJob` that rejects after its update was applied
  (`migration/migration.service.ts:146-151`) is retried with its batch, whose rows are
  written and counted again: the progress exceeds the rows by those (`recounted`).  A
  context that fails half-way keeps the pool it has opened until the pools' own sweep;
  JobSettles is about contexts that were resolved.
- Billing.  `findById` decides on an earlier read and updates by id: a renewal committed
  in between falls back to `free` while its subscription is active (`raced`).  Two activations
  that read the subscription before either writes it lose one of the extensions (`outdated`).
- Teams.  Two owners demote or remove each other at once; a creation dies before its owner
  is added.  A removed query or ERD workspace leaves its `OrganizationResource` row, while
  the design of teamspace permissions
  (`docs/superpowers/specs/2026-05-03-teamspace-share-permissions-design.md`) wants "If a
  resource is unshared or removed, its teamspace assignment should clear with it".
- Sharing.  An assignment makes a policy for a resource that is not shared, or no more
  (`teamspaces/teamspaces.service.ts:249-294`); `removeResourcePolicy` swallows its failure
  (`organizations/services/organizations.service.ts:529-537`), so that an unshare is
  acknowledged and the policy stays (both `dangling`).  An edit writes back the scope it has
  read, and so undoes an unshare, or a sharing, that was made meanwhile (`crossed`).
- Presence.  A heartbeat between a list's scan and its deletion of stale entries is deleted
  with them.
- Search.  Ids do not tell connections apart (`search/search.service.ts:82`): of two tables
  of one name one is lost.  The errors of a pipeline are not read
  (`search/search-index.repository.ts:123-125`): a rebuild succeeds with terms or items
  missing, and with the hash unregistered, so that its items stay when later ones go.  A
  rebuild that met another one promises nothing.
- Comments.  A reply to a reply gets the reply's id as its thread and is dropped; rows after
  the 500th are not read; retention of a thread's first row hides its replies.  The code
  sorts by `createdAt`, the model keeps the order in which rows were inserted: two rows of
  one millisecond, or of servers whose clocks differ, are not told apart.
- Session.  A request is repeated with the old `Authorization` header after a refresh that
  succeeded, fails again and signs the tab out.  A boot refusal that arrives after a login
  signs it out, and a wrong password or a refused bootstrap clears the recovery.
  `restoreSession` keeps the workspace when the cookie belongs to another user.  A refresh
  that had read the row before a logout revives the session.
- Assistant.  A schema context that throws after the headers went out leaves the response
  open for ever.  Ids given in the panel are unknown to the server, so an edit or a
  regeneration of such a message is refused there and deletes nothing, although the slice
  says that all messages after it are deleted.  A stop after the last event saves a second
  row; the text of a chunk still pending overwrites the final text; a panel reopened under a
  generation, a lost save or a double click let panel and database part.  Messages of a
  panel without a connection are never saved.
- Query tabs.  `client/presentation/modules/Layout/TabsSection.tsx:77` says that tabs are
  isolated "even if they query the same database", but two tabs that run one statement
  under one number share a cached result: the second executes nothing.  Clear in one tab
  lets the others' statements run again; so do a load and a switch of the connection, for
  statements that change data too.  A second question replaces the first, whose tab waits
  for ever, and Ctrl+Enter works behind it.
- Grid.  Edits typed during a save are dropped when it ends; edits pending at a switch go
  to the new connection; an update of a row that is gone counts as stored; after a failure
  the rows already stored stay pending; Cancel does not stop a save; the schema designer's
  save resets `isSaving`, so that two saves may overlap and an older edit lands last.
- ERD canvas.  On the ERD page, opening a workspace of another database shows that
  database's canvas as it was last, not the workspace, and says that it was loaded.  A tab
  that comes back, or whose connection is renewed, falls back to its own database with the
  other's drawing, which a save then moves.  The answer of a save or a deletion that
  comes late gives the canvas a workspace that is not the drawing's; a save repeated before the
  first is answered, or after a departure within half a second of the answer, makes a second
  workspace.
- Accounts.  Two resets that have both found a code right both succeed; a reset that had
  seen an older or expired code takes away the one that was mailed meanwhile; a
  registration repeated while a code is being verified, or written after the address was
  verified, decides the password.
- SQL.  A piece such as `--/*`, a line break, `*/ SELECT 1` is dropped unexecuted:
  `normalizeSql` removes the block first and then takes the rest for the comment.  The
  splitter knows neither backticks, brackets, `#` comments and dollar quotes nor nested
  comments: it reads one SQL for all databases, and those are outside the alphabet of the
  model.
- Backup.  A restore that fails leaves what it has created; a slug taken or a teamspace
  deleted in between makes it fail; a policy whose teamspace the backup lacks becomes
  unassigned.  A copy is in the list as soon as it is created: whoever assigns it before the
  restore attaches its policy is overwritten (`organization-backup.service.ts:515`); whoever
  does after, or withdraws it, has the last word (`moved`).

## 6. What TLAPS proves

For every value of the constants that meets the named assumptions (`ProcessesAssumption`,
`LimitsAssumption`, `PlanAssumption`, `BillingAssumption`, `CacheAssumption`,
`ChatAssumption`, `FounderIsUser`, `WorkspaceAssumption`, `DesignsAssumption`,
`SessionAssumption`, `StreamAssumption`, `PresenceAssumption`, `NotificationAssumption`,
`IndexAssumption`, `CommentAssumption`, `ConnsAssumption`, `TabsAssumption`,
`BackupAssumption`, `TextAssumption`).  They say that bounds are numbers, that sets which
are counted are finite and that names do not coincide; PresenceAssumption says that the
window of presence (90 s) is shorter than the life of its hash (180 s):

- `ConnectionPools_proofs`: `TypeCorrect`; `Invariance`, the inductive invariant;
  from it `OneFlightPerKey` (SingleFlight), `NoPoolLeaksUnlessOverlapped`
  (NoOrphanPool), `CachedPoolKeepsTunnel` (TunnelServesPool), `PoolsImplementCache`, that
  every step is a step of `PoolCache` or a stutter (ImplementsPoolCache),
  `NoPoolIsReplaced`, and, for types that all have a strategy, `NoTunnelIsLeftBehind`
  (NoOrphanTunnel).  NoOrphanPool is not inductive: one has to know that a creation owns
  its empty slot (`CreationOwnsSlot`, which rests on SingleFlight), that pools lie under
  their own key (`PoolsAccounted`) and that a closer nobody overlaps still has its pool in
  the map (`ClosersAccounted`).
- `MigrationPipeline_proofs`: `TypeCorrect`, `BatchesStayInPlan`, `NoRowIsLost`,
  `DuplicatesNeedAFailure`, `ProgressIsExact`.  The invariant places every row: those behind
  the buffer and the pending rows have arrived (`RowsBehind`), those ahead have not
  (`FreshAhead`), and nothing is under way when a pipeline ends well (`EndsDrained`, which
  needs the relations between counters in `Shape`).  Of the plan: `PlanMeetsAssumption`, and
  `BudgetEndsAtEightyColumns`: a table of more than 80 columns exceeds 2000 parameters of
  SQL Server in its least batch, below which no retry goes.  Progress is exact up to what
  `recounted` says.
- `Billing_proofs`: `TypeCorrect`, `EachPaymentCreditedOnce`,
  `PlanIsRight` (PlanFollowsSubscription), and the action properties
  `PaidForGood` and `ActivationsAddUp`.  The argument is that row locks have one holder,
  the one the program counters say (`LocksHeld`), and that what a handler has read
  holds unless it was overtaken (`BaseCurrent`, `UserFollows`).
- `Assistant_proofs`, the cache: `TypeCorrect`, `Invariance`, `NoStaleAnswer` (AnswersFresh)
  and `NothingAwaitsABump` (BumpsEmpty).  A value is cached under the version its reader saw
  before it asked the database, so nothing lies ahead of the stored version
  (`EntriesBehind`, `ReadersBehind`), and what lies under it has seen what was told of
  (`TellsTruth`).  All of it is about one space at a time, however its scope was derived.
  That two bumps that write the same version lose nothing needs `BumpsTruly`: what a reader
  may cache under the version a bump is about to write has seen what the bump tells of.
- `Assistant_proofs`, the chat: `ChatIsTyped` and `QuietChatIsSaved` (ReloadShowsTheSame).
  The property speaks of the moments when nothing is under way; the invariant `ChatInv` says
  at every moment who is to be blamed for a difference.  What the panel shows is saved, is
  being saved, is an answer still read, or lies behind a question whose edit has already cut
  the database and is about to cut the panel (`ShownIsSaved`, `Doomed`); what is saved or
  being saved is shown (`SavedIsShown`); both have one text (`SameText`) and lie once on
  either side (`EachOnce`).  The hard step is an edit, which deletes by position, in the
  database first and in the panel later.  It removes the same messages on both sides because
  panel and database agree, message by message, up to every question that was loaded from
  the database (`Aligned`); questions sent here have ids the server refuses, so that an edit
  that deletes is one of a loaded question (`EditsKnown`).  Between the two cuts nothing may
  land behind the question (`NothingBehind`), also when the panel was reopened meanwhile and
  has lost the question itself (`NothingShownBehind`).  TLC checked `ChatInv` as an
  invariant of the whole run before the proof, and simulated it with three answers, three
  openings and two faults.
- `Workspaces_proofs`, the team: `TeamKeepsOwner` and `AcceptKeepsRoles`.  What a request has
  checked still holds unless it is marked stale; so somebody who demotes or removes an owner
  is another owner.
- `Workspaces_proofs`, the resource: `WorkspacesTyped`, `HistoryNumbered`,
  `HistoryIsCurrent`, `HistoryIsFaithful`, `PolicyIsRight` and `EditKeepsScope`.  Saves that
  have not met are apart: at most one is between its write and its version, and the row is
  as it found it.  That the policy is right holds unless `dangling`, which `PolicyFails` and
  an assignment of an unshared resource set and `KeepPolicy` ends.
- `Workspaces_proofs`, the canvas: `DrawingsKeepApart` (DrawingsStayApart).  That a drawing
  lies in one workspace is far from inductive, because whoever holds it without its
  workspace will save it as a new one.  So the invariant is about everybody who holds a
  drawing (canvas, memory, rows, list, saves): each holds it for the workspace and database
  it was made under (`HeldRightly`); it lies in one workspace or waits for the one save that
  makes one (`OnePlace`); a canvas without workspace whose drawing has a place waits for
  that save and no other (`CanvasWaits`); a memory without it belongs to a canvas that
  knows, or to that save (`MemoryWaits`); and a canvas about to lose a deleted workspace
  shows nothing that lies elsewhere (`ForgottenAlone`).  Steps that give no drawing a place
  (`Quiet`) keep OnePlace by one lemma; the others are drawing, the save, its row and its
  answer.  The attempt showed that `unheard` was too small: the property failed after seven
  turns, beyond the bound of the run, when a workspace was deleted before the canvas had
  remembered it.  The ghost now has that case, which the code allows, and runs of the canvas
  alone with seven and eight turns agree.
- `Session_proofs`: `SessionTyped`, `NobodyComesBack`, `TabsShowTheirUser` and
  `NoTabEndsAnother`.  The stored hash is always that of a token of its user, every token a
  tab, cookie or call holds was issued to the user it is held for, and until a session ends
  the cookie is good, so that no refresh is refused.
- `Services_proofs`: `NoFallbackAfterOutput` (OneVoice): what was said so far came from the
  provider that is being tried, and it is only left while nothing was said.
  `FreshPresenceStays` (FreshEntriesStay): the hash outlives its fresh entries, unless a
  heartbeat that has written one has still to renew it (`FreshIsCovered`).
  `OpenStreamsKeepChannel` (OpenStreamsHaveChannel): the counter is the number of live
  streams and commands lie in the pipeline in the order of the counter's crossings of zero
  (`Orderly`), so that behind an open stream there is nothing but subscriptions
  (`ChannelLasts`) and without streams the last word is an unsubscription (`LastWord`).
  `AnsweredThreadsRemain` (AnsweredThreadsStay): rows are only appended, and only old ones
  deleted, so what the first rows of the log tell stays told.  `SearchFindsItems`
  (SearchIsExact): every key that exists is in a manifest or will be deleted by the rebuild
  that read it (`HashIsListed`, unless the hash is `orphaned`), and a rebuild alone with no
  command refused has written what it has passed, up to items of one id
  (`RebuildsProgress`).
- `Services_proofs`, the text: `TextsAreSplit` (SplitAtStatements), about every text of any
  length.  The state of the splitter's loop in front of a character tells where the next
  lexeme of SQL begins (`Resume`); that it does so at each character, by induction over the
  positions (`LoopKeepsStep`), makes the cuts the semicolons that are lexemes
  (`CutsAreLexemes`).  As long as a piece has only silent lexemes that do not mislead,
  `normalizeSql` replaces its block comments and no others (`ReplacesComments`), so what is
  left of it is blank (`SilenceIsBlank`); and a piece that is blank has no lexeme to execute
  (`BlankIsSilence`).  The induction is over the least position at which a claim fails: the
  library's induction theorems take an operator, which the provers cannot instantiate, so
  `UpTheNumbers` and `RecursionExists` are proved for sets and functions, from the fact that
  a nonempty set of numbers has a least one.
- `Editors_proofs`: `AccountCodes` (CodesGoodOnce) and `AccountPassword`
  (VerifiedAsRegistered): a code that a call has found right was in force when it read, and
  calls that found the same one are known as rivals (`RivalsAreKnown`); a confirmed
  account's password is vouched for (`Vouched`).  `RestoresAreFaithful` (RestoreFaithful):
  the teamspaces that two restores have made differ (`MapsApart`), and at each program
  counter a restore has copied what it has passed and nothing else, where it belongs unless
  `moved` (`RestoreInOrder`).  `EditsReachTheirRow` (EditsLand): an open edit is the pending
  one of its row (`EditsShown`), a row has the last edit that no save overtook (`RowsKnow`),
  and each run of the save knows what it captured and what is left (`SaveKnows`).
  `StatementsRunOnce` (RunsAreAskedFor), by counting: executions, requests under way and
  tabs whose entry is missing are together no more than what was pressed or occasioned
  (`RunsBounded`), and confirmed drops that are executed or sent again no more than
  confirmations (`AgainBounded`).

Each file has one lemma per group of actions and lemmas for what a conjunct depends on;
the temporal theorems combine them at the end.

Every invariant and action property of the passing runs is stated by a theorem.  Only
model-checked are the liveness properties (CallsAnswered, JobSettles, PaymentActivates,
EmittedIsHeard, ResponseEnds, RequestsSettle), because proofs about fairness and ENABLED
are out of the prover's reach.  The type invariants and `BumpsEmpty` are proved and not
part of a run.  No module declares a recursive operator.

## 7. What is not modelled

Most of the repository's lines are views, texts, forms and adapters of drivers, which have
no state that two actors share: the pages, dialogs and layout of the client, the strategies
of the databases, NoSQL, e-mail, seeds and the wiring of Prisma and Redis.  The prompts, the
choice of models and their quality checks are texts and configuration, and so are the lists
of keywords of the query guard.

Within the modelled parts: the health counters and texts, the permission rules of
`getPool` (the check is an await that may reject), row operations of connections that do
not touch pools, an SSH tunnel that dies after it was opened, the content of rows and
errors, the schema preflight of a migration (it passes or throws), signatures of
notifications, the plan prices, which tables and columns a schema context shows, the
expiry of a version itself (30 days) and the eviction of keys by Redis; profile fields and
edited policies of organizations, dashboards' widgets, mentions in comments, the ranking
of search; bans and the deletion of accounts; autocomplete, titles and deletion of
chats; pages, history and explain plans of queries; what an ERD drawing consists of, the schema
changes made from it and the opening of a restored version; sorting and filters of the grid.  A
reload of a chat is one step, and so are the checks of one request of a team.
