# A TLA+ model of select

select is a SQL workbench for teams: a desktop application (`app/`) that edits
and runs SQL files, a backend (`backend/`) that keeps organisations, users,
permissions and datasources and runs statements on behalf of the desktops, and
libraries both use (`dialect/`, `toolkit/`).  This directory holds TLA+ modules
for the parts of it that keep state under concurrency or failure, the TLC
configurations that check them on small instances, and proofs, checked by TLAPS,
of the theorems that hold on every instance.

Paths below are relative to the repository.

    tlc -workers 2 -config Cache.cfg MCCache     # check a run of PROJECT.json
    tlapm CacheProofs.tla                        # check the proofs of a module

`PROJECT.json` lists the components, the runs, one mutant for each property (a
plausible bug of the code that the property must catch), the source lines each
definition stands for, the findings, the hazards and the theorems.


## 1. Inventory

### Components that are modelled

**Sync protocol** — `app/internal/db/syncer`, `app/internal/db/interceptor.go`,
`backend/internal/syncer`.  *State:* on each device the local rows, the queue
`mutation_commit` and `workspace.last_pulled_at`; on the server the rows with
`updated_at` and `deleted_at`.  *Operations:* `CommitMutation` queues an edit or
merges it into a queued one; `Sync` and `Pull` send a batch with
`last_pulled_at`; the server applies or refuses each commit and answers the
confirmed ids, the rows of the refused commits and the rows that changed; the
device drops what is confirmed, applies the rows and moves `last_pulled_at`.
*Hard:* neither side runs a round in one transaction; rounds of one device
overlap (the debounced sync of `commit.go`, the sync after a login, the pulls of the
workspace screens); an answer may be lost after the server has done everything;
two devices write one row.
*Correct when* no commit leaves a queue that the server never handled, what the
server refused does not spread, a device that pulls misses nothing, a deleted
row stays deleted, a later edit wins over an earlier one.  The last three the code
does not keep in every case: sections 5 and 6 say what it keeps instead.

**Memory budget** — `dialect/engine/membudget`, driven by
`backend/internal/cellar/query.go`.  *State:* the units reserved, and what each
lease holds.  *Operations:* `Begin`, `Grow`, `Release`.  *Hard:* every path out
of a statement has to give back exactly what it took; starts and top-ups have
different ceilings.  *Correct when* the count is what the leases hold, never
above the budget, and the last tenth goes to starts only.

**Toolkit cache** — `toolkit/cache`.  *State:* entries with an expiry, an LRU
list, the creations in progress.  *Operations:* `Get`, `GetOrCreate`, `Set`,
`Delete`, `DeleteFunc`, the collector.  *Hard:* `create` and `OnDelete` run with
the lock released, so an entry can expire, be evicted, replaced or created again
around them.  *Correct when* there is one creation per key at a time, every
value that leaves is given to `OnDelete` exactly once, the limit holds, and
those who wait are woken also when a creation fails.

**Connection pools** — `dialect/engine/connect/conn_cache.go`, on the toolkit
cache.  *State:* the pools in the cache, the index from key to DSN, the closes
that are scheduled.  *Operations:* open, drop (expiry, eviction, a tunnel that
closed, a workspace that was deleted), close after a grace.  *Hard:* the index
has a lock of its own.  *Correct when* no pool leaks, none is closed twice or
while it is served, and whoever drops pools finds all of them.

**SSH tunnels** — `dialect/engine/connect/tunnel_cache.go`, `ssh.go`, on the toolkit
cache and in front of the pools.  *State:* the tunnel of each datasource behind a
bastion, those being dialled, `tunnelCacheMu`.  *Operations:* find or dial, drop
(expiry, a dead connection, a deleted workspace), which closes the tunnel and flushes
the pools opened through it.  *Hard:* the dial is made without the lock, so two
callers may both dial; the flush runs under the lock or without it; a caller uses its
tunnel after the lock is gone.  *Correct when* every tunnel is closed, once, and not
while somebody may be given it, no pool leaks with it, and every caller gets through.

**Result stream** — `dialect/engine/query/execute.go`, `dialect/engine/arrowstream`,
`drainStreamInto` in `dialect/engine/client.go`.  *State:* the rows in the record
builder, the body on its way, the record the reader holds.  *Operations:* the
sink's callbacks, the reader's `Columns` and `Next`.  *Hard:* errors come after
rows; a body may end anywhere.  *Correct when* rows arrive in order and once,
success is only reported of a whole result, and every stream ends.

**Query runs** — `dialect/engine/client.go`, `dialect/engine/query/cancel.go`,
`dialect/engine/results`, `app/internal/db_client`.  *State:* for each file the
buffer of its result, the cancel of its run, the edit metadata.  *Operations:*
start, cancel, append, finish, read a page.  *Hard:* the runs of a file share
one key; storing, registering and cancelling the earlier run are separate steps.
*Correct when* a run can always be cancelled, a page that was handed out as
complete does not change, and a displaced run ends.

**Cellar databases** — `backend/internal/cellar`.  A managed database is an SQLite
file on the cellar's disk, a copy in a bucket that Litestream keeps up to date, or
both.  *State:* the files, the bucket, the records `onDisk` (a database
replicates, or rests), the pooled connections, the restores under way.
*Operations:* `use` (with `wake` and a shared restore), the tidy loop (`rest`,
`evict`), `add` for a new, copied or restored database, `remove`, open and close of
the process.  *Hard:* syncs, restores, statements and `DeleteAll` run without
`Databases.mu`, so everything may change around them; a crash leaves files the
bucket does not have yet.
*Correct when* an acknowledged write is never lost, the bucket catches up, a
restore never meets a file, and a removed database does not come back.

**Managed datasources** — `backend/internal/datasource` and its `managed`.
*State:* the row in PostgreSQL, what the cellar holds, each instance's cache of
DSNs.  *Operations:* `provision` (file first, then the row), delete (the row is
marked, the cache of one instance told), statements through cached DSNs, the
reconciler with its orphan age, its limits and its advisory lock.  *Hard:* two
stores and no transaction over them; creates, purges and runs fail half way; other
instances are not told.
*Correct when* nothing purges a database its row serves, the plan's limit holds,
and what nothing serves is gone in the end.

**Session and tokens** — `app/internal/api/fetch.go`, `authMiddleware.go`, `jwt.go`.
*State:* on the device the keyring, the refresh token kept in the process when the
keyring cannot be written, `refreshMu`, `refreshErr`; on the server the refresh
tokens.  *Operations:* a request, the refresh after a 401 and the requests that
follow it, the rotation on the server, sign-in, `Logout`, restart.  *Hard:*
rotation kills the old token before the device has the new one; several requests
see the 401 at once; answers get lost; logout does not take the lock.
*Correct when* the device and the server agree on the token, nobody is signed out
of a live session, no request hangs, and a session's tokens do not outlive it.

**Audit pipeline** — `backend/internal/audit`.  *State:* per instance a bounded
channel and the writer's batch; in PostgreSQL `audit.outbox` and `audit.event`.
*Operations:* `Emit` on one of two lanes, the writer, the drainers, `Stop`.
*Hard:* instances drain one outbox; a batch, a drain or the process may fail;
the channel is closed.
*Correct when* a durable event is moved exactly once, the others are accounted
for, nothing is sent on the closed channel, and the queues get empty.

### How they interact

    desktop                                      backend
    -------                                      -------
    SQL file -> QueryRun -> result buffer <- ArrowStream <- query.Stream <- MemBudget
                                                              (leases)
    edits -> mutation_commit -> Sync --- POST /sync ---> patch.Apply -> rows
    engine (on either side): TunnelCache -> ConnCache -> Cache
    every call of the desktop -> Session (401, refresh) -> Authenticated
                        datasource: Managed (row, DSN cache) -> Cellar (file, bucket)
                                    reconciler -> Cellar.remove ; handlers -> Audit

A statement takes a lease, streams through the sink and gives the lease back;
the buffer of a run is filled by the reader of that stream; the engine's pools,
tunnels, schemas and results are all kept in the toolkit cache.  `ConnCache`
extends `Cache`, and `TunnelCache` extends `ConnCache`, each with every step of it.
`ArrowStream` implements `RowFeed`, which is all the reader of a result relies on.
`Cellar` implements `DbStore`, and
`Managed` sees of the cellar only what such a store shows between the two steps of
a removal.  The other pairs share no state beyond the calls named here and are
modelled side by side.

### Components that are not modelled

| component | why | plan |
|---|---|---|
| permission cache (`authz/perm_cache.go`) | the load-then-store shape `Managed` has for DSNs | part of a `LoadCache` |
| SQL language services (`app/internal/sqllang`, `dialect/core`, the dialects) | large pure functions over text | none |
| desktop shell (`app/internal/app`, `git`, `search`, ...) | input and output | none |
| backend services (`backend/internal/api`, `mcp`, `apikey`, `kms`, ...) | request handlers over PostgreSQL without protocol state of their own | none |

The hazards of the components that are left out are in `PROJECT.json`, too, with
their lines.  Nine tenths of the source lines are generated parsers (`dialect/*/parser`),
which keep no state.


## 2. Modules

| module | what it is | models |
|---|---|---|
| `MemBudget` | leases of the memory budget | `membudget.go`, `cellar/query.go` |
| `Sync` | devices, their queues and rounds, the server | `app/internal/db/syncer`, `backend/internal/syncer` |
| `Cache` | the toolkit cache | `toolkit/cache/cache.go` |
| `ConnCache` | EXTENDS `Cache` with pools, index, workspace | `conn_cache.go` |
| `TunnelCache` | EXTENDS `ConnCache` with the SSH tunnels and those who ask for them | `tunnel_cache.go`, `ssh.go`, `GetOrOpen` |
| `PoolLife` | abstract: what is promised of every pool, and of every tunnel | implemented by `ConnCache` and, of its tunnels, by `TunnelCache` |
| `ArrowStream` | sender, body and reader of one result | `query/execute.go`, `arrowstream`, `client.go` |
| `RowFeed` | abstract: what the caller of a stream is promised | implemented by `ArrowStream` |
| `QueryRun` | the runs of one file | `client.go`, `query/cancel.go`, `results`, `db_client` |
| `Cellar` | the databases of one cellar, disk and bucket | `backend/internal/cellar` |
| `DbStore` | abstract: what a cellar promises of its databases | implemented by `Cellar` |
| `Managed` | rows, DSN caches and the reconciler over a cellar | `datasource`, `datasource/managed`, `workspace/delete.go` |
| `Session` | one device's session against the server | `api/fetch.go`, `secret_store.go`, `authMiddleware.go`, `jwt.go` |
| `Audit` | the two lanes of the audit log on several instances | `audit/logger.go`, `outbox.go`, `catalog.go`, `cmd/server` |
| `MC...` | the instances TLC checks | |
| `...Proofs` | inductive invariants and theorems | |

Each module starts with what a step stands for.  In `MemBudget` and `Cache` a
step is one critical section of the lock; in `QueryRun` what happens under one
lock, with the events emitted after it; in `ConnCache` the index's lock gives
further steps, and in `TunnelCache` so does what is done without `tunnelCacheMu`; in `Sync` a step is one statement on one database; in
`ArrowStream` it is one callback of the sink or one read.  In `Cellar` it is one
critical section of `Databases.mu` or one call made without it; in `Managed` one
transaction, one call of the cellar or one access to a cache; in `Session` what
happens under `refreshMu`, or one statement of the server; in `Audit` one operation
on a channel, and a transaction is two: the rows it takes, and its end.

### Sync

`row` is the server's table, `local` the devices' copies, `pending` the queues,
`round[c][s]` what the code keeps on the stack of a round (request, partial
results, answer), `editing[c]` a `CommitMutation` call between its lookup and
its write.  `handled`, `refused`, `touched` (the rows a device has edited) and
`crossed` (the rows of which it may have missed a write: section 5) are history for
the properties; no guard reads them.  The server takes up any number of requests at a
time, as `net/http` does.

| action | code |
|---|---|
| `Insert`, `Update`, `Delete` with `StartEdit` | the intercepted statement and `GetPreviousCommit` (`commit.go`) |
| `QueueCommit` | `SaveCommit` or `UpdateCommit` |
| `StartSync`, `StartPull` | `Sync`, `Pull`: the batch and `last_pulled_at` are read |
| `Receive` | the request reaches `Sync` of the backend |
| `RefuseUnauthorized` | `authorizeCommit` fails: the current row is answered |
| `ApplyDelete` | `apply_delete.go`: no last-write-wins check |
| `FetchRow`, `UpsertRow` | the two statements of `patch.Apply`, with the decision after the first |
| `QueryChanges`, `Reply` | `getChangesSince` less the rows just written; then `serverTime` |
| `DeleteConfirmed` | `deleteConfirmed` |
| `ApplyRestored`, `ApplyChange` | one row of `applyRestored`, then of `applyChanges`, the rows in any order |
| `FinishRound` | `updateLastPulledAt`, and the next batch |
| `Lose` | the request or answer is lost, the server fails, the app quits |

A field's value is the number of the edit that wrote it, which tells who wrote
it and in what order; 0 stands for a field nobody edited, and in a payload for a
field that is absent.  One clock stamps the commits and the server's writes: the
model has no clock skew, and time is exact where SQLite's `CURRENT_TIMESTAMP`
counts seconds.  A device runs one edit at a time.  There is one workspace and
one table; the generated handlers of the others have the same shape.

### Cache, ConnCache and TunnelCache

The LRU list is `age`, the rank of each cached key.  Values are numbered in the
order they are made, and a creation in progress has the number of the value it
may make, so `OnDeleteOnce` can speak of each value.  `due` holds the deletions a
goroutine has collected under the lock and has to report after it; a goroutine
with debts does nothing else first, as in the code.  `Delete(t, K)` stands for
`Delete` (one key), `DeleteFunc` (any keys) and the sweep of the collector (the
expired ones, the action `Sweep`).

In `ConnCache` a key is a workspace and a DSN, and `Workspace` are the keys of one
workspace.
Opening is three steps (`GetOrOpen`, `OpenPool` with the index entry,
`StorePool`), dropping is three (the cache's step, `CloseDeletedPool` with the
index, `ClosePool` after the grace), and `DeleteConnsByAddr` walks the index
(`FindConns`) before it deletes key by key (`DeleteFound`).

In `TunnelCache` tunnels are numbered in the order they are dialled, and
`Via[k]` is the tunnel whose local end is in the DSN of key `k`, as each listens on a
port of its own.  `call[t]` follows a caller through `GetOrCreateTunnel`: the look
(`LookHit`, `LookMiss`), the dial without the lock (`Dial`, `DialFails`), the second
look (`SecondLookHit`, `SecondLookMiss`), the close of a tunnel that lost it
(`CloseSpare`), and then `getOrOpen` on the tunnel's port (`OpenBehind`).  The cache of
tunnels is the toolkit's, of which it needs less than the pools do: a get, a delete and
a set, each inside the step that has the lock, and expiry or eviction by somebody else
(`ExpireTunnel`).  What such a step takes out it owes to `closeDeletedTunnel`:
`drop[t]` are the tunnels to close (`CloseTunnel`) and flush (`Flush`, the
`DeleteConnsByAddr` of `ConnCache`), and `mutex` says who does so with
`tunnelCacheMu` held, since a delete of the cache calls `OnDelete` before it returns.
`CloseWorkspaceTunnels` is followed by `CloseWorkspaceConns` (`InvalidateConns`).

### ArrowStream

The body is a sequence of Arrow IPC segments: one with the execution time, the
data (header, batches, end mark), and one that says done or error.  The sender's
actions are the callbacks of the sink in the order `query.Stream` makes them, the
reader's those of `Columns` and `Next` in `drainStreamInto`.  `Cut` drops a
suffix of what is on its way.  `RowFeed` sees of this the rows that were produced
and delivered and how the query and the stream ended: rows come one by one, the
outcome once and after them, and only a lost connection makes it differ from the
query's.

### QueryRun

`slot` is the entry of the result cache, `registered` the entry of the cancel
registry, `previous` the entry `RegisterCancel` has displaced and not yet
cancelled.  `GetResultPage` is taken when a page is first answered as ready,
after which the table does not ask for it again; `settled` remembers what it
showed.

### MemBudget

`status` is how far the handler of a statement is; `Begin`, `Grow` and `Release`
are the budget's critical sections and the refusals are actions of their own.
The units the leases hold are a set, so that their sum is a cardinality and can be
reasoned about for any number of statements.

### Cellar

The content of a database is the number of writes in it.  `record` is `onDisk`
with `replicating` or not, `pool` tells whether the pooled connections are on the
file that is there or on one that was deleted.  `idle` is what the tick found idle
and nothing has used since, which is all that is left of time; that no statement
runs for `restAfter` (15 minutes) is the guard `Unused`.

| action | code |
|---|---|
| `Send`, `Use`, `Execute`, `GiveUp` | the query handler, `use`, `query.Stream` |
| `WakeHit`, `WakeCold`, `JoinRestore` | `wake`, with singleflight |
| `RestoreRead`, `RestoreFail`, `RestoreRegister` | `restoreLatest`: Litestream's restore, then the record |
| `Sync` | Litestream's own replication |
| `Tick`, `RestSync`, `RestOne`, `Evict` | the tidy loop, `restOne` before and under the lock |
| `Create`, `Fork` | `createDatabase` and `add` |
| `StopServing`, `Remove`, `EmptyBucket` | the backend's decision, `remove` under the lock, `DeleteAll` |
| `Crash`, `Close`, `Start` | the process, `CloseDatabases`, `OpenDatabases` |

`remove` says "The backend stops sending statements for a database before it removes
it, so no wake races this".  A statement that is already on its way can: `life` is
then `raced`, the backend removes the database once more, and `GoneStaysGone`
speaks of the others.

### Managed

`cellar[d]` is `whole`, `emptying` between the two steps of a removal, or `no`.
`load` holds what an instance has read from the row and not yet stored in its
cache (`GetOrLoadDatasource`), `forget` what its delete handlers have marked and not
yet invalidated.  `Write` is a statement through a cached DSN: it wakes a database
that is being emptied.  `Age` is a day without writes; that no create takes a day
is its guard.

### Session

Tokens are numbered; `rows` are the refresh tokens the server knows.  A request
goes through `Send`, `Refused`, `Refresh` or `Follow`, and `Receive`, with the lock
held from `Refresh` to the answer.  On the server `LookUp`, `Revoke` and `Renew` are
separate steps, as they are separate transactions; `TooOld` is a refresh token that
is presented after its `expires_at`.  `excuse` collects what may cost a session by the
design of the protocol: a lost answer, a failed statement, a token past its time, a
process that ends with a token it could not write, a logout.

### Audit

`outbox[e]` is the id of the row of e.  A drainer's `Select` locks rows
(`FOR UPDATE SKIP LOCKED`), `Move` is the commit or the rollback.  `life` is the
process: `up`, `shutting` (`srv.Shutdown`), `stopping` (`Stop`, the channel closed),
`draining` (its last drain), `down`.


## 3. Runs

States are distinct states TLC finds.

| run | bounds | states | what it shows |
|---|---|---|---|
| `mem_budget` | 3 statements, budget 20, entry 4, step 2, rows up to 17 | 3 351 | the budget is exact, never overrun, its last tenth goes to starts, and all of it comes back |
| `sync` | 2 devices, one without permission, an existing row and a new one, 2 edits, batches of 1, 1 round each, both served at a time, 1 loss | 4.23 M | what a watermark covers is shown as the server has it, but for the cases `PulledExact` names; refused edits reach nobody else |
| `sync_overlap` | 1 device, 2 rounds at a time, both served at a time, 1 row, 2 edits, batches of 2, 1 loss | 4.61 M | overlapping rounds drop no commit the server did not handle; only a request that had fetched the row before a write undoes it |
| `cache` | 2 goroutines, 3 keys, room for 2, 4 values | 385 k | single flight, exactly one `OnDelete`, the limit, no waiter forgotten |
| `conn_cache` | 2 goroutines, 1 bastion and 2 tunnels, 2 keys behind them, 1 key without, room for 1, 2 pools | 182 k | every pool is in one place; pools and tunnels live the lives `PoolLife` describes, closes included; every caller gets through |
| `arrow_stream` | 5 rows, batches of 3, a cut anywhere | 2 725 | order, an uncut body tells the truth, the stream is the feed `RowFeed` describes, every stream ends |
| `query_run` | 2 runs, pages of 2, 2 pages, 3 rows | 844 k | cancel reaches every run, ready pages are final, displaced runs end |
| `cellar` | 2 databases, one of them served and removed, 2 statements, 1 write each, 1 restart | 453 k | no acknowledged write is lost; a restore finds room; a removed database stays gone; `Cellar` implements `DbStore`; the bucket catches up |
| `managed` | 2 ids, 2 creates, 1 instance with a cache, a plan of 1, 1 purge a run, 1 failure | 1.67 M | a served database is never purged; the plan holds; a forgotten DSN returns only by a race; what nothing serves goes |
| `session` | 2 requests, 3 tokens, 1 sign-in | 568 k | device and server agree; no live session ends; no request hangs |
| `session_logout` | the same with 2 sign-ins | violation | section 6 |
| `audit` | 2 instances, 2 events a lane (one poisoned), a channel of 1, batches of 2, 1 failure, 1 shutdown or crash | 588 k | durable events move once; the others are accounted for; nothing is sent on a closed channel; the queues get empty |

**Why these bounds are enough to be of use.**  Each lets the case the property is
about happen, and the mutants show that it does.  `mem_budget`: the ceiling of
top-ups is 18, so leases of 4, 8 and more meet both refusals, and the last start
can fall into the last tenth.  `sync`: one device writes a row twice, or two rows, while the other pulls, also between
that one's query and its `serverTime`; the loss lets a commit that was applied be sent
again; a batch of one makes a round go on with another; a fresh device and one that has
pulled are both initial.  `sync_overlap`: two rounds of one device carry the same
commits, one of them merged meanwhile; one may hold an edit from before a delete the
other brings, or have fetched the row before it.
`cache`: three keys over room for two
evict; two goroutines contend for a key, and four values let one key be created,
dropped and created again while an `OnDelete` is still owed.  `conn_cache`: two goroutines
dial for one datasource, or one opens a pool on a tunnel the other takes out; two pools
over room for one evict each other, and a second tunnel follows a dead one.  `arrow_stream`:
results of none, fewer than, exactly and more than a batch of rows.  `query_run`:
one run displaces the other; a page is empty, partial, full, and a last one.
`cellar`: one write is enough to tell a copy that has it from one that has not; a
served database and a second one let copies and point-in-time copies, evictions and
the wake of another happen side by side; one restart follows a crash or a close.
`managed`: the plan of one makes two creates compete, the one purge of a run makes
it stop at its limit, and with the one failure a purge or a run stops half way and
another has to finish its work.  `session`: three tokens are a sign-in and two
rotations, one of which may miss the keyring.  `audit`: a channel of one and two
events fill it; the poisoned event makes a full batch of two with the other.

The type invariants of all modules are theorems (section 5), so no run but that of
`Cache` repeats them; there it catches the list of use going wrong on a small
instance.

`MaxTunnels`, `MaxWrites`, `MaxStarts`, `MaxFaults`, `MaxTokens`, `MaxSessions`, `MaxEnds`,
`MaxMade`, `MaxEdits`, `MaxLosses`, `MaxRows`, `MaxPages`, `MaxTarget` and
`MaxCuts` bound the models and not the code.  Runs whose system may stop (all
statements done, a stream ended, a bound reached) turn the deadlock check off; the runs of
`Sync` keep it on, and so does `audit`, whose only end is the state `Over`.


## 4. Fairness

| module | assumed | why |
|---|---|---|
| `MemBudget` | `EndStream`, `Release` | a stream ends, for the request has a deadline and a socket; a deferred call is made |
| `Cache` | `Finish`, `NotifyOne` | `create` and `OnDelete` return, and a goroutine that can run does |
| `TunnelCache` | `ConnWork` and `GoOn` of each goroutine, `ClosePool` | a goroutine that can run does, also once it has `tunnelCacheMu`; dials and keepalives return (below); `time.AfterFunc` fires |
| `ArrowStream` | `Sender`, `Reader` | the statement timeout ends every query, and the context of the request every wait for the body |
| `QueryRun` | the steps of Go code, and `Stream` of a cancelled run | a driver returns once its context is cancelled; a query nobody cancels may run for ever |
| `PoolLife` | `Close` | part of the promise |
| `Cellar` | `Sync` of each database, `Start` | Litestream syncs at its interval until it succeeds; whatever supervises the process starts it again |
| `Managed` | `Progress` of the reconciler, `Age` | it runs every ten minutes for ever, and days pass |
| `Session` | `Return`, `Lose`; strong for `Acquire` of `refreshMu` | every request has a time limit; a Go mutex hands itself to who has waited longest, so it starves nobody |
| `Audit` | the steps of each instance | goroutines run, tickers fire, a process that went down is started again |
| `Sync` | none | nothing obliges a device to be on line; only safety is claimed |

Connecting to a bastion is limited to 5 seconds (`ssh.go:164`).  What follows, the
handshake, the probe of the database and the keepalive of `IsAlive`, which is sent with
`tunnelCacheMu` held, has no limit of its own: that it returns rests on TCP giving a
broken connection up, and `CallersEnd` assumes it does.


## 5. Proofs

The theorems hold for every value of the constants that the `ASSUME`s of the
module allow: any sets of devices, goroutines, keys or runs, any bounds.  Their
argument is always an inductive invariant `IInv`: `Init => IInv`,
`IInv /\ [Next]_vars => IInv'` with one lemma per action, then `IInv => Inv`.
Each `IInv` was checked with TLC first, as an invariant of an instance of section 3.

**StatementProofs.**  Of the memory of a statement: `BudgetTypeOK`, `BudgetExact`,
`BudgetWithinTotal`, `BudgetLastTenth`.  That `used` is the number of units held
needs a lemma on cardinalities (raising or lowering one statement's column of units
by n changes the cardinality by n, from `FiniteSetTheorems`), and the invariant
needs, beside the types, that the set of units is finite and that a statement holds
something only while it runs, since `Begin` sets `held` and does not add to it.
Assumed: `Total` is a natural number, `EntryCost` and `Step` are positive, and
`Statement` is whatever set.

Of its result: `StreamTypes`, `StreamInvariant`, `StreamOrder`, `StreamWhole`,
`StreamImplementsFeed`, for results, batches and numbers of cuts of any size.  The
invariant follows the rows along the wire: each message takes up the rows where the
one before it left them (`Carries`), from what the caller and the reader's record
hold to what is in the builder, so the caller has a beginning of the result
whatever a cut takes away; while there was none, nothing is missing in between,
and the message that says how the query ended comes behind all its rows.  The
refinement of `RowFeed` follows step by step: the sender's steps produce rows or
end the query, the reader's deliver one, tell the outcome or show nothing, and a
reader that gives up does so only after a cut.

**SyncProofs.**  `SyncTypeOK`, `SyncDeniedNeverSpreads`,
`SyncConfirmedWasHandled`.  The invariant follows a value on its way.  In an edit
and in a queue it is the device's own (`By`); in a server row, a fetched row, and
an answer it comes from a device that may write (`Clean`); in a local row it is
one or the other (`Shown`).  Upserts need that a round that has fetched a row
belongs to a device that may write, and confirmations that every id a round has
confirmed has been handled.  `ConfirmedWasHandled` is an action property and
follows from the invariant at the step that shrinks a queue.

`SyncUndoneOnlyIfOvertaken` and `SyncPulledExact` say how far the two promises hold
that the code breaks when requests overlap (section 6): which step undoes a write, and
which rows a watermark may cover that the device does not show.  They have no
hypothesis: any number of requests and rounds is under way at a time.  `SyncStamped`
comes before them: no two commits of a device have one time, so the commit that `Fetch`
looked up is the one that `Upsert` applies, and no row is stamped later than the clock.

For the first, `FetchedInv`: between the two statements of `patch.Apply` a request
has the row as it is, or as it was before a write with a later stamp; and what it
fetched was not deleted.  An upsert of the row as it is can then neither bring back a
deleted row nor change a field to anything its commit does not say.

For the second, `OwnInv` says that what a device queues, and what its rounds have
applied or restore, is about rows it has edited, so every other row that changed is in
its answers.  Of rows it has edited nothing is claimed: `WriterExact` (section 6) says
why.  Of any other row that is not `crossed`, `SeenInv` follows each round (`Brings`):
as long as the row is not younger than the round's `since`, the device shows it; from
the query on, the round has the row as the server has it, or the device shows it, or it
was written after `serverTime`, with a stamp the round's watermark will not cover.  A
row becomes `crossed` by a write between a query and its `serverTime`, or when an
answer older than the row is stored although the watermark, or perhaps another round of
the device, is past that; the next write of the row outside such a query ends it.

**CacheProofs.**  `CacheSingleFlight`, `CacheOnDeleteOnce`, `CacheWithinLimit`.  The invariant says
that whoever is between the start of `create` and the release of the key is the
call the key is registered for, that no two of them share a key or a number, that
a value is in the cache under one key only, owed by one goroutine or handed over,
and that a value still being created has not been stored, without which storing
it could bring back one that has left.  These theorems are about `Safety`, the
specification without its fairness, which `Spec` implies.  `CacheWithinLimit` needs
only that the cached keys are finite and that an insert finds room or evicts one key.

`CacheRanks` and `CacheTypeOK` are about the order of use, the list that `age`
stands for: no two cached keys have the same age, and every age is below the number
of cached keys, so that they are 0, 1, 2 and so on.  A touch or an insert moves the keys
in front of its place back by one; a removal of several keys moves the rest up by
as many as were removed in front of each.  That the places stay distinct and without a
gap is a matter of counting: between two ages lie no more cached keys than the ages
differ by, as each has an age of its own (`Between`, by `FS_Injection`), so a removal
moves no key up to or past the one in front of it.

The same module proves `ConnCachePoolsAccounted` and `ConnCacheKeepsPoolLife` of the
pools.  Every step of `ConnCache` is a step of `Cache` or leaves its variables alone
(`ConnStepIsCacheStep`), so the invariant of the cache carries over; `PoolInv` adds
that whatever is stored was opened, and that the pools that left the cache are the
ones closing or closed.  `ConnCacheKeepsPoolLife` is the refinement without its
fairness: an open, a close, or a drop of the pools that stop serving in the step.

Of the tunnels it proves `TunnelCacheTypeOK`, `TunnelImplementsConn` and
`TunnelCacheKeepsLife`.  A step of `TunnelCache` is a step of `ConnCache` or leaves its
variables alone, so `TunnelSafety => ConnSafety` and the theorems of the pools hold with
tunnels in front (`TunnelPoolsAccounted`).  `TunnelInv` says that a tunnel in the cache
is there once, is open and is owed to no `closeDeletedTunnel`, and that the same is
true of one that its caller has dialled and not handed on (`InKeep`); without that a
tunnel could be closed as a spare while the cache gives it out.  The refinement of
`PoolLife` follows as for the pools: `Dial` opens, `CloseSpare` and `CloseTunnel`
close, and whatever takes tunnels out of the cache drops them.

**QueryRunProofs.**  `QueryRunTypeOK`, `QueryRunCancellable`,
`QueryRunSettledPages`.  `Cancellable` needs `Orderly`: a run has a displaced
entry in hand only between the halves of `RegisterCancel`, so cancelling it hands
it over to `cancelled` and never forgets one; a buffer is finished only after its
run has ended, so no row is appended to it.  `SettledPages` needs `Final`: a
settled page is full, or its buffer is finished.

**CellarProofs.**  `TypeCorrect`, `AckedWritesSurvive`, `RestoresFindRoom`,
`RemovedStaysRemoved`, `CellarImplementsStore`.  The heart of the invariant is
`Whole`: a database with a file has every write in it, and one that has none, or
rests, or is being registered after a restore, is `Frozen` — the bucket has every
write, no connection is open and no statement may write.  To keep it, `Apart` says
that a database without a record has no restore and a file together but for one
just read or left half removed, and that what is idle has no statement; between the
sync of `restOne` and its lock, an idle database is already whole in the bucket,
which is why a last sync that fails does no harm.  The refinement maps `content` to
the file, or the copy where there is no file, of a database that is kept; each step
is then a create, a write or a removal, or changes nothing.

**ManagedProofs.**  `TypeCorrect`, `ServedIsKept`, `LimitHolds`, `Forgotten`.
`ServedIsKept` needs that at most one create of the workspace runs, that an id that
was not given out is nowhere, that a row in the reconciler's hands is no longer served
(a row never becomes served again), and that the file of a create is young.
`LimitHolds` counts the hot rows under the workspace's lock (`Counted`).

**SessionProofs.**  `SessionTypeOK`, `SessionInStep`, `SessionIsKept`.  One request at
most holds `refreshMu`, a restart and a logout included, and only its refresh is
on the server (`Alone`), so a rotation is followed token by token: while
no excuse is recorded the server knows exactly the device's token between refreshes,
and during one the token the holder has sent or the one it is about to get
(`Steady`).  A refusal then needs a token the server does not know, which needs an
excuse.

**AuditProofs.**  `TypeCorrect`, `EachMovedOnce`, `EachAccounted`, `NothingLeft`,
`ClosedIsQuiet`.  `EachMovedOnce` needs that the rows transactions hold are disjoint
and still in the outbox (`RowsHeld`); `ClosedIsQuiet` that no request is open on an
instance that has closed its channel, and `NothingLeft` that the writer is the last
to leave, with nothing in its hands.  `NothingLeft` states `StopFlushes`: "Stop
flushes the remaining batch and drains the outbox".  `EachAccounted` needs that no
event is twice in the queues: the batch of an instance and behind it its channel are
one sequence without repetition, those of two instances have no event in common, and
what is stored or lost is in none of them.

**Only model-checked.**  Liveness (`AllReleased`, `WaitersWake`, `DisplacedEnds`,
`StreamEnds`, `CallersEnd`, the fairness in `PoolLife`, `WritesReachBucket`,
`UnwantedGoes`, `RequestsEnd`, `Settles`), which is out of the prover's reach.  Every
invariant and every safety property the runs check is a theorem; of `PoolLife` the
theorems have the steps without the fairness.


## 6. Findings and known disagreements

Where the code does something else than its own comments say.

* **`session_logout`** (`OwnSession`, a run that TLC must find violated):
  `Logout` clears the tokens without `refreshMu`.  A request meets a 401 and sends
  a refresh, the server rotates the token, the user signs out and in again, and
  then the old answer arrives: `saveTokensFromResponse`
  (`app/internal/api/fetch.go:370`) stores the tokens of the earlier session over
  those of the new one.  `app/internal/api/secret_store.go:71`: "in-process copy
  included, so a signed-out token is never presented on the session that follows".

Further properties are defined in the modules and do not hold of the code.  No run
is kept for them; TLC finds each violated, with one worker in at most a few
seconds, with the constants given.  Of `Sync`, what is not named is `Client = {a}`, `Slot = {s1}`, `Object = Existing = {x}`,
`Field = {f}`, `Denied = {}`, `BatchSize = 1`, `MaxEdits = 2`,
`MaxLosses = 0`.

| property | seen with | what happens |
|---|---|---|
| `Sync!LastWriteWins` | `Existing = {}`, `BatchSize = 2` | `patch.go:88` compares when the edit was made with when the server last wrote the row. Of an insert and an update of one row sent together the update is older than the insert's stamp, and is refused. "Apply commits with last-write-wins" (`backend/internal/syncer/sync.go:29`) |
| `Sync!ConfirmedAsSent` | as given | an edit is merged into a queued commit that a round has already sent (`commit.go:108`); the confirmation names the commit by its id, and the merged edit leaves the queue unsent |
| `Sync!ObserverExact` | 2 clients | `serverTime` is read after the changes (`sync.go:104`): a row written in between is neither in the answer nor after the watermark; with two rounds of one device, too, the older answer may be applied last |
| `Sync!DeletedStaysDeleted` | 2 clients, or 2 slots | a delete another request makes between `Fetch` and `Upsert` (`patch.go:106`) is undone, as the upsert clears `deleted_at` |
| `Sync!RefusedStaysRefused` | `Existing = {}`, `Field = {f, g}`, `BatchSize = 2`, `MaxEdits = 3` | a refused commit is not confirmed (`sync.go:173`), stays queued, and is applied once a later edit merged into it has renewed its time; `patch.go:87`: "so the client reverts" |
| `Sync!EditQueued` | as given | a round deletes the queued commit between `GetPreviousCommit` and `UpdateCommit`; `CommitMutation` fails after the local row has changed |
| `Sync!WriterExact` | 2 clients, `Field = {f, g}` | `FilterApplied` (`gen/changes.go:54`) keeps a row back that the server has merged with another device's column |
| `ConnCache!IndexCovers` | `TunnelCache.cfg` | the late prune for a dropped pool removes the index entry of its successor (`conn_cache.go:52`), so `DeleteConnsByAddr` misses a live pool |
| `TunnelCache!NoneBehindShut` | `TunnelCache.cfg` | a tunnel leaves the cache between `GetOrCreateTunnel` and `getOrOpen`, or while a pool behind it is being opened: the flush does not find the pool, and it stays until it expires (`tunnel_cache.go:83`). `conn_cache.go:86`: "a pool behind a dead tunnel would otherwise linger" |
| `TunnelCache!DeletedWorkspaceHasNone` | `TunnelCache.cfg` | a tunnel being dialled is stored after `CloseWorkspaceTunnels` (`tunnel_cache.go:135`), and a pool being opened after `CloseWorkspaceConns` (`conn_cache.go:113`) |
| `ArrowStream!DoneIsWhole` | `ArrowStream.cfg` | `Stream.Next` takes every failure of `ipc.NewReader` for the end (`arrowstream/stream.go:174`), and does not ask the reader it had for its error: a body that breaks off after its header ends as done |
| `ArrowStream!ColumnsTyped` | `ArrowStream.cfg` | `query.Stream` calls `SetColumnTypes` after `OnColumns` (`execute.go:93`); `sink.go:103`: "Must be called before OnColumns" |
| `QueryRun!MetaIsOwn` | `QueryRun.cfg` | `OnStart` looks the buffer up again by file (`query_events.go:89`): the metadata of a replaced run lands on the buffer of the next |
| `QueryRun!NewestRuns` | `QueryRun.cfg` | of two concurrent starts one takes the slot last and registers first (`client.go:37`): the run that is shown is the one cancelled |
| `Cellar!HalfRemovedIsRestored` | `Cellar.cfg` | an eviction that fails half way has forgotten the record and left the file, and Litestream's restore refuses to write over it: the database fails every wake until the process starts again. `tidy.go:93`: "a half-removed database must be restored, not used" |

`commit.go` is `app/internal/db/syncer/commit.go`, `patch.go`, `sync.go` and `gen/`
are below `backend/internal/syncer`, `tidy.go` is in `backend/internal/cellar`, the
others below `dialect/engine` or `app/internal/db_client`.

Concurrent requests are what the server normally sees, so `ObserverExact` and
`DeletedStaysDeleted` do not hold of the code.  `PulledExact` and
`UndoneOnlyIfOvertaken`, which the runs check and section 5 proves, say that of rows
the device has not edited, and of writes, the races named in the table are all that
breaks them: losses, retries, merges, and overlaps in any other order do not.

Disagreements seen in the reading, without a property:

* *Session.*  A database error in `TryRefreshToken` is answered 401, and the device
  then ends a live session, which `fetch.go:225` says it avoids.  Deleting the old
  refresh token and creating the new one are two transactions
  (`authMiddleware.go:328`), and an answer lost after them leaves the device with a
  dead token; `SessionKept` counts both as an excuse.  `Logout` does not revoke the
  server's row.  A keyring that fails to delete is ignored.
* *Audit.*  "delete regardless so a poison row can't wedge the queue"
  (`outbox.go:90`) covers rows that cannot be parsed; an insert that always fails
  rolls back and is selected again, first, for ever.  The migration that creates the
  outbox says the event is enqueued in the transaction of the request; the TODO at
  `outbox.go:17` says it is not yet.  A forced shutdown loses what the channel and
  the batch hold.
* *Cellar.*  "so no wake races this" (`databases.go:214`) assumes no statement on its
  way: section 2.  An `add` that fails after the rename leaves a file without a
  record; a crash leaves temporary files behind.
* *Managed.*  Instances other than the one that deletes keep a DSN until it expires,
  and each use starts the time anew.  The reconciler stops after a number of
  failures in a row, in the order of the ids, so that databases that always fail
  keep it from those behind them.

Comments that disagree with the code where no property is involved:
`commit.go:123` speaks of 100 ms where `syncDebounceDelay` is 500 ms
(`syncer.go`); `tunnel_cache.go:98` says that only one tunnel per key is
established where two callers may both dial and one of the tunnels is closed
again; the documentation of queries says that a result over the limit is
truncated where `execute.go` fails it.


## 7. What the models leave out

* `Sync`: several tables and the foreign keys between them (a failed statement
  ends the request, which is `Lose`); a commit of a table without a handler, which
  stays queued; the debounce timer (a round may start at any time); a change of
  the current workspace and the full pull without one; permissions that change
  while a device works; audit events and other side effects of a commit.
* `Cache`: the length of a TTL; an entry may expire at any time.
* `ConnCache`: the outbound guard, the settings of a pool, `ClearConnCache`, which
  tests call.
* `TunnelCache`: authentication and host keys; the loop that forwards connections; the
  outbound guard; a local port that is used again after its tunnel is closed, and an
  address that is the beginning of another's in `DeleteConnsByAddr`; `DeleteTunnel`,
  which nothing calls; a limit of its own on the tunnels (an eviction is
  `ExpireTunnel`).
* `ArrowStream`: permission checks, masking and limits other than as errors;
  values, their conversion and compression.
* `QueryRun`: `Execute` (buffered), `Ping`, schema and DDL caches, progress
  events, export and explain; the row cap of a buffer.
* `MemBudget`: how the target of a row is computed from its cells.
* `Cellar`: which idle database is evicted first and when the disk is short; copies
  of a point in time other than as a copy of earlier content; an `add` that fails;
  how long the bucket keeps old content; the statements' memory budget, which is
  `MemBudget`.
* `Managed`: sizes and the other limits of a plan; grants and roles; renaming;
  a workspace that is restored.  `ForgottenUnlessRaced` excepts a load that was under way
  when the cache was invalidated, which may store the DSN after it: of that DSN, and of
  those of other instances, only `UnwantedGoes` speaks.
* `Session`: the device-code flow and API keys; a keyring that cannot be read or
  fails to delete; several servers or devices; a sign-in is one step and happens
  only when nobody is signed in.  A 401 of an endpoint itself, behind an access token
  that is still good: `doWithRetry` ends the session on any 401 that comes without
  `X-New-Access-Token` (`fetch.go:299`), also on such a one.  No route behind
  `Authenticated` answers one (the getters that would need a context that `Authenticated`
  has always set by then), so a request that has passed ends well.
* `Audit`: snapshots of principals, retention and partitions, the recorder of
  queries, and the audited change itself.


## 8. Plan

1. `LoadCache`, for the permission cache.
2. A second sync module: the loop of `Sync` with a full batch that is refused
   (liveness), and several tables with their foreign keys.
3. Theorems: how far the other properties of section 6 hold, as `PulledExact` and
   `UndoneOnlyIfOvertaken` say of `ObserverExact` and `DeletedStaysDeleted`.
