# A TLA+ model of fbs-core

`fbs-core` is a single-node S3-compatible object store: object bytes live in
files under a data directory, everything else in one SQLite database. This
directory holds TLA+ modules translated from the Go source, the TLC
configurations that check small instances of them, and TLAPS proofs of the
properties that matter most. `PROJECT.json` maps every definition to the lines
it models and lists runs, mutants, hazards, findings and theorems.

## The system and its components

| Component | State it keeps | Operations | What makes it correct |
| --- | --- | --- | --- |
| Object handlers (`internal/s3/object_*.go`, `copy_object.go`, `delete_objects.go`, `internal/objectops`) | none beyond a request's locals | put, copy, get, delete, bulk delete | a row a reader can be given has its file; nothing is forgotten on disk |
| Bucket handlers (`bucket_create.go`, `bucket_delete.go`, `management/buckets.go`) | bucket rows | create, S3 delete, management empty and force delete | no row outlives its bucket; bulk removal names only dead files |
| Metadata repositories (`internal/metadata`) | SQLite tables | CRUD in statements and immediate transactions | preconditions hold at the commit; an error means nothing was written |
| Metadata cache (`cache.go`, `cache_publication.go`) | LRU of rows, byte budget, revision | cached reads, evictions | no read is older than a write that had returned; the accounts are exact |
| Multipart uploads (`multipart_*.go`, `metadata/multipart.go`) | upload rows with a status, part rows, part files, a lock map | create, upload part, copy part, complete, abort | one claim at a time; the object is what the client named; uploads end |
| Stale cleanup (`multipart_cleanup.go`) | a snapshot per tick | list, claim, delete, purge | removes abandoned uploads without breaking live ones |
| Storage engine (`internal/storage`) | files, temporary files, part directories | write, open, delete, assemble, reconcile | files are immutable and published by rename; restart removes what no row names |
| Authorization, grants, ownership (`authz`, `metadata/grant.go`, `management/grants.go`) | grants, bucket owners | evaluate, create, patch, delete, transfer | revoked means revoked; tables stay consistent under concurrent patches |
| Users, keys, setup (`metadata/user.go`, `management/keys.go`, `internal/setup`) | users | create, patch, delete, bootstrap | one first administrator; a deactivation is not undone |
| Share links, public URLs | link rows | create, revoke, serve | a link stops with its creator's access |
| Authentication (`internal/auth`) | none | bearer tokens, signed headers, presigned URLs, the chain | exactly the current credentials of active accounts |
| Listings | none | list, delimited list, pagination | every row that stays is listed, nothing twice, over the pages |
| Upload lock map (`object_handlers.go`) | mutexes with reference counts | acquire, release | one request per upload, nobody waits for ever, no entry is left |
| Write-idle timeouts (`internal/http/write_timeout.go`) | a policy per connection | set deadline, write, read from a file | each byte once and in order; the policy ends with its download |
| Opening and migrations (`metadata/store.go`, `migrations`) | the schema and recorded versions | open | an opened database is fully migrated; every server opens in the end |
| Checksums, configuration, key validation, activity log | mostly none | | not modelled, see below |

The components meet in three places. Handlers and repositories share the
database: each statement or `BEGIN IMMEDIATE` transaction is atomic, a handler
is a sequence of them. Handlers, cleanup and start-up share the data directory,
where each file operation is atomic. All readers share the cache. Hard parts:
interleavings of handlers between those steps; a client that disconnects around
a commit; files removed while rows, cached rows or readers still name them; a
cleanup goroutine that takes no lock; a crash between any two steps.

## Modules

| Module | Models | Used by |
| --- | --- | --- |
| `ObjectStore` | object and bucket handlers, storage engine, reconciliation | `MCObjectStore`, `ObjectStoreProofs` |
| `Repository` | what the repositories promise to their callers: an abstract specification | `MetadataCache` (as `KeepsPromise`) |
| `MetadataCache` | the cache and the cached repositories | `MCMetadataCache`, `MetadataCacheProofs` |
| `MultipartUpload` | multipart handlers, claims, stale cleanup, the S3 DeleteBucket's removal of uploads | `MCMultipartUpload`, `MultipartProofs` |
| `Credentials` | the authenticators as functions of credentials, account and time | `Access`, `MCComponents`, `ComponentsProofs` |
| `Access` | users, keys, setup, grants, ownership, share links, authorization of requests | `MCAccess`, `AccessProofs` |
| `UploadLocks` | the reference-counted map of upload mutexes | `MCComponents`, `UploadLocksProofs` |
| `WriteTimeout` | the connection that resumes sends after a timeout | `MCComponents`, `WriteTimeoutProofs` |
| `Migrations` | opening and migrating the database by several servers | `MCComponents`, `MigrationsProofs` |
| `Listing` | listings of objects, versions, uploads and parts, page by page | `MCComponents`, `ComponentsProofs` |
| `CompletedParts` | what a completion makes of its part list | `MCComponents`, `ComponentsProofs` |
| `ComponentsProofs` | theorems about listings, completions and authentication, and about `MCComponents`, which composes them with the locks, connections and migrations | |
| the other `*Proofs` | theorems about the module they extend | |

### ObjectStore

`buckets` and `objects` are the tables; `files` and `tmp` the data directory;
`used` the UUIDs drawn so far; `req` holds one record per running handler with
its program counter and locals; `phase` is "starting" while start-up reconciles.
Storage paths, contents and ETags are model values (an ETag *is* the content it
digests). `stale` is how the cache shows up here: a superseded row may still be
returned by `GetByKey` until the writer's deferred eviction has run. That this is
all the cache can do wrong is what `MetadataCache` and `Repository` establish.

A handler is a chain of actions: `StartPut`, `CreateTemp`, `PublishFile`,
`Replace` or `ReplaceRefused`, `Evict`, `SweepFile`, `Swept`, `Respond` for
PutObject; CopyObject starts with `Load` and `Open` of its source; DeleteObject
and DeleteObjects loop over `NextKey`, `Load`, `DeleteRow`; EmptyBucket lists page
by page (`ListPage`) and then deletes (`DeleteAll`); the management DeleteBucket is
`ForceDelete`, the S3 one `CheckEmpty` and `DropBucket`. `Faults` switches on I/O
errors and client disconnects: autocommitted statements may then report an error
although they took effect, whereas transactions that report an error have not
(`transaction.go` shields COMMIT from cancellation), and a file whose rename succeeded
stays behind when the directory cannot be synced. `Crash` forgets requests and
cache; `ReconcileFile` and `Serve` are `reconcileStorage`.

### MetadataCache and Repository

`rows` is the database, `entries`, `lru`, `used` and `revision` the fields of
`MetadataCache`. Every critical section of the mutex and every database access is
a step. A row is identified by the write that produced it. `Repository` says what
a caller may rely on: a read answers with the committed row or with one that was
superseded by a write whose call has not yet evicted it. `KeepsPromise` is the
refinement, with the mapping at the end of `MetadataCache`; all the cache's own
variables are hidden by it.

### MultipartUpload

One object, its bucket, and uploads for it; the key may hold an object already. `uploads`, `parts` and `object` are
tables, `files` the part files under `.tmp/multipart/{upload}/` (named once, never
renamed, so a file exists half-written), `blobs` the assembled files, `lock` the
in-process upload lock, `cleaner` the goroutine with the snapshot it listed.
Time is two ages per upload row, `created` and `updated`, advanced by `Tick` and
saturating at twice the TTL, above which no comparison in the code tells more
apart; the snapshot's ages advance with them, as `time.Since` does. A completion
is `LockUpload`, `ClaimUpload`, `ListParts`, `CopyPart` per part, `Assembled`,
`CompleteUpload`, `Evict`, `Sweep`, `PurgeFile`, `Purged`; each failure branch goes
to `Release`. The S3 DeleteBucket lists and removes active uploads only (`ListUploads`),
so that claimed ones make `DropBucket` refuse. The request's part list is taken after normalisation. The upload
lock is released together with a handler's last step: nobody observes the moment
in between, since only lock waiters see it.

### Credentials and Access

`Credentials` keeps the order of the checks of `BearerAuthenticator`,
`SigV4Authenticator` and `ChainAuthenticator`, their time windows and the status
each error becomes. Parsing and cryptography are flags of the credentials
(`wellFormed`, `genuine`, `dated`).

`Access` has the four tables as functions to a row or `None`: `users`, `owner`
(the `buckets` table), `grants`, `links`. A request authenticates once and keeps its
principal; every statement after that is a step: `LoadKey`, `UpdateKey` for PATCH of
a key, `LoadBucketForGrantAdmin`, `ResolveGrantee`, `CreateIdempotentBatch`,
`LoadGrantOnBucket`, `UpdateGrant` for grants, `LoadNewOwner`, `UpdateOwner`, `Evict`
for a transfer, `LoadBucket`, `Relationship`, `Authorize`, `Served` for S3 requests,
`StartLinkRead`, `LinkUser`, `LinkBucket` for share links. Foreign keys, cascades
and the partial unique index are guards and effects of the statements. `stale` is
again the promise of `Repository`. `first` and `held` are history: who was created
by setup, and what has been true at some moment since a request began; a user counts
there as having owned a bucket when its row or a copy still cached named that user.
Only administrators create share links, so in the model as in the code a link loses
its creator's access by the creator's deactivation or deletion, never by losing a grant.

### UploadLocks

`table` is the map, `refs` and `holder` the fields of an `uploadLock`, `caller` where
each request stands. `Acquire`, `Lock`, `Unlock` and `Release` are the critical sections of
`acquireUploadLock`; a lock nobody refers to is garbage that a later request may
get again, which is how finitely many stand for all. `MultipartUpload` takes the
result, one mutex per upload, for granted; the theorems below are what justifies it.

### WriteTimeout

`idleTimeout` is the policy of the connection, `resp` the response being sent with
the source's position (`offset`, `N`), what went out (`sent`) and which deadline is
in force. A round of `Write` or `ReadFrom` is one `Send`; the wrapped connection is
external and may send any number of bytes, read ahead of them when it copies from a
file, and end well, with a timeout or broken.

### Migrations

`schema` is what exists in the database, `recorded` the rows of
`schema_migrations`, `server` where each process stands in `Open`. A database may start
as any prefix of the versions left by an earlier release. `RunMigration` is one
transaction (statements and record together); `ServerFails` is an error or a crash
at any step, which rolls the transaction back.

### Listing

`rows` is the table, `query` what is asked for, `after` the cursor, `listed` the
entries of all pages so far. `NextPage` is a request with its single statement;
`InsertRow` and `RemoveRow` are other people's writes between two pages, and `steady`
the rows untouched by them. Keys are sequences of characters with their order as
numbers, since a prefix, a delimiter and the byte order are what listing is about.
An upload is the pair of its key and its ID, a part its number.

### CompletedParts

`NormalizeCompletedParts` is the loop of `normalizeCompletedParts` as a
recursive function of the rounds, `MatchStoredParts` the comparison with the stored parts; the reference definition
(`InOrder`, `LastFor`, `AllStored`, `AllLarge`) says which lists are accepted and
what the object is made of.

## Runs

Every run finishes within the bounds given in its cfg; `PROJECT.json` has a
mutant of the code for every property of every passing run, each of which TLC
refutes.

| Run | Instance | Shows |
| --- | --- | --- |
| `overwrite` | 2 keys, 2 requests, 3 paths, every precondition header, faults | `RowsHaveFiles`, `SweepsOnlyDeadFiles`, `CreateNeverOverwrites` under every failure |
| `buckets` | 2 buckets, puts, copies, deletions of buckets, 1 crash | `RowsHaveFiles`, `RowsInBuckets`, `NoLeak` while serving and after restart |
| `delete_race`, `get_race` | 2 requests | disagreements with the docs, see Findings |
| `cache` | 2 callers, 2 rows, 2 writes, sizes 2, 3 and 6 against a budget of 5, fair | `WithinBudget`, `ReadsSeeReturnedWrites`, `KeepsPromise`, `ReadsTerminate` |
| `multipart_claims` | 1 upload for a new key or one that holds an object, 2 part numbers, 2 contents, 3 requests of every kind under If-Match and If-None-Match, 1 fault, 1 crash, cleanup | `PartRowsHaveFiles`, `ObjectHasFile`, `ClaimsExclude`, `NoLeak` (when no fault occurs), `CommitsWhatWasNamed`, `CommittedOnce` |
| `multipart_ends` | the same for a new key with 1 part, also without precondition, a TTL of two ticks, without bucket deletion, fair | `UploadsEnd` |
| `multipart_grace` | 1 request slot, 2 completions | disagreement with the docs |
| `access` | 3 users, 2 buckets, 2 grants, 1 link, 3 requests of every kind, 2 at a time, from a new and a running installation | `OneFirstAdmin`, `ServedOnlyWhileAllowed`, `GrantsUnique`, `NoOrphans`, `TransferByOwner`, `GrantWritesInBucket` |
| `grant_race` | a transfer and a PATCH of a grant | disagreement with the docs |
| `patch_race` | 2 PATCHes of keys | disagreement with the docs |
| `components` | one component per behaviour, fair; instances below | `OneRequestPerUpload`, `TableIsTight`, `UploadIsGranted`; `SendsTheBytes`, `PolicyStaysWithDownload`, `SendEnds`; `OpenMeansMigrated`, `ServersOpen`; `ListsEachOnce`, `ListsSteadyRows`; `AuthenticationIsExact`; `CompletionIsExact` |

**Bounds.** The paths bound the writes of a run: when they are used up the disk is
full and writes fail, which the code handles. Two requests at a time are enough for
every pairwise race of handlers, and a slot is reused when its request has
answered; that the object store is safe with any number of requests at a time is
proved (see Proofs), and the cleanup is a third party of every multipart run. One crash suffices
because a restart ends in a state that is again a state without requests. Two
locations or parts tell "the right one" from "another one"; one content is
enough where no property compares contents. TTL is two ticks in
`multipart_ends`, so that the ages include one past the TTL and within twice the TTL,
where the cleanup passes over claimed uploads; it is one tick in `multipart_claims` and
`multipart_grace`, where ages are fresh, at the TTL, or past every limit. These runs
have one upload: uploads meet only in the object they write, and what a completion
finds there, whoever wrote it, is in the initial states (`Existing`). A precondition
that holds is no different from none, so `multipart_claims` has the two that may fail.
Completions of several uploads that overlap are covered by the theorems, which hold for
any number of uploads. Model values are symmetric except in runs with liveness. In `access`, two requests at a time race pairwise and
a third one meets what they left behind; one action and two prefixes suffice, since
the evaluator compares actions only for equality, and keys inside and outside the
granted prefix both occur.

The components of `components` share no variable, so a behaviour moves one of them
while the others rest. Three requests contend for two uploads with three locks: one
holds, one waits, one arrives as the entry is dropped. A file of three bytes can be
resumed twice, and a second response follows on the connection. Two servers open a
database of any earlier release and fail twice between them. Listings have six keys
around the group `a/` (before, in and after it), four uploads of which three share a
key, three parts, limits of none, one and beyond the cap of two, and two changes
between pages. Completions have up to three entries against every state of three
stored parts. Authentication takes every instant around a skew of one, a requested
lifetime of up to one more than the cap, and the cap of three.

**Fairness.** `cache`: a caller in the middle of a read goes on (weak
fairness of each caller's own steps); nobody is obliged to start a call. Since
writes are bounded, a reader is overtaken finitely often; the code gives no
better guarantee under an endless stream of writes. `multipart_ends`: running
handlers go on (bodies are bounded in time by the server's timeouts), the cleanup
goroutine is scheduled and its ticker fires, time passes, a crashed server is
restarted. No client is obliged to do anything, and after finitely many requests
clients stop; a client that claims and releases an upload for ever could starve
the cleanup, which tries once per interval. `components`: a request that has
taken or is waiting for an upload's mutex goes on; `Lock` is strongly fair because
`sync.Mutex` hands over to a waiter it has kept waiting (starvation mode). A call of
the wrapped connection returns, since each has a deadline. A server that failed is
started again and goes on, and failures are finitely many.

**Deadlock** is checked in every run but `access`, `patch_race`, `grant_race` and `components`: there
requests are finitely many, listings, migrations and connections come to an end,
and functions have no steps.

## Proofs

`ObjectStoreProofs` proves, for all values of the constants allowed by
`ConstantsAssumption`, that `TypeOK`, `RowsHaveFiles`, `PathsNotShared`,
`RowsInBuckets` and `SweepsOnlyDeadFiles` are invariants and that
`CreateNeverOverwrites` holds of every step. None of them is inductive: that a
file may be removed depends on who else knows its path. The inductive invariant
`IInv` adds ownership: a path is *pending* in the one request that wrote it
(`PendingOwned`: no row, no other request knows it) until its row is committed;
what a request knows at each program counter is `Shape`; what it is about to
remove is shown by no location, or only by cached rows that its own eviction will
take away; `KnownUsed` and `DiskOK` keep fresh UUIDs fresh; `StartingOK` says that
nothing runs while reconciliation removes orphans. The proof treats steps that
leave the disk alone and steps that touch it separately, one lemma per kind, and
then goes through the actions.

`MetadataCacheProofs` proves `Coherent`, `ReadsSeeReturnedWrites` and the
refinement `KeepsPromise` (safety: initial states map to initial states, steps to
steps or stuttering) for every budget, any number of callers and writes. The
inductive invariant `CInv` adds to `Coherent` what each caller holds (`CallersOK`)
and that every visible row is at least as new as the last write that returned
(`VisibleFresh`). The key fact is that an eviction raises the revision, so a
reader that fetched a row before it can no longer publish it.

It also proves `WithinBudget` and `TypeOK` for any row sizes and budget. `used` is
kept up by additions and subtractions, so that it never goes below zero or above the
budget holds only because it is exact: `LedgerOK` says that it is the sum over the
cached entries and that list and map hold the same keys, each once. Lemmas about sums
over finite sets say what one entry more or less makes of a sum and that a sum splits
into two parts, and lemmas about `Without` what removal from the list leaves; the
eviction loop keeps the longest front part of the list that fits.

`UploadLocksProofs` proves `OneRequestPerUpload` and `TableIsTight` for any number of
requests, uploads and locks. Exclusion needs to know that two requests for one upload
were given the same mutex although entries are dropped and made again. `LockInv` says
so: a request's lock is the one the table has for its upload (`LockIsCurrent`), no two
uploads share one (`TableInjective`), and the count is the number of requests that
refer to it (`RefsAreExact`, by the finite-set cardinality theorems), so an entry goes
exactly when its last request leaves.

`WriteTimeoutProofs` proves `SendsTheBytes` and `PolicyStaysWithDownload` for files of
any size. `SendInv` adds that before each round the source stands exactly behind the
bytes sent (`AtRest`) and that a policy in force belongs to the current download
(`PolicyOK`); that the runs of a resumed send join is a lemma about sequences.

`MigrationsProofs` proves `OpenMeansMigrated` for any number of servers and failures.
`MigrateInv` says that versions are recorded without gaps (`NoGaps`), each together with
what it makes (`Built`: databases of early releases lack what the first migration was
later extended by, and versions 4 to 7 add it), and that a server has passed a version
only once it is recorded, by itself or by another server (`PassedRecorded`).

`ObjectStoreProofs` also proves `NoLeak` (`NothingLeaks`), under the hypotheses of the
runs that check it: no I/O errors, and without the operations that contain the
documented leak (DELETE and EmptyBucket). Besides `IInv` it needs to know that no such
operation is running (`OpsIssued`), that every temporary file belongs to the request
that writes it (`TmpHeld`), and that every backing file is referenced or held
(`FilesHeld`); while start-up reconciles nothing is claimed, and `Serve` needs all
files accounted for before it opens the doors.

`MultipartProofs` proves, for any number of uploads, parts, paths and requests,
`PartRowsHaveFiles`, `ObjectHasFile`, `ClaimsExclude`, `NoLeak`, `CommitsWhatWasNamed` and
`CommittedOnce`, with faults, crashes, the cleanup and bucket deletions all running (`NoLeak` as long as
no fault has occurred).
`MInv` says to whom everything belongs:

- a path is drawn once (`DrawnOK`); it belongs to the request that writes it until a row
  takes it, then to the row, then to the request that replaced or deleted the row
  (`RequestsOK` per program counter, `OwnersApart`, `RowPathsApart`);
- a directory belongs to whoever deleted the upload's row, and rows of dead uploads do
  not come back, so removing it by upload ID hits nobody else's files;
- the status of an upload belongs to the one request, or the cleanup, that claimed it
  (`ClaimsOK`, `CleanerOK`). A release by ID alone is safe for that reason only;
- while a completion has its claim, parts can be neither added nor replaced, so what it
  listed is still stored when it commits: `CommitsWhatWasNamed`;
- nothing runs while start-up reconciles (`StartingOK`).

The in-process upload lock occurs nowhere in that argument: the claims in the
database carry the safety of multipart uploads by themselves, also against the
cleanup, which takes no lock. For `NoLeak` the same ownership is read the other way
round (`LeakFree`, `Covered`): whoever lets go of a path has handed it to a row or removed
its file, and whoever deletes an upload's row goes on to remove its directory.

`AccessProofs` proves `OneFirstAdmin`, `ServedOnlyWhileAllowed`, `GrantsUnique`, `NoOrphans`,
`TransferByOwner` and `GrantWritesInBucket` for any number of users, buckets, grants,
links and requests. `AInv` records what each request has established at each program
counter (`ShapeOK`) and that its authority was real at some moment since it began
(`AuthorityOK`, in terms of `held`); `IssuedOK` keeps identifiers fresh, so that a request
that still holds the ID of a deleted user or grant cannot meet a new one under it.
`GrantsUnique` and `NoOrphans` follow from the guards of the statements alone, not from
the checks before them, which may be out of date. `GrantWritesInBucket` rests on a
grant never moving to another bucket. It speaks of who has been named as the owner
since the request began; nothing compares the owner at the write itself, and
`GrantsWrittenByOwner`, which would say so, is refuted (see Findings).

`ComponentsProofs` proves what `components` checks of the listings, of completions and of
authentication, for all inputs:

- `ListsEachOnce` and `ListsSteadyRows`, for any finite tables, prefixes, page limits and
  changes between pages. `Less` is shown to be a strict total order of keys, the sorting
  by ranks to yield the entries in that order, and a page to be the first entries behind
  its marker (`FirstOf`). `ListInv` then says that the next marker is not before the last
  entry listed (`CursorAtEnd`) and that a row that was there all along has been listed or
  is still behind the marker, by itself and with its group (`SteadyRowsFound`). For
  delimited listings the cursor of a common prefix is the last key of its group:
  `GroupsApart` shows that groups do not interleave in the order of keys, so this cursor
  skips the rest of the group and nothing else.
- `CompletionExact`, for lists of any length: after k rounds the loop has each number of
  the first k entries once, with its last entry, in the order in which the numbers were
  first named (`Unique`). The order check of neighbours is then a check of first entries.
- `AuthenticationExact`, for every credential, account row, instant and bound. Proving it
  showed that the chains of checks of `Credentials`, `Listing` and `CompletedParts` had been
  written as `CASE` with overlapping guards, which does not say which arm is taken; they
  are now ordered as the early returns of the code are.
- `Composes`: the specification of the run implements those of the locks, connections,
  migrations and listings, so their theorems hold of it (`ComponentsTypes`), and
  `AuthenticationIsExact` and `CompletionIsExact` hold in all its states.

The provers have no induction over data. Where an argument goes by induction on the
length of a list or the number of elements of a set (sums, the order of keys, the rounds
of a loop), it takes a smallest counterexample instead: `Smallest`, from the
well-foundedness of the natural numbers. For this reason the loops of `MetadataCache` and
`CompletedParts` are written as recursive functions of the round.

The only assumptions are the named ones of the modules (`ConstantsAssumption` and its
kin: types of the constants, finiteness, the shape of the rows a table can hold, sizes
above zero, `None` apart from the values it stands beside, objects for `Existing`, and for `SeedsAssumption` that
a running installation starts with consistent tables). Each is evaluated by TLC in the
runs.

Only model-checked are the liveness properties (`ReadsTerminate`, `UploadsEnd`,
`UploadIsGranted`, `SendEnds`, `ServersOpen`), which are out of the prover's reach. Every
invariant and every action property of the passing runs is a theorem; of the refinement
`KeepsPromise` the safety part, which is all that `Repository` says.

## Findings

Five statements of the documentation are refuted by runs that expect a
violation.

- `delete_race`: of two concurrent DELETEs of one key the second answers 500,
  though missing objects are documented as successful no-op deletes
  (`docs/storage-and-metadata.md:143`).
- `get_race`: a GET between row lookup and open answers 500 when a PUT replaces
  the object, though UUID paths are said to remove races during overwrite
  (`docs/architecture.md:52`).
- `multipart_grace`: the cleanup deletes an upload that is being completed under a
  fresh claim, though non-active uploads are documented to get an extra TTL
  (`docs/storage-and-metadata.md:176`). A completion holds its claim for twice the TTL
  and is listed by the cleanup in that state; it fails and releases the claim; a second
  completion claims the upload; the cleanup, going by its list, deletes it. Nothing is
  corrupted (`ClaimsExclude` and `CommittedOnce` hold), the second completion fails.
- `grant_race`: an owner's PATCH of a grant is written although the bucket has been
  transferred to somebody else in the meantime, though the security audit calls the
  grant routes "CAS on ownership" (`docs/security-audit-2026-08-06.md:282`). Transfers
  do compare the owner in their statement (`TransferByOwner`), the statements on grants
  compare none, and the check before them reads a bucket row that may be a cached one.
- `patch_race`: a PATCH of a key that loaded the row before another one deactivated
  the user writes it back active, though nobody asked for that; inactive users are
  said not to authenticate and their links to be disabled
  (`docs/setup-and-authentication.md:110`, `docs/management-api.md:335`).

One more disagreement has no run: `docs/storage-and-metadata.md:145` says that the
management deletion of a bucket goes through `objectops.EmptyBucket`; the code
uses `DeleteWithObjects`, which is what `ForceDelete` models.

## Not modelled

- Power loss: the database runs with `synchronous(NORMAL)` and the documentation
  accepts the loss of recent commits.
- The leak of a file by a DELETE that overlaps a PUT, which the security audit
  documents (`NoLeak` is stated for the other operations).
- Checksums, canonicalisation and signing of requests and public URLs, key and path
  validation: functions of bytes and strings, whose outcomes are choices of the models.
- Configuration and its parsing; development mode, which switches authentication off.
- ListBuckets, lists of grants, keys and links, the management statistics: single
  statements that write nothing.
- The activity log, which no code reads to decide anything.
- Routing, body limits and request logging, which keep no state.

## Plan

Done: every module above, the composition of cache and repositories
(`KeepsPromise`), that of the components without shared state (`Composes`), and the
proofs of every safety property the passing runs check. Left:

1. Composition: the object rows of `ObjectStore` read through `Repository` instead
   of the variable `stale`, and completions as one more writer of `ObjectStore`.
2. Listings with the encoding of keys and tokens; public URLs.
