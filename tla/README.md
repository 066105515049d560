# A TLA+ model of Nimbus

Nimbus is a cloud storage service in Go. An API process stores files as
content-addressed, deduplicated chunks (rows in PostgreSQL, bytes in a
MinIO bucket); a worker process collects chunks nobody references any more and
consumes `file_uploaded` events from a Redis stream to enrich files with a
summary. Several API and worker processes may run at the same time, and every
call of either can fail, lose its answer or end with its process.

This directory holds the specifications of the parts whose correctness depends
on the order in which those processes' steps happen, the TLC configurations
that check small instances, and TLAPS proofs for instances of every size.
Line numbers below are those of `src/`.

## 1. Inventory

| Component | State | Operations | Interacts with |
|---|---|---|---|
| Uploads and deduplication (`internal/storage/service.go`, `repository.go`, `handler.go`, `minio.go`) | tables `files`, `file_chunks`, `chunks`; the bucket | `UploadFile`, `storeChunks`, `storeChunk`, `GetOrCreateChunk`, `LinkFileChunk`, `abandonUpload`, `DeleteFile` | the collector through row locks and foreign keys; the event stream |
| Garbage collector (`service.go` `RunGarbageCollection`, `collectChunk`; ticker in `cmd/worker/main.go`) | the same tables and bucket | sweep of stale uploads, orphan scan, lock, object delete, record delete | uploads, downloads |
| Downloads (`DownloadFile`, `DownloadFileInternal`, `verifiedChunkReader`, handler) | none beyond the call | ownership, status, chunk list, lazy fetch and verification | deletes, collector, bucket |
| Event stream (`internal/events/redis.go`) | stream, consumer group, pending entries, dead letters | `PublishFileUploaded`, `Consume`, `reclaimStale`, `handleMessageWithRetry` | uploads, worker |
| Worker and enrichment (`internal/worker`, `internal/ai`) | table `file_embeddings` | `ProcessFileUploaded`, `GenerateAndSaveEmbedding`, `SaveEmbedding` | event stream, internal downloads, an external model |
| Folders and search (`internal/metadata`) | table `folders`; reads `files` and `file_embeddings` | `CreateFolder`, `DeleteFolder`, `ListDirectory`, `SearchFiles` | uploads, deletes and the sweep (names, cascades), the worker's embeddings |
| Rate limiter (`internal/middleware/ratelimit*.go`) | counters in Redis, a map per process | allow, fall back, clean up | Redis |
| Client address (`internal/middleware/clientip.go`) | none | right-to-left walk of `X-Forwarded-For` | rate limiter |
| Authentication (`internal/auth`, `middleware/auth.go`) | table `users` | register, log in, check a token | none |
| Body limit, configuration, database pool, tracing, `cmd/api`, `cmd/infra` | none of their own | wiring | all |

What is hard about it, and what makes each component correct:

- **Uploads against the collector.** An upload that finds a chunk row skips
  uploading the bytes, so the row must keep its object until the upload has
  linked it. The code relies on `FOR SHARE` in `GetOrCreateChunk`, `FOR UPDATE`
  in `LockOrphanedChunk`, and a foreign key. Correct means: a file never
  references a chunk without an object, a file appears whole or not at all, and
  no call waits forever.
- **Failures between two stores.** A collection changes the bucket and the
  database and can stop between them; an upload commits one transaction per
  chunk and can stop after any. Correct means: a half-done operation is
  invisible and its rest is swept.
- **Age as a stand-in for activity.** The sweep takes every uploading row older
  than `minAge`; only the age floor protects uploads in flight.
- **Downloads are lazy.** Status, list and bytes are read at different times
  while everything else goes on. Correct means: what is handed out is a prefix
  of what was uploaded, and an answer that looks complete is complete.
- **At-least-once delivery.** Two workers may hold the same message, an answer
  may be lost after the message went to the pending list, a worker may stop
  between any two calls. Correct means: no message leaves the pending list
  without an outcome, every message settles, and repeated deliveries do not
  undo an enrichment.

- **A tree without transactions.** Ownership of a folder is checked in one
  statement and the child inserted in another; a listing is two statements; a
  folder's `DELETE` cascades without looking at owners. Correct means: every
  item hangs below a folder of its owner, names are unique in the root as
  elsewhere, nobody's delete takes another user's file, and an answer shows
  what was there.
- **A search term is text.** It goes into a `LIKE` pattern; correct means that
  no character of it acts as a wildcard or as an escape.
- **One limit, many clocks.** Replicas name windows by their own clocks and
  count in Redis, whose answers may be late or lost; each falls back to memory.
  Correct means: the limit holds across replicas while Redis answers and per
  replica while it does not, and a client cannot choose the key it is counted
  under.

The hazards behind these, each with its line and the properties aimed at it,
are listed in `PROJECT.json` under `hazards`.

## 2. Modules

| Module | What it is |
|---|---|
| `FileCatalog` | abstract specification: what a user may see of files |
| `Storage` | uploads, deletes and collectors, one action per statement or call |
| `Download` | `Storage` with concurrent downloads and decaying objects |
| `AgeFloor` | `Storage` with a history variable for how long a chunk was unreferenced |
| `EventStream` | stream, consumer group, workers, enrichment |
| `Search` | the escaping of a search term and `ILIKE`, as operators |
| `Directory` | folders, listings and search beside uploads, deletes and the sweep |
| `ClientAddress` | `ClientIP` over `X-Forwarded-For`, as operators |
| `RateLimiter` | one tier of the rate limiter: Redis, replicas, fallback, cleanup |
| `StorageProofs`, `CatalogProofs`, `RetryProofs` | theorems about `Storage` |
| `DownloadProofs`, `EventStreamProofs`, `SearchProofs`, `DirectoryProofs`, `RateLimiterProofs` | theorems about the module of that name |
| `MCStorage`, `MCDownload`, `MCAgeFloor`, `MCEventStream`, `MCDirectory`, `MCRateLimiter` | inputs and symmetry for TLC |

`Download` and `AgeFloor` extend `Storage` and let every one of its steps
happen between theirs; `Storage` instantiates `FileCatalog` under a refinement
mapping. `EventStream` is separate: what it needs from `Storage` is that an
event names a file with a complete chunk list, which is
`EventsNameCompleteFiles` there. `Directory` extends `Search` and looks at the
same table `files` as `Storage`, from the side of names, owners and folders:
there the chunks of an upload are one step that succeeds or fails, in `Storage`
names and folders are a refusal that may happen. `RateLimiter` extends
`ClientAddress`.

### Storage

| State | Code |
|---|---|
| `content`, `pc`, `index`, `attempt`, `chunk` | one `UploadFile` call: its stream, position, `chunkIndex`, the loop variable of `GetOrCreateChunk`, the row of the open chunk transaction |
| `files`, `stale`, `links` | tables `files` and `file_chunks`; `stale` abstracts `updated_at` to "older than `minAge`" |
| `row`, `hashOf`, `aged` | table `chunks`; `aged` abstracts `created_at` |
| `objects`, `events` | the bucket; the uploads announced |
| `gcPc`, `todo`, `target` | one `RunGarbageCollection` call per worker |
| `halfCollected`, `staleGrants`, `removed`, `outlasted` | history, read by no guard |

Row locks are not variables. A share lock is held by an upload between its
`SELECT ... FOR SHARE` and the end of its transaction, so `ShareLocked` reads
the positions of uploads, and likewise `ExclusivelyLocked` for collectors. A
transaction's inserts are visible only after its commit: an uncommitted row is
`"inserting"`, and an uncommitted link or record delete exists only as the
position `"commit"`.

`storeChunks` leaves its loop after a short read or, when the length of the
file is a multiple of the chunk size or zero, after a read of nothing. Both
leave the same state, and the read that fails in between is one of the errors
after which an upload is abandoned, so `AfterChunks` has one exit.

`SELECT ... FOR SHARE` and `SELECT ... FOR UPDATE` are two steps each: a
snapshot on which the `WHERE` clause is evaluated, and the lock. PostgreSQL
under READ COMMITTED evaluates the clause again only for a row whose version
changed while the statement waited; a row that was merely locked keeps its
version, and `NOT EXISTS (SELECT ... FROM file_chunks ...)` is not evaluated
again. `LockChunk` is written accordingly.

Every call that changes a store has the outcome "took effect, and the caller
saw an error"; `FailUpload` and `FailCollection` are errors without effect,
`CrashUpload` and `StopCollector` the end of a process. A chunk's content is an
atom `h`, which is also its SHA-256: `hash` is taken to be injective.
Identifiers of rows are drawn from `ChunkIDs` only when no row and no process
remembers them, as random UUIDs are.

### Download

`rpc` follows a call from the ownership check to the end of the body; the
worker's `DownloadFileInternal` (`internal`) starts at `GetFileInfo`, ignores
the status and reads no further than the first chunk. `OrderedChunks` is the
`ORDER BY chunk_index` of `GetFileChunks`. `Loads` is
`verifiedChunkReader.load`: an object that changed on disk (`rotten`) is
refused. `PeekChunk` precedes the 200; a failure in `CopyChunk` comes after it.

### EventStream

`pending` is the group's pending entries list, `overdue` the entries idle for
five minutes, `read` the group's last delivered id. A worker's `batch` is what
`XReadGroup` or `XAutoClaim` returned, handled lowest first; `cursor` is the
position of a claim pass. `ReadFails` and `ClaimFails` include the case in
which Redis did its part and the answer was lost. `CallModel` stands for the
external model and answers in any way. Errors of the dead-letter `XAdd` and of
`XAck` are discarded, as in the code.

The handler is three steps, between which the file may be deleted: `Process`
(`GetFileInfo`), `ReadText` (the chunk list, the text, the model) and
`SaveEmbedding`. `GetFileChunks` does not ask `rows.Err()`, so a read that
breaks at once is an empty list without an error; `ProcessFileUploaded` takes
the file for an empty one, returns nil, and the event is acknowledged
(`NoChunks`). The file then stays without a summary: the history variable
`missed` holds such files. A list that breaks later makes no difference here:
every chunk but the last has 4 MB, and the worker reads 100 KB.

### Directory and Search

| State | Code |
|---|---|
| `row` | tables `folders` and `files` in one function: state, `user_id`, `parent_id` or `folder_id`, name |
| `embedding` | table `file_embeddings` |
| `pc`, `who`, `at`, `title`, `item` | one request of a client: its user, the folder and the name or term it gives, the `fileID` of an upload |
| `shown`, `cut` | the answer so far; whether a broken read or the `LIMIT` left something out |
| `known` | history: the files the request asks for that were there when it came |

An `INSERT` is one step with the checks of its unique index and foreign key, a
`DELETE` one step with its cascades: PostgreSQL locks the parent row for the
first and every row of the subtree for the second, so the two are ordered.
Between the statements of one request everything else may happen. Name
conflicts and vanished parents are `InsertFails`; a lost answer of `CreateFile`
leaves a row nobody knows. `Sweep` never meets an upload in flight here; that
the age floor is what keeps them apart is the subject of `Storage`. Identifiers
are generated by the database, so an insert takes an unused one by `CHOOSE`:
which one it is makes no difference to any later step. `ListDirectory` does not
check the folder it lists, and neither does the model.

`Search` has `likePatternEscaper` and `ILIKE` over sequences of characters; the
matcher is a recursive function over the positions of the pattern, whose values
are the positions of the text from which the rest of the pattern matches.
`Literally` is the reference definition it is compared with.

### RateLimiter and ClientAddress

| State | Code |
|---|---|
| `now`, `skew` | the slowest clock, and how far each replica is ahead of it |
| `count`, `expires` | the Redis keys of one tier, by client key and window |
| `local`, `reset` | `memoryCounterStore.clients` of each process |
| `pc`, `from`, `key`, `replica`, `window`, `since` | a request in `Middleware`: where it came from, its key, the `windowIndex` computed and when |
| `admitted`, `opened`, `granted` | history: requests let through on the shared counter, and on a local one |

A window is named by its start, `windowIndex * Window`. Between the computation
of `windowIndex` and the script time may pass; `AnswerLost` is a script that ran
without the caller knowing, tried again or given up. `WindowAssumption` has
`MaxSkew + MaxDelay < Window`: windows are one minute in `cmd/api/main.go`, and
the default timeouts and retries of the Redis client end a call within that.
A script that runs after the client gave up on it is left out.

In `ClientAddress` an entry of the header is an address in some spelling, or
malformed; only the canonical spelling is a key. The walk from the right is
stated as the index it stops at. `Forwarded` is how a request gets its header:
the client sends anything, and every proxy on the way appends the address it
was called from to the same line (external to the repository, from how
`ClientIP` reads it).

## 3. Runs

All bounds are constants of the modules.

**storage_sharing** - two uploads of an empty file, a file of one chunk or a
file that repeats it, two chunk identifiers, two collectors, one collector
fault, uploads of any duration (`SlowUploads`). Checks `TypeOK`,
`LossOnlyThroughKnownWindows`, `ListsMatchProgress`, `EventsNameCompleteFiles`,
`Handshake`, `RetryConverges`, `AcknowledgedUploadsSurvive` and the refinement
`ImplementsCatalog`. Two uploads suffice for one to insert, find, lose or
re-create what the other stored, and for one to wait for the insert or the lock
of the other; two collectors work from overlapping scans; the second identifier
lets a row be collected and created anew while a process remembers the old one.
The last two invariants speak of uploads during which no `minAge` went by:
`outlasted` holds the others. Files of two different chunks are in
`download_integrity`.

**storage_liveness** - two uploads with repeated chunks, one collector, weak
fairness. Checks `UploadsFinish`, `AbandonedRowsSwept`, `OrphansCollected`.

**download_integrity** - one reader beside two uploads, a collector, deletes and
decaying objects. Checks `DownloadTypeOK`, `DeliveredIsPrefix`,
`ShortListMeansRemoved`. Readers do not affect each other, so one suffices.

**event_delivery** - two workers, two messages, two tries, one fault: claims of
each other's entries, double handling, a stop, a lost answer, a delete between
the statements of the handler, a broken chunk list. Checks `EventTypeOK`,
`AcksFollowOutcome`, `NoEventForgotten`, `HandledMeansEnriched`.

**event_liveness** - one worker, two messages, two faults, weak fairness.
`ClaimCount` and `ScanLimit` of 1 against two messages make a claim pass take
several rounds and end early. Checks `EventsSettle`.

**directory** - two users, two folders, two files, two writers of which one may
also read, one name for everything, one embedding. Two folders give a subtree
and a cascade through it; one name makes every insert compete. Checks
`DirectoryTypeOK`, `OwnTree`, `UniqueNames`, `AnswersAreTrue` and the action
property `OnlyOwnersRemove`; and `SearchIsLiteral`, for terms with a backslash
before and after each wildcard against every text of up to three of the special
characters and three letters, two of which differ in case.

**rate_limits** - two replicas, two requests at once, a limit of 2 in windows of
3 with a skew and a delay of 1, so that the two sum up to less than a window by
the least margin. Three calls of the script are one more than the limit. Time
runs to 8: window 3 is first used at 2 by the fast clock and last at 6 by a late
script of the slow one, and its key, created at 2, goes at 8; a key that lived
for a window and the skew only (4) would go at 6 and let a third request
through, which is the mutant of `SharedQuota`. A client sends headers of up to
two entries in two spellings, through up to two proxies. Checks
`LimiterTypeOK`, `SharedQuota`, `LocalCap`, `KeysAreClients`. Deadlock is not
checked: the instance ends when its time and its calls are used up.

Five runs show where the code and what it says of itself disagree; TLC finds
each property violated:

| Run | Property | What the trace shows |
|---|---|---|
| stale_lock_grant | `LockedOnlyWhileUnreferenced` | the collector evaluates `NOT EXISTS`, waits for an upload's share lock, and is granted a lock on the chunk that upload has just linked; the object delete follows (`repository.go:233`) |
| half_collection | `RolledBackRowsKeepObjects` | a collection fails after the object delete; the rollback leaves a live row without an object, which a later upload of the same content adopts (`service.go:380`) |
| age_floor | `CollectsOnlyRested` | `created_at` is compared with the cutoff, so an old chunk is collected right after its last reference goes (`repository.go:290`, against `service.go:282`) |
| download_truncated | `CompletedDownloadIsWhole` | a delete between the status check and the chunk list yields a 200 with a shorter body (`service.go:260`) |
| dead_letter_lost | `EveryFailureIsDeadLettered` | the dead-letter write fails, its error is discarded, the message is acknowledged (`redis.go:240`, against `README.md:43`) |

`LossOnlyThroughKnownWindows`, proved below, is the complement of the first
two: apart from those two windows a referenced object is never lost.

A gap that contradicts no sentence of the repository, and so has no run of its
own, is the one `HandledMeansEnriched` excepts: a broken read of the chunk list
(`repository.go:274`) makes the worker skip a text file as empty
(`processor.go:56`) and acknowledge its event. The property says that this is
the only way a handled text file that exists is without a summary.

### Bounds

`MaxAttempts` is the code's 3. `MaxCollectorFaults` and `MaxFaults` bound
failures so that the liveness runs do not need to exclude a process that fails
forever; upload failures need no bound, since each ends its call. `MaxRetries`
is 2 in the two passing event runs (code: 3) and 3 in `dead_letter_lost`: the
second failed try is already both "retry" and "last". `MaxReadFailures` is 2
(code: 8). `BatchSize`, `ClaimCount` and `ScanLimit` are scaled to two
messages. `MaxSearchResults` is 1 against two files (code: 200), so that the
`LIMIT` cuts. `MaxTime` and `MaxTries` end the instances of `RateLimiter`;
`MaxText` bounds `SearchIsLiteral`. None of the constants is
bounded in the proofs.

### Fairness

`FairSpec` asks that an upload in flight whose next statement can return does
return, that collectors go on, and that time passes: goroutines are scheduled
by the runtime, PostgreSQL grants a lock that is free, and the ticker of
`cmd/worker/main.go` keeps firing. Weak fairness is enough because a granted
lock stays free until it is taken or another process that will itself finish
takes it. No request has to be made, and no failure has to happen.
`FairEventSpec` asks that workers take their steps, are restarted when they
stopped (the worker exits after repeated read failures for its supervisor to
restart it), and that the reclaim ticker and the idle time advance.

## 4. Proofs

`tlapm` checks every step. The constants are arbitrary sets and numbers, with
the assumptions named in the modules: that "none" values are not values, that
limits are positive, that contents, names, terms and headers are sequences.
One of them is about the system rather than about its encoding:
`MaxSkew + MaxDelay < Window` in `RateLimiter` (see above). The bounds of the
instances (`MaxTime`, `MaxTries`, `MaxText`, numbers of faults) are arbitrary
too.

Every invariant and action property of the passing runs is proved; only
liveness is not.

- `StorageProofs!HandshakeHolds`: `Spec => [](TypeOK /\ Handshake)`. That no
  referenced object is lost is not inductive: to see that a collector's object
  delete harms nobody one must know that its lock excludes every upload between
  its share lock and its commit, that there is one row per hash (objects are
  named by hash, not by row), that each transaction still has the row and hash
  it decided on, and that a new row has its object before it is linked. These
  are the parts of `Handshake`; each is needed to preserve another.
- `StorageProofs!LossOnlyThroughWindows`: from `LinksHoldRows` and
  `RowsHoldObjects`, plus the fact that a collector past its object delete
  holds a referenced row only after a late grant.
- `CatalogProofs!ListsHold`: `ListsMatchProgress` is inductive together with
  the handshake. The chunk list of a file is read through `hashOf`, so a step
  on `chunks` must leave linked rows alone, which `LinksHoldRows` and
  `CollectionsHoldChunks` give.
- `CatalogProofs!EventsComplete` follows from it.
- `CatalogProofs!StorageImplementsCatalog`: `Spec => Catalog!CatalogSpec`. The
  status update maps to `Publish`, a delete of a ready row to `Remove`, a
  sweep, an abandonment, a refusal or a lost create to `Discard`, and
  every other step to a stutter.
- `EventStreamProofs!DeliveryHolds`: `EventTypeOK`, `AcksFollowOutcome` and
  `NoEventForgotten` are inductive together, for any number of workers: what a
  worker acknowledges was settled by itself, whatever others did meanwhile.
- `EventStreamProofs!EnrichmentHolds`: `HandledMeansEnriched`, on top of them:
  a worker about to save holds a text (`AcksFollowOutcome`), a delete takes the
  summary along, and no later delivery of the same event removes one. A file
  is `missed` only while it exists, was handled and has no summary.
- `RetryProofs!RetriesConverge` and `AcknowledgedSurvive`: what `minAge` is
  for. `RetryConverges` is about a counter, and says nothing of why the second
  round succeeds. The invariant (`RoundsHold`) adds, for an upload no `minAge`
  overtook: in its second round every row under its hash is `Young` (not aged,
  not in any collector's scan or lock), so the row its `INSERT` runs into is
  still there at the `SELECT`. In the first round one live row may be old: the
  one whose collection sends the upload into the second. `Survives` adds that a
  row is stale only after its upload failed or was overtaken.
- `DownloadProofs!DownloadsOnlyRead`: `DownloadSpec => Spec`, so the invariants
  of `Storage` may be used beside readers.
  `DownloadsDeliverPrefixes` and `ListsAreWhole` follow from `ReaderHolds`:
  what a reader has delivered, followed by what its list still holds, is the
  beginning of the upload's content, and all of it unless the file is gone or
  a read broke. The step that reads the list needs a lemma on
  `ORDER BY chunk_index` (`OrderedChunksHold`: the `n` rows with the indexes
  `0 .. n - 1` come out in that order), and `ListsMatchProgress` for what those
  rows are.
- `DirectoryProofs!TreeHolds`: `OwnTree` and `UniqueNames` are inductive with
  `CallHolds`, what a request may rely on between its statements: a folder
  whose ownership it checked is gone or still its user's. It cannot have become
  another's because identifiers do not return. A cascade drops a set closed
  under children, an insert adds a leaf whose parent is there. `OwnersRemove`
  rests on it: by `OwnTree` everything below a folder belongs to its owner.
- `DirectoryProofs!AnswersHold`: each answer's files were the caller's when
  shown, and rows only age (`RowsOnlyAge`: a row changes neither owner, place
  nor name and does not return). That a search misses nothing needs the next.
- `SearchProofs!TermsAreLiteral`: `Finds(text, term) <=> Literally(text, term)`
  for texts and terms of any length; `DirectoryProofs!SearchHolds` draws
  `SearchIsLiteral` from it. The escaper (`FlattenSeq`) and `ILike` are
  recursive functions. The library's induction theorems take an operator, which
  the provers cannot instantiate, so `Induction` is proved for a set in its
  place, from the well-foundedness of `<` on `Nat`; with it that each function
  exists (by extending a table of its values), where the escaped characters
  lie (`EscaperPlaces`), and, from the end of the pattern backwards, what the
  matcher computes (`PatternMatchesRest`).
- `RateLimiterProofs!LimitsHold`: `SharedQuota` says that no more than `Limit`
  were admitted, which is not inductive when keys expire: a counter that came
  back at 0 would admit as many again. `CountersHold` adds that a counter is
  gone only when its window is over on every clock and for every script under
  way, `RequestsHold` how old the window of such a script can be. Here the
  assumption on skew and delay is used. `EntriesHold` is the same for
  `memoryCounterStore` and `Cleanup`.
- `RateLimiterProofs!KeysHold`: the walk of `ClientIP` over a header to which
  every trusted proxy appended its caller stops at the client's own address,
  whatever the client wrote before it.

Only model-checked: the liveness properties `UploadsFinish`,
`AbandonedRowsSwept`, `OrphansCollected` and `EventsSettle`, since fairness and
`ENABLED` are outside the prover's reach. The violation runs are
counterexamples and have nothing to prove; `AgeFloor` exists for one of them.
The variables `halfCollected` and `staleGrants` of `Storage` name the first two
windows, and `LossOnlyThroughWindows` is the theorem that there is no third.

## 5. Not modelled

- A PUT or DELETE that takes effect in the bucket after the client gave up on
  it. Calls here take effect before they return or not at all; such a store
  would need requests in flight as state.
- Objects without a row, left by an upload that stored its bytes and rolled
  back: `Storage` reaches them, but no code promises to remove them.
- Exhaustion of the connection pool: no request acquires a second connection
  while it holds one, so calls that wait for the pool do not wait for each
  other. Loss of data in Redis or PostgreSQL.
- The delays of `consumeBackoff` and of the retries: only the number of
  attempts.
- Bytes, MIME types, response headers, the order of the items of an answer,
  tracing, configuration.
- Authentication: `Register` is one `INSERT` and `Login` one `SELECT` around
  bcrypt and JWT, and the token check is stateless. Requests come with the user
  the token names.
- `NewTrustedProxies`, which parses the configured networks once at start: its
  result is the constant `Trusted`. A header spread over several lines.
- A restart of an API process, which empties its local counters and so grants a
  further local allowance; nothing in the code says otherwise. The tiers of
  `cmd/api/main.go` have key spaces of their own, each an instance of
  `RateLimiter`.

## 6. Plan

1. Done: all modules of section 2, with every safety property proved.
2. Composition of `Storage` and `EventStream`: that a published file is
   enriched from its complete content. `EventsNameCompleteFiles` and
   `DownloadsDeliverPrefixes` are its two halves.
3. Invariants behind the liveness properties, in particular that the waits of
   uploads and collectors for each other's rows form no cycle.
