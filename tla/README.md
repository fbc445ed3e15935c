# PowerSync Service: TLA+ models and proofs

The PowerSync Service replicates a source database into *bucket storage* and
streams the buckets to clients. A bucket is a list of PUT and REMOVE operations
with increasing op ids; a *checkpoint* is an op id (`last_checkpoint`) with a
source position (`last_checkpoint_lsn`), and what a client holds at a checkpoint
is each row's last operation up to it. This directory holds TLA+ modules of that
system, TLC configurations that check them on small instances, and TLAPS proofs.

    tlc -config MCWalStream.cfg MCWalStream       # one run; PROJECT.json lists all
    tlapm WalStreamProofs.tla                     # the proofs of a module

`PROJECT.json` maps every definition to the lines it translates, and lists the
runs, the mutants (a plausible bug for each property that makes its run fail),
the hazards and the theorems.

## 1. The system

| Component | State | Operations | Hard behaviour | What makes it correct |
|---|---|---|---|---|
| **Storage writer** (`module-postgres-storage/src/storage/batch`) | rows `sync_rules`, `source_tables`, `current_data`, `bucket_data`; `op_id_sequence` shared by all streams; in memory the batch, `persisted_op`, `needsActivation` | save, flush, truncate, commit, keepalive, markTableSnapshotDone, markAllSnapshotDone, updateTableProgress, autoActivate | flush, commit, cleanup and activation are separate transactions; only `keepalive_op` survives a restart; LSNs may be repeated after a restart | checkpoints move forward; no flushed operation is forgotten by a blocked commit; an active stream has a checkpoint |
| **Postgres connector** (`module-postgres/src/replication/WalStream.ts`) | slot, position in the WAL, resnapshot list, snapshot progress | initial snapshot in chunks, streaming, resnapshot, keepalive, ack | the source changes during the snapshot; TOAST values are not sent; any suffix of the WAL may be replayed | clients see the view of one source state, at a position that only moves forward |
| **Replicator and jobs** (`service-core/src/replication`) | stream states, replication locks, running jobs | refresh, start and stop jobs, terminate, clear | several processes, expiring locks, asynchronous termination | one job per stream; some stream keeps serving while another is processed |
| **Storage factory** (`PostgresBucketStorageFactory.ts`) | the set of streams and their states | updateSyncRules, restartReplication, activation | read-then-write across transactions | at most one processing and one active stream |
| **Sync stream** (`service-core/src/sync`) | what the client was told (`lastChecksums`, bucket positions), pending downloads | checkpoint, checkpoint_diff, data, checkpoint_complete, partial completion per priority | the next checkpoint is computed while data of the last is sent; buckets are compacted meanwhile | a client that completes a checkpoint holds exactly its buckets, with matching checksums |
| **Bucket storage reads** (`PostgresSyncRulesStorage.ts`, `ChecksumCache.ts`) | cached checksums, the notification stream | getBucketDataBatch, getChecksums, watchCheckpointChanges, clear | stale caches, notifications that overtake reads | checksum = sum over the data returned for the same checkpoint |
| **Compactor** (`PostgresCompactor.ts`) | bucket operations, in a descending scan | MOVE, CLEAR | runs against live readers and a live writer, in many transactions | reduced bucket unchanged from any position a client may be at |
| **Write checkpoints** (`storage/checkpoints`, `util/checkpointing.ts`) | per-user counter and LSN | create generated or supplied checkpoint, look it up at a checkpoint | repeated and reordered requests, idle sources | a client sees its write checkpoint only with its writes |
| **In-memory streams** (`streams`, `Mutex.ts`) | last values, waiters | merge, broadcast, sink, acquire | cancellation between a wake-up and its use | latest value is never lost; lock neither leaks nor is shared |
| **Relation cache, table reconciliation** | `source_tables` ids | resolveTables, rename, drop | identity changes while streaming | one source table per relation |
| **MongoDB storage** (`module-mongodb-storage`) | stream document with a state per sync config, `source_tables`, source records with soft deletes, bucket documents, leases | flush, commit, setResumeLsn, drop, markSnapshotDone, compaction | several configs share one stream; two writers at once; workers that lose their lease | a checkpoint of every config is a state of the source; compaction changes nothing a reader sees |
| **MongoDB connector** (`module-mongodb/src/replication`) | change stream with the barrier it waits for, relation cache, snapshot queue | stream events, snapshot tables, write markers | the snapshotter copies while the change stream replicates; collections appear and go; replay after a restart | nothing lost or brought back by the overlap; a quiet source ends in a checkpoint |
| **MySQL connector** (`module-mysql/src/replication`) | position and GTID of the listener, table cache, queue of events | snapshot, read the binlog, schema changes, copy a new table | the listener is paused and restarted while events wait; tables are looked up in the present while the past is replayed | every checkpoint is a state of the source; no event is lost or repeated |
| **SQL Server, Convex connectors** | as above, other implementations | | | as above |
| **Sync rules** (`packages/sync-rules`) | none | evaluateRow, parameter queries | | pure functions of a row |
| **HTTP, WebSocket, auth; wire protocol; libraries** | connections, key cache | | | transport around the modelled state |

How they interact: the connector calls the writer; the writer and the factory
write the rows of `sync_rules`; a NOTIFY after a commit wakes the checkpoint
watcher, which feeds every sync stream; streams read buckets and checksums
directly from storage, while the compactor rewrites them and the replicator
moves streams between `PROCESSING`, `ACTIVE`, `ERRORED`, `STOP`, `TERMINATED`.

## 2. Modules

| Module | What it is |
|---|---|
| `PostgresBucketBatch` | the storage writer and the rows it writes. `BatchSpec` lets a connector call it in any order its interface allows, and lets other streams take op ids and change our state; `CallSpec` are these calls without bounds |
| `ReplicatedView` | abstract: the source is a sequence of states, and clients see the evaluation of one of them, at a position that never moves back |
| `WalStream` | extends `PostgresBucketBatch` with a Postgres source (rows, WAL, slot) and the replication job, which conjoins its steps with the writer's operations |
| `WalStreamProofs` | proofs about the writer (`CallSpec`), that the job makes only such calls, and about the job |
| `MC...` | instances for TLC |
| `Buckets` | bucket operations and `reduceBucket`, the client's view of them; documents of several operations and their statistics (pure) |
| `BucketsProofs` | what `reduceBucket` and sums of checksums return, for every finite set of operations; and what a reader makes of a compacted bucket, given the operations as they were written (`LogOK`); and the same of documents, with sums of their statistics |
| `PostgresCompactor` | extends `Buckets`: compactors on the buckets of a stream, while replication appends |
| `PostgresCompactorProofs` | proofs about `CompactSpec` |
| `SyncStream` | extends `PostgresCompactor` with one connection of the sync API and its client |
| `SyncStreamProofs` | proofs about `Spec` of `SyncStream` |
| `ReplicationLifecycle` | replication streams and their states, replication locks, replicators and jobs of several processes, deploys and restarts |
| `ReplicationLifecycleProofs` | proofs about `LifecycleSpec` |
| `Checkpoints` | checkpoint notifications, the shared watcher and its subscribers, managed write checkpoints and a client that waits for its own write |
| `CheckpointsProofs` | proofs about `Spec` of `Checkpoints` |
| `ChecksumCache` | extends `PostgresCompactor` with the cache of bucket checksums that connections share |
| `ChecksumCacheProofs` | proofs about `CacheSpec` |
| `MongoCompactorV3` | extends `Buckets`: compaction on MongoDB storage v3, with leases, scheduling and statistics, against the writer and the readers of a bucket |
| `MongoCompactorV3Proofs` | proofs about `MongoSpec`: work stays scheduled; with one worker, reads, checksums and counts are right; the lease leaves one worker |
| `MongoReplication` | a MongoDB change stream and the snapshotter beside it, each with its writer of MongoDB storage v3 |
| `BinLogStream` | a MySQL source, the replication job and its binlog listener with the queue between Zongji and the worker |

### 2.1 `PostgresBucketBatch`

* `sync_rules`, `source_tables`, `current_data`, `bucket_data`, `op_id_sequence`
  are the database; `writer` is the `PostgresBucketBatch` object; `writer.step`
  says which transaction of `flush`, `truncate` or `commit` comes next, so a
  crash (`CloseWriter`) can fall between any two of them.
* `FlushRecord` is one flushed record. The code's size limits may end a
  transaction after any record, so records are flushed one per transaction, and
  the operations of one record, which one transaction writes, share an op id.
* `CommitCheckpoint` is the statement on the `sync_rules` row; NULL is -1, which
  turns GREATEST into Max. `CleanupPendingDeletes` and `AutoActivate` follow.
* A row is `[x, t]`: the sync config sees `x`; `t` is a TOASTable column.
  `EvaluateRow` is the sync config, `SoftDelete` the storage v3 behaviour.
* `committed_op`, `orphan_op` are auxiliary: what a writer flushed and did not
  commit before it went away, or before `truncate` overwrote its last op.
* Parameter lookups are left out: they are written in the same transactions, under the
  same conditions, as the bucket data.
* Not modelled: `resolveTables`, `drop`, `setResumeLsn`, tables without
  `current_data`, custom write checkpoints.

### 2.2 `WalStream`

* `history` is the source over time and an LSN is an index in it; `wal[n]` leads
  from `history[n]` to `history[n + 1]`, and is a transaction of one or two
  changes or the logical message of `sendKeepAlive`.
* `stream.phase` is the position of the job in its code: the snapshot (chunks
  of one row; each is saved, flushed, then its key recorded), the commit at the zero LSN
  that is always blocked, the keepalive, and streaming. `SnapshotChunk` reads
  the current source rows, while the WAL between slot and now is replayed later.
* `Ack` may happen any time after a commit, or never; `Crash` forgets the
  writer and the resnapshot list, which the code keeps in memory only.
* `Resnapshot` re-reads rows whose TOAST values are missing.
* The loss of the slot and `clear` are in `ReplicationLifecycle`. Not modelled: snapshots
  of tables that appear while streaming, and tables without a primary key that can be chunked.

### 2.3 `Buckets` and `PostgresCompactor`

* A bucket is a set of operations with different op ids. `Reduce` is
  `reduceBucket`: the PUT that is left of each row, and a checksum of the rest.
  Checksums are sums of `Hash`, a constant; the instances give every
  operation a power of ten, so that equal sums mean equal counts. The code adds
  modulo 2^32, which collides now and then by design and is left out.
* `ScanOp` is one operation of the descending scan (the code reads
  `moveBatchQueryLimit` at a time, which one compactor cannot tell apart: nobody
  else changes what it has read); `FlushMoves` and `ClearBucket` are the
  transactions, and `StopCompact` a call that ends, fails, or dies between them.
* `MaxSeen` is the memory limit, in rows. Replication is `Flush` and `Commit`, the two
  steps of the writer that a compactor and a reader can observe, reduced to their
  effect on buckets; `log` is auxiliary, the operations as they were written.

### 2.4 `SyncStream`

* `conn.step` is the position in the loop of `streamResponseInner`, and
  `conn.builder` that of `nextCheckpointPromise`, which runs concurrently once
  `RaceAfter` operations were sent and then sets `conn.aborted`. `conn.line` and
  `conn.next` are the line that is being downloaded and the one that was built;
  `lastChecksums`, `positions`, `pending` are the fields of `BucketChecksumState`.
* `StartBatch` is the query of `getBucketDataBatch`; `SendChunk` one of its chunks,
  sent, counted and recorded; `EndBatch` what follows the last one.
* The server hears nothing from a client, so lines are received in
  the step that sends them; a slow client is a long time between steps, and a broken
  connection a `Disconnect` between any two.
* The client is not part of this repository. It follows `docs/specs/sync-protocol.md`:
  it publishes on a completion when the checksums match, and otherwise drops the
  buckets that do not and connects again.
* The buckets of the user are a set per checkpoint (`bucketsAt`), in place of
  parameter lookups. A notification may be late (`NotifyLag`), or skip checkpoints.
* Left out: write checkpoints in lines (see `Checkpoints`), the semaphore around data
  requests, the checksum cache (checksums are read from storage; see `ChecksumCache`), the incremental
  checkpoint changes, which Postgres storage does not use.

### 2.5 `ReplicationLifecycle`

* `sync_rules` has one row per stream; "NONE" stands for a row that was not inserted
  yet. `locks` is the table of `PostgresLockManager`, `slots` the source's replication
  slots, `data` the batches of rows a stream has stored.
* Transactions are READ COMMITTED: an UPDATE finds its rows at one moment and writes those
  that still match when it has their locks. Each multi-row update is therefore two actions,
  `BeginDeploy`/`CommitDeploy`, `BeginUpdate`/`InsertUpdate`, `BeginActivate`/`CommitActivate`.
* `replicator[p]` is an `AbstractReplicator`: `Refresh` decides what to stop and what to
  start, `StopOrphan`, `StartJob`, `StandBy` are the awaits after it, `FinishRefresh` swaps
  the map of jobs. Terminations (`clearing`) run beside it.
* `runners[i]` is the job or termination that holds lock handle `i`. A job that has ended
  stays in its map as `Ended` until a refresh drops it.
* A stream's snapshot and streaming are reduced to batches (`Flush`) and
  `FinishSnapshot`; `WalStream` has them in detail.
* `LockExpires` is possible once nothing refreshes the lock; `RefreshFails` is the
  interval that ends after one failure while its job goes on.
* Left out: the error rate limiter, which only delays a start; several jobs of one
  process on one slot name; the storage version of a stream.

### 2.6 `Checkpoints`

* `wal` is the source: the user's writes, the markers of `sendKeepAlive`, and noise that
  no publication sends. `row` is the active stream's checkpoint; the operation id is the
  number of writes it includes.
* `watcher` is `watchActiveCheckpoint` with the `BroadcastIterable` around it,
  `subscriber[s]` is `watchCheckpointChanges` with its own `LastValueSink`. A sink keeps the last
  value only; `Requery` is the null that a restored connection writes, `Done` an end or error.
* `connection` may break and come back; payloads under way are lost then.
* A write checkpoint request is `ReadHead`, `Persist`, `WriteMarker`, `Respond`, and fails
  between any two. `RetryRequest` is the client's, also while an earlier copy is in flight.
* `Supplied` selects between the two endpoints: ids that come from the client, or generated ones.

### 2.7 `MongoCompactorV3`

* A bucket is a set of documents; a document is a set of operations with its `target_op`.
  `bucket_state` holds the statistics, the compacted prefix and its checksum, the
  schedule of the next compaction, and the lease.
* `compactors[c].step` is the position in `compactSingleBucket`: claim, scan the documents in
  descending batches, write each one, clear the leading documents and the boundary, or merge small
  documents (kind "chunks"), then `Finalize`. Each write is a transaction that `throwIfLost` may refuse.
* `Expire` may hit a lease whose holder is alive; `Renew`, `Fail` and `Crash` at any step.
* Reads and checksums are state functions (`IsServed`, `ChecksumAfter`): what the query and the
  aggregation return on the documents at that moment.
* Thresholds of size and time are nondeterministic choices. Left out: object storage for large
  documents, parameter compaction, several sync configs on one bucket.

### 2.8 `ChecksumCache`

* `cache` is the LRUCache: a key holds a checksum, or the request whose fetch is in flight.
  Which entry a full cache drops, and when one expires, is left open (`Evict`, `Expire`).
* A call is `GetChecksumMap` up to its await, `FetchChecksums` or `FetchFails`, `Resolve` for each
  bucket it fetched, and `Return`; `promises` says which call it waits for, bucket by bucket.
* Partial checksums are those of Postgres storage. lru-cache is external: modelled by how its
  `fetch`, `peek`, `dispose` and `ignoreFetchAbort` are used here.

### 2.9 `MongoReplication`

* `log` is the source: its change events and the markers in `_powersync_checkpoints`; position `n` is
  LSN `n`, and the version of a document is the position that wrote it. `SourceAt(k)` are the documents at `k`.
* A marker is a `Barrier` of one job (`checkpointStreamId`) or `Standalone`, from write checkpoints and
  the snapshotter. `stream.wait` is `waitForCheckpointLsn`.
* `stream` is `streamChangesInternal`: `StreamResolve`, `StreamQueue`, `StreamRequire`, `StreamSave` are the parts of a data
  event, `StreamTruncate`, `StreamForget` and `StreamCleanup` those of a drop; `StreamSkip`, `StreamDefer`, `StreamCommit` say what
  becomes of a marker. A batch of the driver may end at any event (`StreamFlush`, `StreamResume`).
* `snap` is `replicationLoop` with the table it copies. A chunk is one document, and `SnapFetch` reads one ahead of what
  `SnapFlush` saves; `SnapProgress`, `SnapMarker`, `SnapTableDone`, `SnapMark`, `SnapRecheck`, `SnapMarkAll`, `SnapExtra` are the awaits that follow.
  The change stream may resolve a table, or queue it, between any two of them.
* `CommitRead`/`CommitWrite` are the two halves of `commit()`: the other writer may flush between them.
* `live` and `deleted` are the source records, `rows` the buckets at the last operation; a checkpoint keeps the rows it was made of.
* `Stop` is an error, which aborts both loops, or a crash.
* A behaviour starts in one of `Scenarios`, which also bound it; a config is either new or in sync with an empty source.
* Left out: activation and write checkpoints (see `ReplicationLifecycle`, `Checkpoints`), several buckets per
  document, renames, split events, collections without post-images, DocumentDB, inline snapshots.

### 2.10 `BinLogStream`

* `binlog` is the source's events: GTID, BEGIN, TABLE_MAP and rows events of each statement, and Xid of a transaction, GTID and
  statement of a DDL, and rotations. A statement may have two rows events behind one TABLE_MAP. A position is the number of
  events before it; `comparable` GTIDs are ordered as positions are.
* `job.phase` is `initReplication`, `startInitialReplication` (`ListTables`, `CopyTable` in one transaction, whose view
  the first read fixes, `FinishSnapshot`) and `streamChanges`.
* `zongji`, `queue`, `worker` and `listener` are the `BinLogListener`. `Push` stops Zongji when the queue is full, `AwaitDrain` is the
  handler that then waits; `Processed` ends one event, and restarts Zongji when the queue is drained. `onDrain` is the
  handler that a schema change installs, in place of those that wait, and that stays.
* Zongji is external; the listener and its tests show what it does. It looks the table of a TABLE_MAP up as it is *now* and fails if it
  is gone or has other columns (`IsCurrent`, `RefuseEvent`), unless it has read that table before (`IsKnown`), when either may happen.
  `zongji.from` is where it was started: it was not sent a TABLE_MAP before that, and a rows event of one makes it fail (`RefuseEvent`) or is
  left out (`SkipRows`). `store.lost` remembers what was left out, and `Seen` leaves these rows out of a comparison.
* `worker.step` is the position in `processQueryEvent`, `handleSchemaChange` and `handleRelation` with its snapshot.
* Source tables have a replica identity (a number, as it changes) and columns; `Resolved` is `resolveTables` with the drop of what does not fit.
* `StoresResume` is the storage: whether a blocked commit records its LSN (MongoDB v3), or nothing does (Postgres).
* A behaviour starts in one of `Scenarios`. `offline` allows schema changes while the job is not streaming.
* `Rename` is both forms: RENAME TABLE keeps a new name only if it is in the sync config, ALTER TABLE ... RENAME TO keeps any.
* Left out: activation, a server with another uuid, statements that the parser rejects, renames across schemas.

## 3. Runs

| Run | Instance | Shows |
|---|---|---|
| `wal_stream` | 2 rows, two transactions of up to two changes during or after the snapshot, in one chunk or two, fair job | `ImplementsView`: the step-by-step refinement of `ReplicatedView`; `CatchesUp`. Two values with two transactions of one change, or one of two, pass too |
| `wal_stream_tables` | 2 tables of one row, TOASTed column, rows that leave and enter a bucket, truncates of one or both, deletes that are cleaned up later, no empty checkpoints, 2 transactions, 1 restart | `ConvergedCheckpoint`: a checkpoint past all that was read is exact, with resnapshots and truncates. `AccountedFor`, `ActiveHasCheckpoint`, `CheckpointsMoveForward` of the writer under the calls of this job. `SoftDelete = FALSE` (storage before v3) passes too |
| `compactor` | 2 rows, 5 operations, 2 calls, memory for one row, MOVEs one by one, CLEARs of two | `ClientsConverge`, `ClearsNoPut`, `StaleReadsInvalidated`. A CLEAR that takes in an earlier CLEAR needs two calls or two batches; both happen |
| `sync` | 2 buckets of different priority, one of which comes and goes, 3 operations, requests and chunks of one row, every line may be interrupted, late notifications, 1 disconnect, fair server and client | `PositionsAgree`, `SkippedIsCurrent`, `DownloadsConsistent`, `CompletesAll`, `EventuallySynced` |
| `sync_compact` | 1 bucket, 2 rows, 3 operations, a compaction, 1 disconnect, data in one request, fair server and client | `PublishesConsistent` |
| `lifecycle` | 2 processes, 2 streams, a deploy or a rolling restart with a new config, any one of crash, failed lock refresh, lost slot, error | `OneRunnerPerStream`, `KeepsServing`, `TerminatedStaysEmpty` |
| `lifecycle_live` | a deploy through the API, 2 streams, 2 fair processes, one of which may crash | `StoppedIsTerminated`, `DeployedIsActivated` |
| `checkpoints` | 1 subscriber, 2 supplied requests, each of which may be repeated while in flight, 1 payload under way, one fault (reconnect, failed request, activation, expiry, unpublished WAL), fair | `AckedIsReplicated`, `SentMovesForward`, `EventuallyCurrent`, `Acknowledged` |
| `mongo_compactor` | 1 row, 4 operations, documents of two, 1 worker with memory for one row, 2 failures, fair | `ReadsConsistent`, `ChecksumsMatch`, `WorkStaysScheduled`, `StatsConverge`, `EventuallyCompacted` |
| `checksum_cache` | 2 buckets, 2 operations, a compaction, 3 calls of which 2 at a time, one failed query or lost entry | `ChecksumsExact`, `NoLostWaiter`. The CLEAR can come before, between and after the reads of a checksum and of what it starts from; one bucket with three operations passes too |
| `mongo_stream` | 2 collections, 2 documents, six scenarios: `Copy` (two documents copied while one changes), `CopyAgain` (the same with a restart, while the last one changes), `Appears` (a collection appears and is queued while the snapshot of another one is marked as done), `Recreate` (dropped and back, copied while it changes), `Markers` (of other processes), `Restart` (two changes, a restart); fair | `CheckpointConsistent`, `ResumeLosesNothing`, `EventuallyCheckpointed` |
| `binlog` | 2 tables and one outside the sync config, 2 keys, a queue of three events, storage that records where to resume; twelve scenarios of at most four statements: a snapshot with writes and a restart, transactions with a restart, a long transaction of two statements or of one with two rows events, a new table, rename out and in, swap, ALTER, TRUNCATE, DROP, purged files, and a table that is never written to; fair | `ConvergedCheckpoint`, `QueueContinues`, `EventuallyCheckpointed`. The queue is full, drained and refilled within one transaction |

Every component has a type invariant. Those that section 4 proves inductive are not run again,
and `CompactTypeOK` is part of `SyncTypeOK`. TLC agrees with those of `ChecksumCache`, `MongoReplication` and
`BinLogStream` on the instances of their runs, too. `MCPostgresBucketBatch.cfg` lets any connector call the writer (1 row, 2 values,
2 buckets, LSN and op id at most 2); it passes, and what it checks is proved.
`MCCheckpoints_two.cfg` (two subscribers, one request) passes too, in a minute.

Bounds: `MaxWal` transactions of at most `MaxChanges` changes, `MaxCrashes`
restarts, `MaxLsn`/`MaxOp`/`MaxBatch` for a free connector. Two transactions and
two restarts are enough to replay a transaction that was flushed, committed or
neither, in each combination; the third changes no case of the code.
`CHECK_DEADLOCK FALSE`: a source that reached its bound and a job that caught up
have nothing left to do.

`ConvergedCheckpoint` compares only at checkpoints that include every
operation and every position read, and its runs use data (one bucket per row, or
one table per truncate order) that stays clear of the counterexamples of section 5.
The condition is not vacuous: the mutants of those runs break it.

Fairness: `WF_vars(JobNext)` says that the job goes on while it can. The
job's loop awaits the next WAL message and its own database calls, and a job
that stops is started again by the replicator. Nothing is assumed of the source,
and a crash is never forced; the run of `CatchesUp` has none, since a job that crashes
for ever makes no progress. In `SyncStream`, `WF_vars(ServerNext)` says that the server's
loop goes on while storage answers and the client reads, and `WF_vars(Connect)` that
a client connects again; replication, compaction and disconnects are never forced.
`LifecycleFairness`: `runLoop` goes on whatever it catches, a job goes on until it ends, and a
lock that nothing refreshes expires; deploys and faults are never forced. In `Checkpoints`
replication reads what the source sends, the connection is restored by its retry loop,
and a client asks again after an error; in `FairMongoSpec` the compact job is scheduled again and
again, and a bucket that stays due is due for a full compaction at some point (`SF` of the
claim, since its thresholds only depend on time). In `MongoReplication` both loops and the start of a job go
on; the source, the markers of others and `Stop` are never forced, and neither is the end of a batch
(`StreamResume`), since events may keep coming. A job only stops while another start is left, so the last one runs on.

In `BinLogStream` the job starts again, Zongji and the worker go on and heartbeats come while the connection is idle; statements and
crashes are never forced. In three kinds of states the job gets no further, and each is reached in the run (section 5):

* Zongji comes to the same event and fails again (`CannotRead`: `Long`, `Renamed`, `Altered`, `Dropped`);
* a statement is about a table that the job knows nothing of (`RelationBeforeUse` is false: `Unused`);
* the queue drained before Zongji stopped, and the listener stands still (`NeverStandsStill` is false: most scenarios).

`EventuallyCheckpointed` says that they are the only ones: a behaviour that stays clear of them from some time on ends in a checkpoint
of the source's present state. `ConvergedCheckpoint`, `QueueContinues` and `EventuallyCheckpointed` are up to the rows events that Zongji left out.
Schema changes come while the job streams and is not restarted. A queue of three is the smallest that moves: BEGIN and TABLE_MAP leave the position
where it is, so a queue of two is full with them and starts over for ever; with a limit in bytes, the code is in that case only when these two events fill it.

The scenarios of `mongo_stream` combine no drop with a copy in progress and no new config with one in sync:
these are the counterexamples of section 5. A second copy, collection or restart repeats the same
steps from the same kinds of states; one document is one chunk, so two are enough for a chunk read ahead.

`TerminatedStaysEmpty` exempts streams on which a job was started from an old
listing or went on without its lock; `TerminatedIsEmpty`, which does not, fails (see 5).
`StoppedIsTerminated` and `DeployedIsActivated` give up where the bound on streams is reached, or a
lock was lost. `ReadsConsistent` and `ChecksumsMatch` exempt checkpoints that a CLEAR
has overtaken, as on Postgres storage.

`sync_compact` keeps out of the counterexamples below by its bounds: data that fits one
chunk, and no line that is built while another one is sent. A bucket that a CLEAR has
overtaken is exempt in `PublishesConsistent` and `DownloadsConsistent`; a
bucket with MOVEs only is not.
`DownloadsConsistent` looks at the data before the checksums do, so it would show an
error of the server that a client would only notice and repair.

## 4. Proofs

For all constants that satisfy the ASSUMEs of the module:

| Module | Theorem | States |
|---|---|---|
| `WalStreamProofs` | `TypeCorrect` | `CallSpec => []BatchTypeOK` |
| | `OperationsAccountedFor` | `CallSpec => []AccountedFor` |
| | `ServingHasCheckpoint` | `CallSpec => []ActiveHasCheckpoint` |
| | `CheckpointsForward` | `CallSpec => CheckpointsMoveForward` |
| | `PlaceInWal` | `Spec => []WalTypeOK` |
| | `ImplementsCalls` | `Spec => CallSpec` |
| | `WalOperationsAccountedFor` | `Spec => []AccountedFor` |
| | `WalServingHasCheckpoint` | `Spec => []ActiveHasCheckpoint` |
| | `WalCheckpointsForward` | `Spec => CheckpointsMoveForward` |
| `ReplicationLifecycleProofs` | `LifecycleTypeCorrect` | `LifecycleSpec => []LifecycleTypeOK` |
| | `OneRunner` | `LifecycleSpec => []OneRunnerPerStream` |
| | `AlwaysServing` | `LifecycleSpec => []KeepsServing` |
| | `TerminatedEmpty` | `LifecycleSpec => []TerminatedStaysEmpty` |
| `CheckpointsProofs` | `CheckpointTypeCorrect` | `Spec => []CheckpointTypeOK` |
| | `SentForwardOnly` | `Spec => SentMovesForward` |
| | `SuppliedAcksReplicated` | `Supplied => (Spec => []AckedIsReplicated)` |
| `PostgresCompactorProofs` | `CompactTypes` | `CompactSpec => []CompactTypeOK` |
| | `NeverClearsPut` | `CompactSpec => []ClearsNoPut` |
| | `CompactedClientsConverge` | `CompactSpec /\ []OnePerBucket => []ClientsConverge` |
| | `StaleReadsAreInvalidated` | `CompactSpec /\ []OnePerBucket => []StaleReadsInvalidated` |
| `ChecksumCacheProofs` | `CacheTypes` | `CacheSpec => []CacheTypeOK` |
| | `WaitersAreTold` | `CacheSpec => []NoLostWaiter` |
| | `ChecksumsAreExact` | `CacheSpec /\ []OnePerBucket => []ChecksumsExact` |
| `SyncStreamProofs` | `SyncTypes` | `Spec => []SyncTypeOK` |
| | `PositionsMatch` | `Spec => []PositionsAgree` |
| | `CompletesEverything` | `Spec => CompletesAll` |
| | `SkippedAreCurrent` | `Spec => []SkippedIsCurrent`, if `MaxCompactions = 0` |
| | `DownloadsAreConsistent` | `Spec => []DownloadsConsistent`, if `MaxCompactions = 0` |
| | `PublishedIsConsistent` | `Spec /\ []OnePerBucket /\ []NoneForgotten /\ []NoneOutrun => PublishesConsistent`, if `~NotifyLag` and no checksum is 0 |
| `MongoCompactorV3Proofs` | `WorkIsScheduled` | `MongoSpec => []WorkStaysScheduled` |
| | `CompactedReadsAreConsistent` | `MongoSpec /\ []OneWorker => []ReadsConsistent` |
| | `CompactedChecksumsMatch` | `MongoSpec /\ []OneWorker => []ChecksumsMatch` |
| | `MongoTypes` | `MongoSpec /\ []OneWorker => []MongoTypeOK` |
| | `FullCompactionCounts` | `MongoSpec /\ []OneWorker => StatsConverge` |
| | `LeaseExcludes` | `MongoSpec /\ []LeaseLive => []OneWorker` |
| | `CompactionIsSafe` | `MongoSpec /\ []LeaseLive` implies the four properties above |

**The writer.** `BatchTypeOK` is inductive by itself. `AccountedFor` is not: that a commit or a
lost writer keeps every operation covered depends on what was covered
*by the committed part*, so the invariant `Accounting` adds that operations which neither
`last_checkpoint`, `keepalive_op` nor `orphan_op` covers lie above `committed_op`.
`ActiveHasCheckpoint` needs `Activation`: a writer at its `activate` step has
seen a checkpoint, because a blocked commit returns early.
`CheckpointsMoveForward` follows from the type invariant alone, since commit is the
only action that writes these columns. The assumptions are that rows are numbered
(primary-key order), that `EvaluateRow` and `TableOf` are functions of the right
type, and that the model values `Nothing` and `Toast` are not data. The bounds of `BatchSpec` play no part:
the theorems are about `CallSpec`, which makes the same calls without them (lemma `BoundedSpec`).

**The replication job.** `ImplementsCalls` shows that each step of `WalStream` is one of the writer's calls with
arguments its interface allows, or leaves the writer alone, so the theorems of the writer hold of the job. That a row which is
saved is one the writer accepts, and that a snapshot or a resnapshot names a table, needs `WalInv`: the source's history and
WAL have the right types and fit each other, position, slot and acks lie within the WAL (`WalTypeOK`, which `PlaceInWal` states), and
the key of a snapshot and the table of a resnapshot are kept only in the phases that use them (`Places`).

**The lifecycle.** `TypeInv` adds to `LifecycleTypeOK` that a process that configures has a config.
Lemma `RunnerSteps` says that after any step each runner is the one that was there before, or
was started by that step; the invariants on runners follow by these two cases.

* `OneRunner`: `LockInv`, a runner that refreshes its lock is the one the lock names, and that
  lock has not expired. Locks are only taken over when free or expired, expire only when
  nothing refreshes them, and are released by handle (`LocksKept`).
* `AlwaysServing`: two streams may be serving, a stopped stream may have a late
  job, so the step that matters is an activation. `Activations`: the stream that is being activated stays
  PROCESSING until its transaction commits, and only one runner activates it; `Clearings`: what a replicator
  clears is stopped. With both, every stream moves along an edge of its lifecycle
  (`StatesFollow`), and only `CommitActivate` stops a serving stream, in the step that makes
  another one active.
* `TerminatedEmpty`: a runner without a refresh is known to be (`Tracked`), so a stream without excuse
  has one runner (`OnlyRunner`, from `LockInv`); a termination between its last batch and its
  last write sees an empty stream (`Emptied`); and once terminated, only terminations are
  on it (`Finished`), since a job that starts there is late.

The assumptions are that streams and lock handles are numbers, that stream 1 exists, and that `None`
is neither a number nor a runner.

**Checkpoints.** `Types` and `Watched` are inductive together. `Watched` says that positions reach a subscriber
in order: what it was sent, what it looks up, what waits in its sink and the last value of the
watcher (`Follows`); a subscriber that the watcher has ended only has the end in its sink.

* `CheckpointTypeCorrect` and `SentForwardOnly` follow from it: the watcher's last value is in the stream it
  watches, and `IsNewer` compares with exactly that value.
* `SuppliedAcksReplicated`: `AllLocated`, every position on its way is true to the WAL (its operations are the writes up to its
  LSN); `ClientTrue` and `BatchTrue`, the head of a request is at or after what the client had written, and
  what is stored for it has at least its id; `StoredTrue` and `Informed` carry that through the
  row of `write_checkpoints` to the subscriber. `Upserted` with generated ids breaks
  `StoredTrue`, hence the hypothesis (§5, `MCCheckpoints_legacy`).

The assumptions are that the markers (`Empty`, `Requery`, `Done`, `None`) are no data.

**Buckets.** Sums of checksums and `Reduce` are folds over sets of operations. `BucketsProofs` shows that the folds exist and
do not depend on the order, for every finite set: induction over subsets is `WFMin` of the
library on the subset relation, since an induction theorem with an operator parameter cannot be instantiated. From there: a sum splits over disjoint
sets; reducing in two parts gives what reducing at once gives; the last operation of a row decides what is left of it.

**The Postgres compactor.** `CompactInv` says of each scan that a PUT between its position and `lastNotPut` is on its list of
MOVEs, and that below `lastNotPut` there is no PUT left when it clears; hence `NeverClearsPut`, for any number of compactors.
`ClientsConverge` and `StaleReadsInvalidated` relate what is stored to what was written (`LogOK`): an operation is as it was written, or is
a MOVE with the checksum of one that a later operation of its row supersedes, no further than `target_op`; or a
CLEAR, first in its bucket, with the sum of all that it stands for; and nothing written is missing. `LogInv` adds that what a
scan remembers of rows is in the log and that what it will turn into MOVEs is still as it was written. The latter fails when two
compactors work on one bucket (`MCPostgresCompactor_two`, section 5), so these two theorems have the hypothesis
`OnePerBucket`; the code has no lock that ensures it, but it is so when one compact job runs at a time.

**The checksum cache.** `CacheInv`: an entry that is in flight, and a promise that a call waits for, name a request that still fetches that
bucket at that checkpoint. This is what an eviction, an expiry, a clear or a failure in between could have broken.
`ExactInv` says that a cached or fetched checksum matches the log up to its checkpoint (`Matches`), and a partial one what follows the
checkpoint it starts from; `Matches` survives every step of replication and of one compactor per bucket,
and adding a part to its start gives a match again, also when a CLEAR came between the two reads.

**The sync stream.** `StreamInv` holds with compaction: the positions that the server keeps are those of the client's data (`PositionsAgree`);
the buckets of the line are those of the user at its checkpoint, from which `CompletesAll` follows; and a line that
was built ahead is the difference to what was *sent*, so that it is still right when it is sent.
Without compaction, `DownloadInv` says what the client's data are: a bucket is the reduced log up to its position; one
that is not pending has nothing left up to the line's checkpoint; the rows of a batch under way begin with the next one
that is missing, without gaps. This gives `SkippedIsCurrent` and `DownloadsConsistent`; `MaxCompactions = 0` is the hypothesis
of these two only, since what is in a bucket is no longer its log once it is compacted.

`PublishesConsistent` is proved *with* compaction, at any time and by any number of compactors. Checksums alone do not give it: a MOVE keeps the
checksum of the operation that it replaces, so a client may have the right checksum and lack a row. `PublishInv` has these parts:

* The store (`StoreInv`): the log that the Postgres compactor's `LogInv` speaks of, with targets that are committed (`TargetsBounded`).
  Checkpoints and targets only grow (`StoreGrows`).
* The client (`Shows`): its rows are PUTs of the log up to its position, with the checksum of the log up to there, and a row is wrong only if a later
  operation supersedes it, no further than the targets it has read. An operation that comes in keeps this (`Segment`: what a query returned has no gap, also
  when a CLEAR or a MOVE took the place of operations since), and `ShowsAll` bounds the targets: by the last checkpoint for any client, by that of the line while it is not invalidated, by
  that of the next line when one is built.
* The line (`SumsOK`): its checksums are those of the log at its checkpoint, unless a CLEAR has overtaken it.

When a line completes, no target is past its checkpoint. If the client accepts it, the checksums agree, so the client's position misses no operation of the log (`ValidIsConsistent`:
no checksum is 0, and a client past the checkpoint would have a larger sum), and nothing is left that could be wrong. Each hypothesis has a counterexample without it:

* `[]OnePerBucket`: as for the compactor (`MCPostgresCompactor_two`).
* `[]NoneForgotten`: when a download is not complete after a request, the request has not met a target past the checkpoint; the code forgets it if it has (`MCSyncStream_forgotten`).
* `[]NoneOutrun`: while a next line is built, the rows under way have no target past that line's checkpoint (section 5, a line built ahead).
* `~NotifyLag`: the watcher reads the checkpoint it was notified of. A client that connects again to a process that is behind may have read such a target already (section 5).
* Positive checksums (`PositiveHashes`): sums of checksums wrap in the code and may collide; the model adds them up, and a row whose checksum is 0 would not be missed.

Instance `sync_compact` meets all five, by its bounds, so that TLC and the theorem speak of the same behaviours.

* Buckets of a user are finitely many (`BucketsAssumption`), or a line could not be sent.

**Compaction on MongoDB.** `SchedInv` adds two things to `WorkStaysScheduled`. A state that a worker has read as due, and a
worker that is at work *and holds the lease*, come with a `first_uncompacted_write` (`LeaseOK`): writers only set it, and only
the holder of the lease clears it, so that `finishCompaction` may write back the result of a comparison without losing a write that
came in between. And the op id it compares is a number, which needs types for the documents and for what a scan returns (a
fold over a document's operations): a document is never empty, also after a merge, a CLEAR or a split at the boundary.

`ReadsConsistent` is proved from the theory of compacted buckets that the Postgres compactor uses, which is in `BucketsProofs`. The
`View` of the documents is such a bucket: their operations, a MOVE or a CLEAR with the target of its document. `ReadInv` has three parts.

* What is stored (`IsStore`): documents do not overlap, op ids are unique, a target is an op id that was written, and the view is a
  compaction of the log (`LogOK`). `ReplaceStore`, `ClearStore` and `AppendStore` say which replacements keep this, without reference to a worker.
* What a worker knows (`ReadOK`): the documents it has not read, the group it works on and those it is done with follow each other in
  the order of its scan (`IsPass`), so that a group that is replaced has no other document in between; the operations it will write are
  those of the group, some as MOVEs for which the log has a later operation of the row up to the target (`IsRewrite`); what it remembers
  of rows is in the log, above all that is unread (`IsKnown`).
* What it may clear (`NotPutOK`, `ClearOK`): no PUT is left up to `lastNotPut`, in what is rewritten, pending or done, and that operation
  is in the group or in the document at `clearAt`. So the whole documents that a CLEAR replaces without reading their operations have no PUT.

`ServedIs` then takes a read of a range of documents back to a read of the view.
What holds of any documents, their view, their order and sums of their statistics, without reference to a worker, is in `BucketsProofs` as well.

`ChecksumsMatch`, `MongoTypeOK` and `StatsConverge` need `StatsInv`, which says of the numbers that a worker adds up, without reading
most of the operations again, what they are the statistics of:

* The state (`StateOK`): the checksum of the compacted prefix is that of the log up to its `op_id`, and its count is at least the number of
  op ids that the documents still hold there, also when a later attempt that failed has merged over the end of the prefix.
* A full compaction (`FullStats`, `ClearStats`): its statistics are those of the documents it is done with up to `compactedOp`, and
  clearing keeps them so, since it subtracts what it replaces.
* A chunk compaction (`ChunkStats`): its statistics are those of the tail it has read, and the document that it reads again where the
  cached prefix ends is exactly what `overlap` subtracts (`OverlapOK`), even if an earlier attempt that failed had merged around it.
  `CombinedStats` puts the three together.
* The count of the bucket (`CountsOK`): it is the count at the claim and one for each operation written since, each of them still in a
  document of its own, beyond what the worker looks at. So the difference that `Finalize` applies is exact for writes that came in between.

The hypothesis `OneWorker` says that no two workers have claimed the bucket. `LeaseExcludes` derives it from `LeaseLive`: the lease of a worker
that is at work has not expired. Crashes, failures and leases that expire after their holder is gone are within that hypothesis.
`LeaseInv`, whoever is at work holds the lease, is inductive then, since a claim needs a bucket without a lease that is in force.
A lease that expires while its holder is at work is outside: the documents in the memory of the old
holder may be replaced, and `IsUnchanged` compares statistics only (`MCMongoCompactorV3_two`, section 5).

The assumptions are that `None` is neither a lease nor the state of a bucket (`LeaseAssumption`, `StateAssumption`), and limits of at least one
document, one operation and two documents to clear (`MongoLimits`).

Model-checked only:

* every liveness property, since TLAPS does not reason about fairness or ENABLED;
* `ImplementsView`, `ConvergedCheckpoint` and, of MySQL, its namesake: they fail for general constants (section 5), and the instances
  that avoid this are restrictions of the source's data over time that the specification does not name;
* `MongoReplication` and `BinLogStream`, about which nothing is proved yet; `QueueContinues` speaks of subsequences chosen by a predicate, for
  which the provers have no theory.

## 5. Where code and documentation differ

These configurations show a counterexample each. They are kept to be tried by hand; where the table says
"with", the scenarios, and the property, of the named configuration are to be replaced:

| Configuration | Property | What happens |
|---|---|---|
| `MCWalStream_idle` | `ConsistentCheckpoint` | a restart after the last snapshot flush, then an idle source: the stream is activated with checkpoint 0 and no data (`PostgresBucketBatch.ts:531`; `docs/replication/05-snapshots-and-streaming.md:62`) |
| `MCWalStream_resnapshot` | `ConsistentCheckpoint` | a resnapshot's INSERT does not remove the row from the buckets it was in (`PostgresBucketBatch.ts:1054`) |
| `MCSyncStream_forgotten` | `PublishesConsistent` | that a MOVE points past the checkpoint is remembered for one request only (`sync.ts:441`); when there is another one, the line completes. `docs/storage/compacting-operations.md:25` says "the server omits the `CheckpointComplete` message if the current checkpoint has been invalidated by such an operation." |
| `MCPostgresCompactor_two` | `ClientsConverge` | nothing stops two compactors from working on one bucket; a MOVE overwrites the other's CLEAR |
| `MCReplicationLifecycle_two` | `OneServing` | two streams, stopped and started by overlapping deploys, are both activated: each UPDATE matched its rows before the other committed. `BucketStorage.ts:15` says "Only one replication stream should be in ACTIVE or ERRORED state." `TerminatedIsEmpty` fails too: a job that is started from an old listing writes to a stream that was cleared meanwhile (`BucketStorage.ts:24`) |
| `MCCheckpoints_legacy` | `AckedIsReplicated` | generated checkpoints: of two copies of a request, the one with the older head is stored last |
| `MCCheckpoints_shared` | `Acknowledged` | without empty checkpoints, in a database that others write to, the keepalive an idle client waits for may never give a checkpoint (`docs/replication/06-checkpoints.md:126`, `WalStream.ts:1304`) |
| `MCMongoCompactorV3_two` | `ReadsConsistent`, `StatsConverge` | a worker whose lease has expired writes an older version of a document back, with a lower `target_op`; the new holder clears it by its metadata (`CompactionLease.ts:23`) |
| `MCMongoReplication_dropped` | `CheckpointConsistent` | a chunk that was read before a drop is flushed after the change stream has processed the drop: its rows stay in the buckets (`MongoSnapshotter.ts:512`) |
| `MCMongoReplication_stuck` | `EventuallyCheckpointed` | a collection is dropped before its copy is complete, and the job restarts: its source table is queued by nobody, blocks `markSnapshotDone`, and no later snapshot tries "again after the next snapshot" (`MongoSnapshotter.ts:375`) |
| `MCMongoReplication_shared` | `CheckpointConsistent` | the commit after a table's copy publishes, for another config that is not blocked, the present operations at the position this writer started from (`MongoSnapshotter.ts:410`; `docs/replication/05-snapshots-and-streaming.md:72`) |
| `MCBinLogStream_gap` | `ConvergedCheckpoint` | MySQL on Postgres storage: writes during the initial snapshot block its commit, nothing records the position of its start, and streaming starts from the present (`BinLogStream.ts:440`). `docs/replication/05-snapshots-and-streaming.md:36` says "The stream then replays all source changes from that position, ensuring writes that happen during the snapshot are not missed." |
| `MCBinLogStream_unused` | `RelationBeforeUse` | a table is created and dropped before any row: "We should always receive a replication message before the relation is used" (`BinLogStream.ts:422`), but there was none, and the job fails at this event for ever. The same happens when the job restarts between a DROP and its processing |
| `MCBinLogStream_unused`, with `NewOnly` | `CheckpointConsistent` | the boundary of a new table is read before its rows (`BinLogStream.ts:160`), so a checkpoint between the two shows some rows too early. `ConvergedCheckpoint` waits for `store.seen` |
| `MCBinLogStream_unused`, with `AlteredOfflineOnly` | `ConvergedCheckpoint` | the key of a table changes while the job is down: its rows are dropped when it starts again, and copied only when the ALTER is reached; checkpoints in between miss them (`BinLogStream.ts:197`) |
| `MCBinLogStream_slow` | `NeverStandsStill` | the queue drains before Zongji has stopped; the handler then waits for another drain, and nothing is read any more (`BinLogListener.ts:287`). `BinLogListener.ts:288` says "Resuming BinLog Listener." |
| `MCBinLogStream_slow`, with | `RowsAreMapped` | a job restarts between two rows events of one statement: the first one has moved the position (`BinLogListener.ts:356`), past their TABLE_MAP, so the new Zongji is not sent it. `BinLogListener.ts:186` says "Tablemap events always need to be included for the other row events to work". Whether Zongji then fails for ever or leaves the rows out is not known from this code |
| `MCBinLogStream_unused`, with `LiveScenarios` and `FairSpec` | `<>[]~CannotRead` | rows of a table that is dropped, renamed or altered before Zongji reads them: the listener stops with an error (`BinLogListener.ts:292`), as its tests say (`BinLogListener.test.ts:426-462`; `schema-changes.test.ts:57-60` calls it a "rare race condition"), and the job comes back to the same event for ever |
| `MCBinLogStream_unused`, with `RotatedOnly` and `FairSpec` | `EventuallyCheckpointed` | the binlog is rotated during the snapshot: `no_checkpoint_before` names the new file, heartbeats the old one, so the first checkpoint waits for a transaction (`BinLogListener.ts:385`) |

Two more differences that no property here is about: `restartReplication` of a PROCESSING stream that races a
deploy deploys the old config again and stops the new stream (`PostgresBucketStorageFactory.ts:258`),
and `updateSyncRules` on Postgres ignores `options.lock`, so the process
that configures does not hold the lock that `AbstractReplicator.ts:161` speaks of.

The same properties fail in six more ways, which the instances and properties of the
passing runs stay clear of:

* A restart between flush and commit, after which the replay of an earlier transaction
  publishes op ids of the torn one, at a position below what was read. This is why
  `ConvergedCheckpoint` speaks only of later checkpoints, and why the run of `ImplementsView`
  has no restart.
* TRUNCATE of several tables, the last one empty: the REMOVEs are in no checkpoint until
  a later change. `ConsistentCheckpoint` on the instance of `wal_stream_tables` with
  `MaxCrashes = 0`.
* A snapshot copies a row that took over a key, and the replay of the earlier update
  merges the wrong TOAST value. `ConsistentCheckpoint` on the
  instance of `wal_stream` with `IsToasted = TRUE` and two `Ts`.
* A CLEAR keeps the op id of the last operation it replaces, so a reader of an older
  checkpoint misses both. `StaleReadsInvalidated` without `IsOvertaken`. bucket-properties.md says
  that such a checkpoint is invalidated; only checksums computed before the compaction do that.
* A line built while the one before is sent, for a checkpoint that a MOVE of the latter
  points past. `PublishesConsistent` on `sync_compact` with `RaceAfter = 1`, two buckets, four
  operations.
* A client that has read a MOVE connects again, to a process that was not yet notified of the checkpoint that its
  target needs. The line for the older checkpoint completes, with a row missing. `PublishesConsistent` on
  `sync_compact` with `NotifyLag = TRUE`.

## 6. Plan

Done: the writer and `WalStream` with the view they implement; buckets, compaction and the sync stream; the
life of replication streams with its proofs; checkpoints from the commit to a client's acknowledgement;
compaction on MongoDB storage v3; the checksum cache; replication from MongoDB into storage v3; replication from MySQL.

Left, in order of importance:

1. The rest of `WalStream` (tables that appear while streaming) and of the writer (`resolveTables`, `drop`,
   parameter lookups, custom write checkpoints), with the relation cache.
2. Incremental reprocessing on MongoDB storage: which source tables and buckets a new config shares with the old ones.
3. `Mutex` and the merge of streams, where cancellation meets a wake-up.
4. The rest of the MongoDB connector: renames, lookups without post-images, invalidated change streams, DocumentDB.

Theorems worth proving next: `ResumeLosesNothing` and the types of `MongoReplication`; that the job of `BinLogStream` keeps its place in the binlog.

## 7. Not modelled, and why

Sync rules are pure functions of one row: the constant `EvaluateRow` stands for
them. Transport, authentication, the wire protocol, metrics and migrations are
I/O without protocol state. The other connectors implement the writer interface
that `WalStream` and `MongoReplication` use. Of MongoDB storage, object storage and storage v1 and v2 are left
out; its compaction and its writer differ most from the Postgres ones and are modelled. What a modelled component leaves out
is named in its part of section 2.

Some steps of the code are one action here, or none:

* A TRUNCATE is one transaction per table. The code takes up to 2000 rows at a time and sets `persisted_op` at the end
  (`PostgresBucketBatch.ts:385-440`); a restart in between leaves a part of it, and it is replayed, as after a flush of several transactions.
* When a keepalive message came between the transactions of a chunk, the code calls `keepalive()` once more after the last
  commit of the chunk (`WalStream.ts:1165-1252`). It is left out.
* The last, empty chunk of a table, the boundary and the mark of the table are one step (`WalStream.ts:676-695`), and so are the checksums and the
  diff of a line (`BucketChecksumState.ts:239-281`), the two reads of `restartReplication` (`PostgresBucketStorageFactory.ts:258`), and the statistics of the
  tail with the update of the state at the end of a compaction (`MongoCompactorV3.ts:480-483`, `889-892`).
