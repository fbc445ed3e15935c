-------------------------- MODULE MongoReplication --------------------------
(***************************************************************************)
(* Replication from MongoDB into MongoDB storage version 3: one job, that  *)
(* runs a change stream (ChangeStream.ts) and a snapshotter                *)
(* (MongoSnapshotter.ts) side by side, each with a storage writer of its   *)
(* own (MongoBucketBatch.ts, MongoBucketBatchV3.ts).                       *)
(*                                                                         *)
(* The source is its ordered event log: position n of the log is the LSN   *)
(* n.  A version of a document is the position that wrote it.  Post-images *)
(* are on, so that an event carries the version it wrote.  The service     *)
(* writes markers into the same log (_powersync_checkpoints): barriers of  *)
(* one job, and standalone markers.                                        *)
(*                                                                         *)
(* Storage keeps, for each source table, a record per document (live, or   *)
(* soft deleted until a checkpoint covers the delete), and the rows of the *)
(* buckets.  Bucket contents are kept as of the last operation, and a      *)
(* checkpoint holds the rows as of its operation.  A document is in one    *)
(* bucket.  Write checkpoints and the activation of a config, which        *)
(* commit() sees to as well, change nothing of this state; renames and     *)
(* collections without post-images are left out.                           *)
(***************************************************************************)
EXTENDS Naturals, SequencesExt

CONSTANTS Tables,         \* collections of the source
          Docs,           \* document ids, in the order of _id
          Configs,        \* sync configs that share the replication stream
          ConfigOf,       \* the config that selects each table
          Scenarios,      \* where a behaviour starts, and its bounds (see Init)
          None

ASSUME DocsAssumption == Docs \subseteq Nat \ {0}
ASSUME ConfigAssumption == ConfigOf \in [Tables -> Configs]
ASSUME ScenariosAssumption ==
  \A s \in Scenarios :
    /\ s.synced \subseteq Configs
    /\ s.present \in Seq(Tables \X Docs)
    /\ s.writes \in [Tables -> Nat] /\ s.drops \in [Tables -> Nat]
    /\ s.markers \in Nat /\ s.starts \in Nat

VARIABLES
  log,          \* source: events and markers
  tables,       \* source_tables: the record of each collection, or None
  made,         \* source tables created so far for each collection
  live,         \* source records <<table, source table, doc>> with bucket data
  deleted,      \* source records <<table, source table, doc>> with pending_delete
  rows,         \* bucket rows <<table, source table, doc, version>> at the last operation
  configs,      \* sync_configs: snapshotDone, noCheckpointBefore, checkpoint
  resumeLsn,    \* resume_lsn of the stream document
  job,          \* "down", "queueing" or "running"
  jobs,         \* starts so far: the checkpointStreamId of the running job
  stream,       \* the change stream: step, pos, wait, cache, buffer
  snap,         \* the snapshotter: step, its table, chunks, marker, resume position
  queue,        \* the snapshotter's queue of tables
  commits,      \* the commit in progress of each writer, or None
  budget        \* bounds: what is left of the writes (to which docs), drops, markers and starts

storage == <<tables, made, live, deleted, rows, configs, resumeLsn>>
memory == <<stream, snap, queue, commits>>
vars == <<log, storage, job, jobs, memory, budget>>

Writers == {"stream", "snapshot"}

-----------------------------------------------------------------------------
(* The source *)

Put(t, d) == [kind |-> "put", table |-> t, doc |-> d]
Delete(t, d) == [kind |-> "delete", table |-> t, doc |-> d]
Drop(t) == [kind |-> "drop", table |-> t]
Standalone == [kind |-> "standalone"]
Barrier(n) == [kind |-> "barrier", job |-> n]

\* Whether event e ends the version of the document that event p wrote.
Overwrites(e, p) ==
  \/ e.kind \in {"put", "delete"} /\ e.table = p.table /\ e.doc = p.doc
  \/ e.kind = "drop" /\ e.table = p.table

\* The documents of the source at LSN k.
SourceAt(k) ==
  {<<log[v].table, log[v].doc, v>> : v \in
      {v \in 1..k : log[v].kind = "put" /\ \A w \in (v + 1)..k : ~Overwrites(log[w], log[v])}}

Now == Len(log)

\* A collection comes into being with its first insert; an empty one stays.
Exists(t) ==
  LET about == {n \in 1..Now : log[n].kind \in {"put", "drop"} /\ log[n].table = t}
  IN  IF about = {} THEN tables[t] # None
      ELSE \E n \in about : log[n].kind = "put" /\ \A m \in about : m <= n

IsWrite(e) == e.kind \in {"put", "delete"}

-----------------------------------------------------------------------------
StreamInit == [step |-> "stopped", pos |-> 0, wait |-> None,
               cache |-> [t \in Tables |-> None], buffer |-> <<>>]

SnapInit == [step |-> "stopped", table |-> None, id |-> 0, key |-> 0,
             chunks |-> <<>>, lsn |-> 0, resume |-> 0]

\* A config is either in sync with an empty source, or new; the source may hold
\* documents when replication starts.
Init ==
  \E s \in Scenarios :
    /\ log = [n \in DOMAIN s.present |-> Put(s.present[n][1], s.present[n][2])]
    /\ tables = [t \in Tables |-> IF ConfigOf[t] \in s.synced
                                    THEN [id |-> 0, done |-> TRUE, lastKey |-> 0] ELSE None]
    /\ made = [t \in Tables |-> 0]
    /\ live = {} /\ deleted = {} /\ rows = {}
    /\ configs = [c \in Configs |->
         [snapshotDone |-> c \in s.synced, noCheckpointBefore |-> 0,
          checkpoint |-> IF c \in s.synced THEN [lsn |-> 0, rows |-> {}] ELSE None]]
    /\ resumeLsn = IF s.synced = {} THEN None ELSE 0
    /\ job = "down" /\ jobs = 0
    /\ stream = StreamInit /\ snap = SnapInit /\ queue = <<>>
    /\ commits = [w \in Writers |-> None]
    /\ budget = [writes |-> s.writes, docs |-> s.docs, drops |-> s.drops, markers |-> s.markers, starts |-> s.starts]

-----------------------------------------------------------------------------
(* Writes of the application, the API and the timer *)

SourceWrite ==
  /\ \E t \in Tables, d \in budget.docs :
       /\ budget.writes[t] > 0
       /\ budget' = [budget EXCEPT !.writes[t] = @ - 1]
       /\ \/ log' = Append(log, Put(t, d))
          \/ /\ \E v \in 1..Now : <<t, d, v>> \in SourceAt(Now)
             /\ log' = Append(log, Delete(t, d))
  /\ UNCHANGED <<storage, job, jobs, memory>>

SourceDrop ==
  /\ \E t \in Tables :
       /\ Exists(t)
       /\ budget.drops[t] > 0
       /\ budget' = [budget EXCEPT !.drops[t] = @ - 1]
       /\ log' = Append(log, Drop(t))
  /\ UNCHANGED <<storage, job, jobs, memory>>

\* createReplicationHead() of a write checkpoint, from any process.
WriteCheckpoint ==
  /\ budget.markers > 0
  /\ budget' = [budget EXCEPT !.markers = @ - 1]
  /\ log' = Append(log, Standalone)
  /\ UNCHANGED <<storage, job, jobs, memory>>

\* keepAlive() of the running job: a barrier that nothing waits for.
KeepAlive ==
  /\ job # "down"
  /\ budget.markers > 0
  /\ budget' = [budget EXCEPT !.markers = @ - 1]
  /\ log' = Append(log, Barrier(jobs))
  /\ UNCHANGED <<storage, job, jobs, memory>>

-----------------------------------------------------------------------------
(* Starting the job, and losing it *)

SnapshotDone == \A c \in Configs : configs[c].snapshotDone /\ configs[c].checkpoint # None

\* A process takes the lock of the stream and starts a job.
Start ==
  /\ job = "down"
  /\ budget.starts > 0
  /\ budget' = [budget EXCEPT !.starts = @ - 1]
  /\ jobs' = jobs + 1

\* initReplication() finds the snapshot done: nothing to queue.
StartDone ==
  /\ Start
  /\ SnapshotDone
  /\ job' = "running"
  /\ snap' = [SnapInit EXCEPT !.step = "mark"]
  /\ stream' = [StreamInit EXCEPT !.step = "starting"]
  /\ UNCHANGED <<log, storage, queue, commits>>

\* initReplication() of a new stream records where to stream from: the
\* position of a marker it sees come back.
StartNew ==
  /\ Start
  /\ resumeLsn = None
  /\ job' = "queueing"
  /\ log' = Append(log, Barrier(jobs + 1))
  /\ resumeLsn' = Now + 1
  /\ UNCHANGED <<tables, made, live, deleted, rows, configs, stream, snap, queue, commits>>

\* The source table of a collection, created when there is none.
Resolved(t) == IF tables[t] = None THEN [id |-> made[t] + 1, done |-> FALSE, lastKey |-> 0]
               ELSE tables[t]

Made(t) == IF tables[t] = None THEN made[t] + 1 ELSE made[t]

\* queueSnapshotTables(): resolve the collections that exist, queue the
\* incomplete ones, and start the two loops.
QueueTables ==
  /\ job' = "running"
  /\ \/ job = "queueing" /\ UNCHANGED <<jobs, budget>>
     \/ /\ Start
        /\ resumeLsn # None /\ ~SnapshotDone
  /\ LET found == {t \in Tables : Exists(t)}
         picked == SetToSeq({t \in found : ~Resolved(t).done})
     IN  /\ tables' = [t \in Tables |-> IF t \in found THEN Resolved(t) ELSE tables[t]]
         /\ made' = [t \in Tables |-> IF t \in found THEN Made(t) ELSE made[t]]
         /\ queue' = [n \in DOMAIN picked |->
                        [table |-> picked[n], id |-> Resolved(picked[n]).id, ready |-> TRUE]]
         /\ snap' = [SnapInit EXCEPT !.step = IF picked = <<>> THEN "mark" ELSE "loop"]
  /\ stream' = [StreamInit EXCEPT !.step = "starting"]
  /\ UNCHANGED <<log, live, deleted, rows, configs, resumeLsn, commits>>

\* Any error in either loop aborts the other; a crash loses the same memory.
Stop ==
  /\ job # "down" /\ budget.starts > 0
  /\ job' = "down"
  /\ stream' = StreamInit /\ snap' = SnapInit /\ queue' = <<>>
  /\ commits' = [w \in Writers |-> None]
  /\ UNCHANGED <<log, storage, jobs, budget>>

-----------------------------------------------------------------------------
(* commit() of either writer, after its flush *)

\* A table leaves the snapshotter's queue; the last one is followed by
\* markSnapshotDone().
SnapLoop == [SnapInit EXCEPT !.step = "loop"]
NextItem ==
  /\ queue' = Tail(queue)
  /\ snap' = [SnapInit EXCEPT !.step = IF Len(queue) = 1 THEN "mark" ELSE "loop"]

\* (mutant: does not wait for the markers of the snapshots)
CanCheckpoint_NoMarker(c, lsn) ==
  /\ configs[c].snapshotDone
  /\ configs[c].checkpoint # None => configs[c].checkpoint.lsn <= lsn

\* canCheckpointState()
CanCheckpoint(c, lsn) ==
  /\ configs[c].snapshotDone
  /\ configs[c].checkpoint # None => configs[c].checkpoint.lsn <= lsn
  /\ configs[c].noCheckpointBefore <= lsn

\* The rows of one config, as a client that reads them sees them.
RowsOf(c, rs) == {r \in rs : ConfigOf[r[1]] = c}

CommitAt(lsn) == [lsn |-> lsn, read |-> FALSE, rows |-> {}, covered |-> {}, free |-> {}]

\* The state of the configs and the head of the operations are read first...
CommitRead(w) ==
  /\ commits[w] # None /\ ~commits[w].read
  /\ w = "stream" => stream.buffer = <<>>
  /\ commits' = [commits EXCEPT ![w] =
       [lsn |-> commits[w].lsn, read |-> TRUE, rows |-> rows, covered |-> deleted,
        free |-> {c \in Configs : CanCheckpoint(c, commits[w].lsn)}]]
  /\ UNCHANGED <<log, storage, job, jobs, stream, snap, queue, budget>>

\* ...then the checkpoint of every unblocked config and the resume position
\* are written.  When no config was blocked, postCommitCleanup() removes the
\* soft deletes that the checkpoint covers.
CommitWrite(w) ==
  /\ commits[w] # None /\ commits[w].read
  /\ configs' = [c \in Configs |->
       IF c \in commits[w].free
         THEN [configs[c] EXCEPT !.checkpoint =
                 [lsn |-> commits[w].lsn, rows |-> RowsOf(c, commits[w].rows)]]
         ELSE configs[c]]
  /\ resumeLsn' = IF commits[w].lsn > resumeLsn THEN commits[w].lsn ELSE resumeLsn
  /\ deleted' = IF commits[w].free = Configs THEN deleted \ commits[w].covered ELSE deleted
  /\ commits' = [commits EXCEPT ![w] = None]
  /\ IF w = "snapshot" THEN NextItem ELSE UNCHANGED <<snap, queue>>
  /\ UNCHANGED <<log, tables, made, live, rows, job, jobs, stream, budget>>

-----------------------------------------------------------------------------
(* The change stream *)

\* startBatch() reads where to resume, and a first barrier is written.
StreamStart ==
  /\ stream.step = "starting"
  /\ stream' = [stream EXCEPT !.step = "events", !.pos = resumeLsn, !.wait = Now + 1]
  /\ log' = Append(log, Barrier(jobs))
  /\ UNCHANGED <<storage, job, jobs, snap, queue, commits, budget>>

Reading == stream.step = "events" /\ commits["stream"] = None /\ stream.pos < Now
Event == log[stream.pos + 1]

\* The barrier a data event asks for when none is pending.
BarrierIfNone ==
  IF stream.wait = None THEN log' = Append(log, Barrier(jobs)) ELSE UNCHANGED log
WaitIfNone == IF stream.wait = None THEN Now + 1 ELSE stream.wait

\* A data event of a collection that is not in the relation cache: resolve
\* its source table, in a transaction...
StreamResolve ==
  /\ Reading /\ IsWrite(Event)
  /\ LET t == Event.table
     IN  /\ stream.cache[t] = None
         /\ tables' = [tables EXCEPT ![t] = Resolved(t)]
         /\ made' = [made EXCEPT ![t] = Made(t)]
         /\ stream' = [stream EXCEPT !.wait = WaitIfNone, !.cache[t] = Resolved(t).id,
                                     !.step = IF Resolved(t).done THEN "events" ELSE "queue"]
  /\ BarrierIfNone
  /\ UNCHANGED <<live, deleted, rows, configs, resumeLsn, job, jobs, snap, queue, commits, budget>>

\* ...and then queue a snapshot of a table that has none yet.
StreamQueue ==
  /\ stream.step = "queue"
  /\ queue' = Append(queue, [table |-> Event.table, id |-> stream.cache[Event.table], ready |-> FALSE])
  /\ stream' = [stream EXCEPT !.step = "require"]
  /\ UNCHANGED <<log, storage, job, jobs, snap, commits, budget>>

\* markTableSnapshotRequired(): block the checkpoints of the config, and let
\* the snapshotter start on the table.
StreamRequire ==
  /\ stream.step = "require"
  /\ LET t == Event.table
     IN  /\ configs' = [configs EXCEPT ![ConfigOf[t]].snapshotDone = FALSE]
         /\ queue' = [n \in DOMAIN queue |->
              IF queue[n].table = t /\ queue[n].id = stream.cache[t]
                THEN [queue[n] EXCEPT !.ready = TRUE] ELSE queue[n]]
  /\ stream' = [stream EXCEPT !.step = "events"]
  /\ UNCHANGED <<log, tables, made, live, deleted, rows, resumeLsn, job, jobs, snap, commits, budget>>

\* writeChange(): buffer the change in the writer.
StreamSave ==
  /\ Reading /\ IsWrite(Event)
  /\ LET t == Event.table
     IN  /\ stream.cache[t] # None
         /\ stream' = [stream EXCEPT !.wait = WaitIfNone, !.pos = @ + 1,
              !.buffer = Append(@, [record |-> <<t, stream.cache[t], Event.doc>>,
                                    version |-> IF Event.kind = "put" THEN stream.pos + 1 ELSE None])]
  /\ BarrierIfNone
  /\ UNCHANGED <<storage, job, jobs, snap, queue, commits, budget>>

\* What one buffered change does to [live, deleted, rows]: saveOperation() of
\* the streaming writer.  The bucket operations it removes are those the
\* record names.
Row(r, v) == <<r[1], r[2], r[3], v>>
RecordOf(row) == <<row[1], row[2], row[3]>>
Saved(s, change) ==
  LET r == change.record
      kept == {row \in s.rows : RecordOf(row) # r \/ (change.version = None /\ r \notin s.live)}
  IN  IF change.version # None
        THEN [live |-> s.live \union {r}, deleted |-> s.deleted \ {r},
              rows |-> kept \union {Row(r, change.version)}]
        ELSE [live |-> s.live \ {r}, deleted |-> s.deleted \union {r}, rows |-> kept]

\* flush(): the buffer is applied in one transaction.
StreamFlush ==
  /\ stream.step = "events" /\ stream.buffer # <<>>
  /\ LET s == FoldLeft(Saved, [live |-> live, deleted |-> deleted, rows |-> rows], stream.buffer)
     IN  live' = s.live /\ deleted' = s.deleted /\ rows' = s.rows
  /\ stream' = [stream EXCEPT !.buffer = <<>>]
  /\ UNCHANGED <<log, tables, made, configs, resumeLsn, job, jobs, snap, queue, commits, budget>>

\* (mutant: does not flush first)
IsFlushed_Always == TRUE

IsFlushed == stream.buffer = <<>>

\* The end of a batch of events, after its flush: setResumeLsn().  A batch
\* may end at any event.
StreamResume ==
  /\ stream.step = "events" /\ commits["stream"] = None
  /\ IsFlushed /\ resumeLsn # stream.pos
  /\ resumeLsn' = stream.pos
  /\ UNCHANGED <<log, tables, made, live, deleted, rows, configs, job, jobs, memory, budget>>

\* A drop event: resolve the table without a snapshot, flush, and truncate
\* the records it has...
StreamTruncate ==
  /\ Reading /\ Event.kind = "drop"
  /\ stream.buffer = <<>>
  /\ LET t == Event.table
         id == IF stream.cache[t] = None THEN Resolved(t).id ELSE stream.cache[t]
         gone == {r \in live : r[1] = t /\ r[2] = id}
     IN  /\ tables' = [tables EXCEPT ![t] = IF stream.cache[t] = None THEN Resolved(t) ELSE @]
         /\ made' = [made EXCEPT ![t] = IF stream.cache[t] = None THEN Made(t) ELSE @]
         /\ stream' = [stream EXCEPT !.cache[t] = id, !.step = "forget"]
         /\ rows' = {row \in rows : RecordOf(row) \notin gone}
         /\ live' = live \ gone
  /\ UNCHANGED <<log, deleted, configs, resumeLsn, job, jobs, snap, queue, commits, budget>>

\* ...then remove the source table...
StreamForget ==
  /\ stream.step = "forget"
  /\ LET t == Event.table
     IN  tables' = [tables EXCEPT ![t] = IF @ # None /\ @.id = stream.cache[t] THEN None ELSE @]
  /\ stream' = [stream EXCEPT !.step = "cleanup"]
  /\ UNCHANGED <<log, made, live, deleted, rows, configs, resumeLsn, job, jobs, snap, queue, commits, budget>>

\* ...and its records, and forget it.  No barrier and no commit follow from a
\* drop.
StreamCleanup ==
  /\ stream.step = "cleanup"
  /\ LET t == Event.table
         id == stream.cache[t]
         others(records) == {r \in records : r[1] # t \/ r[2] # id}
     IN  /\ live' = others(live)
         /\ deleted' = others(deleted)
         /\ stream' = [stream EXCEPT !.cache[t] = None, !.step = "events", !.pos = @ + 1]
  /\ UNCHANGED <<log, tables, made, rows, configs, resumeLsn, job, jobs, snap, queue, commits, budget>>

OwnBarrier == Event.kind = "barrier" /\ Event.job = jobs

\* A marker that is not acted on: a barrier of another job, or a standalone
\* marker while a barrier is pending.
StreamSkip ==
  /\ Reading
  /\ \/ Event.kind = "barrier" /\ ~OwnBarrier
     \/ Event.kind = "standalone" /\ stream.wait # None
  /\ stream' = [stream EXCEPT !.pos = @ + 1]
  /\ UNCHANGED <<log, storage, job, jobs, snap, queue, commits, budget>>

\* A standalone marker with more events behind it in its batch: wait for a
\* barrier instead of committing.
StreamDefer ==
  /\ Reading /\ Event.kind = "standalone"
  /\ stream.wait = None
  /\ stream.pos + 1 < Now
  /\ log' = Append(log, Barrier(jobs))
  /\ stream' = [stream EXCEPT !.pos = @ + 1, !.wait = Now + 1]
  /\ UNCHANGED <<storage, job, jobs, snap, queue, commits, budget>>

\* (mutant: a barrier does not resolve itself)
ResolvesBarrier_Later(lsn) == stream.wait # None /\ stream.wait < lsn

ResolvesBarrier(lsn) == stream.wait # None /\ stream.wait <= lsn

\* A marker to commit at: a barrier of this job, or a standalone marker when
\* none is pending.
StreamCommit ==
  /\ Reading
  /\ OwnBarrier \/ (Event.kind = "standalone" /\ stream.wait = None)
  /\ LET lsn == stream.pos + 1
     IN  /\ stream' = [stream EXCEPT !.pos = lsn, !.wait = IF ResolvesBarrier(lsn) THEN None ELSE @]
         /\ commits' = [commits EXCEPT !["stream"] = CommitAt(lsn)]
  /\ UNCHANGED <<log, storage, job, jobs, snap, queue, budget>>

\* An idle stream commits at the position it has reached.
StreamKeepalive ==
  /\ stream.step = "events" /\ commits["stream"] = None
  /\ stream.pos = Now /\ stream.wait = None
  /\ commits' = [commits EXCEPT !["stream"] = CommitAt(stream.pos)]
  /\ UNCHANGED <<log, storage, job, jobs, stream, snap, queue, budget>>

-----------------------------------------------------------------------------
(* The snapshotter *)

\* The next table of the queue, once its request is persisted.  A table that
\* was dropped or completed in the meantime is left out.
SnapTake ==
  /\ snap.step = "loop" /\ queue # <<>> /\ Head(queue).ready
  /\ LET t == Head(queue).table
     IN  IF tables[t] = None \/ tables[t].id # Head(queue).id \/ tables[t].done
           THEN NextItem
           ELSE /\ snap' = [SnapInit EXCEPT !.step = "copy", !.table = t, !.id = tables[t].id,
                                            !.key = tables[t].lastKey, !.resume = resumeLsn]
                /\ UNCHANGED queue
  /\ UNCHANGED <<log, storage, job, jobs, stream, commits, budget>>

\* nextChunk() reads the next document after the last key.  It runs ahead:
\* the next chunk is read while the current one is saved.  An empty chunk
\* ends the query.
SnapFetch ==
  /\ snap.step \in {"copy", "progress"}
  /\ Len(snap.chunks) < 2
  /\ snap.chunks # <<>> => Last(snap.chunks) # {}
  /\ LET after == {r \in SourceAt(Now) : r[1] = snap.table /\ r[2] > snap.key}
         next == {r \in after : \A q \in after : r[2] <= q[2]}
     IN  snap' = [snap EXCEPT !.chunks = Append(@, {<<r[2], r[3]>> : r \in next}),
                              !.key = IF next = {} THEN @ ELSE CHOOSE d \in Docs : \E r \in next : r[2] = d]
  /\ UNCHANGED <<log, storage, job, jobs, stream, queue, commits, budget>>

\* The chunk is applied with skipExistingRows: a document that has a record,
\* soft deleted ones included, is left to the change stream.
SnapFlush ==
  /\ snap.step = "copy" /\ snap.chunks # <<>> /\ Head(snap.chunks) # {}
  /\ LET copied == {Row(<<snap.table, snap.id, d[1]>>, d[2]) : d \in Head(snap.chunks)}
         saved == {row \in copied : RecordOf(row) \notin live \union deleted}
     IN  /\ rows' = rows \union saved
         /\ live' = live \union {RecordOf(row) : row \in saved}
  /\ snap' = [snap EXCEPT !.step = "progress"]
  /\ UNCHANGED <<log, tables, made, deleted, configs, resumeLsn, job, jobs, stream, queue, commits, budget>>

\* updateTableProgress(), after the flush.
IsCurrent == tables[snap.table] # None /\ tables[snap.table].id = snap.id
SnapProgress ==
  /\ snap.step = "progress"
  /\ tables' = IF IsCurrent
                 THEN [tables EXCEPT ![snap.table].lastKey =
                         CHOOSE d \in Docs : \E c \in Head(snap.chunks) : c[1] = d]
                 ELSE tables
  /\ snap' = [snap EXCEPT !.step = "copy", !.chunks = Tail(@)]
  /\ UNCHANGED <<log, made, live, deleted, rows, configs, resumeLsn, job, jobs, stream, queue, commits, budget>>

AtLeast(lsn, c) == IF lsn > configs[c].noCheckpointBefore THEN lsn ELSE configs[c].noCheckpointBefore

\* The table is copied: take a marker...
SnapMarker ==
  /\ snap.step = "copy" /\ snap.chunks # <<>> /\ Head(snap.chunks) = {}
  /\ log' = Append(log, Standalone)
  /\ snap' = [snap EXCEPT !.step = "copied", !.chunks = <<>>, !.key = 0, !.lsn = Now + 1]
  /\ UNCHANGED <<storage, job, jobs, stream, queue, commits, budget>>

\* ...that checkpoints of the config wait for: markTableSnapshotDone(). Then
\* commit at the position that this writer would resume from.
SnapTableDone ==
  /\ snap.step = "copied"
  /\ tables' = IF IsCurrent THEN [tables EXCEPT ![snap.table].done = TRUE] ELSE tables
  /\ LET c == ConfigOf[snap.table]
     IN  configs' = [configs EXCEPT ![c].noCheckpointBefore = AtLeast(snap.lsn, c)]
  /\ commits' = [commits EXCEPT !["snapshot"] = CommitAt(snap.resume)]
  /\ snap' = [snap EXCEPT !.step = "commit"]
  /\ UNCHANGED <<log, made, live, deleted, rows, resumeLsn, job, jobs, stream, queue, budget>>

\* markSnapshotDone(): nothing to do when the snapshot is done already, or
\* when a table was queued in the meantime; else take a marker...
SnapMark ==
  /\ snap.step = "mark"
  /\ IF SnapshotDone \/ queue # <<>>
       THEN snap' = SnapLoop /\ UNCHANGED log
       ELSE /\ log' = Append(log, Standalone)
            /\ snap' = [snap EXCEPT !.step = "marker", !.lsn = Now + 1]
  /\ UNCHANGED <<storage, job, jobs, stream, queue, commits, budget>>

\* ...look at the queue again...
SnapRecheck ==
  /\ snap.step = "marker"
  /\ snap' = IF queue # <<>> THEN SnapLoop ELSE [snap EXCEPT !.step = "markAll"]
  /\ UNCHANGED <<log, storage, job, jobs, stream, queue, commits, budget>>

\* ...and in one transaction mark every config, unless a source table still
\* requires a snapshot: one that was resolved since, and is not queued yet.
SnapMarkAll ==
  /\ snap.step = "markAll"
  /\ snap' = [snap EXCEPT !.step = "extra"]
  /\ configs' = IF \E t \in Tables : tables[t] # None /\ ~tables[t].done
                  THEN configs
                  ELSE [c \in Configs |-> [configs[c] EXCEPT !.snapshotDone = TRUE,
                          !.noCheckpointBefore = AtLeast(snap.lsn, c)]]
  /\ UNCHANGED <<log, tables, made, live, deleted, rows, resumeLsn, job, jobs, stream, queue, commits, budget>>

\* A second marker, for the change stream to commit at.
SnapExtra ==
  /\ snap.step = "extra"
  /\ log' = Append(log, Standalone)
  /\ snap' = SnapLoop
  /\ UNCHANGED <<storage, job, jobs, stream, queue, commits, budget>>

-----------------------------------------------------------------------------
Commit(w) == CommitRead(w) \/ CommitWrite(w)

StreamStep ==
  \/ StreamStart \/ StreamResolve \/ StreamQueue \/ StreamRequire \/ StreamSave \/ StreamFlush
  \/ StreamTruncate \/ StreamForget \/ StreamCleanup \/ StreamSkip \/ StreamDefer
  \/ StreamCommit \/ StreamKeepalive \/ Commit("stream")

SnapStep ==
  \/ SnapTake \/ SnapFetch \/ SnapFlush \/ SnapProgress
  \/ SnapMarker \/ SnapTableDone \/ SnapMark \/ SnapRecheck \/ SnapMarkAll
  \/ SnapExtra
  \/ Commit("snapshot")

JobStep == StartDone \/ StartNew \/ QueueTables

Next ==
  \/ SourceWrite \/ SourceDrop \/ WriteCheckpoint \/ KeepAlive
  \/ JobStep \/ Stop
  \/ StreamStep \/ StreamResume
  \/ SnapStep

Fairness == WF_vars(JobStep) /\ WF_vars(StreamStep) /\ WF_vars(SnapStep)

Spec == Init /\ [][Next]_vars
FairSpec == Spec /\ Fairness

-----------------------------------------------------------------------------
(* Properties *)

(***************************************************************************)
(* The shape of the state: source table ids are those handed out, a record *)
(* is live or soft deleted, a live one has at most one row, and no         *)
(* position is past the end of the log.                                    *)
(***************************************************************************)
MongoReplTypeOK ==
  /\ job \in {"down", "queueing", "running"} /\ jobs \in Nat
  /\ \A t \in Tables : tables[t] # None =>
       tables[t].id \in 0..made[t] /\ tables[t].done \in BOOLEAN /\ tables[t].lastKey \in Docs \cup {0}
  /\ live \cup deleted \subseteq {r \in Tables \X (0..(Now + 1)) \X Docs : r[2] <= made[r[1]]}
  /\ live \cap deleted = {}
  /\ \A p, q \in rows : RecordOf(p) = RecordOf(q) => p = q
  /\ \A c \in Configs :
       /\ configs[c].snapshotDone \in BOOLEAN /\ configs[c].noCheckpointBefore \in 0..Now
       /\ configs[c].checkpoint # None => configs[c].checkpoint.lsn \in 0..Now
  /\ resumeLsn \in 0..Now \cup {None} /\ stream.pos \in 0..Now /\ stream.wait \in 1..Now \cup {None}
  /\ Len(snap.chunks) <= 2 /\ \A n \in DOMAIN queue : queue[n].id <= made[queue[n].table]

(***************************************************************************)
(* A checkpoint of a config is a state of the source: its rows are the     *)
(* documents at its LSN, whatever was copied from which moment, replayed   *)
(* or replicated twice (canCheckpointState, markTableSnapshotRequired,     *)
(* markSnapshotDone, skipExistingRows).                                    *)
(***************************************************************************)
View(rs) == {<<r[1], r[3], r[4]>> : r \in rs}
SourceOf(c, k) == {r \in SourceAt(k) : ConfigOf[r[1]] = c}

CheckpointConsistent ==
  \A c \in Configs : configs[c].checkpoint # None =>
    View(configs[c].checkpoint.rows) = SourceOf(c, configs[c].checkpoint.lsn)

(***************************************************************************)
(* A restart loses nothing: a document that no event after resume_lsn      *)
(* touches, and that the snapshot would not read again, is in storage as   *)
(* the source has it (setResumeLsn after the flush, updateTableProgress    *)
(* after the flush, the first barrier before the snapshot).                *)
(***************************************************************************)
Untouched(t, d) ==
  \A n \in 1..Now : n > resumeLsn =>
    /\ IsWrite(log[n]) => log[n].table # t \/ log[n].doc # d
    /\ log[n].kind = "drop" => log[n].table # t

ResumeLosesNothing ==
  \A t \in Tables, d \in Docs :
    (tables[t] # None /\ (tables[t].done \/ d <= tables[t].lastKey) /\ Untouched(t, d)) =>
      {r \in View(rows) : r[1] = t /\ r[2] = d} = {r \in SourceAt(Now) : r[1] = t /\ r[2] = d}

(***************************************************************************)
(* Once the source is quiet, every config gets a checkpoint with all that  *)
(* the source holds: snapshots end, barriers come back and the markers     *)
(* they block on are passed, after a restart too (replicationLoop,         *)
(* createBatchCheckpoint, markSnapshotDone and its second marker).         *)
(***************************************************************************)
EventuallyCheckpointed ==
  <>[](\A c \in Configs : /\ configs[c].snapshotDone
                          /\ configs[c].checkpoint # None
                          /\ View(configs[c].checkpoint.rows) = SourceOf(c, Now))

=============================================================================
