------------------------------ MODULE WalStream ------------------------------
(***************************************************************************)
(* Replication of a Postgres source into Postgres bucket storage           *)
(* (modules/module-postgres/src/replication/WalStream.ts): the source      *)
(* database with its WAL and replication slot, one replication job that    *)
(* snapshots the tables and then streams the WAL, and PostgresBucketBatch, *)
(* whose operations the job calls. The job may stop at any point and start *)
(* again from what the slot and the storage remember.                      *)
(***************************************************************************)
EXTENDS PostgresBucketBatch

CONSTANTS
  IsToasted,  \* whether the values of Ts are large enough to be TOASTed
  MaxWal,     \* bound on the transactions of the source
  MaxChanges, \* bound on the changes of a transaction: 1 or 2
  MaxCrashes, \* bound on the restarts of the replication job
  CreateEmptyCheckpoints  \* FALSE when source and storage share a database

ASSUME WalBoundsAssumption == MaxWal \in Nat /\ MaxChanges \in {1, 2} /\ MaxCrashes \in Nat
ASSUME FlagsAssumption == IsToasted \in BOOLEAN /\ CreateEmptyCheckpoints \in BOOLEAN

VARIABLES
  history,  \* the source rows over time; its length is the current LSN
  wal,      \* what the slot can send: wal[n] takes history[n] to history[n + 1]
  slot,     \* the confirmed LSN: the slot sends what comes after it
  stream,   \* the replication job
  crashes,
  observed  \* auxiliary: the highest LSN of which the job has saved data

sourceVars == <<history, wal>>
vars == <<batchVars, sourceVars, slot, stream, crashes, observed>>

Lsn == Len(history)
ZeroLsn == 0
SourceRows == history[Lsn]

(***************************************************************************)
(* The source. A row is Nothing or its column values. A WAL entry is the   *)
(* sequence of the changes of a transaction, or the empty sequence: the    *)
(* logical message of sendKeepAlive.                                       *)
(***************************************************************************)
Message == << >>

\* A TOASTed value that did not change is left out of the change.
Sent(old, new) == IF IsToasted /\ old.t = new.t THEN [new EXCEPT !.t = Toast] ELSE new

Inserts(rows) ==
  {[change |-> [tag |-> "insert", before |-> r, after |-> r, data |-> new], rows |-> [rows EXCEPT ![r] = new]] :
     r \in {q \in Rows : rows[q] = Nothing}, new \in Complete}

\* The old key is sent only when it changes; without it before = after.
Updates(rows) ==
  {[change |-> [tag |-> "update", before |-> u[1], after |-> u[2], data |-> Sent(rows[u[1]], new)],
    rows |-> [rows EXCEPT ![u[1]] = Nothing, ![u[2]] = new]] :
     u \in {v \in Rows \X Rows : /\ rows[v[1]] # Nothing
                                 /\ v[2] = v[1] \/ (rows[v[2]] = Nothing /\ TableOf[v[2]] = TableOf[v[1]])},
     new \in Complete}

Deletes(rows) ==
  {[change |-> [tag |-> "delete", before |-> r, after |-> Nothing, data |-> Nothing], rows |-> [rows EXCEPT ![r] = Nothing]] :
     r \in {q \in Rows : rows[q] # Nothing}}

\* One TRUNCATE can name several tables, in any order.
Truncates(rows) ==
  {[change |-> [tag |-> "truncate", tables |-> tables],
    rows |-> [r \in Rows |-> IF \E i \in DOMAIN tables : tables[i] = TableOf[r] THEN Nothing ELSE rows[r]]] :
     tables \in {<<t>> : t \in Tables} \cup {p \in Tables \X Tables : p[1] # p[2]}}

Changes(rows) == Inserts(rows) \cup Updates(rows) \cup Deletes(rows) \cup Truncates(rows)

\* A transaction of one or two changes.
SourceTransaction ==
  /\ Cardinality({n \in DOMAIN wal : wal[n] # Message}) < MaxWal
  /\ \E c \in Changes(SourceRows) :
       \/ /\ wal' = Append(wal, <<c.change>>)
          /\ history' = Append(history, c.rows)
       \/ MaxChanges = 2 /\ \E d \in Changes(c.rows) :
            /\ wal' = Append(wal, <<c.change, d.change>>)
            /\ history' = Append(history, d.rows)
  /\ UNCHANGED <<batchVars, slot, stream, crashes, observed>>

\* pg_logical_emit_message
SendKeepAlive ==
  /\ wal' = Append(wal, Message)
  /\ history' = Append(history, SourceRows)

(***************************************************************************)
(* The replication job. A new slot starts at LSN 1, before any snapshot.   *)
(***************************************************************************)
StoppedStream ==
  [phase |-> "stopped", key |-> 0, position |-> 0, change |-> 0, skipKeepalive |-> FALSE,
   committed |-> 0, resnapshot |-> Nothing]

Init ==
  /\ BatchInit
  /\ \E rows \in [Rows -> Complete \cup {Nothing}] : history = <<rows>>
  /\ wal = << >>
  /\ slot = 1
  /\ stream = StoppedStream
  /\ crashes = 0
  /\ observed = 0

\* getStatus: without a checkpoint the initial snapshot runs again.
SnapshotDone == sync_rules.snapshot_done /\ sync_rules.last_checkpoint_lsn # Null

(***************************************************************************)
(* initialReplication: every table in primary-key order, in chunks of one  *)
(* row, each chunk flushed before its last key is stored.                  *)
(***************************************************************************)
StartSnapshot ==
  /\ stream.phase = "stopped"
  /\ ~SnapshotDone
  /\ CreateWriter(TRUE)
  /\ stream' = [StoppedStream EXCEPT !.phase = "snapshot"]
  /\ UNCHANGED <<sourceVars, slot, crashes, observed>>

IncompleteTables == {t \in Tables : ~source_tables[t].snapshot_done}
SnapshotTable == CHOOSE t \in Tables : t \in IncompleteTables

\* SELECT ... WHERE key > lastKey ORDER BY key
RemainingRows ==
  {r \in Rows : TableOf[r] = SnapshotTable /\ SourceRows[r] # Nothing /\ r > source_tables[SnapshotTable].last_key}

SnapshotRecord(r) == [tag |-> "insert", before |-> r, after |-> r, data |-> SourceRows[r]]

SnapshotChunk ==
  /\ stream.phase = "snapshot"
  /\ IncompleteTables # {} /\ stream.key = 0
  /\ Flushed
  /\ \E r \in RemainingRows :
       /\ \A q \in RemainingRows : r <= q
       /\ Save(<<SnapshotRecord(r)>>)
       /\ stream' = [stream EXCEPT !.key = r]
  /\ observed' = Lsn
  /\ UNCHANGED <<sourceVars, slot, crashes>>

SnapshotProgress ==
  /\ stream.phase = "snapshot"
  /\ stream.key # 0
  /\ Flushed
  /\ UpdateTableProgress(SnapshotTable, stream.key)
  /\ stream' = [stream EXCEPT !.key = 0]
  /\ UNCHANGED <<sourceVars, slot, crashes, observed>>

SnapshotTableDone ==
  /\ stream.phase = "snapshot"
  /\ IncompleteTables # {} /\ stream.key = 0
  /\ RemainingRows = {}
  /\ MarkTableSnapshotDone(SnapshotTable, Lsn)
  /\ UNCHANGED <<sourceVars, slot, stream, crashes, observed>>

SnapshotAllDone ==
  /\ stream.phase = "snapshot"
  /\ MarkSnapshotDone(Lsn)
  /\ stream' = [stream EXCEPT !.phase = "snapshot commit"]
  /\ UNCHANGED <<sourceVars, slot, crashes, observed>>

SnapshotCommit ==
  /\ stream.phase = "snapshot commit"
  /\ CommitCheckpoint(ZeroLsn, TRUE)
  /\ stream' = [stream EXCEPT !.phase = "snapshot end"]
  /\ UNCHANGED <<sourceVars, slot, crashes, observed>>

\* (mutant: nothing makes an idle source move past the snapshot)
SnapshotEnd_Silent ==
  /\ stream.phase = "snapshot end"
  /\ Flushed
  /\ CloseWriter
  /\ stream' = [stream EXCEPT !.phase = "snapshot done"]
  /\ UNCHANGED <<sourceVars, slot, crashes, observed>>

SnapshotEnd ==
  /\ stream.phase = "snapshot end"
  /\ Flushed
  /\ CloseWriter
  /\ SendKeepAlive
  /\ stream' = [stream EXCEPT !.phase = "snapshot done"]
  /\ UNCHANGED <<slot, crashes, observed>>

(***************************************************************************)
(* streamChangesInternal. position is the LSN up to which the WAL has been *)
(* handled, change the number of changes handled of the next entry.        *)
(***************************************************************************)
StartStreaming ==
  /\ stream.phase = "snapshot done" \/ (stream.phase = "stopped" /\ SnapshotDone)
  /\ CreateWriter(FALSE)
  /\ stream' = [StoppedStream EXCEPT !.phase = "streaming", !.position = slot]
  /\ UNCHANGED <<sourceVars, slot, crashes, observed>>

Received == stream.phase = "streaming" /\ stream.position < Lsn
Entry == wal[stream.position]
EntryLsn == stream.position + 1
EndOfTransaction == Received /\ Entry # Message /\ stream.change = Len(Entry)
MustResnapshot == unavailable # {} \/ stream.resnapshot # Nothing

\* writeChange. A flush inside a transaction is followed by the resnapshot,
\* unless it was that of a truncate which had nothing else to do.
WriteChange ==
  /\ Received
  /\ stream.change < Len(Entry)
  /\ stream.resnapshot = Nothing
  /\ unavailable = {} \/ writer.batch # << >> \/ (stream.change > 0 /\ Entry[stream.change].tag = "truncate")
  /\ LET change == Entry[stream.change + 1]
     IN IF change.tag = "truncate" THEN Truncate(change.tables) ELSE Save(<<change>>)
  /\ stream' = [stream EXCEPT !.change = @ + 1]
  /\ observed' = Max({observed, EntryLsn})
  /\ UNCHANGED <<sourceVars, slot, crashes>>

\* (mutant: the next transaction starts where the last one ended)
Advance_Change(skipKeepalive, committed) ==
  stream' = [stream EXCEPT !.position = EntryLsn, !.skipKeepalive = skipKeepalive, !.committed = committed]

Advance(skipKeepalive, committed) ==
  stream' = [stream EXCEPT !.position = EntryLsn, !.change = 0, !.skipKeepalive = skipKeepalive,
                           !.committed = committed]

\* A commit that is not the last one of its chunk.
NextTransaction ==
  /\ EndOfTransaction
  /\ Ready
  /\ \E n \in EntryLsn..Len(wal) : wal[n] # Message
  /\ Advance(TRUE, stream.committed)
  /\ UNCHANGED <<batchVars, sourceVars, slot, crashes, observed>>

CommitChunk ==
  /\ EndOfTransaction
  /\ ~MustResnapshot
  /\ CommitCheckpoint(EntryLsn, CreateEmptyCheckpoints)
  /\ Advance(FALSE, EntryLsn)
  /\ UNCHANGED <<sourceVars, slot, crashes, observed>>

\* A message between the transactions of a chunk does not count.
SkipMessage ==
  /\ Received
  /\ Entry = Message /\ stream.skipKeepalive
  /\ Ready
  /\ Advance(TRUE, stream.committed)
  /\ UNCHANGED <<batchVars, sourceVars, slot, crashes, observed>>

Keepalive ==
  /\ Received
  /\ Entry = Message /\ ~stream.skipKeepalive
  /\ CommitCheckpoint(EntryLsn, TRUE)
  /\ Advance(FALSE, EntryLsn)
  /\ UNCHANGED <<sourceVars, slot, crashes, observed>>

\* The acknowledgement of the last commit, whenever it reaches the source.
Ack ==
  /\ stream.phase = "streaming"
  /\ Ready
  /\ slot < stream.committed
  /\ slot' = stream.committed
  /\ UNCHANGED <<batchVars, sourceVars, stream, crashes, observed>>

(***************************************************************************)
(* resnapshot: read the unavailable rows again, one table at a time.       *)
(***************************************************************************)
Resnapshot ==
  /\ stream.phase = "streaming"
  /\ stream.resnapshot = Nothing
  /\ \E t \in {TableOf[r] : r \in unavailable} :
       LET rows == {r \in unavailable : TableOf[r] = t}
           found == {r \in rows : SourceRows[r] # Nothing}
           order == CHOOSE s \in [1..Cardinality(found) -> found] : {s[i] : i \in DOMAIN s} = found
       IN /\ SaveUnavailable(rows, [i \in DOMAIN order |-> SnapshotRecord(order[i])])
          /\ stream' = [stream EXCEPT !.resnapshot = t]
  /\ observed' = Lsn
  /\ UNCHANGED <<sourceVars, slot, crashes>>

ResnapshotDone ==
  /\ stream.resnapshot # Nothing
  /\ Flushed
  /\ MarkTableSnapshotDone(stream.resnapshot, Lsn)
  /\ stream' = [stream EXCEPT !.resnapshot = Nothing]
  /\ IF unavailable = {} THEN SendKeepAlive ELSE UNCHANGED sourceVars
  /\ UNCHANGED <<slot, crashes, observed>>

\* The writer's own steps: a flush once a limit is reached or a caller asked
\* for it, and the rest of truncate and commit.
BatchStep ==
  /\ FlushRecord \/ TruncateSingle \/ CleanupPendingDeletes \/ AutoActivate
  /\ UNCHANGED <<sourceVars, slot, stream, crashes, observed>>

\* The process dies, or the job is stopped.
Crash ==
  /\ crashes < MaxCrashes
  /\ stream.phase # "stopped"
  /\ crashes' = crashes + 1
  /\ stream' = StoppedStream
  /\ CloseWriter \/ (writer.step = "closed" /\ UNCHANGED batchVars)
  /\ UNCHANGED <<sourceVars, slot, observed>>

JobNext ==
  \/ StartSnapshot
  \/ SnapshotChunk
  \/ SnapshotProgress
  \/ SnapshotTableDone
  \/ SnapshotAllDone
  \/ SnapshotCommit
  \/ SnapshotEnd
  \/ StartStreaming
  \/ WriteChange
  \/ NextTransaction
  \/ CommitChunk
  \/ SkipMessage
  \/ Keepalive
  \/ Ack
  \/ Resnapshot
  \/ ResnapshotDone
  \/ BatchStep

Next == SourceTransaction \/ JobNext \/ Crash

Spec == Init /\ [][Next]_vars
FairSpec == Spec /\ WF_vars(JobNext)

-----------------------------------------------------------------------------
(* What clients can sync: the last operation of each row of each bucket.   *)
Visible(checkpoint) ==
  LET ops == {op \in bucket_data : op.op_id <= checkpoint}
      last == {op \in ops : \A other \in ops :
                 (other.bucket = op.bucket /\ other.row = op.row) => other.op_id <= op.op_id}
  IN {<<op.bucket, op.row, op.data>> : op \in {o \in last : o.data # Nothing}}

(* What the sync config makes of the source rows. *)
Evaluated(rows) ==
  UNION {{<<b, r, rows[r]>> : b \in EvaluateRow[rows[r].x]} : r \in {q \in Rows : rows[q] # Nothing}}

Serving == sync_rules.state = "ACTIVE"
SourceAtCheckpoint == history[sync_rules.last_checkpoint_lsn]
IsExact == Visible(sync_rules.last_checkpoint) = Evaluated(SourceAtCheckpoint)

(***************************************************************************)
(* The job's variables have their types, its place in the WAL is one that  *)
(* exists, and the slot never passes what the job has committed or started *)
(* from.                                                                   *)
(***************************************************************************)
Phases == {"stopped", "snapshot", "snapshot commit", "snapshot end", "snapshot done", "streaming"}

WalTypeOK ==
  /\ Len(wal) = Lsn - 1
  /\ slot \in 1..Lsn
  /\ stream.phase \in Phases
  /\ stream.key \in Rows \cup {0}
  /\ stream.resnapshot \in Tables \cup {Nothing}
  /\ stream.phase = "streaming" =>
       /\ stream.position \in slot..Lsn /\ stream.committed <= stream.position
       /\ stream.change \in 0..(IF stream.position < Lsn THEN Len(Entry) ELSE 0)
  /\ observed \in 0..Lsn

(***************************************************************************)
(* Replication implements ReplicatedView: from activation on, clients see  *)
(* exactly the rows the source had at last_checkpoint_lsn, which includes  *)
(* the snapshot, all of every transaction and nothing later, although the  *)
(* tables were copied while they changed.                                  *)
(***************************************************************************)
View ==
  INSTANCE ReplicatedView WITH
    SourceStates <- [Rows -> Complete \cup {Nothing}],
    Evaluate <- Evaluated,
    position <- IF Serving THEN sync_rules.last_checkpoint_lsn ELSE 0,
    view <- IF Serving THEN Visible(sync_rules.last_checkpoint) ELSE {}

ImplementsView == View!Spec

(***************************************************************************)
(* Across restarts, too, replication loses nothing and keeps nothing it    *)
(* should have removed: once a checkpoint is past every position the job   *)
(* has read and includes every operation in storage, it is exact. What was *)
(* flushed and then replayed makes no difference.                          *)
(***************************************************************************)
ConvergedCheckpoint ==
  /\ Serving
  /\ sync_rules.last_checkpoint_lsn >= observed
  /\ \A op \in bucket_data : op.op_id <= sync_rules.last_checkpoint
  => IsExact

(***************************************************************************)
(* Replication catches up: when the source stops changing and the job      *)
(* keeps running, the stream is activated, its checkpoint reaches the end  *)
(* of the WAL, and it is exact. A boundary set by a snapshot or a          *)
(* resnapshot never blocks it for good: SendKeepAlive always adds a later  *)
(* position.                                                               *)
(***************************************************************************)
CatchesUp == <>[](Serving /\ sync_rules.last_checkpoint_lsn = Lsn /\ IsExact)

-----------------------------------------------------------------------------
(* The property below states what the documentation says of checkpoints    *)
(* and does not hold of the code; the runs that check it are               *)
(* counterexamples the README describes.                                   *)

(***************************************************************************)
(* A checkpoint that clients can sync holds the data of the snapshot and   *)
(* of every transaction up to the checkpoint's LSN.                        *)
(***************************************************************************)
ConsistentCheckpoint == Serving => IsExact
=============================================================================
