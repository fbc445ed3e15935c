------------------------- MODULE PostgresBucketBatch -------------------------
(***************************************************************************)
(* The storage writer of one replication stream on Postgres storage        *)
(* (modules/module-postgres-storage/src/storage/batch), together with the  *)
(* rows it writes: the stream's sync_rules row, its source_tables,         *)
(* current_data and bucket_data, and the op_id_sequence it shares with     *)
(* every other stream.                                                     *)
(*                                                                         *)
(* The specification at the end lets a source connector call the writer in *)
(* any order the interface allows; WalStream replaces that connector by    *)
(* the Postgres one.                                                       *)
(***************************************************************************)
EXTENDS Integers, Sequences, FiniteSets, FiniteSetsExt

CONSTANTS
  Tables,      \* source_tables of the stream
  Rows,        \* replica ids, numbered in primary-key order
  TableOf,     \* [Rows -> Tables]
  Xs,          \* values of the plain columns
  Ts,          \* values of the TOASTable columns
  Toast,       \* an unchanged TOAST value, left out of the change
  Buckets,
  EvaluateRow, \* [Xs -> SUBSET Buckets]: the data queries of the sync config
  Nothing,     \* no current_data record, and the data of a REMOVE
  SoftDelete,  \* storageConfig.softDeleteCurrentData
  MaxLsn,      \* bound on the source positions a connector names
  MaxOp,       \* bound on op_id_sequence
  MaxBatch     \* bound on the records waiting in a batch

ASSUME RowsAssumption == Rows \subseteq Nat \ {0}
ASSUME TablesAssumption == TableOf \in [Rows -> Tables]
ASSUME EvaluateAssumption == EvaluateRow \in [Xs -> SUBSET Buckets]
ASSUME ToastAssumption == Toast \notin Ts
ASSUME NothingAssumption ==
  /\ Nothing \notin Rows
  /\ Nothing \notin [x : Xs, t : Ts \cup {Toast}]
  /\ Nothing \notin [data : [x : Xs, t : Ts \cup {Toast}] \cup {Nothing}, buckets : SUBSET Buckets,
                     pending_delete : Nat \cup {-1}]
ASSUME SoftDeleteAssumption == SoftDelete \in BOOLEAN
ASSUME BoundsAssumption == MaxLsn \in Nat /\ MaxOp \in Nat /\ MaxBatch \in Nat

VARIABLES
  sync_rules,      \* the stream's row in sync_rules
  source_tables,   \* [Tables -> [snapshot_done, last_key]]
  current_data,    \* [Rows -> Nothing or the stored copy of the row]
  bucket_data,     \* the set of bucket operations
  op_id_sequence,  \* last value of the sequence, shared by all streams
  writer,          \* the PostgresBucketBatch in memory
  unavailable,     \* rows reported through markRecordUnavailable, not yet collected
  committed_op,    \* auxiliary: the writer's persisted_op at its last commit
  orphan_op        \* auxiliary: last op id that a writer wrote and then forgot

storageVars == <<sync_rules, source_tables, current_data, bucket_data, op_id_sequence>>
auxVars == <<committed_op, orphan_op>>
batchVars == <<storageVars, writer, unavailable, auxVars>>

(***************************************************************************)
(* SQL NULL. Every op id and every LSN is larger, so GREATEST, which skips *)
(* NULLs, is Max, and "x IS NULL OR x <= y" is x <= y.                     *)
(***************************************************************************)
Null == -1
Ops == Nat \cup {Null}
Lsns == Nat \cup {Null}

States == {"PROCESSING", "ACTIVE", "STOP", "ERRORED", "TERMINATED"}

Complete == [x : Xs, t : Ts]
Data == [x : Xs, t : Ts \cup {Toast}]
CurrentData == [data : Data \cup {Nothing}, buckets : SUBSET Buckets, pending_delete : Ops]
BucketOp == [op_id : Nat, bucket : Buckets, row : Rows, data : Complete \cup {Nothing}]

(***************************************************************************)
(* SaveOptions. An insert has before = after; a delete has after = Nothing *)
(* and no data; an update that keeps the replica id has before = after.    *)
(***************************************************************************)
Record ==
  [tag : {"insert"}, before : Rows, after : Rows, data : Complete]
    \cup [tag : {"update"}, before : Rows, after : Rows, data : Data]
    \cup [tag : {"delete"}, before : Rows, after : {Nothing}, data : {Nothing}]

\* "closed" is a process without a writer; "flushing" is inside the loop of
\* flush(), "truncating" inside that of truncate(), "cleanup" and "activate"
\* are the two transactions commit() runs after the one on the sync_rules row.
Steps == {"closed", "ready", "flushing", "truncating", "cleanup", "activate"}

SyncRules ==
  [state : States, snapshot_done : BOOLEAN, last_checkpoint : Ops, last_checkpoint_lsn : Lsns,
   no_checkpoint_before : Lsns, keepalive_op : Ops]
SourceTable == [snapshot_done : BOOLEAN, last_key : Nat]
Writer ==
  [step : Steps, skip_existing_rows : BOOLEAN, batch : Seq(Record), persisted_op : Ops,
   truncate : Seq(Tables), needsActivation : BOOLEAN]

BatchTypeOK ==
  /\ sync_rules \in SyncRules
  /\ source_tables \in [Tables -> SourceTable]
  /\ current_data \in [Rows -> CurrentData \cup {Nothing}]
  /\ bucket_data \subseteq BucketOp
  /\ op_id_sequence \in Nat
  /\ writer \in Writer
  /\ writer.step = "truncating" => writer.truncate # << >>
  /\ unavailable \subseteq Rows
  /\ committed_op \in Ops
  /\ orphan_op \in Nat

ClosedWriter ==
  [step |-> "closed", skip_existing_rows |-> FALSE, batch |-> << >>, persisted_op |-> Null,
   truncate |-> << >>, needsActivation |-> TRUE]

\* A stream that updateSyncRules() has just created.
BatchInit ==
  /\ sync_rules =
       [state |-> "PROCESSING", snapshot_done |-> FALSE, last_checkpoint |-> Null,
        last_checkpoint_lsn |-> Null, no_checkpoint_before |-> Null, keepalive_op |-> Null]
  /\ source_tables = [t \in Tables |-> [snapshot_done |-> FALSE, last_key |-> 0]]
  /\ current_data = [r \in Rows |-> Nothing]
  /\ bucket_data = {}
  /\ op_id_sequence = 0
  /\ writer = ClosedWriter
  /\ unavailable = {}
  /\ committed_op = Null
  /\ orphan_op = 0

(***************************************************************************)
(* Opening and losing a writer. Only keepalive_op survives in storage: the *)
(* new writer starts with it, and with nothing else, as persisted_op.      *)
(***************************************************************************)
CreateWriter(skip) ==
  /\ writer.step = "closed"
  /\ writer' = [ClosedWriter EXCEPT !.step = "ready", !.skip_existing_rows = skip,
                  !.persisted_op = IF sync_rules.keepalive_op > 0 THEN sync_rules.keepalive_op ELSE Null]
  /\ unavailable' = {}
  /\ committed_op' = writer'.persisted_op
  /\ UNCHANGED <<storageVars, orphan_op>>

\* The process dies, or the batch callback ends: what was not flushed is gone,
\* and so is persisted_op.
CloseWriter ==
  /\ writer.step # "closed"
  /\ writer' = ClosedWriter
  /\ unavailable' = {}
  /\ committed_op' = Null
  /\ orphan_op' = IF writer.persisted_op > committed_op THEN Max({orphan_op, writer.persisted_op}) ELSE orphan_op
  /\ UNCHANGED storageVars

Ready == writer.step = "ready"
Flushed == Ready /\ writer.batch = << >>

\* save() for each record, in order. With skipExistingRows any other tag throws.
Save(records) ==
  /\ Ready
  /\ writer.skip_existing_rows => \A i \in DOMAIN records : records[i].tag = "insert"
  /\ writer' = [writer EXCEPT !.batch = @ \o records]
  /\ UNCHANGED <<storageVars, unavailable, auxVars>>

\* The connector takes the rows of markRecordUnavailable and saves them again.
SaveUnavailable(rows, records) ==
  /\ Flushed
  /\ writer' = [writer EXCEPT !.batch = records]
  /\ unavailable' = unavailable \ rows
  /\ UNCHANGED <<storageVars, auxVars>>

(***************************************************************************)
(* saveOperation: what one record writes, given the current_data of its    *)
(* before id.                                                              *)
(***************************************************************************)
Stored(record) == current_data[record.before]

IsSkipped(record) == writer.skip_existing_rows /\ Stored(record) # Nothing

\* mergeToast: columns missing from the change keep the stored value. A
\* soft-deleted record has no columns to offer.
MergeToast(data, stored) ==
  IF data.t = Toast /\ stored # Nothing THEN [data EXCEPT !.t = stored.t] ELSE data

After(record) ==
  IF record.tag = "update" /\ Stored(record) # Nothing
    THEN MergeToast(record.data, Stored(record).data)
    ELSE record.data

IsCompleteRow(record) == record.tag # "delete" /\ After(record).t # Toast

\* Read for updates and deletes only: an insert never looks at what it replaces.
ExistingBuckets(record) ==
  IF record.tag # "insert" /\ Stored(record) # Nothing THEN Stored(record).buckets ELSE {}

\* An incomplete row is stored but not evaluated.
NewBuckets(record) == IF IsCompleteRow(record) THEN EvaluateRow[After(record).x] ELSE {}

IdChanged(record) == record.after # record.before

\* REMOVE for the old id when it is gone, else for the buckets the row has left;
\* an incomplete row saves no operation at all.
RemovedFrom(record) ==
  IF IdChanged(record) THEN ExistingBuckets(record)
  ELSE IF IsCompleteRow(record) THEN ExistingBuckets(record) \ NewBuckets(record)
  ELSE {}

(***************************************************************************)
(* One transaction takes its op ids from the sequence together and no      *)
(* checkpoint falls between them, so the operations of one record share    *)
(* one id.                                                                 *)
(***************************************************************************)
BucketOps(record, id) ==
  {[op_id |-> id, bucket |-> b, row |-> record.after, data |-> After(record)] : b \in NewBuckets(record)}
    \cup {[op_id |-> id, bucket |-> b, row |-> record.before, data |-> Nothing] : b \in RemovedFrom(record)}

\* deleteCurrentData with soft: storage v3 keeps an empty record until a
\* checkpoint covers the delete.
Deleted(id) ==
  IF SoftDelete THEN [data |-> Nothing, buckets |-> {}, pending_delete |-> id] ELSE Nothing

UsesOpId(record) == BucketOps(record, 0) # {} \/ (IdChanged(record) /\ SoftDelete)

\* upsertCurrentData for the new id, deleteCurrentData for an id that is gone.
SaveCurrentData(record, id) ==
  [r \in Rows |->
     IF r = record.after
       THEN [data |-> After(record), buckets |-> NewBuckets(record), pending_delete |-> Null]
     ELSE IF r = record.before THEN Deleted(id)
     ELSE current_data[r]]

\* markRecordUnavailable: an update of a row we do not have. Its missing TOAST
\* values can only come from the source.
IsUnavailable(record) == record.tag = "update" /\ Stored(record) = Nothing

(***************************************************************************)
(* flushInner for the next record. The size limits may end a transaction   *)
(* after any record, so a batch is flushed one record per transaction.     *)
(***************************************************************************)
FlushRecord ==
  /\ writer.step \in {"ready", "flushing"}
  /\ writer.batch # << >>
  /\ LET record == Head(writer.batch)
         id == IF ~IsSkipped(record) /\ UsesOpId(record) THEN op_id_sequence + 1 ELSE op_id_sequence
     IN /\ op_id_sequence' = id
        /\ IF IsSkipped(record)
             THEN UNCHANGED <<bucket_data, current_data, unavailable>>
             ELSE /\ bucket_data' = bucket_data \cup BucketOps(record, id)
                  /\ current_data' = SaveCurrentData(record, id)
                  /\ unavailable' = IF IsUnavailable(record) THEN unavailable \cup {record.after}
                                    ELSE unavailable
        /\ writer' = [writer EXCEPT !.batch = Tail(@), !.persisted_op = id,
                        !.step = IF Len(writer.batch) > 1 THEN "flushing" ELSE "ready"]
  /\ UNCHANGED <<sync_rules, source_tables, auxVars>>

(***************************************************************************)
(* truncate: flush, then one table after the other. Only the result of the *)
(* last table is kept (last_op is overwritten in the loop), and it is null *)
(* when that table had no rows.                                            *)
(***************************************************************************)
Truncate(tables) ==
  /\ Flushed
  /\ tables # << >>
  /\ writer' = [writer EXCEPT !.step = "truncating", !.truncate = tables]
  /\ UNCHANGED <<storageVars, unavailable, auxVars>>

\* (mutant: not restricted to the table)
TruncateRows_All(t) == {r \in Rows : current_data[r] # Nothing /\ current_data[r].pending_delete = Null}

TruncateRows(t) ==
  {r \in Rows : TableOf[r] = t /\ current_data[r] # Nothing /\ current_data[r].pending_delete = Null}

TruncateSingle ==
  /\ writer.step = "truncating"
  /\ LET rows == TruncateRows(Head(writer.truncate))
         isLast == Len(writer.truncate) = 1
         removed == {p \in rows \X Buckets : p[2] \in current_data[p[1]].buckets}
         id == IF removed # {} THEN op_id_sequence + 1 ELSE op_id_sequence
     IN /\ op_id_sequence' = id
        /\ bucket_data' = bucket_data \cup
             {[op_id |-> id, bucket |-> p[2], row |-> p[1], data |-> Nothing] : p \in removed}
        /\ current_data' = [r \in Rows |-> IF r \in rows THEN Nothing ELSE current_data[r]]
        /\ writer' = [writer EXCEPT !.truncate = Tail(@),
                        !.step = IF isLast THEN "ready" ELSE "truncating",
                        !.persisted_op = IF isLast /\ rows # {} /\ id > 0 THEN id ELSE @]
        /\ orphan_op' = IF isLast THEN orphan_op ELSE Max({orphan_op, id})
  /\ UNCHANGED <<sync_rules, source_tables, unavailable, committed_op>>

(***************************************************************************)
(* Snapshot bookkeeping. RaiseBoundary is the CASE every one of these uses *)
(* on no_checkpoint_before.                                                *)
(***************************************************************************)
RaiseBoundary(lsn) == Max({sync_rules.no_checkpoint_before, lsn})

UpdateTableProgress(t, key) ==
  /\ Ready
  /\ source_tables' = [source_tables EXCEPT ![t].last_key = key]
  /\ UNCHANGED <<sync_rules, current_data, bucket_data, op_id_sequence, writer, unavailable, auxVars>>

MarkTableSnapshotDone(t, lsn) ==
  /\ Ready
  /\ source_tables' = [source_tables EXCEPT ![t] = [snapshot_done |-> TRUE, last_key |-> 0]]
  /\ sync_rules' = [sync_rules EXCEPT !.no_checkpoint_before = RaiseBoundary(lsn)]
  /\ UNCHANGED <<current_data, bucket_data, op_id_sequence, writer, unavailable, auxVars>>

MarkTableSnapshotRequired ==
  /\ Ready
  /\ sync_rules' = [sync_rules EXCEPT !.snapshot_done = FALSE]
  /\ UNCHANGED <<source_tables, current_data, bucket_data, op_id_sequence, writer, unavailable, auxVars>>

\* Throws, or returns without a change, while a table still needs its snapshot.
MarkSnapshotDone(lsn) ==
  /\ Ready
  /\ \A t \in Tables : source_tables[t].snapshot_done
  /\ sync_rules' = [sync_rules EXCEPT !.snapshot_done = TRUE, !.no_checkpoint_before = RaiseBoundary(lsn)]
  /\ UNCHANGED <<source_tables, current_data, bucket_data, op_id_sequence, writer, unavailable, auxVars>>

(***************************************************************************)
(* commit(lsn), after its flush: the transaction on the sync_rules row.    *)
(***************************************************************************)
\* (mutant: forgets that a restarted stream may name older positions)
CanCheckpoint_Older(lsn) == sync_rules.snapshot_done /\ sync_rules.no_checkpoint_before <= lsn

\* (mutant: the boundary of the snapshots is not looked at)
CanCheckpoint_Early(lsn) == sync_rules.snapshot_done /\ sync_rules.last_checkpoint_lsn <= lsn

CanCheckpoint(lsn) ==
  /\ sync_rules.snapshot_done
  /\ sync_rules.last_checkpoint_lsn <= lsn
  /\ sync_rules.no_checkpoint_before <= lsn

NewLastCheckpoint(lsn) ==
  IF CanCheckpoint(lsn)
    THEN Max({sync_rules.last_checkpoint, writer.persisted_op, sync_rules.keepalive_op, 0})
    ELSE sync_rules.last_checkpoint

\* (mutant: a blocked commit relies on the writer's memory)
NewKeepaliveOp_Kept(lsn) == IF CanCheckpoint(lsn) THEN Null ELSE sync_rules.keepalive_op

NewKeepaliveOp(lsn) ==
  IF CanCheckpoint(lsn) THEN Null ELSE Max({sync_rules.keepalive_op, writer.persisted_op, 0})

CreatesCheckpoint(lsn, createEmptyCheckpoints) ==
  \/ createEmptyCheckpoints
  \/ sync_rules.keepalive_op # NewKeepaliveOp(lsn)
  \/ sync_rules.last_checkpoint # NewLastCheckpoint(lsn)

\* (mutant: a blocked commit does not return early)
AfterCommit_Blocked(lsn, createEmptyCheckpoints) == "activate"

AfterCommit(lsn, createEmptyCheckpoints) ==
  IF ~CanCheckpoint(lsn) THEN "ready"
  ELSE IF CreatesCheckpoint(lsn, createEmptyCheckpoints) THEN "cleanup"
  ELSE "activate"

CommitCheckpoint(lsn, createEmptyCheckpoints) ==
  /\ Flushed
  /\ sync_rules' =
       IF CreatesCheckpoint(lsn, createEmptyCheckpoints)
         THEN [sync_rules EXCEPT
                 !.last_checkpoint = NewLastCheckpoint(lsn),
                 !.keepalive_op = NewKeepaliveOp(lsn),
                 !.last_checkpoint_lsn = IF CanCheckpoint(lsn) THEN lsn ELSE @]
         ELSE sync_rules
  /\ writer' = [writer EXCEPT !.step = AfterCommit(lsn, createEmptyCheckpoints)]
  /\ committed_op' = writer.persisted_op
  /\ UNCHANGED <<source_tables, current_data, bucket_data, op_id_sequence, unavailable, orphan_op>>

\* cleanupPendingDeletes, the statement after that transaction.
CleanupPendingDeletes ==
  /\ writer.step = "cleanup"
  /\ current_data' =
       [r \in Rows |->
          IF current_data[r] # Nothing /\ current_data[r].pending_delete \in 0..sync_rules.last_checkpoint
            THEN Nothing ELSE current_data[r]]
  /\ writer' = [writer EXCEPT !.step = "activate"]
  /\ UNCHANGED <<sync_rules, source_tables, bucket_data, op_id_sequence, unavailable, auxVars>>

\* autoActivate, and the end of commit(). The streams it stops are not ours.
AutoActivate ==
  /\ writer.step = "activate"
  /\ LET activates == writer.needsActivation /\ sync_rules.state = "PROCESSING" /\ sync_rules.snapshot_done
     IN /\ sync_rules' = IF activates THEN [sync_rules EXCEPT !.state = "ACTIVE"] ELSE sync_rules
        /\ writer' = [writer EXCEPT !.step = "ready", !.persisted_op = Null,
                        !.needsActivation = @ /\ ~activates /\ sync_rules.state = "PROCESSING"]
  /\ UNCHANGED <<source_tables, current_data, bucket_data, op_id_sequence, unavailable, auxVars>>

(***************************************************************************)
(* Other streams share op_id_sequence, and their activation or             *)
(* restartReplication moves our stream's state.                            *)
(***************************************************************************)
OtherStreamFlush ==
  /\ op_id_sequence' = op_id_sequence + 1
  /\ UNCHANGED <<sync_rules, source_tables, current_data, bucket_data, writer, unavailable, auxVars>>

OtherStreamChangesState ==
  /\ \/ sync_rules.state = "PROCESSING" /\ sync_rules' = [sync_rules EXCEPT !.state = "STOP"]
     \/ sync_rules.state = "ACTIVE" /\ \E s \in {"ERRORED", "STOP"} : sync_rules' = [sync_rules EXCEPT !.state = s]
     \/ sync_rules.state = "ERRORED" /\ sync_rules' = [sync_rules EXCEPT !.state = "STOP"]
  /\ UNCHANGED <<source_tables, current_data, bucket_data, op_id_sequence, writer, unavailable, auxVars>>

-----------------------------------------------------------------------------
\* What a connector may have found when it read some rows again: a record for
\* each row that still exists.
Reads(rows) ==
  UNION {[1..n -> {record \in Record : record.tag = "insert" /\ record.before \in rows}] : n \in 0..Cardinality(rows)}

BatchNext ==
  \/ \E skip \in BOOLEAN : CreateWriter(skip)
  \/ CloseWriter
  \/ Len(writer.batch) < MaxBatch /\ \E record \in Record : Save(<<record>>)
  \/ \E rows \in SUBSET unavailable \ {{}} : \E records \in Reads(rows) : SaveUnavailable(rows, records)
  \/ op_id_sequence < MaxOp /\ FlushRecord
  \/ \E tables \in {<<t>> : t \in Tables} \cup (Tables \X Tables) : Truncate(tables)
  \/ op_id_sequence < MaxOp /\ TruncateSingle
  \/ \E t \in Tables, key \in Rows : UpdateTableProgress(t, key)
  \/ \E t \in Tables, lsn \in 1..MaxLsn : MarkTableSnapshotDone(t, lsn)
  \/ MarkTableSnapshotRequired
  \/ \E lsn \in 1..MaxLsn : MarkSnapshotDone(lsn)
  \/ \E lsn \in 0..MaxLsn, createEmpty \in BOOLEAN : CommitCheckpoint(lsn, createEmpty)
  \/ CleanupPendingDeletes
  \/ AutoActivate
  \/ op_id_sequence < MaxOp /\ OtherStreamFlush
  \/ OtherStreamChangesState

BatchSpec == BatchInit /\ [][BatchNext]_batchVars

(***************************************************************************)
(* Every operation the stream has written is in its last checkpoint, or    *)
(* will be in its next one (through keepalive_op or the writer's           *)
(* persisted_op), unless its writer forgot it: it died before the commit,  *)
(* or truncated a further table. In particular a blocked commit never      *)
(* loses operations, across any number of restarts.                        *)
(***************************************************************************)
AccountedFor ==
  \A op \in bucket_data :
    op.op_id <= Max({sync_rules.last_checkpoint, sync_rules.keepalive_op, writer.persisted_op, orphan_op})

(***************************************************************************)
(* A stream that serves clients has a checkpoint: autoActivate cannot      *)
(* publish the empty checkpoint of a stream that never committed.          *)
(***************************************************************************)
ActiveHasCheckpoint ==
  sync_rules.state \in {"ACTIVE", "ERRORED"} =>
    sync_rules.last_checkpoint # Null /\ sync_rules.last_checkpoint_lsn # Null

(***************************************************************************)
(* Checkpoint and position only move forward, whatever LSNs a connector    *)
(* names after a restart, and a position never moves without the           *)
(* operations that a blocked commit left behind.                           *)
(***************************************************************************)
CheckpointsMoveForward ==
  [][/\ sync_rules'.last_checkpoint >= sync_rules.last_checkpoint
     /\ sync_rules'.last_checkpoint_lsn >= sync_rules.last_checkpoint_lsn
     /\ sync_rules'.last_checkpoint_lsn # sync_rules.last_checkpoint_lsn =>
          sync_rules'.last_checkpoint >= sync_rules.keepalive_op]_batchVars
=============================================================================
