---------------------------- MODULE WalStreamProofs ----------------------------
(***************************************************************************)
(* Proofs about replication from Postgres, for every value of its          *)
(* constants: first about the storage writer, PostgresBucketBatch, under   *)
(* any sequence of calls its interface allows (CallSpec); then about       *)
(* WalStream, whose replication job makes such calls only, so that what    *)
(* holds of the writer holds of replication, and keeps its place in the    *)
(* WAL.                                                                    *)
(***************************************************************************)
EXTENDS WalStream, FiniteSetTheorems, TLAPS

-----------------------------------------------------------------------------
(* The storage writer *)

(* Max of two, three and four numbers: what GREATEST returns. *)
LEMMA MaxOf2 ==
  ASSUME NEW a \in Int, NEW b \in Int
  PROVE  Max({a, b}) \in {a, b} /\ Max({a, b}) >= a /\ Max({a, b}) >= b
<1>1. \E m \in {a, b} : \A n \in {a, b} : m >= n
  OBVIOUS
<1>2. QED
  BY <1>1 DEF Max

LEMMA MaxOf3 ==
  ASSUME NEW a \in Int, NEW b \in Int, NEW c \in Int
  PROVE  /\ Max({a, b, c}) \in {a, b, c}
         /\ Max({a, b, c}) >= a /\ Max({a, b, c}) >= b /\ Max({a, b, c}) >= c
<1>1. \E m \in {a, b, c} : \A n \in {a, b, c} : m >= n
  OBVIOUS
<1>2. QED
  BY <1>1 DEF Max

LEMMA MaxOf4 ==
  ASSUME NEW a \in Int, NEW b \in Int, NEW c \in Int, NEW d \in Int
  PROVE  /\ Max({a, b, c, d}) \in {a, b, c, d}
         /\ Max({a, b, c, d}) >= a /\ Max({a, b, c, d}) >= b
         /\ Max({a, b, c, d}) >= c /\ Max({a, b, c, d}) >= d
<1>1. \E m \in {a, b, c, d} : \A n \in {a, b, c, d} : m >= n
  OBVIOUS
<1>2. QED
  BY <1>1 DEF Max

-----------------------------------------------------------------------------
(***************************************************************************)
(* What one record writes has the type of what it is written to. An        *)
(* incomplete row is never written to a bucket: a BucketOp has no Toast.   *)
(***************************************************************************)
LEMMA StoredType ==
  ASSUME BatchTypeOK, NEW record \in Record
  PROVE  Stored(record) \in CurrentData \cup {Nothing}
BY DEF BatchTypeOK, Stored, Record

LEMMA AfterType ==
  ASSUME BatchTypeOK, NEW record \in Record, record.tag # "delete"
  PROVE  After(record) \in Data
<1>1. record.data \in Data
  BY DEF Record, Data, Complete
<1>2. CASE record.tag = "update" /\ Stored(record) # Nothing
  <2>1. Stored(record) \in CurrentData
    BY <1>2, StoredType
  <2>2. Stored(record).data \in Data \cup {Nothing}
    BY <2>1 DEF CurrentData
  <2>3. MergeToast(record.data, Stored(record).data) \in Data
    BY <1>1, <2>2 DEF MergeToast, Data
  <2>4. QED
    BY <1>2, <2>3 DEF After
<1>3. CASE ~(record.tag = "update" /\ Stored(record) # Nothing)
  BY <1>1, <1>3 DEF After
<1>4. QED
  BY <1>2, <1>3

LEMMA BucketsType ==
  ASSUME BatchTypeOK, NEW record \in Record
  PROVE  NewBuckets(record) \subseteq Buckets /\ RemovedFrom(record) \subseteq Buckets
<1>1. NewBuckets(record) \subseteq Buckets
  <2>1. CASE IsCompleteRow(record)
    <3>1. After(record) \in Data
      BY <2>1, AfterType DEF IsCompleteRow
    <3>2. After(record).x \in Xs
      BY <3>1 DEF Data
    <3>3. QED
      BY <2>1, <3>2, EvaluateAssumption DEF NewBuckets
  <2>2. QED
    BY <2>1 DEF NewBuckets
<1>2. ExistingBuckets(record) \subseteq Buckets
  BY StoredType DEF ExistingBuckets, CurrentData
<1>3. QED
  BY <1>1, <1>2 DEF RemovedFrom

LEMMA BucketOpsType ==
  ASSUME BatchTypeOK, NEW record \in Record, NEW id \in Nat
  PROVE  BucketOps(record, id) \subseteq BucketOp
<1>1. ASSUME NEW b \in NewBuckets(record)
      PROVE  [op_id |-> id, bucket |-> b, row |-> record.after, data |-> After(record)] \in BucketOp
  <2>1. IsCompleteRow(record)
    BY <1>1 DEF NewBuckets
  <2>2. After(record) \in Complete
    BY <2>1, AfterType DEF IsCompleteRow, Data, Complete
  <2>3. record.after \in Rows
    BY <2>1 DEF IsCompleteRow, Record
  <2>4. QED
    BY <2>2, <2>3, BucketsType DEF BucketOp
<1>2. ASSUME NEW b \in RemovedFrom(record)
      PROVE  [op_id |-> id, bucket |-> b, row |-> record.before, data |-> Nothing] \in BucketOp
  <2>1. record.before \in Rows
    BY DEF Record
  <2>2. QED
    BY <2>1, BucketsType DEF BucketOp
<1>3. QED
  BY <1>1, <1>2 DEF BucketOps

LEMMA SaveCurrentDataType ==
  ASSUME BatchTypeOK, NEW record \in Record, NEW id \in Nat
  PROVE  SaveCurrentData(record, id) \in [Rows -> CurrentData \cup {Nothing}]
<1> SUFFICES ASSUME NEW r \in Rows
             PROVE  SaveCurrentData(record, id)[r] \in CurrentData \cup {Nothing}
  BY DEF SaveCurrentData
<1>1. CASE r = record.after
  <2>1. record.tag # "delete"
    BY <1>1, NothingAssumption DEF Record
  <2>2. After(record) \in Data
    BY <2>1, AfterType
  <2>3. QED
    BY <1>1, <2>2, BucketsType DEF SaveCurrentData, CurrentData, Ops, Null
<1>2. CASE r # record.after /\ r = record.before
  BY <1>2 DEF SaveCurrentData, Deleted, CurrentData, Ops
<1>3. CASE r # record.after /\ r # record.before
  BY <1>3 DEF SaveCurrentData, BatchTypeOK
<1>4. QED
  BY <1>1, <1>2, <1>3

-----------------------------------------------------------------------------
(***************************************************************************)
(* What any connector and any other stream may do, without the bounds that *)
(* BatchNext has for TLC. The theorems are about this specification, and   *)
(* hold of whatever implements it.                                         *)
(***************************************************************************)
WriterCall ==
  \/ \E skip \in BOOLEAN : CreateWriter(skip)
  \/ CloseWriter
  \/ \E record \in Record : Save(<<record>>)
  \/ \E rows \in SUBSET unavailable, records \in Seq(Record) : SaveUnavailable(rows, records)
  \/ FlushRecord
  \/ \E tables \in Seq(Tables) : Truncate(tables)
  \/ TruncateSingle
  \/ \E t \in Tables, key \in Nat : UpdateTableProgress(t, key)
  \/ \E t \in Tables, lsn \in Nat : MarkTableSnapshotDone(t, lsn)
  \/ MarkTableSnapshotRequired
  \/ \E lsn \in Nat : MarkSnapshotDone(lsn)
  \/ \E lsn \in Nat, createEmpty \in BOOLEAN : CommitCheckpoint(lsn, createEmpty)
  \/ CleanupPendingDeletes
  \/ AutoActivate
  \/ OtherStreamFlush
  \/ OtherStreamChangesState

CallSpec == BatchInit /\ [][WriterCall]_batchVars

LEMMA ReadsType ==
  ASSUME NEW rows, NEW records \in Reads(rows)
  PROVE  records \in Seq(Record)
BY DEF Reads

LEMMA TruncatedType ==
  ASSUME NEW tables \in {<<t>> : t \in Tables} \cup (Tables \X Tables)
  PROVE  tables \in Seq(Tables)
<1>1. ASSUME NEW t \in Tables
      PROVE  <<t>> \in Seq(Tables)
  OBVIOUS
<1>2. ASSUME NEW t \in Tables, NEW u \in Tables
      PROVE  <<t, u>> \in Seq(Tables)
  OBVIOUS
<1>3. (\E t \in Tables : tables = <<t>>) \/ (\E t, u \in Tables : tables = <<t, u>>)
  OBVIOUS
<1>4. QED
  BY <1>1, <1>2, <1>3, Zenon

LEMMA BoundedCall == BatchNext => WriterCall
<1>1. (1..MaxLsn) \subseteq Nat /\ (0..MaxLsn) \subseteq Nat /\ Rows \subseteq Nat
  BY BoundsAssumption, RowsAssumption
<1>2. ASSUME NEW rows \in SUBSET unavailable, NEW records \in Reads(rows), SaveUnavailable(rows, records)
      PROVE  WriterCall
  <2>1. records \in Seq(Record)
    BY ReadsType
  <2>2. QED
    BY <1>2, <2>1, Zenon DEF WriterCall
<1>3. ASSUME NEW tables \in {<<t>> : t \in Tables} \cup (Tables \X Tables), Truncate(tables)
      PROVE  WriterCall
  BY <1>3, TruncatedType, Zenon DEF WriterCall
<1>4. QED
  BY <1>1, <1>2, <1>3, ZenonT(60) DEF BatchNext, WriterCall

LEMMA BoundedSpec == BatchSpec => CallSpec
BY BoundedCall, PTL DEF BatchSpec, CallSpec

-----------------------------------------------------------------------------
(***************************************************************************)
(* Type correctness.                                                       *)
(***************************************************************************)
LEMMA InitType == BatchInit => BatchTypeOK
BY DEF BatchInit, BatchTypeOK, SyncRules, States, SourceTable, Writer, ClosedWriter, Steps, Ops, Lsns, Null

\* A step that leaves the stored rows alone.
LEMMA WriterOnlyType ==
  ASSUME BatchTypeOK, UNCHANGED <<storageVars, orphan_op>>, unavailable' \subseteq Rows,
         writer' \in Writer, writer'.step # "truncating", committed_op' \in Ops
  PROVE  BatchTypeOK'
BY DEF BatchTypeOK, storageVars

LEMMA OpenCloseType ==
  ASSUME BatchTypeOK, (\E skip \in BOOLEAN : CreateWriter(skip)) \/ CloseWriter
  PROVE  BatchTypeOK'
<1> USE DEF Writer, ClosedWriter, Steps, Ops, Null
<1>1. sync_rules.keepalive_op \in Ops /\ writer.persisted_op \in Ops /\ committed_op \in Ops /\ orphan_op \in Nat
  BY DEF BatchTypeOK, SyncRules
<1>2. ASSUME NEW skip \in BOOLEAN, CreateWriter(skip)
      PROVE  BatchTypeOK'
  <2> DEFINE op == IF sync_rules.keepalive_op > 0 THEN sync_rules.keepalive_op ELSE Null
  <2>1. op \in Ops
    BY <1>1
  <2>2. writer' = [ClosedWriter EXCEPT !.step = "ready", !.skip_existing_rows = skip, !.persisted_op = op]
    BY <1>2 DEF CreateWriter
  <2> HIDE DEF op
  <2>3. writer' = [step |-> "ready", skip_existing_rows |-> skip, batch |-> << >>, persisted_op |-> op,
                   truncate |-> << >>, needsActivation |-> TRUE]
    BY <2>2
  <2>4. writer' \in Writer
    BY <2>1, <2>3
  <2>5. committed_op' \in Ops
    BY <2>4, <1>2 DEF CreateWriter
  <2>6. QED
    BY <1>2, <2>3, <2>4, <2>5, WriterOnlyType DEF CreateWriter
<1>3. CASE CloseWriter
  <2>1. Max({orphan_op, writer.persisted_op}) \in {orphan_op, writer.persisted_op}
    <3>1. orphan_op \in Int /\ writer.persisted_op \in Int
      BY <1>1
    <3>2. QED
      BY <3>1, MaxOf2, Zenon
  <2>2. orphan_op' \in Nat
    BY <1>1, <1>3, <2>1 DEF CloseWriter
  <2>3. writer' \in Writer /\ committed_op' \in Ops /\ writer'.step = "closed"
    BY <1>3 DEF CloseWriter
  <2>4. QED
    BY <1>3, <2>2, <2>3 DEF CloseWriter, BatchTypeOK, storageVars
<1>4. QED
  BY <1>2, <1>3

LEMMA SaveType ==
  ASSUME BatchTypeOK,
         \/ \E record \in Record : Save(<<record>>)
         \/ \E rows \in SUBSET unavailable, records \in Seq(Record) : SaveUnavailable(rows, records)
  PROVE  BatchTypeOK'
<1>1. ASSUME NEW record \in Record, Save(<<record>>)
      PROVE  BatchTypeOK'
  <2>1. writer.batch \in Seq(Record) /\ <<record>> \in Seq(Record)
    BY DEF BatchTypeOK, Writer
  <2>2. writer.batch \o <<record>> \in Seq(Record)
    BY <2>1
  <2>3. writer' \in Writer
    BY <1>1, <2>2 DEF Save, BatchTypeOK, Writer
  <2>4. QED
    BY <1>1, <2>3, WriterOnlyType DEF Save, BatchTypeOK, auxVars, storageVars
<1>2. ASSUME NEW rows \in SUBSET unavailable, NEW records \in Seq(Record), SaveUnavailable(rows, records)
      PROVE  BatchTypeOK'
  <2>1. writer' \in Writer
    BY <1>2 DEF SaveUnavailable, BatchTypeOK, Writer
  <2>2. QED
    BY <1>2, <2>1, WriterOnlyType DEF SaveUnavailable, BatchTypeOK, auxVars, storageVars
<1>3. QED
  BY <1>1, <1>2

LEMMA FlushRecordType ==
  ASSUME BatchTypeOK, FlushRecord
  PROVE  BatchTypeOK'
<1> DEFINE record == Head(writer.batch)
           id == IF ~IsSkipped(record) /\ UsesOpId(record) THEN op_id_sequence + 1 ELSE op_id_sequence
<1>1. writer.batch \in Seq(Record) /\ writer.batch # << >>
  BY DEF BatchTypeOK, Writer, FlushRecord
<1>2. record \in Record /\ Tail(writer.batch) \in Seq(Record)
  BY <1>1
<1>3. id \in Nat
  BY DEF BatchTypeOK
<1>4. op_id_sequence' \in Nat /\ bucket_data' \subseteq BucketOp
  BY <1>2, <1>3, BucketOpsType DEF FlushRecord, BatchTypeOK
<1>5. current_data' \in [Rows -> CurrentData \cup {Nothing}]
  BY <1>2, <1>3, SaveCurrentDataType DEF FlushRecord, BatchTypeOK
<1>6. unavailable' \subseteq Rows
  BY <1>2 DEF FlushRecord, BatchTypeOK, IsUnavailable, Record
<1>7. writer' \in Writer
  BY <1>2, <1>3 DEF FlushRecord, BatchTypeOK, Writer, Steps, Ops
<1>8. QED
  BY <1>4, <1>5, <1>6, <1>7 DEF FlushRecord, BatchTypeOK, auxVars

LEMMA TruncateType ==
  ASSUME BatchTypeOK, NEW tables \in Seq(Tables), Truncate(tables)
  PROVE  BatchTypeOK'
<1>1. writer' \in Writer
  BY DEF Truncate, BatchTypeOK, Writer, Steps
<1>2. writer'.truncate # << >>
  BY DEF Truncate, BatchTypeOK, Writer
<1>3. QED
  BY <1>1, <1>2 DEF Truncate, BatchTypeOK, auxVars, storageVars

LEMMA TruncateSingleType ==
  ASSUME BatchTypeOK, TruncateSingle
  PROVE  BatchTypeOK'
<1> DEFINE rows == TruncateRows(Head(writer.truncate))
           removed == {p \in rows \X Buckets : p[2] \in current_data[p[1]].buckets}
           id == IF removed # {} THEN op_id_sequence + 1 ELSE op_id_sequence
<1>1. /\ Tail(writer.truncate) \in Seq(Tables)
      /\ Len(writer.truncate) # 1 => Tail(writer.truncate) # << >>
  <2>1. writer.truncate \in Seq(Tables) /\ writer.truncate # << >>
    BY DEF BatchTypeOK, Writer, TruncateSingle
  <2>2. Tail(writer.truncate) \in Seq(Tables) /\ Len(Tail(writer.truncate)) = Len(writer.truncate) - 1
    BY <2>1
  <2>3. Len(writer.truncate) \in Nat /\ Len(<< >>) = 0
    BY <2>1
  <2>4. ASSUME Tail(writer.truncate) = << >>
        PROVE  Len(writer.truncate) = 1
    <3>1. Len(writer.truncate) - 1 = 0
      BY <2>2, <2>3, <2>4
    <3>2. QED
      BY <2>3, <3>1
  <2>5. QED
    BY <2>2, <2>4
<1>2. id \in Nat
  BY DEF BatchTypeOK
<1>3. op_id_sequence' \in Nat /\ orphan_op' \in Nat
  <2>1. orphan_op \in Nat
    BY DEF BatchTypeOK
  <2>2. Max({orphan_op, id}) \in Nat
    <3> HIDE DEF id
    <3>1. orphan_op \in Int /\ id \in Int
      BY <1>2, <2>1
    <3>2. Max({orphan_op, id}) \in {orphan_op, id}
      BY <3>1, MaxOf2, Zenon
    <3>3. QED
      BY <1>2, <2>1, <3>2
  <2>3. orphan_op' = IF Len(writer.truncate) = 1 THEN orphan_op ELSE Max({orphan_op, id})
    BY DEF TruncateSingle
  <2>4. QED
    BY <1>2, <2>1, <2>2, <2>3 DEF TruncateSingle
<1>4. bucket_data' \subseteq BucketOp
  <2>1. ASSUME NEW p \in removed
        PROVE  [op_id |-> id, bucket |-> p[2], row |-> p[1], data |-> Nothing] \in BucketOp
    BY <1>2 DEF TruncateRows, BucketOp
  <2>2. QED
    BY <2>1 DEF TruncateSingle, BatchTypeOK
<1>5. current_data' \in [Rows -> CurrentData \cup {Nothing}]
  BY DEF TruncateSingle, BatchTypeOK
<1>6. writer' \in Writer
  BY <1>1, <1>2 DEF TruncateSingle, BatchTypeOK, Writer, Steps, Ops
<1>7. writer'.step = "truncating" => writer'.truncate # << >>
  <2>1. /\ writer'.step = IF Len(writer.truncate) = 1 THEN "ready" ELSE "truncating"
        /\ writer'.truncate = Tail(writer.truncate)
    BY DEF TruncateSingle, BatchTypeOK, Writer
  <2>2. QED
    BY <1>1, <2>1
<1>8. QED
  BY <1>3, <1>4, <1>5, <1>6, <1>7 DEF TruncateSingle, BatchTypeOK

\* RaiseBoundary, and the lower bounds of what a commit writes.
LEMMA BoundaryType ==
  ASSUME BatchTypeOK, NEW lsn \in Nat
  PROVE  RaiseBoundary(lsn) \in Nat /\ RaiseBoundary(lsn) >= lsn
<1>1. sync_rules.no_checkpoint_before \in Int /\ lsn \in Int
  BY DEF BatchTypeOK, SyncRules, Lsns, Null
<1>2. /\ Max({sync_rules.no_checkpoint_before, lsn}) \in {sync_rules.no_checkpoint_before, lsn}
      /\ Max({sync_rules.no_checkpoint_before, lsn}) >= lsn
  BY <1>1, MaxOf2, Zenon
<1>3. QED
  BY <1>1, <1>2 DEF RaiseBoundary

LEMMA BookkeepingType ==
  ASSUME BatchTypeOK,
         \/ \E t \in Tables, key \in Nat : UpdateTableProgress(t, key)
         \/ \E t \in Tables, lsn \in Nat : MarkTableSnapshotDone(t, lsn)
         \/ MarkTableSnapshotRequired
         \/ \E lsn \in Nat : MarkSnapshotDone(lsn)
  PROVE  BatchTypeOK'
<1>1. ASSUME NEW t \in Tables, NEW key \in Nat, UpdateTableProgress(t, key)
      PROVE  BatchTypeOK'
  BY <1>1 DEF UpdateTableProgress, BatchTypeOK, SourceTable, auxVars
<1>2. ASSUME NEW t \in Tables, NEW lsn \in Nat, MarkTableSnapshotDone(t, lsn)
      PROVE  BatchTypeOK'
  <2>1. RaiseBoundary(lsn) \in Lsns
    BY BoundaryType DEF Lsns
  <2>2. sync_rules' \in SyncRules
    BY <1>2, <2>1 DEF MarkTableSnapshotDone, BatchTypeOK, SyncRules
  <2>3. source_tables' \in [Tables -> SourceTable]
    BY <1>2 DEF MarkTableSnapshotDone, BatchTypeOK, SourceTable
  <2>4. QED
    BY <1>2, <2>2, <2>3 DEF MarkTableSnapshotDone, BatchTypeOK, auxVars
<1>3. CASE MarkTableSnapshotRequired
  BY <1>3 DEF MarkTableSnapshotRequired, BatchTypeOK, SyncRules, auxVars
<1>4. ASSUME NEW lsn \in Nat, MarkSnapshotDone(lsn)
      PROVE  BatchTypeOK'
  <2>1. RaiseBoundary(lsn) \in Lsns
    BY BoundaryType DEF Lsns
  <2>2. sync_rules' \in SyncRules
    BY <1>4, <2>1 DEF MarkSnapshotDone, BatchTypeOK, SyncRules
  <2>3. QED
    BY <1>4, <2>2 DEF MarkSnapshotDone, BatchTypeOK, auxVars
<1>5. QED
  BY <1>1, <1>2, <1>3, <1>4

(***************************************************************************)
(* The transaction of commit(): a checkpoint that is created includes      *)
(* what keepalive_op and persisted_op hold, and one that is blocked leaves *)
(* both in keepalive_op.                                                   *)
(***************************************************************************)
LEMMA CommitValues ==
  ASSUME BatchTypeOK, NEW lsn \in Nat
  PROVE  IF CanCheckpoint(lsn)
           THEN /\ NewLastCheckpoint(lsn) \in Nat
                /\ NewLastCheckpoint(lsn) >= sync_rules.last_checkpoint
                /\ NewLastCheckpoint(lsn) >= sync_rules.keepalive_op
                /\ NewLastCheckpoint(lsn) >= writer.persisted_op
                /\ NewLastCheckpoint(lsn) \in
                     {sync_rules.last_checkpoint, writer.persisted_op, sync_rules.keepalive_op, 0}
                /\ NewKeepaliveOp(lsn) = Null
           ELSE /\ NewLastCheckpoint(lsn) = sync_rules.last_checkpoint
                /\ NewKeepaliveOp(lsn) \in Nat
                /\ NewKeepaliveOp(lsn) >= sync_rules.keepalive_op
                /\ NewKeepaliveOp(lsn) >= writer.persisted_op
                /\ NewKeepaliveOp(lsn) \in {sync_rules.keepalive_op, writer.persisted_op, 0}
<1> DEFINE l == sync_rules.last_checkpoint
           k == sync_rules.keepalive_op
           p == writer.persisted_op
<1>1. l \in Ops /\ k \in Ops /\ p \in Ops
  BY DEF BatchTypeOK, SyncRules, Writer
<1>2. l \in Int /\ k \in Int /\ p \in Int /\ 0 \in Int
  BY <1>1 DEF Ops, Null
<1>3. /\ Max({l, p, k, 0}) \in {l, p, k, 0} /\ Max({l, p, k, 0}) >= l
      /\ Max({l, p, k, 0}) >= p /\ Max({l, p, k, 0}) >= k /\ Max({l, p, k, 0}) >= 0
  <2> HIDE DEF l, k, p
  <2> QED
    BY <1>2, MaxOf4, Zenon
<1>4. /\ Max({k, p, 0}) \in {k, p, 0}
      /\ Max({k, p, 0}) >= k /\ Max({k, p, 0}) >= p /\ Max({k, p, 0}) >= 0
  <2> HIDE DEF l, k, p
  <2> QED
    BY <1>2, MaxOf3, Zenon
<1>5. CASE CanCheckpoint(lsn)
  <2>1. NewLastCheckpoint(lsn) = Max({l, p, k, 0}) /\ NewKeepaliveOp(lsn) = Null
    BY <1>5 DEF NewLastCheckpoint, NewKeepaliveOp
  <2>2. QED
    BY <1>2, <1>3, <1>5, <2>1
<1>6. CASE ~CanCheckpoint(lsn)
  <2>1. NewLastCheckpoint(lsn) = l /\ NewKeepaliveOp(lsn) = Max({k, p, 0})
    BY <1>6 DEF NewLastCheckpoint, NewKeepaliveOp
  <2>2. QED
    BY <1>2, <1>4, <1>6, <2>1
<1>7. QED
  BY <1>5, <1>6

LEMMA CommitType ==
  ASSUME BatchTypeOK, NEW lsn \in Nat, NEW createEmpty \in BOOLEAN, CommitCheckpoint(lsn, createEmpty)
  PROVE  BatchTypeOK'
<1>1. NewLastCheckpoint(lsn) \in Ops /\ NewKeepaliveOp(lsn) \in Ops
  <2>1. sync_rules.last_checkpoint \in Ops
    BY DEF BatchTypeOK, SyncRules
  <2>2. QED
    BY <2>1, CommitValues DEF Ops
<1>2. sync_rules' \in SyncRules
  <2>1. sync_rules \in SyncRules /\ lsn \in Lsns
    BY DEF BatchTypeOK, Lsns
  <2>2. CASE CreatesCheckpoint(lsn, createEmpty)
    BY <1>1, <2>1, <2>2 DEF CommitCheckpoint, SyncRules
  <2>3. CASE ~CreatesCheckpoint(lsn, createEmpty)
    BY <2>1, <2>3 DEF CommitCheckpoint
  <2>4. QED
    BY <2>2, <2>3
<1>3. writer' \in Writer /\ writer'.step # "truncating"
  BY DEF CommitCheckpoint, AfterCommit, BatchTypeOK, Writer, Steps
<1>4. committed_op' \in Ops
  BY DEF CommitCheckpoint, BatchTypeOK, Writer
<1>5. QED
  BY <1>2, <1>3, <1>4 DEF CommitCheckpoint, BatchTypeOK

LEMMA AfterCommitType ==
  ASSUME BatchTypeOK, CleanupPendingDeletes \/ AutoActivate
  PROVE  BatchTypeOK'
<1>1. CASE CleanupPendingDeletes
  <2>1. current_data' \in [Rows -> CurrentData \cup {Nothing}]
    BY <1>1 DEF CleanupPendingDeletes, BatchTypeOK
  <2>2. writer' \in Writer /\ writer'.step # "truncating"
    BY <1>1 DEF CleanupPendingDeletes, BatchTypeOK, Writer, Steps
  <2>3. QED
    BY <1>1, <2>1, <2>2 DEF CleanupPendingDeletes, BatchTypeOK, auxVars
<1>2. CASE AutoActivate
  <2>1. sync_rules' \in SyncRules
    BY <1>2 DEF AutoActivate, BatchTypeOK, SyncRules, States
  <2>2. writer' \in Writer /\ writer'.step # "truncating"
    BY <1>2 DEF AutoActivate, BatchTypeOK, Writer, Steps, Ops
  <2>3. QED
    BY <1>2, <2>1, <2>2 DEF AutoActivate, BatchTypeOK, auxVars
<1>3. QED
  BY <1>1, <1>2

LEMMA OtherStreamType ==
  ASSUME BatchTypeOK, OtherStreamFlush \/ OtherStreamChangesState
  PROVE  BatchTypeOK'
<1>1. CASE OtherStreamFlush
  BY <1>1 DEF OtherStreamFlush, BatchTypeOK, auxVars
<1>2. CASE OtherStreamChangesState
  <2>1. sync_rules' \in SyncRules
    BY <1>2 DEF OtherStreamChangesState, BatchTypeOK, SyncRules, States
  <2>2. QED
    BY <1>2, <2>1 DEF OtherStreamChangesState, BatchTypeOK, auxVars
<1>3. QED
  BY <1>1, <1>2

LEMMA CallType ==
  ASSUME BatchTypeOK, WriterCall
  PROVE  BatchTypeOK'
<1>1. CASE (\E skip \in BOOLEAN : CreateWriter(skip)) \/ CloseWriter
  BY <1>1, OpenCloseType
<1>2. CASE \/ \E record \in Record : Save(<<record>>)
           \/ \E rows \in SUBSET unavailable, records \in Seq(Record) : SaveUnavailable(rows, records)
  BY <1>2, SaveType
<1>3. CASE FlushRecord
  BY <1>3, FlushRecordType
<1>4. ASSUME NEW tables \in Seq(Tables), Truncate(tables)
      PROVE  BatchTypeOK'
  BY <1>4, TruncateType
<1>5. CASE TruncateSingle
  BY <1>5, TruncateSingleType
<1>6. CASE \/ \E t \in Tables, key \in Nat : UpdateTableProgress(t, key)
           \/ \E t \in Tables, lsn \in Nat : MarkTableSnapshotDone(t, lsn)
           \/ MarkTableSnapshotRequired
           \/ \E lsn \in Nat : MarkSnapshotDone(lsn)
  BY <1>6, BookkeepingType
<1>7. ASSUME NEW lsn \in Nat, NEW createEmpty \in BOOLEAN, CommitCheckpoint(lsn, createEmpty)
      PROVE  BatchTypeOK'
  BY <1>7, CommitType
<1>8. CASE CleanupPendingDeletes \/ AutoActivate
  BY <1>8, AfterCommitType
<1>9. CASE OtherStreamFlush \/ OtherStreamChangesState
  BY <1>9, OtherStreamType
<1>10. QED
  BY <1>1, <1>2, <1>3, <1>4, <1>5, <1>6, <1>7, <1>8, <1>9 DEF WriterCall

(***************************************************************************)
(* Every variable of the writer and its storage keeps its type. In         *)
(* particular a row whose TOASTed columns are unknown is never written to  *)
(* a bucket.                                                               *)
(***************************************************************************)
THEOREM TypeCorrect == CallSpec => []BatchTypeOK
<1>1. BatchTypeOK /\ UNCHANGED batchVars => BatchTypeOK'
  BY DEF BatchTypeOK, batchVars, storageVars, auxVars
<1>2. QED
  BY InitType, CallType, <1>1, PTL DEF CallSpec

-----------------------------------------------------------------------------
(***************************************************************************)
(* Operations are accounted for. The invariant is not inductive: a writer  *)
(* that closes takes its persisted_op with it, so what the last commit     *)
(* covered must be in storage by then; and a record that is flushed        *)
(* replaces persisted_op, so persisted_op must not be ahead of the         *)
(* sequence.                                                               *)
(***************************************************************************)
\* What the storage, or the loss that orphan_op records, holds of an op id.
Kept(op) ==
  \/ op <= sync_rules.last_checkpoint
  \/ op <= sync_rules.keepalive_op
  \/ op <= orphan_op

Accounting ==
  /\ \A op \in bucket_data : op.op_id <= op_id_sequence
  /\ \A op \in bucket_data : Kept(op.op_id) \/ op.op_id <= writer.persisted_op
  /\ writer.persisted_op <= op_id_sequence
  /\ sync_rules.keepalive_op <= op_id_sequence
  /\ Kept(committed_op)
  /\ writer.step \in {"cleanup", "activate"} => writer.persisted_op = committed_op
  /\ writer.step = "closed" => writer.persisted_op = Null

LEMMA Numbers ==
  ASSUME BatchTypeOK
  PROVE  /\ sync_rules.last_checkpoint \in Int /\ sync_rules.keepalive_op \in Int
         /\ writer.persisted_op \in Int /\ committed_op \in Int
         /\ sync_rules.last_checkpoint >= Null /\ sync_rules.keepalive_op >= Null
         /\ writer.persisted_op >= Null /\ committed_op >= Null
         /\ orphan_op \in Nat /\ op_id_sequence \in Nat
         /\ \A op \in bucket_data : op.op_id \in Nat
BY DEF BatchTypeOK, SyncRules, Writer, Ops, Null, BucketOp

LEMMA AccountingInit == BatchInit => Accounting
BY DEF BatchInit, Accounting, Kept, ClosedWriter, Null

\* A step that writes no operation, moves no op id back, and leaves the writer's op ids alone.
LEMMA AccountingQuiet ==
  ASSUME BatchTypeOK, BatchTypeOK', Accounting,
         bucket_data' = bucket_data, op_id_sequence' >= op_id_sequence, auxVars' = auxVars,
         sync_rules'.last_checkpoint = sync_rules.last_checkpoint,
         sync_rules'.keepalive_op = sync_rules.keepalive_op,
         writer'.persisted_op = writer.persisted_op,
         writer'.step \in {"cleanup", "activate"} => writer.step \in {"cleanup", "activate"},
         writer'.step = "closed" => writer.step = "closed"
  PROVE  Accounting'
BY Numbers DEF Accounting, Kept, auxVars, BatchTypeOK

LEMMA AccountingOpenClose ==
  ASSUME BatchTypeOK, Accounting, (\E skip \in BOOLEAN : CreateWriter(skip)) \/ CloseWriter
  PROVE  Accounting'
<1>1. ASSUME NEW skip \in BOOLEAN, CreateWriter(skip)
      PROVE  Accounting'
  <2>1. writer'.persisted_op \in {sync_rules.keepalive_op, Null} /\ writer'.step = "ready"
    BY <1>1 DEF CreateWriter, ClosedWriter
  <2>2. writer'.persisted_op <= op_id_sequence
    BY <2>1, Numbers DEF Accounting, Null
  <2>3. Kept(writer'.persisted_op)
    BY <2>1, Numbers DEF Kept
  <2>4. /\ UNCHANGED <<sync_rules, bucket_data, op_id_sequence, orphan_op>>
        /\ committed_op' = writer'.persisted_op /\ writer.step = "closed"
    BY <1>1 DEF CreateWriter, storageVars
  <2>5. ASSUME NEW op \in bucket_data
        PROVE  Kept(op.op_id)
    BY <2>4, Numbers DEF Accounting, Kept, Null
  <2>6. QED
    BY <2>1, <2>2, <2>3, <2>4, <2>5, Numbers DEF Accounting, Kept
<1>2. CASE CloseWriter
  <2>1. /\ writer'.persisted_op = Null /\ committed_op' = Null /\ writer'.step = "closed"
        /\ UNCHANGED storageVars
    BY <1>2 DEF CloseWriter, ClosedWriter
  <2>2. /\ Max({orphan_op, writer.persisted_op}) >= orphan_op
        /\ Max({orphan_op, writer.persisted_op}) >= writer.persisted_op
        /\ Max({orphan_op, writer.persisted_op}) \in {orphan_op, writer.persisted_op}
    <3>1. orphan_op \in Int /\ writer.persisted_op \in Int
      BY Numbers
    <3>2. QED
      BY <3>1, MaxOf2, Zenon
  <2>3. orphan_op' \in Int /\ orphan_op' >= orphan_op
    BY <1>2, <2>2, Numbers DEF CloseWriter
  <2>4. writer.persisted_op > committed_op => writer.persisted_op <= orphan_op'
    BY <1>2, <2>2 DEF CloseWriter
  <2>5. ASSUME NEW op \in bucket_data
        PROVE  (Kept(op.op_id))'
    BY <2>1, <2>3, <2>4, Numbers DEF Accounting, Kept, storageVars
  <2>6. QED
    BY <2>1, <2>3, <2>5, Numbers DEF Accounting, Kept, storageVars, Null
<1>3. QED
  BY <1>1, <1>2

LEMMA AccountingFlush ==
  ASSUME BatchTypeOK, Accounting, FlushRecord
  PROVE  Accounting'
<1> DEFINE record == Head(writer.batch)
           id == IF ~IsSkipped(record) /\ UsesOpId(record) THEN op_id_sequence + 1 ELSE op_id_sequence
<1>1. id \in Nat /\ id >= op_id_sequence
  BY Numbers
<1>2. /\ op_id_sequence' = id /\ writer'.persisted_op = id /\ writer'.step \in {"flushing", "ready"}
      /\ UNCHANGED <<sync_rules, auxVars>>
  BY DEF FlushRecord, BatchTypeOK, Writer
<1>3. ASSUME NEW op \in bucket_data'
      PROVE  op \in bucket_data \/ op.op_id = id
  BY DEF FlushRecord, BucketOps
<1>4. ASSUME NEW op \in bucket_data'
      PROVE  op.op_id <= id
  BY <1>1, <1>3, <1>4, Numbers DEF Accounting
<1>5. QED
  <2> HIDE DEF id
  <2> QED
    BY <1>1, <1>2, <1>4, Numbers DEF Accounting, Kept, auxVars

LEMMA AccountingTruncate ==
  ASSUME BatchTypeOK, Accounting, TruncateSingle
  PROVE  Accounting'
<1> DEFINE rows == TruncateRows(Head(writer.truncate))
           removed == {p \in rows \X Buckets : p[2] \in current_data[p[1]].buckets}
           id == IF removed # {} THEN op_id_sequence + 1 ELSE op_id_sequence
           isLast == Len(writer.truncate) = 1
<1>1. id \in Nat /\ id >= op_id_sequence
  BY Numbers
<1>2. /\ op_id_sequence' = id /\ writer'.step \in {"ready", "truncating"}
      /\ writer'.persisted_op = IF isLast /\ rows # {} /\ id > 0 THEN id ELSE writer.persisted_op
      /\ orphan_op' = IF isLast THEN orphan_op ELSE Max({orphan_op, id})
      /\ UNCHANGED <<sync_rules, committed_op>>
  BY DEF TruncateSingle, BatchTypeOK, Writer
<1>3. ASSUME NEW op \in bucket_data'
      PROVE  op \in bucket_data \/ (removed # {} /\ op.op_id = id)
  BY DEF TruncateSingle
<1>4. removed # {} => rows # {} /\ id > 0
  BY Numbers
<1>5. orphan_op' \in Nat /\ orphan_op' >= orphan_op /\ (~isLast => orphan_op' >= id)
  <2> HIDE DEF id
  <2>1. orphan_op \in Int /\ id \in Int
    BY <1>1, Numbers
  <2>2. /\ Max({orphan_op, id}) \in {orphan_op, id}
        /\ Max({orphan_op, id}) >= orphan_op /\ Max({orphan_op, id}) >= id
    BY <2>1, MaxOf2, Zenon
  <2>3. QED
    BY <1>1, <1>2, <2>1, <2>2, Numbers
<1>6. ASSUME NEW op \in bucket_data'
      PROVE  op.op_id <= id /\ ((Kept(op.op_id))' \/ op.op_id <= writer'.persisted_op)
  <2>1. CASE op \in bucket_data
    <3> HIDE DEF id, rows, removed, isLast
    <3>1. op.op_id <= id
      BY <1>1, <2>1, Numbers DEF Accounting
    <3>2. writer'.persisted_op >= writer.persisted_op /\ writer'.persisted_op \in Int
      BY <1>1, <1>2, Numbers DEF Accounting
    <3>3. QED
      BY <1>2, <1>5, <2>1, <3>1, <3>2, Numbers DEF Accounting, Kept
  <2>2. CASE removed # {} /\ op.op_id = id
    <3>1. rows # {} /\ id > 0
      BY <1>4, <2>2
    <3> HIDE DEF id, rows, removed, isLast
    <3>2. QED
      BY <1>1, <1>2, <1>5, <2>2, <3>1 DEF Kept
  <2>3. QED
    BY <1>3, <1>6, <2>1, <2>2
<1>7. QED
  <2> HIDE DEF id, rows, removed, isLast
  <2>1. writer'.persisted_op <= id /\ sync_rules'.keepalive_op <= id
    BY <1>1, <1>2, Numbers DEF Accounting
  <2>2. (Kept(committed_op))'
    BY <1>2, <1>5, Numbers DEF Accounting, Kept
  <2>3. \A op \in bucket_data' : op.op_id <= id /\ ((Kept(op.op_id))' \/ op.op_id <= writer'.persisted_op)
    BY <1>6
  <2>4. QED
    BY <1>2, <2>1, <2>2, <2>3 DEF Accounting

LEMMA AccountingCommit ==
  ASSUME BatchTypeOK, Accounting, NEW lsn \in Nat, NEW createEmpty \in BOOLEAN,
         CommitCheckpoint(lsn, createEmpty)
  PROVE  Accounting'
<1>1. /\ sync_rules'.last_checkpoint = NewLastCheckpoint(lsn)
      /\ sync_rules'.keepalive_op = NewKeepaliveOp(lsn)
  <2>1. CASE CreatesCheckpoint(lsn, createEmpty)
    BY <2>1 DEF CommitCheckpoint, BatchTypeOK, SyncRules
  <2>2. CASE ~CreatesCheckpoint(lsn, createEmpty)
    BY <2>2 DEF CommitCheckpoint, CreatesCheckpoint
  <2>3. QED
    BY <2>1, <2>2
<1>2. /\ UNCHANGED <<bucket_data, op_id_sequence, orphan_op>> /\ committed_op' = writer.persisted_op
      /\ writer'.persisted_op = writer.persisted_op /\ writer'.step # "closed"
  BY DEF CommitCheckpoint, AfterCommit, BatchTypeOK, Writer
<1>3. ASSUME NEW n \in Int, Kept(n) \/ n <= writer.persisted_op
      PROVE  (Kept(n))'
  BY <1>1, <1>2, <1>3, CommitValues, Numbers DEF Kept, Null
<1>4. sync_rules'.keepalive_op <= op_id_sequence
  BY <1>1, CommitValues, Numbers DEF Accounting, Null
<1>5. QED
  BY <1>2, <1>3, <1>4, Numbers DEF Accounting

LEMMA AccountingActivate ==
  ASSUME BatchTypeOK, Accounting, AutoActivate
  PROVE  Accounting'
<1>1. /\ UNCHANGED <<bucket_data, op_id_sequence, auxVars>>
      /\ sync_rules'.last_checkpoint = sync_rules.last_checkpoint
      /\ sync_rules'.keepalive_op = sync_rules.keepalive_op
      /\ writer'.persisted_op = Null /\ writer'.step = "ready"
      /\ writer.persisted_op = committed_op
  BY DEF AutoActivate, BatchTypeOK, SyncRules, Writer, Accounting
<1>2. ASSUME NEW op \in bucket_data
      PROVE  Kept(op.op_id)
  BY <1>1, Numbers DEF Accounting, Kept
<1>3. QED
  BY <1>1, <1>2, Numbers DEF Accounting, Kept, auxVars, Null

LEMMA AccountingNext ==
  ASSUME BatchTypeOK, Accounting, WriterCall
  PROVE  Accounting'
<1> USE DEF BatchTypeOK, SyncRules, Writer
<1>0. BatchTypeOK'
  BY CallType
<1>1. CASE (\E skip \in BOOLEAN : CreateWriter(skip)) \/ CloseWriter
  BY <1>1, AccountingOpenClose
<1>2. ASSUME NEW record \in Record, Save(<<record>>)
      PROVE  Accounting'
  BY <1>0, <1>2, AccountingQuiet, Numbers DEF Save, storageVars, auxVars
<1>3. ASSUME NEW rows, NEW records, SaveUnavailable(rows, records)
      PROVE  Accounting'
  BY <1>0, <1>3, AccountingQuiet, Numbers DEF SaveUnavailable, storageVars, auxVars
<1>4. CASE FlushRecord
  BY <1>4, AccountingFlush
<1>5. ASSUME NEW tables, Truncate(tables)
      PROVE  Accounting'
  BY <1>0, <1>5, AccountingQuiet, Numbers DEF Truncate, storageVars, auxVars
<1>6. CASE TruncateSingle
  BY <1>6, AccountingTruncate
<1>7. ASSUME NEW t, NEW key, UpdateTableProgress(t, key)
      PROVE  Accounting'
  BY <1>0, <1>7, AccountingQuiet, Numbers DEF UpdateTableProgress, auxVars
<1>8. ASSUME NEW t, NEW lsn, MarkTableSnapshotDone(t, lsn)
      PROVE  Accounting'
  BY <1>0, <1>8, AccountingQuiet, Numbers DEF MarkTableSnapshotDone, auxVars
<1>9. CASE MarkTableSnapshotRequired
  BY <1>0, <1>9, AccountingQuiet, Numbers DEF MarkTableSnapshotRequired, auxVars
<1>10. ASSUME NEW lsn, MarkSnapshotDone(lsn)
       PROVE  Accounting'
  BY <1>0, <1>10, AccountingQuiet, Numbers DEF MarkSnapshotDone, auxVars
<1>11. ASSUME NEW lsn \in Nat, NEW createEmpty \in BOOLEAN, CommitCheckpoint(lsn, createEmpty)
       PROVE  Accounting'
  BY <1>11, AccountingCommit
<1>12. CASE CleanupPendingDeletes
  BY <1>0, <1>12, AccountingQuiet, Numbers DEF CleanupPendingDeletes, auxVars
<1>13. CASE AutoActivate
  BY <1>13, AccountingActivate
<1>14. CASE OtherStreamFlush
  BY <1>0, <1>14, AccountingQuiet, Numbers DEF OtherStreamFlush, auxVars
<1>15. CASE OtherStreamChangesState
  BY <1>0, <1>15, AccountingQuiet, Numbers DEF OtherStreamChangesState, auxVars
<1>16. QED
  <2> HIDE DEF BatchTypeOK, SyncRules, Writer
  <2> QED
    BY <1>1, <1>2, <1>3, <1>4, <1>5, <1>6, <1>7, <1>8, <1>9, <1>10, <1>11, <1>12, <1>13, <1>14, <1>15, ZenonT(60) DEF WriterCall

LEMMA AccountingImplies ==
  ASSUME BatchTypeOK, Accounting
  PROVE  AccountedFor
<1>1. SUFFICES ASSUME NEW op \in bucket_data
               PROVE  op.op_id <= Max({sync_rules.last_checkpoint, sync_rules.keepalive_op,
                                       writer.persisted_op, orphan_op})
  BY DEF AccountedFor
<1> DEFINE l == sync_rules.last_checkpoint
           k == sync_rules.keepalive_op
           p == writer.persisted_op
<1>2. l \in Int /\ k \in Int /\ p \in Int /\ orphan_op \in Int /\ op.op_id \in Int
  BY Numbers
<1>3. op.op_id <= l \/ op.op_id <= k \/ op.op_id <= p \/ op.op_id <= orphan_op
  BY DEF Accounting, Kept
<1>4. /\ Max({l, k, p, orphan_op}) >= l /\ Max({l, k, p, orphan_op}) >= k
      /\ Max({l, k, p, orphan_op}) >= p /\ Max({l, k, p, orphan_op}) >= orphan_op
      /\ Max({l, k, p, orphan_op}) \in {l, k, p, orphan_op}
  <2> HIDE DEF l, k, p
  <2> QED
    BY <1>2, MaxOf4, Zenon
<1>5. QED
  <2> DEFINE m == Max({l, k, p, orphan_op})
  <2>1. m \in Int /\ m >= l /\ m >= k /\ m >= p /\ m >= orphan_op
    BY <1>2, <1>4
  <2> HIDE DEF m
  <2>2. op.op_id <= m
    BY <1>2, <1>3, <2>1
  <2>3. QED
    BY <2>2 DEF m

(***************************************************************************)
(* Every operation in storage is in the last checkpoint, or will be in the *)
(* next one, unless its writer died before a commit or truncated a further *)
(* table: commit() never loses what a blocked commit left behind.          *)
(***************************************************************************)
THEOREM OperationsAccountedFor == CallSpec => []AccountedFor
<1>1. BatchTypeOK /\ Accounting /\ UNCHANGED batchVars => Accounting'
  BY DEF Accounting, Kept, batchVars, storageVars, auxVars
<1>2. BatchTypeOK /\ Accounting /\ [WriterCall]_batchVars => Accounting'
  BY <1>1, AccountingNext
<1>3. BatchTypeOK /\ Accounting => AccountedFor
  BY AccountingImplies
<1>4. QED
  BY <1>2, <1>3, AccountingInit, TypeCorrect, PTL DEF CallSpec

-----------------------------------------------------------------------------
(***************************************************************************)
(* A serving stream has a checkpoint. Activation happens two transactions  *)
(* after the checkpoint, so the invariant says what holds between them.    *)
(***************************************************************************)
Checkpointed == sync_rules.last_checkpoint # Null /\ sync_rules.last_checkpoint_lsn # Null

Activation ==
  /\ sync_rules.state \in {"ACTIVE", "ERRORED"} => Checkpointed
  /\ writer.step \in {"cleanup", "activate"} => Checkpointed
  /\ sync_rules.last_checkpoint # Null => sync_rules.last_checkpoint_lsn # Null

LEMMA ActivationQuiet ==
  ASSUME Activation,
         sync_rules'.last_checkpoint = sync_rules.last_checkpoint,
         sync_rules'.last_checkpoint_lsn = sync_rules.last_checkpoint_lsn,
         sync_rules'.state \in {"ACTIVE", "ERRORED"} =>
           sync_rules.state \in {"ACTIVE", "ERRORED"} \/ writer.step = "activate",
         writer'.step \in {"cleanup", "activate"} => writer.step \in {"cleanup", "activate"}
  PROVE  Activation'
BY DEF Activation, Checkpointed

LEMMA ActivationCommit ==
  ASSUME BatchTypeOK, Activation, NEW lsn \in Nat, NEW createEmpty \in BOOLEAN,
         CommitCheckpoint(lsn, createEmpty)
  PROVE  Activation'
<1>1. writer'.step = AfterCommit(lsn, createEmpty)
  BY DEF CommitCheckpoint, BatchTypeOK, Writer
<1>2. CASE ~CreatesCheckpoint(lsn, createEmpty)
  <2>1. sync_rules' = sync_rules /\ sync_rules.last_checkpoint = NewLastCheckpoint(lsn)
    BY <1>2 DEF CommitCheckpoint, CreatesCheckpoint
  <2>2. CanCheckpoint(lsn) => sync_rules.last_checkpoint # Null
    BY <2>1, CommitValues DEF Null
  <2>3. QED
    BY <1>1, <2>1, <2>2 DEF Activation, Checkpointed, AfterCommit
<1>3. CASE CreatesCheckpoint(lsn, createEmpty) /\ CanCheckpoint(lsn)
  <2>1. sync_rules'.last_checkpoint = NewLastCheckpoint(lsn) /\ sync_rules'.last_checkpoint_lsn = lsn
    BY <1>3 DEF CommitCheckpoint, BatchTypeOK, SyncRules
  <2>2. (Checkpointed)'
    BY <1>3, <2>1, CommitValues DEF Checkpointed, Null
  <2>3. QED
    BY <2>2 DEF Activation, Checkpointed
<1>4. CASE CreatesCheckpoint(lsn, createEmpty) /\ ~CanCheckpoint(lsn)
  <2>1. /\ sync_rules'.last_checkpoint = sync_rules.last_checkpoint
        /\ sync_rules'.last_checkpoint_lsn = sync_rules.last_checkpoint_lsn
        /\ sync_rules'.state = sync_rules.state
    BY <1>4, CommitValues DEF CommitCheckpoint, BatchTypeOK, SyncRules
  <2>2. writer'.step = "ready"
    BY <1>1, <1>4 DEF AfterCommit
  <2>3. QED
    BY <2>1, <2>2, ActivationQuiet
<1>5. QED
  BY <1>2, <1>3, <1>4

LEMMA ActivationNext ==
  ASSUME BatchTypeOK, Activation, WriterCall
  PROVE  Activation'
<1>1. ASSUME NEW lsn \in Nat, NEW createEmpty \in BOOLEAN, CommitCheckpoint(lsn, createEmpty)
      PROVE  Activation'
  BY <1>1, ActivationCommit
<1>2. CASE \/ \E skip \in BOOLEAN : CreateWriter(skip)
           \/ CloseWriter
  <2>1. ASSUME NEW skip \in BOOLEAN, CreateWriter(skip)
        PROVE  writer'.step = "ready" /\ sync_rules' = sync_rules
    BY <2>1 DEF CreateWriter, ClosedWriter, storageVars
  <2>2. CloseWriter => writer'.step = "closed" /\ sync_rules' = sync_rules
    BY DEF CloseWriter, ClosedWriter, storageVars
  <2>3. QED
    BY <1>2, <2>1, <2>2, ActivationQuiet
<1>3. CASE \/ \E record \in Record : Save(<<record>>)
           \/ \E rows \in SUBSET unavailable, records \in Seq(Record) : SaveUnavailable(rows, records)
           \/ \E tables \in Seq(Tables) : Truncate(tables)
  BY <1>3, ActivationQuiet DEF Save, SaveUnavailable, Truncate, storageVars, BatchTypeOK, Writer
<1>4. CASE FlushRecord \/ TruncateSingle
  <2>1. writer'.step \in {"ready", "flushing", "truncating"} /\ sync_rules' = sync_rules
    BY <1>4 DEF FlushRecord, TruncateSingle, BatchTypeOK, Writer
  <2>2. QED
    BY <2>1, ActivationQuiet
<1>5. CASE \/ \E t \in Tables, key \in Nat : UpdateTableProgress(t, key)
           \/ \E t \in Tables, lsn \in Nat : MarkTableSnapshotDone(t, lsn)
           \/ MarkTableSnapshotRequired
           \/ \E lsn \in Nat : MarkSnapshotDone(lsn)
  BY <1>5, ActivationQuiet
     DEF UpdateTableProgress, MarkTableSnapshotDone, MarkTableSnapshotRequired, MarkSnapshotDone,
         BatchTypeOK, SyncRules
<1>6. CASE CleanupPendingDeletes
  BY <1>6, ActivationQuiet DEF CleanupPendingDeletes, BatchTypeOK, Writer
<1>7. CASE AutoActivate
  BY <1>7, ActivationQuiet DEF AutoActivate, BatchTypeOK, SyncRules, Writer
<1>8. CASE OtherStreamFlush \/ OtherStreamChangesState
  BY <1>8, ActivationQuiet DEF OtherStreamFlush, OtherStreamChangesState, BatchTypeOK, SyncRules
<1>9. QED
  BY <1>1, <1>2, <1>3, <1>4, <1>5, <1>6, <1>7, <1>8 DEF WriterCall

(***************************************************************************)
(* A stream that clients can sync has a checkpoint with a position,        *)
(* however often its writer was restarted before it was activated.         *)
(***************************************************************************)
THEOREM ServingHasCheckpoint == CallSpec => []ActiveHasCheckpoint
<1>1. BatchInit => Activation
  BY DEF BatchInit, Activation, Checkpointed, ClosedWriter
<1>2. BatchTypeOK /\ Activation /\ [WriterCall]_batchVars => Activation'
  <2>1. Activation /\ UNCHANGED batchVars => Activation'
    BY DEF Activation, Checkpointed, batchVars, storageVars
  <2>2. QED
    BY <2>1, ActivationNext
<1>3. Activation => ActiveHasCheckpoint
  BY DEF Activation, Checkpointed, ActiveHasCheckpoint
<1>4. QED
  BY <1>1, <1>2, <1>3, TypeCorrect, PTL DEF CallSpec

-----------------------------------------------------------------------------
(***************************************************************************)
(* Checkpoints move forward.                                               *)
(***************************************************************************)
Forward ==
  /\ sync_rules'.last_checkpoint >= sync_rules.last_checkpoint
  /\ sync_rules'.last_checkpoint_lsn >= sync_rules.last_checkpoint_lsn
  /\ sync_rules'.last_checkpoint_lsn # sync_rules.last_checkpoint_lsn =>
       sync_rules'.last_checkpoint >= sync_rules.keepalive_op

LEMMA ForwardQuiet ==
  ASSUME BatchTypeOK,
         sync_rules'.last_checkpoint = sync_rules.last_checkpoint,
         sync_rules'.last_checkpoint_lsn = sync_rules.last_checkpoint_lsn
  PROVE  Forward
BY DEF Forward, BatchTypeOK, SyncRules, Ops, Lsns, Null

LEMMA ForwardCommit ==
  ASSUME BatchTypeOK, NEW lsn \in Nat, NEW createEmpty \in BOOLEAN, CommitCheckpoint(lsn, createEmpty)
  PROVE  Forward
<1>1. CASE CreatesCheckpoint(lsn, createEmpty) /\ CanCheckpoint(lsn)
  <2>1. sync_rules'.last_checkpoint = NewLastCheckpoint(lsn) /\ sync_rules'.last_checkpoint_lsn = lsn
    BY <1>1 DEF CommitCheckpoint, BatchTypeOK, SyncRules
  <2>2. lsn >= sync_rules.last_checkpoint_lsn
    BY <1>1 DEF CanCheckpoint, BatchTypeOK, SyncRules, Lsns, Null
  <2>3. QED
    BY <1>1, <2>1, <2>2, CommitValues DEF Forward
<1>2. CASE ~(CreatesCheckpoint(lsn, createEmpty) /\ CanCheckpoint(lsn))
  <2>1. /\ sync_rules'.last_checkpoint = sync_rules.last_checkpoint
        /\ sync_rules'.last_checkpoint_lsn = sync_rules.last_checkpoint_lsn
    BY <1>2, CommitValues DEF CommitCheckpoint, BatchTypeOK, SyncRules
  <2>2. QED
    BY <2>1, ForwardQuiet
<1>3. QED
  BY <1>1, <1>2

LEMMA ForwardNext ==
  ASSUME BatchTypeOK, WriterCall
  PROVE  Forward
<1>1. ASSUME NEW lsn \in Nat, NEW createEmpty \in BOOLEAN, CommitCheckpoint(lsn, createEmpty)
      PROVE  Forward
  BY <1>1, ForwardCommit
<1>2. CASE \/ \E skip \in BOOLEAN : CreateWriter(skip)
           \/ CloseWriter
           \/ \E record \in Record : Save(<<record>>)
           \/ \E rows \in SUBSET unavailable, records \in Seq(Record) : SaveUnavailable(rows, records)
           \/ \E tables \in Seq(Tables) : Truncate(tables)
           \/ FlushRecord \/ TruncateSingle \/ CleanupPendingDeletes \/ OtherStreamFlush
           \/ \E t \in Tables, key \in Nat : UpdateTableProgress(t, key)
  BY <1>2, ForwardQuiet
     DEF CreateWriter, CloseWriter, Save, SaveUnavailable, Truncate, FlushRecord, TruncateSingle,
         CleanupPendingDeletes, OtherStreamFlush, UpdateTableProgress, storageVars
<1>3. CASE \/ \E t \in Tables, lsn \in Nat : MarkTableSnapshotDone(t, lsn)
           \/ MarkTableSnapshotRequired
           \/ \E lsn \in Nat : MarkSnapshotDone(lsn)
           \/ AutoActivate \/ OtherStreamChangesState
  BY <1>3, ForwardQuiet
     DEF MarkTableSnapshotDone, MarkTableSnapshotRequired, MarkSnapshotDone, AutoActivate,
         OtherStreamChangesState, BatchTypeOK, SyncRules
<1>4. QED
  BY <1>1, <1>2, <1>3 DEF WriterCall

(***************************************************************************)
(* No step moves a checkpoint or its position back, whatever positions a   *)
(* connector names, and a position that moves takes along the operations   *)
(* that blocked commits left in keepalive_op.                              *)
(***************************************************************************)
THEOREM CheckpointsForward == CallSpec => CheckpointsMoveForward
<1>1. BatchTypeOK /\ [WriterCall]_batchVars => [Forward]_batchVars
  BY ForwardNext
<1>2. QED
  BY <1>1, TypeCorrect, PTL DEF CallSpec, CheckpointsMoveForward, Forward

-----------------------------------------------------------------------------
(* The replication job and its source *)

SourceState == [Rows -> Complete \cup {Nothing}]
Change == Record \cup [tag : {"truncate"}, tables : Seq(Tables)]
StreamType ==
  [phase : Phases, key : Nat, position : Nat, change : Nat, skipKeepalive : BOOLEAN,
   committed : Nat, resnapshot : Tables \cup {Nothing}]

(***************************************************************************)
(* The inductive invariant. The first part types the source; Places says   *)
(* that the key and the table of a snapshot, and the table of a            *)
(* resnapshot, are only kept where they are used, so that the calls that   *)
(* use them name a table. The unavailable rows are finite although Rows    *)
(* need not be, or the job could not list them.                            *)
(***************************************************************************)
SourceTypes ==
  /\ history \in Seq(SourceState) /\ history # << >>
  /\ wal \in Seq(Seq(Change))
  /\ stream \in StreamType
  /\ slot \in Nat
  /\ observed \in Nat

Places ==
  /\ stream.key # 0 => stream.phase = "snapshot" /\ IncompleteTables # {}
  /\ stream.resnapshot # Nothing => stream.phase = "streaming"
  /\ IsFiniteSet(unavailable)

WalInv == SourceTypes /\ WalTypeOK /\ Places

-----------------------------------------------------------------------------
(***************************************************************************)
(* The source: every change is one the writer takes, and leads to rows     *)
(* that a table can hold.                                                  *)
(***************************************************************************)
LEMMA InsertsType ==
  ASSUME NEW rows \in SourceState, NEW c \in Inserts(rows)
  PROVE  c.change \in Change /\ c.rows \in SourceState
BY DEF Inserts, Change, Record, SourceState

LEMMA UpdatesType ==
  ASSUME NEW rows \in SourceState, NEW c \in Updates(rows)
  PROVE  c.change \in Change /\ c.rows \in SourceState
<1>1. PICK u \in Rows \X Rows, new \in Complete :
        /\ rows[u[1]] # Nothing
        /\ c = [change |-> [tag |-> "update", before |-> u[1], after |-> u[2], data |-> Sent(rows[u[1]], new)],
                rows |-> [rows EXCEPT ![u[1]] = Nothing, ![u[2]] = new]]
  BY DEF Updates
<1>2. Sent(rows[u[1]], new) \in Data
  BY DEF Sent, Data, Complete
<1>3. [tag |-> "update", before |-> u[1], after |-> u[2], data |-> Sent(rows[u[1]], new)] \in Record
  BY <1>2 DEF Record
<1>4. [rows EXCEPT ![u[1]] = Nothing, ![u[2]] = new] \in SourceState
  BY DEF SourceState
<1>5. QED
  BY <1>1, <1>3, <1>4 DEF Change

LEMMA DeletesType ==
  ASSUME NEW rows \in SourceState, NEW c \in Deletes(rows)
  PROVE  c.change \in Change /\ c.rows \in SourceState
BY DEF Deletes, Change, Record, SourceState

LEMMA TruncatesType ==
  ASSUME NEW rows \in SourceState, NEW c \in Truncates(rows)
  PROVE  c.change \in Change /\ c.rows \in SourceState
<1>1. PICK tables \in {<<t>> : t \in Tables} \cup {p \in Tables \X Tables : p[1] # p[2]} :
        c = [change |-> [tag |-> "truncate", tables |-> tables],
             rows |-> [r \in Rows |-> IF \E i \in DOMAIN tables : tables[i] = TableOf[r] THEN Nothing ELSE rows[r]]]
  BY DEF Truncates
<1>2. tables \in {<<t>> : t \in Tables} \cup (Tables \X Tables)
  OBVIOUS
<1>3. tables \in Seq(Tables)
  BY <1>2, TruncatedType, Zenon
<1>4. QED
  BY <1>1, <1>3 DEF Change, SourceState

LEMMA ChangesType ==
  ASSUME NEW rows \in SourceState, NEW c \in Changes(rows)
  PROVE  c.change \in Change /\ c.rows \in SourceState
BY InsertsType, UpdatesType, DeletesType, TruncatesType, Zenon DEF Changes

LEMMA MessageType == Message \in Seq(Change)
BY DEF Message

\* What is already in the WAL stays where it is.
LEMMA Grows ==
  ASSUME SourceTypes, WalTypeOK, NEW rows \in SourceState, NEW entry \in Seq(Change),
         history' = Append(history, rows), wal' = Append(wal, entry)
  PROVE  /\ history' \in Seq(SourceState) /\ history' # << >> /\ wal' \in Seq(Seq(Change))
         /\ Lsn \in Nat /\ Lsn' = Lsn + 1 /\ Len(wal)' = Len(wal) + 1
         /\ \A n \in 1..Len(wal) : wal'[n] = wal[n]
BY DEF SourceTypes, WalTypeOK, Lsn

LEMMA Fields ==
  ASSUME SourceTypes
  PROVE  /\ stream.phase \in Phases /\ stream.key \in Nat /\ stream.position \in Nat /\ stream.change \in Nat
         /\ stream.skipKeepalive \in BOOLEAN /\ stream.committed \in Nat
         /\ stream.resnapshot \in Tables \cup {Nothing}
         /\ Lsn \in Nat /\ Lsn > 0 /\ slot \in Nat /\ observed \in Nat
         /\ SourceRows \in SourceState
BY DEF SourceTypes, StreamType, Lsn, SourceRows

\* The job handles an entry that exists.
LEMMA EntryType ==
  ASSUME SourceTypes, WalTypeOK, Received
  PROVE  /\ stream.position \in 1..Len(wal) /\ Entry \in Seq(Change)
         /\ EntryLsn \in 1..Lsn
<1>1. stream.position \in 1..Len(wal)
  BY Fields DEF WalTypeOK, Received, SourceTypes
<1>2. QED
  BY <1>1, Fields DEF SourceTypes, Entry, EntryLsn, Received

LEMMA SnapshotTableType ==
  ASSUME IncompleteTables # {}
  PROVE  SnapshotTable \in IncompleteTables /\ SnapshotTable \in Tables
<1>1. \E t \in Tables : t \in IncompleteTables
  BY DEF IncompleteTables
<1>2. QED
  BY <1>1 DEF SnapshotTable

LEMMA SnapshotRecordType ==
  ASSUME SourceTypes, NEW r \in Rows, SourceRows[r] # Nothing
  PROVE  SnapshotRecord(r) \in Record
<1>1. SourceRows[r] \in Complete
  BY Fields DEF SourceState
<1>2. QED
  BY <1>1 DEF SnapshotRecord, Record

-----------------------------------------------------------------------------
(***************************************************************************)
(* Every step of the job is a call that the writer's interface allows.     *)
(***************************************************************************)
LEMMA SnapshotCalls ==
  ASSUME WalInv, \/ StartSnapshot \/ SnapshotChunk \/ SnapshotProgress \/ SnapshotTableDone
                 \/ SnapshotAllDone \/ SnapshotCommit \/ SnapshotEnd
  PROVE  WriterCall
<1> USE Fields DEF WalInv
<1>1. CASE StartSnapshot
  BY <1>1 DEF StartSnapshot, WriterCall
<1>2. CASE SnapshotChunk
  <2>1. PICK r \in RemainingRows : Save(<<SnapshotRecord(r)>>)
    BY <1>2 DEF SnapshotChunk
  <2>2. SnapshotRecord(r) \in Record
    BY SnapshotRecordType DEF RemainingRows
  <2>3. QED
    BY <2>1, <2>2 DEF WriterCall
<1>3. CASE SnapshotProgress
  <2>1. SnapshotTable \in Tables /\ stream.key \in Nat
    BY <1>3, SnapshotTableType DEF SnapshotProgress, Places
  <2>2. QED
    BY <1>3, <2>1 DEF SnapshotProgress, WriterCall
<1>4. CASE SnapshotTableDone
  <2>1. SnapshotTable \in Tables
    BY <1>4, SnapshotTableType DEF SnapshotTableDone
  <2>2. QED
    BY <1>4, <2>1 DEF SnapshotTableDone, WriterCall
<1>5. CASE SnapshotAllDone
  BY <1>5 DEF SnapshotAllDone, WriterCall
<1>6. CASE SnapshotCommit
  BY <1>6 DEF SnapshotCommit, ZeroLsn, WriterCall
<1>7. CASE SnapshotEnd
  BY <1>7 DEF SnapshotEnd, WriterCall
<1>8. QED
  BY <1>1, <1>2, <1>3, <1>4, <1>5, <1>6, <1>7

\* The rows that are read again are listed: there are finitely many.
LEMMA ResnapshotCalls ==
  ASSUME WalInv, BatchTypeOK, Resnapshot
  PROVE  /\ \E rows \in SUBSET unavailable, records \in Seq(Record) : SaveUnavailable(rows, records)
         /\ \E t \in Tables : stream' = [stream EXCEPT !.resnapshot = t]
         /\ stream.phase = "streaming" /\ observed' = Lsn /\ UNCHANGED <<sourceVars, slot, crashes>>
<1>1. PICK t \in {TableOf[r] : r \in unavailable} :
        LET rows == {r \in unavailable : TableOf[r] = t}
            found == {r \in rows : SourceRows[r] # Nothing}
            order == CHOOSE s \in [1..Cardinality(found) -> found] : {s[i] : i \in DOMAIN s} = found
        IN /\ SaveUnavailable(rows, [i \in DOMAIN order |-> SnapshotRecord(order[i])])
           /\ stream' = [stream EXCEPT !.resnapshot = t]
  BY DEF Resnapshot
<1> DEFINE rows == {r \in unavailable : TableOf[r] = t}
           found == {r \in rows : SourceRows[r] # Nothing}
           order == CHOOSE s \in [1..Cardinality(found) -> found] : {s[i] : i \in DOMAIN s} = found
           records == [i \in DOMAIN order |-> SnapshotRecord(order[i])]
<1>2. t \in Tables
  BY TablesAssumption DEF BatchTypeOK
<1>3. IsFiniteSet(found)
  <2>1. found \subseteq unavailable
    OBVIOUS
  <2>2. QED
    BY <2>1, FS_Subset DEF WalInv, Places
<1>4. Cardinality(found) \in Nat /\ order \in [1..Cardinality(found) -> found]
  <2> HIDE DEF found
  <2>1. Cardinality(found) \in Nat /\ ExistsBijection(1..Cardinality(found), found)
    BY <1>3, FS_CardinalityType
  <2>2. \E s \in [1..Cardinality(found) -> found] : \A y \in found : \E i \in 1..Cardinality(found) : s[i] = y
    BY <2>1 DEF ExistsBijection, Bijection, Surjection, Injection
  <2>3. \E s \in [1..Cardinality(found) -> found] : {s[i] : i \in DOMAIN s} = found
    BY <2>2
  <2>4. QED
    BY <2>1, <2>3
<1>5. records \in Seq(Record)
  <2>1. \A r \in found : SnapshotRecord(r) \in Record
    BY SnapshotRecordType DEF WalInv, BatchTypeOK
  <2> HIDE DEF found, order
  <2>2. DOMAIN order = 1..Cardinality(found) /\ \A i \in 1..Cardinality(found) : order[i] \in found
    BY <1>4
  <2>3. \A i \in 1..Cardinality(found) : SnapshotRecord(order[i]) \in Record
    BY <2>1, <2>2
  <2>4. records \in [1..Cardinality(found) -> Record]
    BY <2>2, <2>3
  <2>5. QED
    BY <1>4, <2>4
<1>6. SaveUnavailable(rows, records) /\ rows \in SUBSET unavailable
  BY <1>1
<1>7. \E rs \in SUBSET unavailable, recs \in Seq(Record) : SaveUnavailable(rs, recs)
  <2> HIDE DEF rows, records
  <2> QED
    BY <1>5, <1>6
<1>8. QED
  BY <1>1, <1>2, <1>7 DEF Resnapshot

LEMMA WriteChangeCalls ==
  ASSUME WalInv, WriteChange
  PROVE  (\E record \in Record : Save(<<record>>)) \/ (\E tables \in Seq(Tables) : Truncate(tables))
<1> DEFINE change == Entry[stream.change + 1]
<1>1. Entry \in Seq(Change) /\ stream.change + 1 \in 1..Len(Entry)
  BY EntryType, Fields DEF WalInv, WriteChange
<1>2. change \in Change
  BY <1>1
<1>3. IF change.tag = "truncate" THEN Truncate(change.tables) ELSE Save(<<change>>)
  BY DEF WriteChange
<1>4. change.tag # "truncate" => change \in Record
  BY <1>2 DEF Change
<1>5. change.tag = "truncate" => change.tables \in Seq(Tables)
  BY <1>2 DEF Change, Record
<1>6. QED
  <2> HIDE DEF change
  <2> QED
    BY <1>3, <1>4, <1>5

LEMMA StreamingCalls ==
  ASSUME WalInv, BatchTypeOK,
         \/ StartStreaming \/ WriteChange \/ NextTransaction \/ CommitChunk \/ SkipMessage \/ Keepalive
         \/ Ack \/ Resnapshot \/ ResnapshotDone \/ BatchStep
  PROVE  WriterCall \/ UNCHANGED batchVars
<1>1. CASE StartStreaming
  BY <1>1 DEF StartStreaming, WriterCall
<1>2. CASE WriteChange
  BY <1>2, WriteChangeCalls DEF WriterCall
<1>3. CASE NextTransaction \/ SkipMessage \/ Ack
  BY <1>3 DEF NextTransaction, SkipMessage, Ack
<1>4. CASE CommitChunk \/ Keepalive
  <2>1. Received /\ \E createEmpty \in BOOLEAN : CommitCheckpoint(EntryLsn, createEmpty)
    BY <1>4, FlagsAssumption DEF CommitChunk, Keepalive, EndOfTransaction
  <2>2. EntryLsn \in Nat
    BY <2>1, EntryType DEF WalInv
  <2>3. QED
    BY <2>1, <2>2 DEF WriterCall
<1>5. CASE Resnapshot
  BY <1>5, ResnapshotCalls DEF WriterCall
<1>6. CASE ResnapshotDone
  <2>1. stream.resnapshot \in Tables /\ Lsn \in Nat
    BY <1>6, Fields DEF ResnapshotDone, WalInv
  <2>2. QED
    BY <1>6, <2>1 DEF ResnapshotDone, WriterCall
<1>7. CASE BatchStep
  BY <1>7 DEF BatchStep, WriterCall
<1>8. QED
  BY <1>1, <1>2, <1>3, <1>4, <1>5, <1>6, <1>7

LEMMA StepCalls ==
  ASSUME WalInv, BatchTypeOK, [Next]_vars
  PROVE  [WriterCall]_batchVars
<1>1. CASE SourceTransaction
  BY <1>1 DEF SourceTransaction
<1>2. CASE JobNext
  BY <1>2, SnapshotCalls, StreamingCalls DEF JobNext
<1>3. CASE Crash
  BY <1>3 DEF Crash, WriterCall
<1>4. CASE UNCHANGED vars
  BY <1>4 DEF vars
<1>5. QED
  BY <1>1, <1>2, <1>3, <1>4 DEF Next

-----------------------------------------------------------------------------
(***************************************************************************)
(* The job keeps its place. What a step may do to it, apart from what it   *)
(* does to the writer:                                                     *)
(***************************************************************************)
\* The source has not moved.
LEMMA SameSource ==
  ASSUME WalInv, UNCHANGED sourceVars, stream' \in StreamType, stream'.key \in Rows \cup {0},
         slot' \in 1..Lsn, observed' \in 0..Lsn,
         stream'.phase = "streaming" =>
           /\ stream'.position \in slot'..Lsn /\ stream'.committed <= stream'.position
           /\ stream'.change \in 0..(IF stream'.position < Lsn THEN Len(wal[stream'.position]) ELSE 0)
  PROVE  SourceTypes' /\ WalTypeOK'
<1>1. history' = history /\ wal' = wal /\ Lsn' = Lsn
  BY DEF sourceVars, Lsn
<1>2. SourceTypes'
  BY <1>1 DEF WalInv, SourceTypes, Lsn
<1>3. QED
  BY <1>1, <1>2 DEF WalInv, WalTypeOK, Entry, StreamType

\* The source has moved, and the job has not.
LEMMA MovedSource ==
  ASSUME WalInv, NEW rows \in SourceState, NEW entry \in Seq(Change),
         history' = Append(history, rows), wal' = Append(wal, entry),
         stream' \in StreamType, stream'.key \in Rows \cup {0}, UNCHANGED <<slot, observed>>,
         stream'.phase = "streaming" =>
           /\ stream.phase = "streaming" /\ stream'.position = stream.position
           /\ stream'.committed = stream.committed /\ stream'.change = stream.change
  PROVE  SourceTypes' /\ WalTypeOK'
<1> USE DEF WalInv
<1>1. /\ history' \in Seq(SourceState) /\ history' # << >> /\ wal' \in Seq(Seq(Change))
      /\ Lsn \in Nat /\ Lsn' = Lsn + 1 /\ Len(wal)' = Len(wal) + 1
      /\ \A n \in 1..Len(wal) : wal'[n] = wal[n]
  BY Grows
<1>2. SourceTypes'
  BY <1>1 DEF SourceTypes
<1>3. Len(wal)' = Lsn' - 1 /\ slot' \in 1..Lsn' /\ observed' \in 0..Lsn'
  BY <1>1 DEF WalTypeOK
<1>4. ASSUME stream'.phase = "streaming"
      PROVE  /\ stream'.position \in slot'..Lsn' /\ stream'.committed <= stream'.position
             /\ stream'.change \in 0..(IF stream'.position < Lsn' THEN Len(Entry)' ELSE 0)
  <2>1. /\ stream.position \in slot..Lsn /\ stream.committed <= stream.position
        /\ stream.change \in 0..(IF stream.position < Lsn THEN Len(Entry) ELSE 0)
    BY <1>4 DEF WalTypeOK
  <2>2. stream'.position \in slot'..Lsn' /\ stream'.committed <= stream'.position
    BY <1>1, <1>4, <2>1, Fields
  <2>3. CASE stream.position < Lsn
    <3>1. stream.position \in 1..Len(wal)
      BY <2>1, <2>3, <1>1, Fields DEF WalTypeOK
    <3>2. Entry' = Entry
      BY <1>1, <1>4, <3>1 DEF Entry
    <3>3. QED
      BY <1>1, <1>4, <2>1, <2>2, <2>3, <3>2
  <2>4. CASE ~(stream.position < Lsn)
    <3>1. stream.position = Lsn /\ stream.change = 0
      BY <1>1, <2>1, <2>4, Fields
    <3>2. wal'[Lsn] \in Seq(Change)
      BY <1>1, Fields DEF WalTypeOK
    <3>3. Len(Entry)' \in Nat
      BY <1>4, <3>1, <3>2 DEF Entry
    <3>4. QED
      BY <1>1, <1>4, <2>2, <3>1, <3>3
  <2>5. QED
    BY <2>3, <2>4
<1>5. QED
  BY <1>2, <1>3, <1>4 DEF WalTypeOK, StreamType

LEMMA UnavailableFinite ==
  ASSUME WriterCall, IsFiniteSet(unavailable)
  PROVE  IsFiniteSet(unavailable')
<1>1. CASE (\E skip \in BOOLEAN : CreateWriter(skip)) \/ CloseWriter
  BY <1>1, FS_EmptySet DEF CreateWriter, CloseWriter
<1>2. ASSUME NEW rows, NEW records, SaveUnavailable(rows, records)
      PROVE  IsFiniteSet(unavailable')
  <2>1. unavailable' \in SUBSET unavailable
    BY <1>2 DEF SaveUnavailable
  <2>2. QED
    BY <2>1, FS_Subset
<1>3. CASE FlushRecord
  <2>1. unavailable' = unavailable \/ \E r : unavailable' = unavailable \cup {r}
    BY <1>3 DEF FlushRecord
  <2>2. QED
    BY <2>1, FS_AddElement
<1>4. CASE ~(\/ \E skip \in BOOLEAN : CreateWriter(skip)
             \/ CloseWriter
             \/ \E rows \in SUBSET unavailable, records \in Seq(Record) : SaveUnavailable(rows, records)
             \/ FlushRecord)
  <2>1. unavailable' = unavailable
    BY <1>4 DEF WriterCall, Save, Truncate, TruncateSingle, UpdateTableProgress, MarkTableSnapshotDone,
         MarkTableSnapshotRequired, MarkSnapshotDone, CommitCheckpoint, CleanupPendingDeletes, AutoActivate,
         OtherStreamFlush, OtherStreamChangesState
  <2>2. QED
    BY <2>1
<1>5. QED
  BY <1>1, <1>2, <1>3, <1>4

\* While the job has a key to record, its table stays incomplete.
LEMMA IncompleteKept ==
  ASSUME BatchTypeOK, source_tables' = source_tables \/ (\E t, key : UpdateTableProgress(t, key))
  PROVE  IncompleteTables' = IncompleteTables
<1>1. \A t \in Tables : source_tables'[t].snapshot_done = source_tables[t].snapshot_done
  BY DEF UpdateTableProgress, BatchTypeOK, SourceTable
<1>2. QED
  BY <1>1 DEF IncompleteTables

\* The job's place where the source has not moved and the job neither.
LEMMA PlaceNow ==
  ASSUME WalInv, stream.phase = "streaming"
  PROVE  /\ stream.position \in slot..Lsn /\ stream.committed <= stream.position
         /\ stream.change \in 0..(IF stream.position < Lsn THEN Len(wal[stream.position]) ELSE 0)
BY DEF WalInv, WalTypeOK, Entry

LEMMA SnapshotInv ==
  ASSUME WalInv, BatchTypeOK,
         \/ StartSnapshot \/ SnapshotChunk \/ SnapshotProgress \/ SnapshotTableDone
         \/ SnapshotAllDone \/ SnapshotCommit \/ SnapshotEnd
  PROVE  WalInv'
<1> USE Fields DEF WalInv
<1>1. slot \in 1..Lsn /\ observed \in 0..Lsn /\ stream \in StreamType /\ stream.key \in Rows \cup {0}
  BY DEF WalTypeOK, SourceTypes
<1>2. IsFiniteSet(unavailable')
  BY SnapshotCalls, UnavailableFinite DEF Places
<1>3. StoppedStream \in StreamType
  BY DEF StoppedStream, StreamType, Phases
<1>4. CASE StartSnapshot
  <2>1. /\ stream' \in StreamType /\ stream'.key = 0 /\ stream'.phase = "snapshot" /\ stream'.resnapshot = Nothing
        /\ UNCHANGED <<sourceVars, slot, observed>>
    BY <1>4 DEF StartSnapshot, StoppedStream, StreamType, Phases
  <2>2. SourceTypes' /\ WalTypeOK'
    BY <1>1, <2>1, SameSource
  <2>3. QED
    BY <1>2, <2>1, <2>2 DEF Places
<1>5. CASE SnapshotChunk
  <2>1. PICK r \in RemainingRows : Save(<<SnapshotRecord(r)>>) /\ stream' = [stream EXCEPT !.key = r]
    BY <1>5 DEF SnapshotChunk
  <2>2. r \in Rows /\ r \in Nat
    BY RowsAssumption DEF RemainingRows
  <2>3. /\ stream' \in StreamType /\ stream'.key \in Rows /\ stream'.phase = "snapshot"
        /\ stream'.resnapshot = stream.resnapshot /\ observed' = Lsn /\ UNCHANGED <<sourceVars, slot>>
    BY <1>1, <1>5, <2>1, <2>2 DEF SnapshotChunk, StreamType
  <2>4. SourceTypes' /\ WalTypeOK'
    BY <1>1, <2>3, SameSource
  <2>5. IncompleteTables' # {}
    BY <1>5, <2>1, IncompleteKept DEF SnapshotChunk, Save, storageVars
  <2>6. QED
    BY <1>2, <1>5, <2>3, <2>4, <2>5 DEF Places, SnapshotChunk
<1>6. CASE SnapshotProgress
  <2>1. /\ stream' \in StreamType /\ stream'.key = 0 /\ stream'.phase = "snapshot"
        /\ stream'.resnapshot = stream.resnapshot /\ UNCHANGED <<sourceVars, slot, observed>>
    BY <1>1, <1>6 DEF SnapshotProgress, StreamType
  <2>2. SourceTypes' /\ WalTypeOK'
    BY <1>1, <2>1, SameSource
  <2>3. QED
    BY <1>2, <1>6, <2>1, <2>2 DEF Places, SnapshotProgress
<1>7. CASE SnapshotTableDone
  <2>1. stream.phase = "snapshot" /\ stream.key = 0 /\ UNCHANGED <<sourceVars, slot, stream, observed>>
    BY <1>7 DEF SnapshotTableDone
  <2>2. SourceTypes' /\ WalTypeOK'
    BY <1>1, <2>1, SameSource
  <2>3. QED
    BY <1>2, <2>1, <2>2 DEF Places
<1>8. CASE SnapshotAllDone
  <2>1. stream.phase = "snapshot" /\ IncompleteTables = {}
    BY <1>8 DEF SnapshotAllDone, MarkSnapshotDone, IncompleteTables
  <2>2. stream.key = 0 /\ stream.resnapshot = Nothing
    BY <2>1 DEF Places
  <2>3. /\ stream' \in StreamType /\ stream'.key = 0 /\ stream'.phase = "snapshot commit"
        /\ stream'.resnapshot = Nothing /\ UNCHANGED <<sourceVars, slot, observed>>
    BY <1>1, <1>8, <2>2 DEF SnapshotAllDone, StreamType, Phases
  <2>4. SourceTypes' /\ WalTypeOK'
    BY <1>1, <2>3, SameSource
  <2>5. QED
    BY <1>2, <2>3, <2>4 DEF Places
<1>9. CASE SnapshotCommit
  <2>1. /\ stream' \in StreamType /\ stream'.key = 0 /\ stream'.phase = "snapshot end"
        /\ stream'.resnapshot = Nothing /\ UNCHANGED <<sourceVars, slot, observed>>
    BY <1>1, <1>9 DEF SnapshotCommit, StreamType, Phases, Places
  <2>2. SourceTypes' /\ WalTypeOK'
    BY <1>1, <2>1, SameSource
  <2>3. QED
    BY <1>2, <2>1, <2>2 DEF Places
<1>10. CASE SnapshotEnd
  <2>1. /\ stream' \in StreamType /\ stream'.key = 0 /\ stream'.phase = "snapshot done"
        /\ stream'.resnapshot = Nothing /\ UNCHANGED <<slot, observed>>
    BY <1>1, <1>10 DEF SnapshotEnd, StreamType, Phases, Places
  <2>2. history' = Append(history, SourceRows) /\ wal' = Append(wal, Message) /\ Message \in Seq(Change)
    BY <1>10, MessageType DEF SnapshotEnd, SendKeepAlive
  <2>3. SourceTypes' /\ WalTypeOK'
    BY <1>1, <2>1, <2>2, MovedSource
  <2>4. QED
    BY <1>2, <2>1, <2>3 DEF Places
<1>11. QED
  BY <1>4, <1>5, <1>6, <1>7, <1>8, <1>9, <1>10

\* Whatever the writer does while the job streams, the job has no key to record.
LEMMA StreamingPlaces ==
  ASSUME Places, stream'.phase = "streaming", stream'.key = 0, [WriterCall]_batchVars
  PROVE  Places'
<1>1. IsFiniteSet(unavailable')
  BY UnavailableFinite DEF Places, batchVars
<1>2. QED
  BY <1>1 DEF Places

LEMMA AdvanceInv ==
  ASSUME WalInv, Received, NEW skipKeepalive \in BOOLEAN, NEW committed \in {stream.committed, EntryLsn},
         Advance(skipKeepalive, committed), UNCHANGED <<sourceVars, slot, observed>>
  PROVE  SourceTypes' /\ WalTypeOK' /\ stream'.phase = "streaming" /\ stream'.key = 0
<1> USE Fields DEF WalInv
<1>1. stream.phase = "streaming" /\ stream.position < Lsn /\ stream.key = 0
  BY DEF Received, Places
<1>2. stream.position \in slot..Lsn /\ stream.committed <= stream.position
  BY <1>1, PlaceNow
<1>3. stream \in StreamType /\ EntryLsn \in Nat /\ committed \in Nat
  BY EntryType DEF SourceTypes
<1>4. /\ stream'.phase = "streaming" /\ stream'.key = 0 /\ stream'.position = stream.position + 1
      /\ stream'.change = 0 /\ stream'.committed = committed
  BY <1>3, <1>1 DEF Advance, EntryLsn, StreamType
<1>5. stream' \in StreamType
  BY <1>3 DEF Advance, StreamType
<1>6. wal[stream'.position] \in Seq(Change) \/ stream'.position = Lsn
  <2>1. stream'.position \in Nat /\ stream'.position >= 1 /\ stream'.position <= Lsn /\ Lsn \in Nat
    BY <1>1, <1>2, <1>4
  <2>2. wal \in Seq(Seq(Change)) /\ Len(wal) = Lsn - 1
    BY DEF SourceTypes, WalTypeOK
  <2>3. QED
    BY <2>1, <2>2
<1>7. /\ stream'.position \in slot'..Lsn /\ stream'.committed <= stream'.position
      /\ stream'.change \in 0..(IF stream'.position < Lsn THEN Len(wal[stream'.position]) ELSE 0)
  BY <1>1, <1>2, <1>4, <1>6 DEF EntryLsn
<1>8. slot' \in 1..Lsn /\ observed' \in 0..Lsn
  BY DEF WalTypeOK
<1>9. QED
  BY <1>4, <1>5, <1>7, <1>8, SameSource

LEMMA StreamingInv ==
  ASSUME WalInv, BatchTypeOK,
         \/ StartStreaming \/ WriteChange \/ NextTransaction \/ CommitChunk \/ SkipMessage \/ Keepalive
         \/ Ack \/ Resnapshot \/ ResnapshotDone \/ BatchStep
  PROVE  WalInv'
<1> USE Fields DEF WalInv
<1>1. slot \in 1..Lsn /\ observed \in 0..Lsn /\ stream \in StreamType /\ stream.key \in Rows \cup {0}
  BY DEF WalTypeOK, SourceTypes
<1>2. [WriterCall]_batchVars
  BY StreamingCalls
<1>3. stream.phase = "streaming" => stream.key = 0
  BY DEF Places
<1>4. CASE StartStreaming
  <2>1. /\ stream' \in StreamType /\ stream'.key = 0 /\ stream'.phase = "streaming" /\ stream'.position = slot
        /\ stream'.committed = 0 /\ stream'.change = 0 /\ UNCHANGED <<sourceVars, slot, observed>>
    BY <1>4 DEF StartStreaming, StoppedStream, StreamType, Phases
  <2>2. slot < Lsn => wal[slot] \in Seq(Change)
    BY <1>1 DEF WalTypeOK, SourceTypes
  <2>3. SourceTypes' /\ WalTypeOK'
    BY <1>1, <2>1, <2>2, SameSource
  <2>4. QED
    BY <1>2, <2>1, <2>3, StreamingPlaces
<1>5. CASE WriteChange
  <2>1. EntryLsn \in 1..Lsn /\ Entry \in Seq(Change) /\ stream.change < Len(Entry)
    BY <1>5, EntryType DEF WriteChange
  <2>2. stream.phase = "streaming" /\ stream.position < Lsn
    BY <1>5 DEF WriteChange, Received
  <2>3. /\ stream' \in StreamType /\ stream'.key = 0 /\ stream'.phase = "streaming"
        /\ stream'.position = stream.position /\ stream'.committed = stream.committed
        /\ stream'.change = stream.change + 1
    BY <1>1, <1>3, <1>5, <2>2 DEF WriteChange, StreamType
  <2>4. observed' \in 0..Lsn
    <3>0. observed \in Int /\ EntryLsn \in Int
      BY <1>1, <2>1
    <3>1. Max({observed, EntryLsn}) \in {observed, EntryLsn}
      BY <3>0, MaxOf2, Zenon
    <3>2. QED
      BY <1>1, <1>5, <2>1, <3>1 DEF WriteChange
  <2>5. stream'.change \in 0..Len(wal[stream'.position])
    BY <2>1, <2>3 DEF Entry
  <2>6. UNCHANGED <<sourceVars, slot>>
    BY <1>5 DEF WriteChange
  <2>7. SourceTypes' /\ WalTypeOK'
    BY <1>1, <2>2, <2>3, <2>4, <2>5, <2>6, PlaceNow, SameSource
  <2>8. QED
    BY <1>2, <2>3, <2>7, StreamingPlaces
<1>6. CASE NextTransaction \/ CommitChunk \/ SkipMessage \/ Keepalive
  <2>1. /\ Received /\ UNCHANGED <<sourceVars, slot, observed>>
        /\ \E skipKeepalive \in BOOLEAN, committed \in {stream.committed, EntryLsn} :
             Advance(skipKeepalive, committed)
    BY <1>6 DEF NextTransaction, CommitChunk, SkipMessage, Keepalive, EndOfTransaction
  <2>2. SourceTypes' /\ WalTypeOK' /\ stream'.phase = "streaming" /\ stream'.key = 0
    BY <2>1, AdvanceInv
  <2>3. QED
    BY <1>2, <2>2, StreamingPlaces
<1>7. CASE Ack
  <2>1. /\ stream.phase = "streaming" /\ slot' = stream.committed /\ slot < stream.committed
        /\ UNCHANGED <<sourceVars, stream, observed>>
    BY <1>7 DEF Ack
  <2>2. stream.position \in stream.committed..Lsn /\ slot' \in 1..Lsn
    BY <1>1, <2>1, PlaceNow
  <2>3. SourceTypes' /\ WalTypeOK'
    BY <1>1, <2>1, <2>2, PlaceNow, SameSource
  <2>4. QED
    BY <1>2, <1>3, <2>1, <2>3, StreamingPlaces
<1>8. CASE Resnapshot
  <2>1. PICK t \in Tables : stream' = [stream EXCEPT !.resnapshot = t]
    BY <1>8, ResnapshotCalls
  <2>2. stream.phase = "streaming" /\ observed' = Lsn /\ UNCHANGED <<sourceVars, slot>>
    BY <1>8, ResnapshotCalls
  <2>3. /\ stream' \in StreamType /\ stream'.key = 0 /\ stream'.phase = "streaming"
        /\ stream'.position = stream.position /\ stream'.committed = stream.committed
        /\ stream'.change = stream.change
    BY <1>1, <1>3, <2>1, <2>2 DEF StreamType
  <2>4. SourceTypes' /\ WalTypeOK'
    BY <1>1, <2>2, <2>3, PlaceNow, SameSource
  <2>5. QED
    BY <1>2, <2>3, <2>4, StreamingPlaces
<1>9. CASE ResnapshotDone
  <2>1. /\ stream.phase = "streaming" /\ UNCHANGED <<slot, observed>>
        /\ stream' = [stream EXCEPT !.resnapshot = Nothing]
    BY <1>9 DEF ResnapshotDone, Places
  <2>2. /\ stream' \in StreamType /\ stream'.key = 0 /\ stream'.phase = "streaming"
        /\ stream'.position = stream.position /\ stream'.committed = stream.committed
        /\ stream'.change = stream.change
    BY <1>1, <1>3, <2>1 DEF StreamType
  <2>3. CASE UNCHANGED sourceVars
    <3>1. SourceTypes' /\ WalTypeOK'
      BY <1>1, <2>1, <2>2, <2>3, PlaceNow, SameSource
    <3>2. QED
      BY <1>2, <2>2, <3>1, StreamingPlaces
  <2>4. CASE SendKeepAlive
    <3>1. history' = Append(history, SourceRows) /\ wal' = Append(wal, Message) /\ Message \in Seq(Change)
      BY <2>4, MessageType DEF SendKeepAlive
    <3>2. SourceTypes' /\ WalTypeOK'
      BY <1>1, <2>1, <2>2, <3>1, MovedSource
    <3>3. QED
      BY <1>2, <2>2, <3>2, StreamingPlaces
  <2>5. QED
    BY <1>9, <2>3, <2>4 DEF ResnapshotDone
<1>10. CASE BatchStep
  <2>1. UNCHANGED <<sourceVars, slot, stream, observed>>
    BY <1>10 DEF BatchStep
  <2>2. SourceTypes' /\ WalTypeOK'
    BY <1>1, <2>1, PlaceNow, SameSource
  <2>3. source_tables' = source_tables
    BY <1>10 DEF BatchStep, FlushRecord, TruncateSingle, CleanupPendingDeletes, AutoActivate
  <2>4. IsFiniteSet(unavailable')
    BY <1>2, UnavailableFinite DEF Places, batchVars
  <2>5. QED
    BY <2>1, <2>2, <2>3, <2>4, IncompleteKept DEF Places
<1>11. QED
  BY <1>4, <1>5, <1>6, <1>7, <1>8, <1>9, <1>10

LEMMA OthersInv ==
  ASSUME WalInv, BatchTypeOK, SourceTransaction \/ Crash
  PROVE  WalInv'
<1> USE Fields DEF WalInv
<1>1. slot \in 1..Lsn /\ observed \in 0..Lsn /\ stream \in StreamType /\ stream.key \in Rows \cup {0}
  BY DEF WalTypeOK, SourceTypes
<1>2. CASE SourceTransaction
  <2>1. UNCHANGED <<batchVars, slot, stream, observed>>
    BY <1>2 DEF SourceTransaction
  <2>2. PICK rows \in SourceState, entry \in Seq(Change) :
          history' = Append(history, rows) /\ wal' = Append(wal, entry)
    <3>1. PICK c \in Changes(SourceRows) :
            \/ wal' = Append(wal, <<c.change>>) /\ history' = Append(history, c.rows)
            \/ \E d \in Changes(c.rows) :
                 wal' = Append(wal, <<c.change, d.change>>) /\ history' = Append(history, d.rows)
      BY <1>2 DEF SourceTransaction
    <3>2. c.change \in Change /\ c.rows \in SourceState
      BY ChangesType
    <3>3. CASE wal' = Append(wal, <<c.change>>) /\ history' = Append(history, c.rows)
      <4>1. <<c.change>> \in Seq(Change)
        BY <3>2
      <4>2. QED
        BY <3>2, <3>3, <4>1
    <3>4. ASSUME NEW d \in Changes(c.rows),
                 wal' = Append(wal, <<c.change, d.change>>), history' = Append(history, d.rows)
          PROVE  \E rows \in SourceState, entry \in Seq(Change) :
                   history' = Append(history, rows) /\ wal' = Append(wal, entry)
      <4>1. d.change \in Change /\ d.rows \in SourceState
        BY <3>2, ChangesType
      <4>2. <<c.change, d.change>> \in Seq(Change)
        BY <3>2, <4>1
      <4>3. QED
        BY <3>4, <4>1, <4>2
    <3>5. QED
      BY <3>1, <3>3, <3>4
  <2>3. SourceTypes' /\ WalTypeOK'
    BY <1>1, <2>1, <2>2, MovedSource
  <2>4. QED
    BY <2>1, <2>3, IncompleteKept DEF Places, batchVars, storageVars
<1>3. CASE Crash
  <2>1. /\ stream' \in StreamType /\ stream'.key = 0 /\ stream'.phase = "stopped" /\ stream'.resnapshot = Nothing
        /\ UNCHANGED <<sourceVars, slot, observed>>
    BY <1>3 DEF Crash, StoppedStream, StreamType, Phases
  <2>2. SourceTypes' /\ WalTypeOK'
    BY <1>1, <2>1, SameSource
  <2>3. IsFiniteSet(unavailable')
    BY <1>3, StepCalls, UnavailableFinite DEF Places, batchVars, Next
  <2>4. QED
    BY <2>1, <2>2, <2>3 DEF Places
<1>4. QED
  BY <1>2, <1>3

LEMMA WalInit == Init => WalInv /\ BatchTypeOK
<1> SUFFICES ASSUME Init
             PROVE  WalInv /\ BatchTypeOK
  OBVIOUS
<1>1. PICK rows \in SourceState : history = <<rows>>
  BY DEF Init, SourceState
<1>2. history \in Seq(SourceState) /\ history # << >> /\ Lsn = 1
  BY <1>1 DEF Lsn
<1>3. wal \in Seq(Seq(Change)) /\ Len(wal) = 0 /\ slot = 1 /\ observed = 0
  BY DEF Init
<1>4. stream \in StreamType /\ stream.phase = "stopped" /\ stream.key = 0 /\ stream.resnapshot = Nothing
  BY DEF Init, StoppedStream, StreamType, Phases
<1>5. unavailable = {} /\ BatchTypeOK
  BY InitType DEF Init, BatchInit
<1>6. IsFiniteSet(unavailable)
  BY <1>5, FS_EmptySet
<1>7. QED
  BY <1>2, <1>3, <1>4, <1>5, <1>6 DEF WalInv, SourceTypes, WalTypeOK, Places, StreamType

LEMMA WalStep ==
  ASSUME WalInv, BatchTypeOK, [Next]_vars
  PROVE  WalInv' /\ BatchTypeOK'
<1>1. BatchTypeOK'
  <2>1. UNCHANGED batchVars => BatchTypeOK'
    BY DEF BatchTypeOK, batchVars, storageVars, auxVars
  <2>2. QED
    BY <2>1, StepCalls, CallType
<1>2. UNCHANGED vars => WalInv'
  BY DEF vars, batchVars, storageVars, sourceVars, WalInv, SourceTypes, WalTypeOK, Places, Lsn, Entry,
         IncompleteTables
<1>3. Next => WalInv'
  BY SnapshotInv, StreamingInv, OthersInv DEF Next, JobNext
<1>4. QED
  BY <1>1, <1>2, <1>3

LEMMA WalInvariant == Spec => [](WalInv /\ BatchTypeOK)
BY WalInit, WalStep, PTL DEF Spec

(***************************************************************************)
(* The job's place in the WAL is always one that exists, and the slot      *)
(* never passes what the job has committed or started from: what a restart *)
(* still needs, the source still sends (WalStream.ts:streamChanges).       *)
(***************************************************************************)
THEOREM PlaceInWal == Spec => []WalTypeOK
<1>1. WalInv /\ BatchTypeOK => WalTypeOK
  BY DEF WalInv
<1>2. QED
  BY <1>1, WalInvariant, PTL

(***************************************************************************)
(* Replication from Postgres implements the interface of the storage       *)
(* writer: at each step the job makes one of its calls, on typed records   *)
(* and on tables and positions that exist, or none.                        *)
(***************************************************************************)
THEOREM ImplementsCalls == Spec => CallSpec
<1>1. Init => BatchInit
  BY DEF Init
<1>2. WalInv /\ BatchTypeOK /\ [Next]_vars => [WriterCall]_batchVars
  BY StepCalls
<1>3. QED
  BY <1>1, <1>2, WalInvariant, PTL DEF Spec, CallSpec

(***************************************************************************)
(* Hence what is proved of the writer holds of replication from Postgres,  *)
(* with its restarts and replays.                                          *)
(***************************************************************************)
THEOREM WalOperationsAccountedFor == Spec => []AccountedFor
BY ImplementsCalls, OperationsAccountedFor, PTL

\* autoActivate never publishes a stream without a checkpoint.
THEOREM WalServingHasCheckpoint == Spec => []ActiveHasCheckpoint
BY ImplementsCalls, ServingHasCheckpoint, PTL

\* Checkpoints never go back, although a restarted job names older positions again.
THEOREM WalCheckpointsForward == Spec => CheckpointsMoveForward
BY ImplementsCalls, CheckpointsForward, PTL
===============================================================================
