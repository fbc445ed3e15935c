--------------------------- MODULE PostgresCompactor ---------------------------
(***************************************************************************)
(* Compaction of buckets on Postgres storage                               *)
(* (modules/module-postgres-storage/src/storage/PostgresCompactor.ts)      *)
(* while replication appends operations. Compactors are the processes that *)
(* run the compact command or job; nothing stops two from running at once. *)
(***************************************************************************)
EXTENDS Buckets

CONSTANTS
  Buckets,
  Compactors,
  MaxSeen,        \* rows that fit into memoryLimitMB
  MoveBatchLimit,
  ClearBatchLimit,
  MaxOp,          \* bound on the op ids of the stream
  MaxCompactions  \* bound on the compact() calls

ASSUME LimitsAssumption == MaxSeen \in Nat /\ MoveBatchLimit \in Nat \ {0} /\ ClearBatchLimit \in Nat \ {0}
ASSUME CompactBoundsAssumption == MaxOp \in Nat /\ MaxCompactions \in Nat

VARIABLES
  bucket_data, \* [Buckets -> SUBSET Op]
  op_id,       \* the last op id the stream has used
  checkpoint,  \* last_checkpoint of the stream
  compactors,  \* [Compactors -> the state of its compact() call]
  compactions, \* number of compact() calls
  log          \* auxiliary: the operations as they were written

storageVars == <<bucket_data, op_id, checkpoint, log>>
compactVars == <<storageVars, compactors, compactions>>

Idle ==
  [step |-> "idle", maxOpId |-> 0, bucket |-> None, upper |-> 0, seen |-> << >>,
   lastNotPut |-> Null, opsSincePut |-> 0, updates |-> {}]

CompactInit ==
  /\ bucket_data = [b \in Buckets |-> {}]
  /\ log = bucket_data
  /\ op_id = 0
  /\ checkpoint = 0
  /\ compactors = [c \in Compactors |-> Idle]
  /\ compactions = 0

(***************************************************************************)
(* Replication: a flush appends operations under new op ids, a commit      *)
(* makes them visible. Only a row that is in the bucket is removed.        *)
(***************************************************************************)
Contains(b, row) == \E o \in log[b] : o.op = "PUT" /\ o.row = row /\ \A p \in log[b] : p.row = row => p.op_id <= o.op_id

AppendOp(b, op) ==
  /\ op_id' = op_id + 1
  /\ bucket_data' = [bucket_data EXCEPT ![b] = @ \cup {op}]
  /\ log' = [log EXCEPT ![b] = @ \cup {op}]

Flush ==
  /\ \E b \in Buckets, row \in Rows :
       \/ \E data \in Values : AppendOp(b, Put(op_id + 1, row, data))
       \/ Contains(b, row) /\ AppendOp(b, Remove(op_id + 1, row))
  /\ UNCHANGED <<checkpoint, compactors, compactions>>

Commit ==
  /\ checkpoint < op_id
  /\ checkpoint' = op_id
  /\ UNCHANGED <<bucket_data, op_id, log, compactors, compactions>>

(***************************************************************************)
(* compact(): maxOpId is the checkpoint of the call, for all its buckets.  *)
(***************************************************************************)
StartCompact(c) ==
  /\ compactors[c].step = "idle"
  /\ compactors' = [compactors EXCEPT ![c] = [Idle EXCEPT !.step = "next", !.maxOpId = checkpoint]]
  /\ compactions' = compactions + 1
  /\ UNCHANGED storageVars

CompactSingleBucket(c, b) ==
  /\ compactors[c].step = "next"
  /\ compactors' = [compactors EXCEPT ![c] =
       [Idle EXCEPT !.step = "scan", !.maxOpId = compactors[c].maxOpId, !.bucket = b, !.upper = MaxOp + 1]]
  /\ UNCHANGED <<storageVars, compactions>>

\* The call ends, fails, or its process stops.
StopCompact(c) ==
  /\ compactors[c].step # "idle"
  /\ compactors' = [compactors EXCEPT ![c] = Idle]
  /\ UNCHANGED <<storageVars, compactions>>

Unscanned(c) == {o \in bucket_data[compactors[c].bucket] : o.op_id < compactors[c].upper}

(***************************************************************************)
(* One operation of the descending scan. A row that was seen before is     *)
(* superseded: its operation will be a MOVE to the one that was seen.      *)
(***************************************************************************)
IsSuperseded(s, o) == o.op \in {"PUT", "REMOVE"} /\ o.row \in DOMAIN s.seen

Seen(s, o) ==
  IF o.op \in {"PUT", "REMOVE"} /\ o.row \notin DOMAIN s.seen /\ Cardinality(DOMAIN s.seen) < MaxSeen
    THEN [r \in DOMAIN s.seen \cup {o.row} |-> IF r = o.row THEN o.op_id ELSE s.seen[r]]
    ELSE s.seen

\* Not in the checkpoint of the call.
IsSkipped(s, o) == o.op_id > s.maxOpId

\* What is at the start of the bucket and no longer a PUT.
\* (mutant: a PUT does not start the count again)
CountNotPut_NoReset(s, o) ==
  IF (o.op = "PUT" /\ ~IsSuperseded(s, o)) \/ o.op = "CLEAR" THEN s
  ELSE [s EXCEPT !.lastNotPut = IF @ = Null THEN o.op_id ELSE @, !.opsSincePut = @ + 1]

CountNotPut(s, o) ==
  IF o.op = "PUT" /\ ~IsSuperseded(s, o) THEN [s EXCEPT !.lastNotPut = Null, !.opsSincePut = 0]
  ELSE IF o.op = "CLEAR" THEN s
  ELSE [s EXCEPT !.lastNotPut = IF @ = Null THEN o.op_id ELSE @, !.opsSincePut = @ + 1]

Scanned(s, o) ==
  IF IsSkipped(s, o) THEN s
  ELSE [CountNotPut(s, o) EXCEPT
          !.seen = Seen(s, o),
          !.updates = IF IsSuperseded(s, o) THEN @ \cup {[op_id |-> o.op_id, target_op |-> s.seen[o.row]]} ELSE @]

ScanOp(c) ==
  /\ compactors[c].step = "scan"
  /\ Cardinality(compactors[c].updates) < MoveBatchLimit
  /\ Unscanned(c) # {}
  /\ LET o == LastOp(Unscanned(c))
     IN compactors' = [compactors EXCEPT ![c] = [Scanned(compactors[c], o) EXCEPT !.upper = o.op_id]]
  /\ UNCHANGED <<storageVars, compactions>>

\* The UPDATE names the op id only: it changes whatever is stored under it.
Moved(o, updates) ==
  IF \E u \in updates : u.op_id = o.op_id
    THEN LET u == CHOOSE v \in updates : v.op_id = o.op_id
         IN [op |-> "MOVE", op_id |-> o.op_id, row |-> None, data |-> None, checksum |-> o.checksum,
             target_op |-> u.target_op]
    ELSE o

FlushMoves(c) ==
  /\ compactors[c].step = "scan"
  /\ Cardinality(compactors[c].updates) >= MoveBatchLimit \/ (Unscanned(c) = {} /\ compactors[c].updates # {})
  /\ LET s == compactors[c]
     IN /\ bucket_data' = [bucket_data EXCEPT ![s.bucket] = {Moved(o, s.updates) : o \in @}]
        /\ compactors' = [compactors EXCEPT ![c].updates = {}]
  /\ UNCHANGED <<op_id, checkpoint, log, compactions>>

EndScan(c) ==
  /\ compactors[c].step = "scan"
  /\ Unscanned(c) = {} /\ compactors[c].updates = {}
  /\ compactors' = [compactors EXCEPT ![c].step =
       IF compactors[c].lastNotPut # Null /\ compactors[c].opsSincePut > 1 THEN "clear" ELSE "next"]
  /\ UNCHANGED <<storageVars, compactions>>

(***************************************************************************)
(* clearBucket: one transaction replaces a prefix of the bucket, at most   *)
(* ClearBatchLimit operations, by a CLEAR; repeated up to lastNotPut. A    *)
(* PUT in the prefix is an assertion error.                                *)
(***************************************************************************)
Cleared(c) ==
  LET prefix == {o \in bucket_data[compactors[c].bucket] : o.op_id <= compactors[c].lastNotPut}
  IN {o \in prefix : Cardinality({p \in prefix : p.op_id < o.op_id}) < ClearBatchLimit}

\* (mutant: does not carry over the checksum of an earlier CLEAR)
ClearOf_Restart(ops) ==
  [op |-> "CLEAR", op_id |-> LastOp(ops).op_id, row |-> None, data |-> None,
   checksum |-> SumChecksums({o \in ops : o.op # "CLEAR"}), target_op |-> MaxTarget(ops)]

\* (mutant: no target_op)
ClearOf_NoTarget(ops) ==
  [op |-> "CLEAR", op_id |-> LastOp(ops).op_id, row |-> None, data |-> None,
   checksum |-> SumChecksums(ops), target_op |-> Null]

ClearOf(ops) ==
  [op |-> "CLEAR", op_id |-> LastOp(ops).op_id, row |-> None, data |-> None,
   checksum |-> SumChecksums(ops), target_op |-> MaxTarget(ops)]

ClearBucket(c) ==
  /\ compactors[c].step = "clear"
  /\ LET ops == Cleared(c)
     IN IF \E o \in ops : o.op = "PUT"
          THEN compactors' = [compactors EXCEPT ![c].step = "failed"] /\ UNCHANGED bucket_data
        ELSE IF \A o \in ops : o.op = "CLEAR"
          THEN compactors' = [compactors EXCEPT ![c].step = "next"] /\ UNCHANGED bucket_data
        ELSE /\ bucket_data' = [bucket_data EXCEPT ![compactors[c].bucket] = (@ \ ops) \cup {ClearOf(ops)}]
             /\ UNCHANGED compactors
  /\ UNCHANGED <<op_id, checkpoint, log, compactions>>

CompactStep(c) ==
  \/ compactions < MaxCompactions /\ StartCompact(c)
  \/ \E b \in Buckets : CompactSingleBucket(c, b)
  \/ ScanOp(c)
  \/ FlushMoves(c)
  \/ EndScan(c)
  \/ ClearBucket(c)
  \/ StopCompact(c)

CompactNext ==
  \/ op_id < MaxOp /\ Flush
  \/ Commit
  \/ \E c \in Compactors : CompactStep(c)

CompactSpec == CompactInit /\ [][CompactNext]_compactVars

-----------------------------------------------------------------------------
CompactTypeOK ==
  /\ bucket_data \in [Buckets -> SUBSET Op]
  /\ op_id \in Nat /\ checkpoint \in 0..op_id
  /\ \A c \in Compactors :
       /\ compactors[c].step \in {"idle", "next", "scan", "clear", "failed"}
       /\ compactors[c].maxOpId \in 0..checkpoint
       /\ compactors[c].bucket \in Buckets \cup {None}
       /\ DOMAIN compactors[c].seen \subseteq Rows
       /\ compactors[c].lastNotPut \in 0..compactors[c].maxOpId

(***************************************************************************)
(* A client that has synced the bucket up to any op id, and then syncs the *)
(* rest while the bucket is being compacted or after that, has the same    *)
(* reduced bucket as one that never met a compaction: the two equations of *)
(* bucket-properties.md, at every point of the compaction.                 *)
(***************************************************************************)
Original(b, a) == Reduce(EmptyBucket, Between(log[b], 0, a))

ClientsConverge ==
  \A b \in Buckets :
    \A a \in 0..op_id :
      Reduce(Original(b, a), Between(bucket_data[b], a, op_id)) = Original(b, op_id)

(***************************************************************************)
(* clearBucket never meets a PUT, although the prefix was found by an      *)
(* earlier scan and other transactions have changed the bucket since.      *)
(***************************************************************************)
ClearsNoPut == \A c \in Compactors : compactors[c].step # "failed"

(***************************************************************************)
(* Reading at an older checkpoint. A client at position a that asks for    *)
(* checkpoint k gets the bucket as it was at k, or an operation with a     *)
(* target_op past k, which invalidates the checkpoint. It gets neither     *)
(* when a CLEAR has overtaken the checkpoint: the CLEAR has the op id of   *)
(* the last operation it replaces, so the reader sees nothing of it. That  *)
(* is the only stale read that goes unnoticed.                             *)
(***************************************************************************)
IsOvertaken(b, k) == \E o \in bucket_data[b] : o.op = "CLEAR" /\ o.op_id > k

Read(b, a, k) == Between(bucket_data[b], a, k)

StaleReadsInvalidated ==
  \A b \in Buckets, k \in 0..op_id :
    \/ IsOvertaken(b, k)
    \/ \A a \in 0..k :
         \/ \E o \in Read(b, a, k) : o.target_op > k
         \/ Reduce(Original(b, a), Read(b, a, k)) = Original(b, k)
=============================================================================
