--------------------------- MODULE MongoCompactorV3 ---------------------------
(***************************************************************************)
(* Compaction of one bucket on MongoDB storage V3                          *)
(* (modules/module-mongodb-storage/src/storage/implementation/v3:          *)
(* MongoCompactorV3.ts, CompactionLease.ts, compact-utils.ts), while       *)
(* replication appends documents (PersistedBatchV3.ts) and clients read    *)
(* the bucket and its checksum (MongoSyncBucketStorageV3.ts,               *)
(* MongoChecksumsV3.ts).                                                   *)
(*                                                                         *)
(* A bucket is stored in documents of several operations. Its state holds  *)
(* statistics, a checksum up to the last compaction, the schedule of the   *)
(* next one, and a lease that workers hold while they compact.             *)
(***************************************************************************)
EXTENDS Buckets

CONSTANTS
  Compactors,      \* worker processes
  MaxSeen,         \* rows that fit into memoryLimitMB
  QueryLimit,      \* documents read at a time
  MaxDocOps,       \* operations that fit into one document
  ClearBatchLimit,
  MaxOp,           \* bound on the op ids
  MaxFailures      \* bound on leases that expire and workers that stop

ASSUME MongoLimits ==
  /\ MaxSeen \in Nat /\ QueryLimit \in Nat \ {0} /\ MaxDocOps \in Nat \ {0}
  /\ ClearBatchLimit \in Nat /\ ClearBatchLimit >= 2
ASSUME MongoBounds == MaxOp \in Nat /\ MaxFailures \in Nat
Leases == [id : Compactors, expired : BOOLEAN]
CompactedStates == [op_id : Nat, checksum : Nat, count : Nat, chunks : Nat]
BucketStates ==
  [last_op : Nat, count : Int, chunks : Int, compacted_state : CompactedStates \cup {None}, last_full_compact : Nat,
   first_uncompacted_write : BOOLEAN, next_compact_check : BOOLEAN, compact_lease : Leases \cup {None}]

\* A lease, or the state of a bucket, is not the absence of one.
ASSUME StateAssumption == None \notin BucketStates
ASSUME LeaseAssumption == \A c \in Compactors, e \in BOOLEAN : [id |-> c, expired |-> e] # None

VARIABLES
  bucket_data,  \* documents: [ops : SUBSET Op, target_op : Nat]
  bucket_state, \* the document of the bucket in bucket_state, or None
  checkpoint,   \* last_checkpoint of the active sync config
  log,          \* auxiliary: the operations as they were written
  compactors,   \* [Compactors -> the work on a bucket]
  failures

vars == <<bucket_data, bucket_state, checkpoint, log, compactors, failures>>

-----------------------------------------------------------------------------
\* A worker without work, and what one keeps while it compacts
Idle ==
  [step |-> "idle", cap |-> 0, state |-> None, kind |-> "none", target |-> 0, bound |-> 0, batch |-> {}, more |-> TRUE,
   seen |-> << >>, lastNotPut |-> Null, opsSincePut |-> 0, compactedOp |-> 0, clearAt |-> 0, stats |-> NoStats,
   previous |-> None, overlap |-> NoStats, verify |-> FALSE, pending |-> {}, ops |-> {}, changed |-> FALSE, target_op |-> Null]

MongoInit ==
  /\ bucket_data = {}
  /\ bucket_state = None
  /\ checkpoint = 0
  /\ log = {}
  /\ compactors = [c \in Compactors |-> Idle]
  /\ failures = 0

-----------------------------------------------------------------------------
(***************************************************************************)
(* Replication. A flush inserts a document and updates the state of the    *)
(* bucket in the same transaction; the first write after a full compaction *)
(* schedules the next one.                                                 *)
(***************************************************************************)
last_op == Cardinality(log)
Contains(row) == \E o \in log : o.op = "PUT" /\ o.row = row /\ \A p \in log : p.row = row => p.op_id <= o.op_id

AppendOp(op) ==
  /\ log' = log \cup {op}
  /\ bucket_data' = bucket_data \cup {Document({op}, Null)}
  /\ bucket_state' =
       IF bucket_state = None
         THEN [last_op |-> op.op_id, count |-> 1, chunks |-> 1, compacted_state |-> None, last_full_compact |-> 0,
               first_uncompacted_write |-> TRUE, next_compact_check |-> TRUE, compact_lease |-> None]
       ELSE [bucket_state EXCEPT !.last_op = op.op_id, !.count = @ + 1, !.chunks = @ + 1,
                                 !.first_uncompacted_write = TRUE, !.next_compact_check = TRUE]

Flush ==
  /\ last_op < MaxOp
  /\ \E row \in Rows :
       \/ \E data \in Values : AppendOp(Put(last_op + 1, row, data))
       \/ Contains(row) /\ AppendOp(Remove(last_op + 1, row))
  /\ UNCHANGED <<checkpoint, compactors, failures>>

Commit ==
  /\ checkpoint < last_op
  /\ checkpoint' = last_op
  /\ UNCHANGED <<bucket_data, bucket_state, log, compactors, failures>>

-----------------------------------------------------------------------------
(* The lease. Its holder is fenced by the id of the lease. *)

Become(c, w) == compactors' = [compactors EXCEPT ![c] = w]
Step(c, s) == compactors[c].step = s
storageUnchanged == UNCHANGED <<checkpoint, log, failures>>

IsAvailable == bucket_state.compact_lease # None => bucket_state.compact_lease.expired

Holds(c) == bucket_state.compact_lease # None /\ bucket_state.compact_lease.id = c

\* It expires when its holder is gone, or too busy or too far away to renew it.
Expire ==
  /\ bucket_state # None
  /\ bucket_state.compact_lease # None /\ ~bucket_state.compact_lease.expired
  /\ failures' = failures + (IF Step(bucket_state.compact_lease.id, "idle") THEN 0 ELSE 1)
  /\ failures' <= MaxFailures
  /\ bucket_state' = [bucket_state EXCEPT !.compact_lease.expired = TRUE]
  /\ UNCHANGED <<bucket_data, checkpoint, log, compactors>>

\* A late renewal succeeds as long as nobody else took the lease.
Renew(c) ==
  /\ ~Step(c, "idle") /\ ~Step(c, "inspected")
  /\ Holds(c) /\ bucket_state.compact_lease.expired
  /\ bucket_state' = [bucket_state EXCEPT !.compact_lease.expired = FALSE]
  /\ UNCHANGED <<bucket_data, compactors>> /\ storageUnchanged

\* asyncDispose after an error, an abort or a lost lease
Released(c) == IF Holds(c) THEN [bucket_state EXCEPT !.compact_lease = None] ELSE bucket_state

Throw(c) == bucket_state' = Released(c) /\ Become(c, Idle)

Fail(c) ==
  /\ failures < MaxFailures
  /\ ~Step(c, "idle")
  /\ IF Step(c, "inspected") THEN Become(c, Idle) /\ UNCHANGED bucket_state ELSE Throw(c)
  /\ failures' = failures + 1
  /\ UNCHANGED <<bucket_data, checkpoint, log>>

\* The process ends, and its lease with time.
Crash(c) ==
  /\ failures < MaxFailures
  /\ ~Step(c, "idle")
  /\ Become(c, Idle)
  /\ failures' = failures + 1
  /\ UNCHANGED <<bucket_data, bucket_state, checkpoint, log>>

-----------------------------------------------------------------------------
(***************************************************************************)
(* Scheduling. A worker reads the states that are due, and moves those     *)
(* without work to a later time. The interval and chunk thresholds decide  *)
(* between the kinds by time and size, which are left open here.           *)
(***************************************************************************)
Inspect(c) ==
  /\ Step(c, "idle")
  /\ bucket_state # None
  /\ bucket_state.next_compact_check /\ IsAvailable
  /\ Become(c, [Idle EXCEPT !.step = "inspected", !.cap = checkpoint, !.state = bucket_state])
  /\ UNCHANGED <<bucket_data, bucket_state>> /\ storageUnchanged

\* unclaimedSnapshotFilter()
IsSnapshot(state) ==
  /\ [bucket_state EXCEPT !.compact_lease = None] = [state EXCEPT !.compact_lease = None]
  /\ IsAvailable

RescheduleUnclaimed(c) ==
  /\ Step(c, "inspected")
  /\ bucket_state' = IF IsSnapshot(compactors[c].state) THEN [bucket_state EXCEPT !.next_compact_check = TRUE] ELSE bucket_state
  /\ Become(c, Idle)
  /\ UNCHANGED bucket_data /\ storageUnchanged

Target(w, state) == IF state.last_op < w.cap THEN state.last_op ELSE w.cap

IsCovered(state, kind, target) ==
  IF kind = "chunks" THEN state.compacted_state # None /\ state.compacted_state.op_id >= target
  ELSE \/ state.last_full_compact # 0 /\ state.last_full_compact >= target
       \/ state.compacted_state # None /\ state.compacted_state.op_id > target

\* The cached prefix of a chunk compaction, if there is one
Previous(state) == IF state.compacted_state = None \/ state.compacted_state.op_id = 0 THEN None ELSE state.compacted_state

Start(w, state, kind) ==
  LET previous == IF kind = "chunks" THEN Previous(state) ELSE None
      target == Target(w, state)
  IN [w EXCEPT !.step = IF kind = "none" \/ IsCovered(state, kind, target) THEN "reschedule" ELSE "read",
               !.state = state, !.kind = kind, !.target = target, !.previous = previous, !.verify = previous # None,
               !.bound = IF kind = "full" THEN target + 1 ELSE IF previous = None THEN 0 ELSE previous.op_id - 1]

Claim(c, kind) ==
  /\ Step(c, "inspected")
  /\ IF bucket_state.next_compact_check /\ IsAvailable
       THEN LET state == [bucket_state EXCEPT !.compact_lease = [id |-> c, expired |-> FALSE]]
            IN bucket_state' = state /\ Become(c, Start(compactors[c], state, kind))
       ELSE Become(c, Idle) /\ UNCHANGED bucket_state
  /\ UNCHANGED bucket_data /\ storageUnchanged

\* finish(): only the holder of the lease changes the state.
Finish(c, state) ==
  /\ bucket_state' = IF Holds(c) THEN [state EXCEPT !.compact_lease = None] ELSE bucket_state
  /\ Become(c, Idle)

RescheduleClaimed(c) ==
  /\ Step(c, "reschedule")
  /\ Finish(c, [bucket_state EXCEPT !.next_compact_check = TRUE])
  /\ UNCHANGED bucket_data /\ storageUnchanged

-----------------------------------------------------------------------------
(***************************************************************************)
(* Replacing documents: a transaction that first compares what is stored   *)
(* under the ids of its inputs with what was read.                         *)
(***************************************************************************)
Stored(docs) == {d \in bucket_data : DocId(d) \in Ids(docs)}

IsUnchanged(inputs) == Stats(Stored(inputs)) = Stats(inputs)

\* A single document that needs no change keeps its place.
IsKept(w) == Cardinality(w.pending) = 1 /\ ~w.changed
GroupStats(w) == Stats(IF IsKept(w) THEN w.pending ELSE {Document(w.ops, w.target_op)})

\* flushCompactionGroup(): the pending group is replaced, or the attempt fails.
FlushGroup(c, next) ==
  LET w == compactors[c]
  IN IF IsKept(w) THEN Become(c, next) /\ UNCHANGED <<bucket_data, bucket_state>>
     ELSE IF IsUnchanged(w.pending)
       THEN /\ bucket_data' = (bucket_data \ Stored(w.pending)) \cup {Document(w.ops, w.target_op)}
            /\ Become(c, next)
            /\ UNCHANGED bucket_state
     ELSE Throw(c) /\ UNCHANGED bucket_data

NoGroup(w) == [w EXCEPT !.pending = {}, !.ops = {}, !.changed = FALSE, !.target_op = Null]

-----------------------------------------------------------------------------
(* Full compaction, from the newest document to the oldest *)

\* The latest operation of a row, while there is memory for one more row
Remember(o, seen) ==
  IF Cardinality(DOMAIN seen) < MaxSeen THEN [r \in DOMAIN seen \cup {o.row} |-> IF r = o.row THEN o.op_id ELSE seen[r]]
  ELSE seen

\* A row that was seen before is superseded: its operation becomes a MOVE.
Scan(o, s) ==
  LET isRow == o.op \in {"PUT", "REMOVE"}
      superseded == isRow /\ o.row \in DOMAIN s.seen
      counted == IF o.op = "PUT" /\ ~superseded THEN [s EXCEPT !.lastNotPut = Null, !.opsSincePut = 0]
                 ELSE IF o.op = "CLEAR" THEN s
                 ELSE [s EXCEPT !.lastNotPut = IF @ = Null THEN o.op_id ELSE @, !.opsSincePut = @ + 1]
  IN IF superseded
       THEN [counted EXCEPT !.ops = @ \cup {[o EXCEPT !.op = "MOVE", !.row = None, !.data = None]},
                            !.target_op = Max({@, s.seen[o.row]}),
                            !.changed = TRUE]
     ELSE [counted EXCEPT !.ops = @ \cup {o},
                          !.seen = IF isRow THEN Remember(o, @) ELSE @]

ScanDocument(w, d) ==
  MapThenFoldSet(Scan,
    [seen |-> w.seen, lastNotPut |-> w.lastNotPut, opsSincePut |-> w.opsSincePut,
     ops |-> {}, target_op |-> d.target_op, changed |-> FALSE],
    LAMBDA o : o, FirstOp, d.ops)

ReadBatch(c) ==
  LET w == compactors[c]
      docs == Highest({d \in bucket_data : DocId(d) < w.bound}, QueryLimit)
  IN /\ Step(c, "read") /\ w.kind = "full" /\ w.batch = {} /\ w.more
     /\ Become(c, [w EXCEPT !.batch = docs,
                            !.more = Cardinality(docs) = QueryLimit,
                            !.bound = Min(Ids(docs) \cup {@}),
                            !.compactedOp = IF @ = 0 THEN Max(Ids(docs) \cup {0}) ELSE @])
     /\ UNCHANGED <<bucket_data, bucket_state>> /\ storageUnchanged

\* The group is done; the CLEAR will end in it if it has lastNotPut.
Flushed(w, lastNotPut) ==
  [NoGroup(w) EXCEPT
     !.stats = Plus(@, GroupStats(w)),
     !.clearAt = IF lastNotPut \in FirstOp(w.ops).op_id .. LastOp(w.ops).op_id THEN LastOp(w.ops).op_id ELSE @]

CompactDocument(c) ==
  LET w == compactors[c]
      d == CHOOSE e \in w.batch : \A f \in w.batch : DocId(f) <= DocId(e)
      s == ScanDocument(w, d)
      With(v) == [v EXCEPT !.batch = @ \ {d}, !.seen = s.seen, !.lastNotPut = s.lastNotPut, !.opsSincePut = s.opsSincePut,
                           !.pending = @ \cup {d}, !.ops = @ \cup s.ops, !.changed = @ \/ s.changed,
                           !.target_op = Max({@, s.target_op})]
  IN /\ Step(c, "read") /\ w.kind = "full" /\ w.batch # {}
     /\ IF w.pending = {} \/ Cardinality(w.ops) + Cardinality(s.ops) <= MaxDocOps
          THEN Become(c, With(w)) /\ UNCHANGED <<bucket_data, bucket_state>>
          ELSE FlushGroup(c, With(Flushed(w, s.lastNotPut)))
     /\ storageUnchanged

\* The last group, and what comes next: nothing was found, a prefix to clear, or the end
EndScan(c) ==
  LET w == compactors[c]
      Next(v) == [v EXCEPT !.step = IF v.compactedOp = 0 THEN "reschedule"
                                    ELSE IF v.lastNotPut # Null /\ v.opsSincePut >= 2 THEN "clear" ELSE "finalize"]
  IN /\ Step(c, "read") /\ w.kind = "full" /\ w.batch = {} /\ ~w.more
     /\ IF w.pending = {} THEN Become(c, Next(w)) /\ UNCHANGED <<bucket_data, bucket_state>>
        ELSE FlushGroup(c, Next(Flushed(w, w.lastNotPut)))
     /\ storageUnchanged

(***************************************************************************)
(* The prefix of MOVE, REMOVE and CLEAR operations becomes one CLEAR. Whole *)
(* documents first, a batch per transaction, without reading their         *)
(* operations; then the document in which the prefix ends.                 *)
(***************************************************************************)
\* (mutant: the target_op of what it replaces is lost)
ClearOf_NoTarget(id, ops, docs) ==
  Document({[op |-> "CLEAR", op_id |-> id, row |-> None, data |-> None, checksum |-> SumChecksums(ops), target_op |-> Null]}, Null)

\* (mutant: at the exclusive end of what it replaces)
ClearOf_Next(id, ops, docs) ==
  Document({[op |-> "CLEAR", op_id |-> id + 1, row |-> None, data |-> None, checksum |-> SumChecksums(ops), target_op |-> Null]},
           Targets(docs))

ClearOf(id, ops, docs) ==
  Document({[op |-> "CLEAR", op_id |-> id, row |-> None, data |-> None, checksum |-> SumChecksums(ops), target_op |-> Null]},
           Targets(docs))

Cleared(w, old, new) == [w EXCEPT !.stats = Plus(Minus(@, Stats(old)), Stats(new))]

ClearLeading(c) ==
  LET w == compactors[c]
      docs == Lowest({d \in bucket_data : DocId(d) < w.clearAt}, ClearBatchLimit)
      new == {ClearOf(Max(Ids(docs)), OpsOf(docs), docs)}
  IN /\ Step(c, "clear")
     /\ IF \/ w.clearAt = 0
           \/ \E d \in docs : MinOp(d) > w.lastNotPut
           \/ Cardinality({d \in docs : HasClear(d)}) > 1
          THEN Throw(c) /\ UNCHANGED bucket_data
        ELSE IF \A d \in docs : HasClear(d) /\ Cardinality(d.ops) = 1
          THEN Become(c, [w EXCEPT !.step = "boundary"]) /\ UNCHANGED <<bucket_data, bucket_state>>
        ELSE /\ bucket_data' = (bucket_data \ docs) \cup new
             /\ Become(c, Cleared(w, docs, new))
             /\ UNCHANGED bucket_state
     /\ storageUnchanged

ClearBoundary(c) ==
  LET w == compactors[c]
      docs == {d \in bucket_data : DocId(d) <= w.clearAt}
      prefix == {o \in OpsOf(docs) : o.op_id <= w.lastNotPut}
      rest == OpsOf(docs) \ prefix
      new == {ClearOf(w.lastNotPut, prefix, docs)} \cup
             (IF rest = {} THEN {} ELSE {Document(rest, Targets(docs))})
  IN /\ Step(c, "boundary")
     /\ IF \/ Cardinality(docs) > 2 \/ prefix = {} \/ \E o \in prefix : o.op = "PUT"
           \/ \E d \in docs : DocId(d) # w.clearAt /\ \E o \in d.ops : o.op # "CLEAR" \/ o \in rest
          THEN Throw(c) /\ UNCHANGED bucket_data
        ELSE /\ bucket_data' = (bucket_data \ docs) \cup new
             /\ Become(c, [Cleared(w, docs, new) EXCEPT !.step = "finalize"])
             /\ UNCHANGED bucket_state
     /\ storageUnchanged

-----------------------------------------------------------------------------
(***************************************************************************)
(* Chunk compaction, from the oldest document that may have changed: small *)
(* neighbours are merged. It reads the metadata of documents, and their    *)
(* operations only for a merge.                                            *)
(***************************************************************************)
\* (mutant: the cached boundary is taken to be there)
IsBoundaryMissing_Never(w, docs) == FALSE

\* An earlier attempt has replaced the document the cached state ends with.
IsBoundaryMissing(w, docs) == w.verify /\ w.previous.op_id \notin Ids(Lowest(docs, 1))

ReadChunks(c) ==
  LET w == compactors[c]
      docs == Lowest({d \in bucket_data : w.bound < DocId(d) /\ DocId(d) <= w.target}, QueryLimit)
  IN /\ Step(c, "read") /\ w.kind = "chunks" /\ w.batch = {} /\ w.more
     /\ Become(c, IF IsBoundaryMissing(w, docs) THEN [w EXCEPT !.previous = None, !.verify = FALSE, !.bound = 0]
                  ELSE [w EXCEPT !.batch = docs, !.verify = FALSE,
                                 !.more = Cardinality(docs) = QueryLimit,
                                 !.bound = Max(Ids(docs) \cup {@}),
                                 !.compactedOp = Max(Ids(docs) \cup {@})])
     /\ UNCHANGED <<bucket_data, bucket_state>> /\ storageUnchanged

NextChunk(w) == CHOOSE d \in w.batch : \A e \in w.batch : DocId(d) <= DocId(e)
Fits(w, d) == w.pending = {} \/ Cardinality(OpsOf(w.pending)) + Cardinality(d.ops) <= MaxDocOps

AddChunk(c) ==
  LET w == compactors[c]
      d == NextChunk(w)
  IN /\ Step(c, "read") /\ w.kind = "chunks" /\ w.batch # {} /\ Fits(w, d)
     /\ Become(c, [w EXCEPT !.batch = @ \ {d}, !.pending = @ \cup {d}, !.target_op = Max({@, d.target_op}),
                            !.overlap = IF w.previous # None /\ w.previous.op_id = DocId(d) THEN Stats({d}) ELSE @])
     /\ UNCHANGED <<bucket_data, bucket_state>> /\ storageUnchanged

\* The group is complete. Operations are read now, by the ids of the metadata.
ReadOps(c) ==
  LET w == compactors[c]
  IN /\ Step(c, "read") /\ w.kind = "chunks" /\ w.pending # {}
     /\ IF w.batch = {} THEN ~w.more ELSE ~Fits(w, NextChunk(w))
     /\ IF Cardinality(w.pending) = 1
          THEN Become(c, [NoGroup(w) EXCEPT !.stats = Plus(@, GroupStats(w))]) /\ UNCHANGED <<bucket_data, bucket_state>>
        ELSE IF Ids(Stored(w.pending)) = Ids(w.pending)
          THEN /\ Become(c, [w EXCEPT !.step = "merge", !.ops = OpsOf(Stored(w.pending)), !.changed = TRUE])
               /\ UNCHANGED <<bucket_data, bucket_state>>
        ELSE Throw(c) /\ UNCHANGED bucket_data
     /\ storageUnchanged

MergeChunks(c) ==
  LET w == compactors[c]
  IN /\ Step(c, "merge")
     /\ FlushGroup(c, [NoGroup(w) EXCEPT !.step = "read", !.stats = Plus(@, GroupStats(w))])
     /\ storageUnchanged

\* combineChunkStats(): the cached prefix, and the document it shares with the tail
CombineChunkStats(previous, tail, overlap) ==
  Plus(Minus([checksum |-> previous.checksum, count |-> previous.count, chunks |-> previous.chunks], overlap), tail)

EndChunks(c) ==
  LET w == compactors[c]
  IN /\ Step(c, "read") /\ w.kind = "chunks" /\ w.batch = {} /\ ~w.more /\ w.pending = {}
     /\ Become(c, IF w.compactedOp = 0 THEN [w EXCEPT !.step = "reschedule"]
                  ELSE [w EXCEPT !.step = "finalize",
                                 !.stats = IF w.previous = None THEN @ ELSE CombineChunkStats(w.previous, @, w.overlap)])
     /\ UNCHANGED <<bucket_data, bucket_state>> /\ storageUnchanged

-----------------------------------------------------------------------------
(***************************************************************************)
(* finalizeCompactedBucket(): the difference of the statistics, so that    *)
(* concurrent writes stay counted, and what is left to schedule.           *)
(***************************************************************************)
\* (mutant: writes during the compaction are not noticed)
RemainingWork_Claimed(w) == w.compactedOp < w.state.last_op

RemainingWork(w) == w.compactedOp < w.state.last_op \/ bucket_state.last_op > w.state.last_op

\* What lies between the end of the compaction and the head at the claim
Tail(w) == Stats({d \in bucket_data : w.compactedOp < DocId(d) /\ DocId(d) <= w.state.last_op})

\* (mutant: the statistics as they were counted)
NewCount_Absolute(w, field) == Plus(w.stats, Tail(w))[field]

NewCount(w, field) == bucket_state[field] + Plus(w.stats, Tail(w))[field] - w.state[field]

Finalized(w) ==
  [bucket_state EXCEPT
     !.compacted_state = [op_id |-> w.compactedOp, checksum |-> w.stats.checksum,
                          count |-> w.stats.count, chunks |-> w.stats.chunks],
     !.count = NewCount(w, "count"),
     !.chunks = NewCount(w, "chunks"),
     !.last_full_compact = IF w.kind = "full" THEN w.compactedOp ELSE @,
     !.first_uncompacted_write = IF w.kind = "full" THEN RemainingWork(w) ELSE @,
     !.next_compact_check = IF w.kind = "full" THEN RemainingWork(w) ELSE TRUE]

Finalize(c) ==
  /\ Step(c, "finalize")
  /\ Finish(c, Finalized(compactors[c]))
  /\ UNCHANGED bucket_data /\ storageUnchanged

-----------------------------------------------------------------------------
CompactorStep(c) ==
  \/ RescheduleUnclaimed(c) \/ RescheduleClaimed(c)
  \/ ReadBatch(c) \/ CompactDocument(c) \/ EndScan(c) \/ ClearLeading(c) \/ ClearBoundary(c)
  \/ ReadChunks(c) \/ AddChunk(c) \/ ReadOps(c) \/ MergeChunks(c) \/ EndChunks(c)
  \/ Finalize(c)

MongoNext ==
  \/ Flush \/ Commit \/ Expire
  \/ \E c \in Compactors :
       \/ Inspect(c) \/ (\E kind \in {"full", "chunks", "none"} : Claim(c, kind))
       \/ CompactorStep(c)
       \/ Renew(c) \/ Fail(c) \/ Crash(c)

MongoSpec == MongoInit /\ [][MongoNext]_vars

(***************************************************************************)
(* Fairness: replication commits what it wrote, the scheduled job runs     *)
(* again and again, its steps end, and a lease without a holder expires.   *)
(* A bucket that is due long enough is due for a full compaction.          *)
(***************************************************************************)
FairMongoSpec ==
  /\ MongoSpec
  /\ WF_vars(Commit) /\ WF_vars(Expire /\ failures' = failures)
  /\ \A c \in Compactors : WF_vars(Inspect(c)) /\ WF_vars(CompactorStep(c)) /\ SF_vars(Claim(c, "full"))

-----------------------------------------------------------------------------
(***************************************************************************)
(* Types, and the invariants models.ts states of documents: their ranges   *)
(* do not overlap, and a CLEAR is the first operation of the bucket.       *)
(***************************************************************************)
MongoTypeOK ==
  /\ \A d \in bucket_data : d.ops # {} /\ d.ops \subseteq Op /\ d.target_op \in 0..last_op
  /\ \A d, e \in bucket_data : d # e => LastOp(d.ops).op_id < MinOp(e) \/ LastOp(e.ops).op_id < MinOp(d)
  /\ \A d \in bucket_data : HasClear(d) => FirstOp(d.ops).op = "CLEAR" /\ \A e \in bucket_data : DocId(d) <= DocId(e)
  /\ bucket_state # None =>
       /\ bucket_state.last_op = last_op
       /\ bucket_state.compacted_state # None =>
            /\ bucket_state.compacted_state.op_id \in 1..last_op
            /\ Minus(bucket_state.compacted_state, NoStats) \in StatsType
  /\ checkpoint \in 0..last_op

(***************************************************************************)
(* Reads at a checkpoint. A client at position a that asks for checkpoint  *)
(* k gets the bucket as it was at k, or a target_op past k. As on Postgres *)
(* storage, a CLEAR that has overtaken k goes unnoticed.                   *)
(***************************************************************************)
Original(a) == Reduce(EmptyBucket, Between(log, 0, a))
IsOvertaken(k) == \E d \in bucket_data : HasClear(d) /\ MinOp(d) > k
InRange(a, k) == {d \in bucket_data : DocId(d) > a /\ MinOp(d) <= k}

IsServed(a, k, original) ==
  LET docs == InRange(a, k)
  IN Targets(docs) > k \/ Reduce(original[a], Between(OpsOf(docs), a, k)) = original[k]

ReadsConsistent ==
  LET original == [a \in 0..checkpoint |-> Original(a)]
  IN \A k \in 0..checkpoint : IsOvertaken(k) \/ \A a \in 0..k : IsServed(a, k, original)

(***************************************************************************)
(* The checksum at a checkpoint, from the metadata of documents: a sum     *)
(* added to a cached one, the sum itself after a CLEAR, an error when a    *)
(* document straddles the checkpoint, all of it again when one straddles   *)
(* the start. The cached one is that of an earlier checkpoint in the       *)
(* memory of the process, or that of the last compaction.                  *)
(***************************************************************************)
IsStraddled(a, k) == \E d \in InRange(a, k) : MinOp(d) <= a
IsInvalidated(a, k) == \E d \in InRange(a, k) : DocId(d) > k

ChecksumAfter(cached, a, k) ==
  LET docs == InRange(a, k)
      sum == SumChecksums(OpsOf(docs))
  IN IF IsStraddled(a, k) THEN SumChecksums(OpsOf(InRange(0, k)))
     ELSE IF \E d \in docs : HasClear(d) THEN sum
     ELSE cached + sum

TrueChecksum(k) == SumChecksums(Between(log, 0, k))

ChecksumsMatch ==
  \A k \in 0..checkpoint :
    IsOvertaken(k) \/ IsInvalidated(0, k) \/
      /\ \A a \in 0..k : ChecksumAfter(TrueChecksum(a), a, k) = TrueChecksum(k)
      /\ LET state == IF bucket_state = None THEN None ELSE bucket_state.compacted_state
         IN state # None /\ state.op_id <= k => ChecksumAfter(state.checksum, state.op_id, k) = TrueChecksum(k)

(***************************************************************************)
(* "every bucket with outstanding work eventually receives a full          *)
(* compact": what no full compaction has covered stays scheduled, whatever *)
(* order writes, workers and the ends of their leases come in; and a       *)
(* bucket that is scheduled has work, or every check of it would fail.     *)
(***************************************************************************)
WorkStaysScheduled ==
  bucket_state # None =>
    /\ bucket_state.last_full_compact < last_op => bucket_state.next_compact_check
    /\ bucket_state.next_compact_check <=> bucket_state.first_uncompacted_write

(***************************************************************************)
(* Once nothing is written any more, a full compaction covers all of the   *)
(* bucket, and it is not looked at again.                                  *)
(***************************************************************************)
EventuallyCompacted ==
  <>[](bucket_state # None => bucket_state.last_full_compact = last_op /\ ~bucket_state.next_compact_check)

(***************************************************************************)
(* Statistics converge: a full compaction that finishes leaves the counts  *)
(* of what is stored, whatever was written while it ran and whatever an    *)
(* attempt before it had left behind.                                      *)
(***************************************************************************)
StatsConverge ==
  [][\A c \in Compactors :
       compactors[c].step = "finalize" /\ compactors[c].kind = "full" /\ Holds(c) /\ compactors'[c] = Idle /\ failures' = failures
         => /\ bucket_state'.count = Stats(bucket_data).count
            /\ bucket_state'.chunks = Stats(bucket_data).chunks]_vars
=============================================================================
