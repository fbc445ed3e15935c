-------------------------------- MODULE Buckets --------------------------------
(***************************************************************************)
(* Bucket operations and what a client makes of them: reduceBucket in      *)
(* packages/service-core/src/util/utils.ts, of which r(B) in               *)
(* docs/storage/bucket-properties.md is the formal description.            *)
(*                                                                         *)
(* A bucket is a set of operations with different op ids.                  *)
(***************************************************************************)
EXTENDS Integers, FiniteSets, FiniteSetsExt

CONSTANTS
  Rows,   \* the rows of a bucket
  Values, \* their contents
  None,   \* no row, no data
  Hash    \* [Rows \X (Values \cup {None}) -> Nat]: the checksum of an operation

ASSUME NoneAssumption == None \notin Rows /\ None \notin Values
ASSUME HashAssumption == Hash \in [Rows \X (Values \cup {None}) -> Nat]

\* No target_op. Op ids start at 1, and 0 is before all of them.
Null == 0

PutOp == [op : {"PUT"}, op_id : Nat \ {0}, row : Rows, data : Values, checksum : Nat, target_op : {Null}]
RemoveOp == [op : {"REMOVE"}, op_id : Nat \ {0}, row : Rows, data : {None}, checksum : Nat, target_op : {Null}]
MoveOp == [op : {"MOVE"}, op_id : Nat \ {0}, row : {None}, data : {None}, checksum : Nat, target_op : Nat]
ClearOp == [op : {"CLEAR"}, op_id : Nat \ {0}, row : {None}, data : {None}, checksum : Nat, target_op : Nat]
Op == PutOp \cup RemoveOp \cup MoveOp \cup ClearOp

Put(id, row, data) ==
  [op |-> "PUT", op_id |-> id, row |-> row, data |-> data, checksum |-> Hash[row, data], target_op |-> Null]
Remove(id, row) ==
  [op |-> "REMOVE", op_id |-> id, row |-> row, data |-> None, checksum |-> Hash[row, None], target_op |-> Null]

\* The operations a client at position a still needs to reach position b.
Between(ops, a, b) == {o \in ops : a < o.op_id /\ o.op_id <= b}

LastOp(ops) == CHOOSE o \in ops : \A p \in ops : p.op_id <= o.op_id
MaxTarget(ops) == Max({o.target_op : o \in ops} \cup {Null})
SumChecksums(ops) == MapThenSumSet(LAMBDA o : o.checksum, ops)

(***************************************************************************)
(* A reduced bucket: the PUT operations that are left, and the checksum of *)
(* everything else. A CLEAR starts again with its own checksum, which is   *)
(* that of all it stands for.                                              *)
(***************************************************************************)
EmptyBucket == [puts |-> {}, other |-> 0]

ReduceOp(o, r) ==
  LET existing == {p \in r.puts : p.row = o.row}
  IN CASE o.op = "PUT" -> [puts |-> (r.puts \ existing) \cup {o}, other |-> r.other + SumChecksums(existing)]
       [] o.op = "REMOVE" -> [puts |-> r.puts \ existing, other |-> r.other + SumChecksums(existing) + o.checksum]
       [] o.op = "MOVE" -> [puts |-> r.puts, other |-> r.other + o.checksum]
       [] o.op = "CLEAR" -> [puts |-> {}, other |-> o.checksum]

\* The client adds operations, in the order of their ids, to a reduced bucket.
Reduce(r, ops) == MapThenFoldSet(ReduceOp, r, LAMBDA o : o, LastOp, ops)

ReducedChecksum(r) == r.other + SumChecksums(r.puts)

\* What the client shows of it.
Content(r) == {<<p.row, p.data>> : p \in r.puts}

-----------------------------------------------------------------------------
(***************************************************************************)
(* Documents: MongoDB storage v3 keeps several operations in one, with one *)
(* target_op, under the id of the last operation                           *)
(* (modules/module-mongodb-storage/src/storage/implementation/v3/models.ts *)
(* and compact-utils.ts). Statistics are read from their metadata.         *)
(***************************************************************************)
FirstOp(ops) == CHOOSE o \in ops : \A p \in ops : o.op_id <= p.op_id
DocId(d) == LastOp(d.ops).op_id
Ids(docs) == {DocId(d) : d \in docs}
MinOp(d) == FirstOp(d.ops).op_id
HasClear(d) == \E o \in d.ops : o.op = "CLEAR"
OpsOf(docs) == UNION {d.ops : d \in docs}
Targets(docs) == Max({d.target_op : d \in docs} \cup {Null})
Document(ops, target) == [ops |-> ops, target_op |-> target]

StatsType == [checksum : Nat, count : Nat, chunks : Nat]
NoStats == [checksum |-> 0, count |-> 0, chunks |-> 0]
Stats(docs) ==
  [checksum |-> MapThenSumSet(LAMBDA d : SumChecksums(d.ops), docs),
   count |-> MapThenSumSet(LAMBDA d : Cardinality(d.ops), docs),
   chunks |-> Cardinality(docs)]
Plus(s, t) == [checksum |-> s.checksum + t.checksum, count |-> s.count + t.count, chunks |-> s.chunks + t.chunks]
Minus(s, t) == [checksum |-> s.checksum - t.checksum, count |-> s.count - t.count, chunks |-> s.chunks - t.chunks]

\* The first or the last documents of a query
Lowest(docs, n) == {d \in docs : Cardinality({e \in docs : DocId(e) < DocId(d)}) < n}
Highest(docs, n) == {d \in docs : Cardinality({e \in docs : DocId(e) > DocId(d)}) < n}
=============================================================================
