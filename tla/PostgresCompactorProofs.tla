------------------------ MODULE PostgresCompactorProofs ------------------------
(***************************************************************************)
(* Proofs about PostgresCompactor, for every value of its constants.       *)
(***************************************************************************)
EXTENDS PostgresCompactor, BucketsProofs

(* Functions on some of the buckets. *)
Partial(T) == UNION {[S -> T] : S \in SUBSET Buckets}

LEMMA PartialIs ==
  ASSUME NEW T, NEW S \in SUBSET Buckets, NEW f \in [S -> T]
  PROVE  f \in Partial(T) /\ DOMAIN f = S
BY DEF Partial

LEMMA PartialFields ==
  ASSUME NEW T, NEW f \in Partial(T)
  PROVE  /\ DOMAIN f \in SUBSET Buckets /\ f \in [DOMAIN f -> T]
         /\ \A b \in DOMAIN f : b \in Buckets /\ f[b] \in T
BY DEF Partial

LEMMA PartialAdd ==
  ASSUME NEW T, NEW f \in Partial(T), NEW b \in Buckets, NEW v \in T, NEW g,
         g = [x \in DOMAIN f \cup {b} |-> IF x = b THEN v ELSE f[x]]
  PROVE  g \in Partial(T) /\ DOMAIN g = DOMAIN f \cup {b} /\ g[b] = v /\ \A x \in DOMAIN f : x # b => g[x] = f[x]
<1> DEFINE S == DOMAIN f \cup {b}
<1>1. DOMAIN f \in SUBSET Buckets /\ f \in [DOMAIN f -> T]
  BY PartialFields
<1>2. S \in SUBSET Buckets /\ g \in [S -> T]
  BY <1>1
<1>3. g[b] = v /\ \A x \in DOMAIN f : x # b => g[x] = f[x]
  OBVIOUS
<1> HIDE DEF S
<1>4. g \in Partial(T) /\ DOMAIN g = S
  BY <1>2, PartialIs
<1> QED BY <1>3, <1>4 DEF S

LEMMA EmptyFunction == \A T : << >> \in Partial(T) /\ DOMAIN << >> = {}
<1> TAKE T
<1>1. << >> \in [{} -> T]
  OBVIOUS
<1> QED BY <1>1, PartialIs

-----------------------------------------------------------------------------
(***************************************************************************)
(* The buckets as sets of operations: every op id once, none above op_id.  *)
(***************************************************************************)
OwnIds(ops, n) == \A o, p \in ops : o.op_id <= n /\ (o.op_id = p.op_id => o = p)

StorageOK ==
  /\ op_id \in Nat /\ checkpoint \in Nat /\ checkpoint <= op_id
  /\ bucket_data \in [Buckets -> SUBSET Op]
  /\ log \in [Buckets -> SUBSET (PutOp \cup RemoveOp)]
  /\ \A b \in Buckets : OwnIds(bucket_data[b], op_id) /\ OwnIds(log[b], op_id)

Update == [op_id : Nat, target_op : Nat]

CompactorState ==
  [step : {"idle", "next", "scan", "clear", "failed"}, maxOpId : Nat, bucket : Buckets \cup {None}, upper : Nat,
   seen : UNION {[R -> Nat] : R \in SUBSET Rows}, lastNotPut : Nat, opsSincePut : Nat, updates : SUBSET Update]

(***************************************************************************)
(* What a compactor has found of the start of the bucket, up to            *)
(* lastNotPut, has no PUT that it will not turn into a MOVE before it      *)
(* clears: the scan has passed it, or an update for it waits.              *)
(***************************************************************************)
CompactorOK(c) ==
  LET s == compactors[c]
  IN /\ s.lastNotPut <= s.maxOpId /\ s.maxOpId <= checkpoint
     /\ s.step \in {"scan", "clear"} => s.bucket \in Buckets
     /\ s.step = "scan" =>
          \A o \in bucket_data[s.bucket] :
            o.op = "PUT" /\ s.upper <= o.op_id /\ o.op_id <= s.lastNotPut => \E u \in s.updates : u.op_id = o.op_id
     /\ s.step = "clear" => \A o \in bucket_data[s.bucket] : o.op = "PUT" => o.op_id > s.lastNotPut
     /\ s.step # "failed"

CompactInv ==
  /\ StorageOK
  /\ compactors \in [Compactors -> CompactorState]
  /\ \A c \in Compactors : CompactorOK(c)

LEMMA BucketIsOps ==
  ASSUME StorageOK, NEW b \in Buckets
  PROVE  /\ IsOps(bucket_data[b]) /\ IsOps(log[b])
         /\ bucket_data[b] \subseteq Op /\ IsFiniteSet(bucket_data[b])
         /\ log[b] \subseteq Op /\ IsFiniteSet(log[b])
<1>1. bucket_data[b] \subseteq Op /\ log[b] \subseteq Op
  BY DEF StorageOK, Op
<1>2. IsOps(bucket_data[b]) /\ IsOps(log[b])
  BY <1>1, BoundedOps DEF StorageOK, OwnIds
<1> QED BY <1>1, <1>2 DEF IsOps

LEMMA IdleState ==
  /\ Idle \in CompactorState
  /\ Idle.step = "idle" /\ Idle.maxOpId = 0 /\ Idle.lastNotPut = 0 /\ Idle.updates = {} /\ Idle.seen = << >>
<1>1. << >> \in [{} -> Nat]
  OBVIOUS
<1>2. << >> \in UNION {[R -> Nat] : R \in SUBSET Rows}
  BY <1>1
<1> QED BY <1>2 DEF Idle, CompactorState, Null

LEMMA CompactInit_Inv ==
  ASSUME CompactInit
  PROVE  CompactInv
<1>1. StorageOK
  BY DEF CompactInit, StorageOK, OwnIds
<1>2. compactors \in [Compactors -> CompactorState] /\ \A c \in Compactors : CompactorOK(c)
  BY IdleState DEF CompactInit, CompactorOK
<1> QED BY <1>1, <1>2 DEF CompactInv

-----------------------------------------------------------------------------
(***************************************************************************)
(* A compactor is not disturbed when PUTs up to its checkpoint only        *)
(* disappear, and when others change their own state.                      *)
(***************************************************************************)
LEMMA CompactorKeeps ==
  ASSUME CompactInv, NEW c \in Compactors, compactors'[c] = compactors[c],
         checkpoint <= checkpoint', checkpoint' \in Nat,
         compactors[c].bucket \in Buckets =>
           \A o \in bucket_data'[compactors[c].bucket] :
             o.op = "PUT" => o \in bucket_data[compactors[c].bucket] \/ (o.op_id \in Nat /\ o.op_id > checkpoint)
  PROVE  CompactorOK(c)'
<1> DEFINE s == compactors[c]
<1>1. s \in CompactorState /\ CompactorOK(c) /\ checkpoint \in Nat
  BY DEF CompactInv, StorageOK
<1>2. s.lastNotPut \in Nat /\ s.maxOpId \in Nat /\ s.upper \in Nat
  BY <1>1 DEF CompactorState
<1>3. s.lastNotPut <= s.maxOpId /\ s.maxOpId <= checkpoint'
  BY <1>1, <1>2 DEF CompactorOK
<1> QED BY <1>1, <1>2, <1>3 DEF CompactorOK

LEMMA FlushIs ==
  ASSUME CompactInv, Flush
  PROVE  \E b \in Buckets, op \in PutOp \cup RemoveOp : AppendOp(b, op) /\ op.op_id = op_id + 1
<1>1. op_id + 1 \in Nat \ {0}
  BY DEF CompactInv, StorageOK
<1>2. PICK b \in Buckets, row \in Rows :
        (\E data \in Values : AppendOp(b, Put(op_id + 1, row, data))) \/ AppendOp(b, Remove(op_id + 1, row))
  BY DEF Flush
<1>3. \A data \in Values : Put(op_id + 1, row, data) \in PutOp
  BY <1>1, HashAssumption DEF Put, PutOp
<1>4. Remove(op_id + 1, row) \in RemoveOp
  BY <1>1, HashAssumption DEF Remove, RemoveOp
<1>5. \A data \in Values : Put(op_id + 1, row, data).op_id = op_id + 1
  BY DEF Put
<1>6. Remove(op_id + 1, row).op_id = op_id + 1
  BY DEF Remove
<1> QED BY <1>2, <1>3, <1>4, <1>5, <1>6

LEMMA Flush_Inv ==
  ASSUME CompactInv, Flush
  PROVE  CompactInv'
<1>0. op_id \in Nat /\ checkpoint \in Nat /\ checkpoint <= op_id
  BY DEF CompactInv, StorageOK
<1>1. PICK b \in Buckets, op \in PutOp \cup RemoveOp : AppendOp(b, op) /\ op.op_id = op_id + 1
  BY FlushIs
<1>2. op \in Op
  BY DEF Op
<1>3. /\ op_id' = op_id + 1
      /\ bucket_data' = [bucket_data EXCEPT ![b] = @ \cup {op}]
      /\ log' = [log EXCEPT ![b] = @ \cup {op}]
      /\ checkpoint' = checkpoint /\ compactors' = compactors
  BY <1>1 DEF AppendOp, Flush
<1>4. \A d \in Buckets : bucket_data[d] \subseteq Op /\ log[d] \subseteq Op /\ OwnIds(bucket_data[d], op_id) /\ OwnIds(log[d], op_id)
  BY BucketIsOps DEF CompactInv, StorageOK
<1>5. ASSUME NEW ops, ops \subseteq Op, OwnIds(ops, op_id)
      PROVE  OwnIds(ops, op_id + 1) /\ OwnIds(ops \cup {op}, op_id + 1)
  <2>1. \A o \in ops : o.op_id \in Nat /\ o.op_id <= op_id
    BY <1>5, OpFields DEF OwnIds
  <2> QED BY <1>0, <1>1, <1>3, <1>5, <2>1 DEF OwnIds
<1>6. /\ bucket_data' \in [Buckets -> SUBSET Op]
      /\ log' \in [Buckets -> SUBSET (PutOp \cup RemoveOp)]
  BY <1>2, <1>3 DEF CompactInv, StorageOK
<1>7. \A d \in Buckets : OwnIds(bucket_data'[d], op_id') /\ OwnIds(log'[d], op_id')
  <2> SUFFICES ASSUME NEW d \in Buckets PROVE OwnIds(bucket_data'[d], op_id') /\ OwnIds(log'[d], op_id')
    OBVIOUS
  <2>1. /\ bucket_data'[d] = bucket_data[d] \/ bucket_data'[d] = bucket_data[d] \cup {op}
        /\ log'[d] = log[d] \/ log'[d] = log[d] \cup {op}
    BY <1>3 DEF CompactInv, StorageOK
  <2> QED BY <1>3, <1>4, <1>5, <2>1
<1>8. StorageOK'
  <2>1. op_id' \in Nat /\ checkpoint' \in Nat /\ checkpoint' <= op_id'
    BY <1>0, <1>3
  <2> QED BY <1>6, <1>7, <2>1, Zenon DEF StorageOK
<1>9. ASSUME NEW c \in Compactors PROVE CompactorOK(c)'
  <2>1. op.op_id \in Nat /\ op.op_id > checkpoint
    BY <1>0, <1>1
  <2>2. compactors[c].bucket \in Buckets =>
          \A o \in bucket_data'[compactors[c].bucket] : o \in bucket_data[compactors[c].bucket] \/ o = op
    BY <1>3 DEF CompactInv, StorageOK
  <2> QED BY <1>0, <1>3, <2>1, <2>2, CompactorKeeps
<1> QED BY <1>3, <1>8, <1>9 DEF CompactInv

LEMMA Commit_Inv ==
  ASSUME CompactInv, Commit
  PROVE  CompactInv'
<1>1. /\ op_id' = op_id /\ checkpoint' = op_id /\ bucket_data' = bucket_data /\ log' = log
      /\ compactors' = compactors
  BY DEF Commit
<1>2. StorageOK'
  BY <1>1 DEF CompactInv, StorageOK, OwnIds
<1>3. ASSUME NEW c \in Compactors PROVE CompactorOK(c)'
  BY <1>1, CompactorKeeps DEF CompactInv, StorageOK
<1> QED BY <1>1, <1>2, <1>3 DEF CompactInv

-----------------------------------------------------------------------------
(***************************************************************************)
(* Steps that change the state of one compactor, and nothing else.         *)
(***************************************************************************)
LEMMA OneCompactor ==
  ASSUME CompactInv, NEW c \in Compactors, NEW s \in CompactorState,
         compactors' = [compactors EXCEPT ![c] = s], UNCHANGED storageVars,
         CompactorOK(c)'
  PROVE  CompactInv'
<1>1. StorageOK'
  BY DEF CompactInv, StorageOK, storageVars
<1>2. compactors' \in [Compactors -> CompactorState]
  BY DEF CompactInv
<1>3. ASSUME NEW d \in Compactors, d # c PROVE CompactorOK(d)'
  <2>1. compactors'[d] = compactors[d] /\ bucket_data' = bucket_data /\ checkpoint' = checkpoint
    BY <1>3 DEF CompactInv, storageVars
  <2>2. checkpoint \in Nat
    BY DEF CompactInv, StorageOK
  <2> QED BY <2>1, <2>2, CompactorKeeps
<1> QED BY <1>1, <1>2, <1>3 DEF CompactInv

LEMMA StateFields ==
  ASSUME CompactInv, NEW c \in Compactors
  PROVE  LET s == compactors[c]
         IN  /\ s \in CompactorState /\ CompactorOK(c) /\ checkpoint \in Nat
             /\ s.lastNotPut \in Nat /\ s.maxOpId \in Nat /\ s.upper \in Nat /\ s.opsSincePut \in Nat
             /\ s.seen \in UNION {[R -> Nat] : R \in SUBSET Rows} /\ s.updates \in SUBSET Update
             /\ s.bucket \in Buckets \cup {None}
BY DEF CompactInv, StorageOK, CompactorState

LEMMA StartCompact_Inv ==
  ASSUME CompactInv, NEW c \in Compactors, StartCompact(c)
  PROVE  CompactInv'
<1> DEFINE s == [Idle EXCEPT !.step = "next", !.maxOpId = checkpoint]
<1>1. s \in CompactorState /\ s.step = "next" /\ s.maxOpId = checkpoint /\ s.lastNotPut = 0
  BY IdleState, StateFields DEF CompactorState
<1>2. compactors' = [compactors EXCEPT ![c] = s] /\ UNCHANGED storageVars
  BY DEF StartCompact
<1>3. compactors'[c] = s /\ checkpoint' = checkpoint /\ checkpoint \in Nat
  BY <1>2, StateFields DEF CompactInv, storageVars
<1> HIDE DEF s
<1>4. CompactorOK(c)'
  BY <1>1, <1>3 DEF CompactorOK
<1> QED BY <1>1, <1>2, <1>4, OneCompactor

LEMMA CompactSingleBucket_Inv ==
  ASSUME CompactInv, NEW c \in Compactors, NEW b \in Buckets, CompactSingleBucket(c, b)
  PROVE  CompactInv'
<1> DEFINE s == [Idle EXCEPT !.step = "scan", !.maxOpId = compactors[c].maxOpId, !.bucket = b, !.upper = MaxOp + 1]
<1>1. s \in CompactorState /\ s.step = "scan" /\ s.maxOpId = compactors[c].maxOpId /\ s.bucket = b
      /\ s.lastNotPut = 0 /\ s.updates = {}
  <2>1. compactors[c].maxOpId \in Nat /\ MaxOp + 1 \in Nat
    BY StateFields, CompactBoundsAssumption
  <2>2. s \in CompactorState
    BY <2>1, IdleState DEF CompactorState
  <2>3. s.step = "scan" /\ s.maxOpId = compactors[c].maxOpId /\ s.bucket = b
        /\ s.lastNotPut = 0 /\ s.updates = {}
    BY IdleState DEF CompactorState
  <2> QED BY <2>2, <2>3
<1>2. compactors' = [compactors EXCEPT ![c] = s] /\ UNCHANGED storageVars
  BY DEF CompactSingleBucket
<1>3. compactors'[c] = s /\ checkpoint' = checkpoint /\ bucket_data' = bucket_data
  BY <1>2, StateFields DEF CompactInv, storageVars
<1>4. \A o \in bucket_data[b] : o.op_id \in Nat /\ o.op_id > 0
  BY BucketIsOps, OpFields DEF CompactInv
<1>5. s.maxOpId <= checkpoint /\ s.maxOpId \in Nat
  BY <1>1, StateFields DEF CompactorOK
<1> HIDE DEF s
<1>6. CompactorOK(c)'
  BY <1>1, <1>3, <1>4, <1>5 DEF CompactorOK
<1> QED BY <1>1, <1>2, <1>6, OneCompactor

LEMMA StopCompact_Inv ==
  ASSUME CompactInv, NEW c \in Compactors, StopCompact(c)
  PROVE  CompactInv'
<1>1. compactors' = [compactors EXCEPT ![c] = Idle] /\ UNCHANGED storageVars
  BY DEF StopCompact
<1>2. compactors'[c] = Idle /\ checkpoint' = checkpoint /\ checkpoint \in Nat
  BY <1>1, StateFields DEF CompactInv, storageVars
<1>3. CompactorOK(c)'
  BY <1>2, IdleState DEF CompactorOK
<1> QED BY <1>1, <1>3, IdleState, OneCompactor

LEMMA EndScan_Inv ==
  ASSUME CompactInv, NEW c \in Compactors, EndScan(c)
  PROVE  CompactInv'
<1> DEFINE s == compactors[c]
           n == [s EXCEPT !.step = IF s.lastNotPut # Null /\ s.opsSincePut > 1 THEN "clear" ELSE "next"]
<1>1. n \in CompactorState /\ n.step \in {"clear", "next"} /\ n.maxOpId = s.maxOpId /\ n.bucket = s.bucket
      /\ n.lastNotPut = s.lastNotPut
  BY StateFields DEF CompactorState
<1>2. compactors' = [compactors EXCEPT ![c] = n] /\ UNCHANGED storageVars
  BY DEF EndScan
<1>3. compactors'[c] = n /\ checkpoint' = checkpoint /\ bucket_data' = bucket_data
  BY <1>2 DEF CompactInv, storageVars
<1>4. s.bucket \in Buckets /\ s.step = "scan" /\ s.updates = {}
  BY StateFields DEF EndScan, CompactorOK
<1>5. \A o \in bucket_data[s.bucket] : o.op_id \in Nat /\ s.upper <= o.op_id
  <2>1. \A o \in bucket_data[s.bucket] : o.op_id \in Nat
    BY <1>4, BucketIsOps, OpFields DEF CompactInv
  <2>2. \A o \in bucket_data[s.bucket] : ~(o.op_id < s.upper)
    BY DEF EndScan, Unscanned
  <2> QED BY <2>1, <2>2, StateFields
<1>6. \A o \in bucket_data[s.bucket] : o.op = "PUT" => o.op_id > s.lastNotPut
  BY <1>4, <1>5, StateFields DEF CompactorOK
<1>7. s.lastNotPut <= s.maxOpId /\ s.maxOpId <= checkpoint
  BY StateFields DEF CompactorOK
<1> HIDE DEF n, s
<1>8. CompactorOK(c)'
  BY <1>1, <1>3, <1>4, <1>6, <1>7 DEF CompactorOK
<1> QED BY <1>1, <1>2, <1>8, OneCompactor

-----------------------------------------------------------------------------
(***************************************************************************)
(* One operation of the scan: what it does to the state of the call.       *)
(***************************************************************************)
LEMMA CountNotPutIs ==
  ASSUME NEW s \in CompactorState, NEW o \in Op
  PROVE  LET n == CountNotPut(s, o)
         IN  /\ n \in CompactorState
             /\ n.step = s.step /\ n.maxOpId = s.maxOpId /\ n.bucket = s.bucket /\ n.upper = s.upper
             /\ n.seen = s.seen /\ n.updates = s.updates
             /\ n.lastNotPut = IF o.op = "PUT" /\ ~IsSuperseded(s, o) THEN 0
                               ELSE IF o.op = "CLEAR" \/ s.lastNotPut # 0 THEN s.lastNotPut
                               ELSE o.op_id
<1> DEFINE counted == [s EXCEPT !.lastNotPut = IF @ = Null THEN o.op_id ELSE @, !.opsSincePut = @ + 1]
           reset == [s EXCEPT !.lastNotPut = Null, !.opsSincePut = 0]
<1>1. /\ s.lastNotPut \in Nat /\ s.opsSincePut \in Nat /\ o.op_id \in Nat
      /\ s.opsSincePut + 1 \in Nat
  BY OpFields DEF CompactorState
<1>2. /\ counted \in CompactorState
      /\ counted.step = s.step /\ counted.maxOpId = s.maxOpId /\ counted.bucket = s.bucket
      /\ counted.upper = s.upper /\ counted.seen = s.seen /\ counted.updates = s.updates
      /\ counted.lastNotPut = IF s.lastNotPut # 0 THEN s.lastNotPut ELSE o.op_id
  BY <1>1 DEF CompactorState, Null
<1>3. /\ reset \in CompactorState
      /\ reset.step = s.step /\ reset.maxOpId = s.maxOpId /\ reset.bucket = s.bucket
      /\ reset.upper = s.upper /\ reset.seen = s.seen /\ reset.updates = s.updates
      /\ reset.lastNotPut = 0
  BY <1>1 DEF CompactorState, Null
<1>4. CountNotPut(s, o) = IF o.op = "PUT" /\ ~IsSuperseded(s, o) THEN reset
                          ELSE IF o.op = "CLEAR" THEN s ELSE counted
  BY DEF CountNotPut
<1> HIDE DEF counted, reset
<1> QED BY <1>2, <1>3, <1>4

LEMMA SeenIs ==
  ASSUME NEW s \in CompactorState, NEW o \in Op
  PROVE  /\ Seen(s, o) \in UNION {[R -> Nat] : R \in SUBSET Rows}
         /\ \A r \in DOMAIN Seen(s, o) :
              \/ r \in DOMAIN s.seen /\ Seen(s, o)[r] = s.seen[r]
              \/ o.op \in {"PUT", "REMOVE"} /\ r = o.row /\ Seen(s, o)[r] = o.op_id
<1>1. PICK R \in SUBSET Rows : s.seen \in [R -> Nat]
  BY DEF CompactorState
<1> DEFINE added == [r \in R \cup {o.row} |-> IF r = o.row THEN o.op_id ELSE s.seen[r]]
<1>2. CASE o.op \in {"PUT", "REMOVE"} /\ Seen(s, o) = added
  <2>1. R \cup {o.row} \in SUBSET Rows /\ o.op_id \in Nat
    BY <1>2, OpFields
  <2>2. added \in [R \cup {o.row} -> Nat]
    BY <1>1, <2>1
  <2>3. \A r \in R \cup {o.row} : (r = o.row /\ added[r] = o.op_id) \/ (r \in R /\ added[r] = s.seen[r])
    OBVIOUS
  <2> HIDE DEF added
  <2> QED BY <1>1, <1>2, <2>1, <2>2, <2>3
<1>3. CASE Seen(s, o) = s.seen
  BY <1>1, <1>3
<1> QED BY <1>1, <1>2, <1>3 DEF Seen

LEMMA ScannedIs ==
  ASSUME NEW s \in CompactorState, NEW o \in Op
  PROVE  LET n == [Scanned(s, o) EXCEPT !.upper = o.op_id]
         IN  /\ n \in CompactorState
             /\ n.step = s.step /\ n.bucket = s.bucket /\ n.maxOpId = s.maxOpId /\ n.upper = o.op_id
             /\ o.op_id > s.maxOpId =>
                  n.lastNotPut = s.lastNotPut /\ n.seen = s.seen /\ n.updates = s.updates
             /\ o.op_id <= s.maxOpId =>
                  /\ n.lastNotPut = CountNotPut(s, o).lastNotPut
                  /\ n.seen = Seen(s, o)
                  /\ n.updates = IF IsSuperseded(s, o)
                                 THEN s.updates \cup {[op_id |-> o.op_id, target_op |-> s.seen[o.row]]}
                                 ELSE s.updates
<1> DEFINE k == CountNotPut(s, o)
           updates == IF IsSuperseded(s, o)
                      THEN k.updates \cup {[op_id |-> o.op_id, target_op |-> s.seen[o.row]]}
                      ELSE k.updates
<1>1. o.op_id \in Nat /\ s.maxOpId \in Nat
  BY OpFields DEF CompactorState
<1>2. /\ k \in CompactorState /\ k.step = s.step /\ k.bucket = s.bucket /\ k.maxOpId = s.maxOpId
      /\ k.updates = s.updates
  BY CountNotPutIs
<1>3. updates \in SUBSET Update
  <2>1. IsSuperseded(s, o) => s.seen[o.row] \in Nat
    BY DEF IsSuperseded, CompactorState
  <2>2. s.updates \in SUBSET Update
    BY DEF CompactorState
  <2> QED BY <1>1, <1>2, <2>1, <2>2 DEF Update
<1>4. Seen(s, o) \in UNION {[R -> Nat] : R \in SUBSET Rows}
  BY SeenIs
<1>5. CASE o.op_id > s.maxOpId
  <2>1. Scanned(s, o) = s
    BY <1>5 DEF Scanned, IsSkipped
  <2> QED BY <1>1, <1>5, <2>1 DEF CompactorState
<1>6. CASE ~(o.op_id > s.maxOpId)
  <2>1. Scanned(s, o) = [k EXCEPT !.seen = Seen(s, o), !.updates = updates]
    BY <1>6 DEF Scanned, IsSkipped
  <2>2. updates = IF IsSuperseded(s, o)
                  THEN s.updates \cup {[op_id |-> o.op_id, target_op |-> s.seen[o.row]]}
                  ELSE s.updates
    BY <1>2
  <2> DEFINE n == [[k EXCEPT !.seen = Seen(s, o), !.updates = updates] EXCEPT !.upper = o.op_id]
  <2>3. /\ n \in CompactorState
        /\ n.step = k.step /\ n.bucket = k.bucket /\ n.maxOpId = k.maxOpId /\ n.upper = o.op_id
        /\ n.lastNotPut = k.lastNotPut /\ n.seen = Seen(s, o) /\ n.updates = updates
    <3> HIDE DEF k, updates
    <3> QED BY <1>1, <1>2, <1>3, <1>4 DEF CompactorState
  <2>4. [Scanned(s, o) EXCEPT !.upper = o.op_id] = n
    BY <2>1
  <2> HIDE DEF n, updates
  <2> QED BY <1>1, <1>2, <1>6, <2>2, <2>3, <2>4
<1> QED BY <1>5, <1>6

LEMMA ScanOpIs ==
  ASSUME CompactInv, NEW c \in Compactors, ScanOp(c)
  PROVE  LET s == compactors[c]
             o == LastOp(Unscanned(c))
             n == [Scanned(s, o) EXCEPT !.upper = o.op_id]
         IN  /\ s.step = "scan" /\ s.bucket \in Buckets
             /\ o \in bucket_data[s.bucket] /\ o \in Op /\ o.op_id < s.upper
             /\ \A p \in bucket_data[s.bucket] : p.op_id < s.upper => p.op_id <= o.op_id
             /\ compactors' = [compactors EXCEPT ![c] = n] /\ compactors'[c] = n /\ UNCHANGED storageVars
<1> DEFINE s == compactors[c]
           o == LastOp(Unscanned(c))
<1>1. s.step = "scan" /\ Unscanned(c) # {}
  BY DEF ScanOp
<1>2. s.bucket \in Buckets
  BY <1>1, StateFields DEF CompactorOK
<1>3. Unscanned(c) \subseteq Op /\ IsFiniteSet(Unscanned(c))
  <2>1. IsFiniteSet(bucket_data[s.bucket]) /\ bucket_data[s.bucket] \subseteq Op
    BY <1>2, BucketIsOps DEF CompactInv
  <2>2. Unscanned(c) \subseteq bucket_data[s.bucket]
    BY DEF Unscanned
  <2> QED BY <2>1, <2>2, FS_Subset
<1>4. o \in Unscanned(c) /\ \A p \in Unscanned(c) : p.op_id <= o.op_id
  BY <1>1, <1>3, LastOpMax
<1>5. /\ o \in bucket_data[s.bucket] /\ o \in Op /\ o.op_id < s.upper
      /\ \A p \in bucket_data[s.bucket] : p.op_id < s.upper => p.op_id <= o.op_id
  BY <1>3, <1>4 DEF Unscanned
<1>6. compactors' = [compactors EXCEPT ![c] = [Scanned(s, o) EXCEPT !.upper = o.op_id]] /\ UNCHANGED storageVars
  BY DEF ScanOp
<1>7. compactors'[c] = [Scanned(s, o) EXCEPT !.upper = o.op_id]
  BY <1>6 DEF CompactInv
<1> QED BY <1>1, <1>2, <1>5, <1>6, <1>7

LEMMA ScanOp_Inv ==
  ASSUME CompactInv, NEW c \in Compactors, ScanOp(c)
  PROVE  CompactInv'
<1> DEFINE s == compactors[c]
           o == LastOp(Unscanned(c))
           n == [Scanned(s, o) EXCEPT !.upper = o.op_id]
           D == bucket_data[s.bucket]
<1>1. /\ s.step = "scan" /\ s.bucket \in Buckets /\ o \in D /\ o \in Op /\ o.op_id < s.upper
      /\ \A p \in D : p.op_id < s.upper => p.op_id <= o.op_id
      /\ compactors' = [compactors EXCEPT ![c] = n] /\ compactors'[c] = n /\ UNCHANGED storageVars
  BY ScanOpIs
<1>2. s \in CompactorState /\ CompactorOK(c) /\ s.lastNotPut \in Nat /\ s.maxOpId \in Nat /\ s.upper \in Nat
      /\ checkpoint \in Nat
  BY StateFields
<1>3. /\ n \in CompactorState
      /\ n.step = s.step /\ n.bucket = s.bucket /\ n.maxOpId = s.maxOpId /\ n.upper = o.op_id
      /\ o.op_id > s.maxOpId => n.lastNotPut = s.lastNotPut /\ n.updates = s.updates
      /\ o.op_id <= s.maxOpId =>
           /\ n.lastNotPut = CountNotPut(s, o).lastNotPut
           /\ n.updates = IF IsSuperseded(s, o)
                          THEN s.updates \cup {[op_id |-> o.op_id, target_op |-> s.seen[o.row]]}
                          ELSE s.updates
  BY <1>1, <1>2, ScannedIs
<1>4. o.op_id \in Nat /\ o.op_id > 0 /\ \A p \in D : p.op_id \in Nat /\ p.op_id > 0 /\ (p.op_id = o.op_id => p = o)
  BY <1>1, BucketIsOps, OpFields DEF CompactInv, IsOps
<1>5. CountNotPut(s, o).lastNotPut = IF o.op = "PUT" /\ ~IsSuperseded(s, o) THEN 0
                                     ELSE IF o.op = "CLEAR" \/ s.lastNotPut # 0 THEN s.lastNotPut
                                     ELSE o.op_id
  BY <1>1, <1>2, CountNotPutIs
<1>6. s.lastNotPut <= s.maxOpId /\ s.maxOpId <= checkpoint
      /\ \A p \in D : p.op = "PUT" /\ s.upper <= p.op_id /\ p.op_id <= s.lastNotPut => \E u \in s.updates : u.op_id = p.op_id
  BY <1>1, <1>2 DEF CompactorOK
<1>7. s.updates \subseteq n.updates /\ (o.op_id <= s.maxOpId /\ IsSuperseded(s, o) => \E u \in n.updates : u.op_id = o.op_id)
  <2> DEFINE u == [op_id |-> o.op_id, target_op |-> s.seen[o.row]]
  <2>1. u.op_id = o.op_id
    OBVIOUS
  <2>2. o.op_id > s.maxOpId \/ o.op_id <= s.maxOpId
    BY <1>2, <1>4
  <2>3. o.op_id <= s.maxOpId => n.updates = IF IsSuperseded(s, o) THEN s.updates \cup {u} ELSE s.updates
    BY <1>3
  <2> HIDE DEF n, s, o, u
  <2>4. o.op_id <= s.maxOpId /\ IsSuperseded(s, o) => u \in n.updates
    BY <2>3
  <2> QED BY <1>3, <2>1, <2>2, <2>3, <2>4
<1> HIDE DEF n, s, o, D
<1>8. n.lastNotPut <= n.maxOpId
  BY <1>2, <1>3, <1>4, <1>5, <1>6
<1>9. ASSUME NEW p \in D, p.op = "PUT", n.upper <= p.op_id, p.op_id <= n.lastNotPut
      PROVE  \E u \in n.updates : u.op_id = p.op_id
  <2>1. o.op_id <= s.maxOpId
    BY <1>2, <1>3, <1>4, <1>6, <1>9
  <2>2. ~(o.op = "PUT" /\ ~IsSuperseded(s, o))
    BY <1>3, <1>4, <1>5, <1>9, <2>1
  <2>3. CASE p = o
    BY <1>7, <1>9, <2>1, <2>2, <2>3
  <2>4. CASE p # o
    <3>1. s.upper <= p.op_id
      BY <1>1, <1>2, <1>3, <1>4, <1>9, <2>4
    <3>2. n.lastNotPut = s.lastNotPut
      BY <1>2, <1>3, <1>4, <1>5, <1>9, <2>1, <2>2, <2>4
    <3> QED BY <1>6, <1>7, <1>9, <3>1, <3>2
  <2> QED BY <2>3, <2>4
<1>10. bucket_data'[n.bucket] = D /\ checkpoint' = checkpoint
  BY <1>1, <1>3 DEF storageVars, D
<1>11. CompactorOK(c)'
  BY <1>1, <1>3, <1>6, <1>8, <1>9, <1>10 DEF CompactorOK
<1> QED BY <1>1, <1>3, <1>11, OneCompactor

-----------------------------------------------------------------------------
(***************************************************************************)
(* Steps that rewrite a bucket.                                            *)
(***************************************************************************)
LEMMA MovedIs ==
  ASSUME NEW o \in Op, NEW updates \in SUBSET Update
  PROVE  LET m == Moved(o, updates)
         IN  /\ m \in Op /\ m.op_id = o.op_id /\ m.checksum = o.checksum
             /\ \/ m = o /\ \A u \in updates : u.op_id # o.op_id
                \/ /\ m.op = "MOVE"
                   /\ \E u \in updates : u.op_id = o.op_id /\ m.target_op = u.target_op
<1>1. CASE \A u \in updates : u.op_id # o.op_id
  BY <1>1 DEF Moved
<1>2. CASE \E u \in updates : u.op_id = o.op_id
  <2> DEFINE u == CHOOSE v \in updates : v.op_id = o.op_id
             m == [op |-> "MOVE", op_id |-> o.op_id, row |-> None, data |-> None, checksum |-> o.checksum,
                   target_op |-> u.target_op]
  <2>1. u \in updates /\ u.op_id = o.op_id
    BY <1>2
  <2>2. u.target_op \in Nat
    BY <2>1 DEF Update
  <2>3. Moved(o, updates) = m
    BY <1>2 DEF Moved
  <2>4. o.op_id \in Nat \ {0} /\ o.checksum \in Nat
    BY OpFields
  <2> HIDE DEF u
  <2>5. m \in MoveOp
    BY <2>2, <2>4 DEF MoveOp
  <2> QED BY <2>1, <2>3, <2>5 DEF Op
<1> QED BY <1>1, <1>2

LEMMA FlushMovesIs ==
  ASSUME CompactInv, NEW c \in Compactors, FlushMoves(c)
  PROVE  LET s == compactors[c]
             n == [s EXCEPT !.updates = {}]
             D == bucket_data[s.bucket]
         IN  /\ s.step = "scan" /\ s.bucket \in Buckets
             /\ bucket_data' = [bucket_data EXCEPT ![s.bucket] = {Moved(o, s.updates) : o \in D}]
             /\ bucket_data'[s.bucket] = {Moved(o, s.updates) : o \in D}
             /\ compactors' = [compactors EXCEPT ![c] = n] /\ compactors'[c] = n /\ n \in CompactorState
             /\ UNCHANGED <<op_id, checkpoint, log>>
<1> DEFINE s == compactors[c]
           n == [s EXCEPT !.updates = {}]
           D == bucket_data[s.bucket]
<1>1. /\ s.step = "scan"
      /\ bucket_data' = [bucket_data EXCEPT ![s.bucket] = {Moved(o, s.updates) : o \in D}]
      /\ UNCHANGED <<op_id, checkpoint, log>>
  BY DEF FlushMoves
<1>2. s.bucket \in Buckets
  BY <1>1, StateFields DEF CompactorOK
<1>3. compactors' = [compactors EXCEPT ![c] = n]
  BY DEF FlushMoves
<1>4. n \in CompactorState
  BY StateFields DEF CompactorState
<1>5. bucket_data'[s.bucket] = {Moved(o, s.updates) : o \in D}
  BY <1>1, <1>2 DEF CompactInv, StorageOK
<1>6. compactors'[c] = n
  BY <1>3 DEF CompactInv
<1> QED BY <1>1, <1>2, <1>3, <1>4, <1>5, <1>6

LEMMA FlushMoves_Inv ==
  ASSUME CompactInv, NEW c \in Compactors, FlushMoves(c)
  PROVE  CompactInv'
<1> DEFINE s == compactors[c]
           n == [s EXCEPT !.updates = {}]
           b == s.bucket
           D == bucket_data[b]
           M == {Moved(o, s.updates) : o \in D}
<1>1. /\ s.step = "scan" /\ b \in Buckets
      /\ bucket_data' = [bucket_data EXCEPT ![b] = M] /\ bucket_data'[b] = M
      /\ compactors' = [compactors EXCEPT ![c] = n] /\ compactors'[c] = n /\ n \in CompactorState
      /\ UNCHANGED <<op_id, checkpoint, log>>
  BY FlushMovesIs
<1>2. D \subseteq Op /\ OwnIds(D, op_id) /\ s.updates \in SUBSET Update
  BY <1>1, StateFields DEF CompactInv, StorageOK
<1>3. ASSUME NEW o \in D
      PROVE  LET m == Moved(o, s.updates)
             IN  m \in Op /\ m.op_id = o.op_id /\ (m.op = "PUT" => m = o /\ \A u \in s.updates : u.op_id # o.op_id)
  <2> DEFINE m == Moved(o, s.updates)
  <2>1. /\ m \in Op /\ m.op_id = o.op_id
        /\ m.op = "MOVE" \/ (m = o /\ \A u \in s.updates : u.op_id # o.op_id)
    BY <1>2, <1>3, MovedIs
  <2> HIDE DEF m
  <2> QED BY <2>1 DEF m
<1>4. M \subseteq Op /\ OwnIds(M, op_id)
  BY <1>2, <1>3 DEF OwnIds
<1>5. \A o \in M : o.op = "PUT" => o \in D /\ \A u \in s.updates : u.op_id # o.op_id
  BY <1>3
<1> HIDE DEF M, D
<1>6. StorageOK'
  <2>1. bucket_data' \in [Buckets -> SUBSET Op]
    BY <1>1, <1>4 DEF CompactInv, StorageOK
  <2>2. \A d \in Buckets : OwnIds(bucket_data'[d], op_id)
    BY <1>1, <1>4 DEF CompactInv, StorageOK
  <2> QED BY <1>1, <2>1, <2>2 DEF CompactInv, StorageOK
<1>7. ASSUME NEW d \in Compactors, d # c PROVE CompactorOK(d)'
  <2>1. compactors'[d] = compactors[d] /\ checkpoint' = checkpoint /\ checkpoint \in Nat
    BY <1>1, <1>7 DEF CompactInv, StorageOK
  <2>2. compactors[d].bucket \in Buckets =>
          \A o \in bucket_data'[compactors[d].bucket] : o.op = "PUT" => o \in bucket_data[compactors[d].bucket]
    BY <1>1, <1>5 DEF CompactInv, StorageOK, D
  <2> QED BY <2>1, <2>2, CompactorKeeps
<1>8. CompactorOK(c)'
  <2>1. n.step = "scan" /\ n.bucket = b /\ n.maxOpId = s.maxOpId /\ n.lastNotPut = s.lastNotPut /\ n.upper = s.upper
    BY <1>1, StateFields DEF CompactorState
  <2>2. s.lastNotPut <= s.maxOpId /\ s.maxOpId <= checkpoint
        /\ \A o \in D : o.op = "PUT" /\ s.upper <= o.op_id /\ o.op_id <= s.lastNotPut => \E u \in s.updates : u.op_id = o.op_id
    BY <1>1, StateFields DEF CompactorOK, D
  <2>3. \A o \in M : ~(o.op = "PUT" /\ s.upper <= o.op_id /\ o.op_id <= s.lastNotPut)
    BY <1>5, <2>2
  <2> HIDE DEF n, s, b
  <2> QED BY <1>1, <2>1, <2>2, <2>3 DEF CompactorOK
<1>9. compactors' \in [Compactors -> CompactorState]
  BY <1>1 DEF CompactInv
<1> QED BY <1>6, <1>7, <1>8, <1>9 DEF CompactInv

LEMMA ClearedIs ==
  ASSUME CompactInv, NEW c \in Compactors, compactors[c].bucket \in Buckets
  PROVE  LET D == bucket_data[compactors[c].bucket]
             ops == Cleared(c)
         IN  /\ ops \subseteq D /\ ops \subseteq Op /\ IsFiniteSet(ops) /\ IsOps(ops)
             /\ \A o \in ops : o.op_id <= compactors[c].lastNotPut
             /\ \A o \in ops, e \in D : e.op_id <= o.op_id => e \in ops
<1> DEFINE D == bucket_data[compactors[c].bucket]
           prefix == {o \in D : o.op_id <= compactors[c].lastNotPut}
           Below(o) == {p \in prefix : p.op_id < o.op_id}
           ops == {o \in prefix : Cardinality(Below(o)) < ClearBatchLimit}
<1>1. Cleared(c) = ops
  BY DEF Cleared
<1>2. IsOps(D) /\ D \subseteq Op /\ IsFiniteSet(D) /\ compactors[c].lastNotPut \in Nat
  BY BucketIsOps, StateFields DEF CompactInv
<1>3. \A o \in D : o.op_id \in Nat
  BY <1>2, OpFields
<1>4. ASSUME NEW o \in ops, NEW e \in D, e.op_id <= o.op_id PROVE e \in ops
  <2>1. e \in prefix /\ Below(e) \subseteq Below(o)
    BY <1>2, <1>3, <1>4
  <2>2. IsFiniteSet(Below(o)) /\ IsFiniteSet(Below(e))
    BY <1>2, FS_Subset
  <2>3. Cardinality(Below(e)) <= Cardinality(Below(o)) /\ Cardinality(Below(e)) \in Nat /\ Cardinality(Below(o)) \in Nat
    <3> HIDE DEF Below
    <3> QED BY <2>1, <2>2, FS_Subset, FS_CardinalityType
  <2>4. Cardinality(Below(o)) < ClearBatchLimit
    BY <1>4
  <2> HIDE DEF Below
  <2> QED BY <2>1, <2>3, <2>4, LimitsAssumption
<1>5. ops \subseteq D /\ IsFiniteSet(ops) /\ IsOps(ops)
  BY <1>2, FS_Subset DEF IsOps
<1>6. \A o \in ops : o.op_id <= compactors[c].lastNotPut
  OBVIOUS
<1> HIDE DEF ops
<1> QED BY <1>1, <1>2, <1>4, <1>5, <1>6

LEMMA ClearOfIs ==
  ASSUME NEW ops, IsFiniteSet(ops), ops \subseteq Op, ops # {}
  PROVE  LET k == ClearOf(ops)
         IN  /\ k \in ClearOp /\ k \in Op /\ k.op = "CLEAR" /\ k.checksum = SumChecksums(ops)
             /\ k.target_op = MaxTarget(ops) /\ k.op_id = LastOp(ops).op_id
             /\ LastOp(ops) \in ops /\ \A o \in ops : o.op_id <= k.op_id
<1>1. LastOp(ops) \in ops /\ \A o \in ops : o.op_id <= LastOp(ops).op_id
  BY LastOpMax
<1>2. LastOp(ops).op_id \in Nat \ {0} /\ SumChecksums(ops) \in Nat /\ MaxTarget(ops) \in Nat
  BY <1>1, OpFields, SumType, MaxTargetIs
<1>3. ClearOf(ops) \in ClearOp
  BY <1>2 DEF ClearOf, ClearOp
<1> QED BY <1>1, <1>3 DEF ClearOf, Op

LEMMA ClearBucketIs ==
  ASSUME CompactInv, NEW c \in Compactors, ClearBucket(c)
  PROVE  LET s == compactors[c]
             D == bucket_data[s.bucket]
             ops == Cleared(c)
             cleared == (D \ ops) \cup {ClearOf(ops)}
         IN  /\ s.step = "clear" /\ s.bucket \in Buckets /\ UNCHANGED <<op_id, checkpoint, log>>
             /\ \A o \in ops : o.op # "PUT"
             /\ \/ bucket_data' = bucket_data /\ compactors' = [compactors EXCEPT ![c].step = "next"]
                \/ /\ ops # {} /\ UNCHANGED compactors
                   /\ bucket_data' = [bucket_data EXCEPT ![s.bucket] = cleared] /\ bucket_data'[s.bucket] = cleared
<1> DEFINE s == compactors[c]
           ops == Cleared(c)
           cleared == (bucket_data[s.bucket] \ ops) \cup {ClearOf(ops)}
<1>1. s.step = "clear" /\ UNCHANGED <<op_id, checkpoint, log>>
  BY DEF ClearBucket
<1>2. s.bucket \in Buckets /\ s.lastNotPut \in Nat
      /\ \A o \in bucket_data[s.bucket] : o.op = "PUT" => o.op_id > s.lastNotPut
  BY <1>1, StateFields DEF CompactorOK
<1>3. ops \subseteq bucket_data[s.bucket] /\ \A o \in ops : o.op_id <= s.lastNotPut /\ o \in Op
  BY <1>2, ClearedIs
<1>4. \A o \in ops : o.op # "PUT"
  BY <1>2, <1>3, OpFields
<1>5. \/ bucket_data' = bucket_data /\ compactors' = [compactors EXCEPT ![c].step = "next"]
      \/ ops # {} /\ UNCHANGED compactors /\ bucket_data' = [bucket_data EXCEPT ![s.bucket] = cleared]
  BY <1>4 DEF ClearBucket
<1>6. bucket_data' = [bucket_data EXCEPT ![s.bucket] = cleared] => bucket_data'[s.bucket] = cleared
  BY <1>2 DEF CompactInv, StorageOK
<1> QED BY <1>1, <1>2, <1>4, <1>5, <1>6

LEMMA ClearBucket_Inv ==
  ASSUME CompactInv, NEW c \in Compactors, ClearBucket(c)
  PROVE  CompactInv'
<1> DEFINE s == compactors[c]
           b == s.bucket
           D == bucket_data[b]
           ops == Cleared(c)
           k == ClearOf(ops)
           cleared == (D \ ops) \cup {k}
<1>1. /\ s.step = "clear" /\ b \in Buckets /\ UNCHANGED <<op_id, checkpoint, log>>
      /\ \/ bucket_data' = bucket_data /\ compactors' = [compactors EXCEPT ![c].step = "next"]
         \/ /\ ops # {} /\ UNCHANGED compactors
            /\ bucket_data' = [bucket_data EXCEPT ![b] = cleared] /\ bucket_data'[b] = cleared
  BY ClearBucketIs
<1>2. CASE bucket_data' = bucket_data /\ compactors' = [compactors EXCEPT ![c].step = "next"]
  <2> DEFINE n == [s EXCEPT !.step = "next"]
  <2>1. n \in CompactorState /\ n.step = "next" /\ n.maxOpId = s.maxOpId /\ n.lastNotPut = s.lastNotPut
    BY StateFields DEF CompactorState
  <2>2. compactors' = [compactors EXCEPT ![c] = n] /\ UNCHANGED storageVars
    BY <1>1, <1>2 DEF storageVars
  <2>3. compactors'[c] = n
    BY <2>2 DEF CompactInv
  <2>4. s.lastNotPut <= s.maxOpId /\ s.maxOpId <= checkpoint
    BY StateFields DEF CompactorOK
  <2> HIDE DEF n, s
  <2>5. CompactorOK(c)'
    BY <1>1, <2>1, <2>3, <2>4 DEF CompactorOK
  <2> QED BY <2>1, <2>2, <2>5, OneCompactor
<1>3. CASE /\ ops # {} /\ UNCHANGED compactors
           /\ bucket_data' = [bucket_data EXCEPT ![b] = cleared] /\ bucket_data'[b] = cleared
  <2>1. ops \subseteq D /\ ops \subseteq Op /\ IsFiniteSet(ops) /\ \A o \in ops, e \in D : e.op_id <= o.op_id => e \in ops
    BY <1>1, ClearedIs
  <2>2. k \in Op /\ k.op = "CLEAR" /\ \E o \in ops : o.op_id = k.op_id
    BY <1>3, <2>1, ClearOfIs
  <2>3. D \subseteq Op /\ OwnIds(D, op_id)
    BY <1>1 DEF CompactInv, StorageOK
  <2> HIDE DEF k, ops, D, s, b
  <2>4. cleared \subseteq Op /\ OwnIds(cleared, op_id)
    <3>1. \A o \in D \ ops : o.op_id # k.op_id
      BY <2>1, <2>2, <2>3 DEF OwnIds
    <3>2. k.op_id <= op_id
      BY <2>1, <2>2, <2>3 DEF OwnIds
    <3> QED BY <2>2, <2>3, <3>1, <3>2 DEF OwnIds
  <2>5. \A o \in cleared : o.op = "PUT" => o \in D
    BY <2>2
  <2> HIDE DEF cleared
  <2>6. StorageOK'
    <3>1. bucket_data' \in [Buckets -> SUBSET Op]
      BY <1>1, <1>3, <2>4 DEF CompactInv, StorageOK
    <3>2. \A d \in Buckets : OwnIds(bucket_data'[d], op_id)
      BY <1>1, <1>3, <2>4 DEF CompactInv, StorageOK
    <3> QED BY <1>1, <3>1, <3>2 DEF CompactInv, StorageOK
  <2>7. ASSUME NEW d \in Compactors PROVE CompactorOK(d)'
    <3>1. compactors'[d] = compactors[d] /\ checkpoint' = checkpoint /\ checkpoint \in Nat
      BY <1>1, <1>3 DEF CompactInv, StorageOK
    <3>2. compactors[d].bucket \in Buckets =>
            \A o \in bucket_data'[compactors[d].bucket] : o.op = "PUT" => o \in bucket_data[compactors[d].bucket]
      BY <1>1, <1>3, <2>5 DEF CompactInv, StorageOK, D
    <3> QED BY <3>1, <3>2, CompactorKeeps
  <2> QED BY <1>3, <2>6, <2>7 DEF CompactInv
<1> QED BY <1>1, <1>2, <1>3

-----------------------------------------------------------------------------
LEMMA CompactNext_Inv ==
  ASSUME CompactInv, CompactNext \/ UNCHANGED compactVars
  PROVE  CompactInv'
<1>1. CASE UNCHANGED compactVars
  BY <1>1 DEF CompactInv, StorageOK, CompactorOK, compactVars, storageVars
<1>2. CASE CompactNext
  BY <1>2, Flush_Inv, Commit_Inv, StartCompact_Inv, CompactSingleBucket_Inv, ScanOp_Inv, FlushMoves_Inv, EndScan_Inv,
     ClearBucket_Inv, StopCompact_Inv DEF CompactNext, CompactStep
<1> QED BY <1>1, <1>2

(***************************************************************************)
(* The invariant of the compactors, whatever they do to each other.        *)
(***************************************************************************)
THEOREM CompactInvariant == CompactSpec => []CompactInv
<1>1. CompactInit => CompactInv
  BY CompactInit_Inv
<1>2. CompactInv /\ [CompactNext]_compactVars => CompactInv'
  BY CompactNext_Inv
<1> QED BY <1>1, <1>2, PTL DEF CompactSpec

LEMMA CompactTypesOf ==
  ASSUME CompactInv
  PROVE  CompactTypeOK
<1>1. ASSUME NEW c \in Compactors
      PROVE  /\ compactors[c].step \in {"idle", "next", "scan", "clear", "failed"}
             /\ compactors[c].maxOpId \in 0..checkpoint
             /\ compactors[c].bucket \in Buckets \cup {None}
             /\ DOMAIN compactors[c].seen \subseteq Rows
             /\ compactors[c].lastNotPut \in 0..compactors[c].maxOpId
  <2>1. compactors[c] \in CompactorState /\ CompactorOK(c) /\ checkpoint \in Nat
    BY StateFields
  <2>2. compactors[c].maxOpId \in Nat /\ compactors[c].lastNotPut \in Nat
    BY <2>1 DEF CompactorState
  <2> QED BY <2>1, <2>2 DEF CompactorOK, CompactorState
<1>2. checkpoint \in 0..op_id
  BY DEF CompactInv, StorageOK
<1> QED BY <1>1, <1>2 DEF CompactTypeOK, CompactInv, StorageOK

(***************************************************************************)
(* The types of the buckets and of the state of a compaction.              *)
(***************************************************************************)
THEOREM CompactTypes == CompactSpec => []CompactTypeOK
<1>1. CompactInv => CompactTypeOK
  BY CompactTypesOf
<1> QED BY <1>1, CompactInvariant, PTL

(***************************************************************************)
(* clearBucket never meets a PUT in the prefix that an earlier scan found, *)
(* whatever replication and other compactors have written since.           *)
(***************************************************************************)
THEOREM NeverClearsPut == CompactSpec => []ClearsNoPut
<1>1. CompactInv => ClearsNoPut
  BY DEF CompactInv, CompactorOK, ClearsNoPut
<1> QED BY <1>1, CompactInvariant, PTL

-----------------------------------------------------------------------------
(***************************************************************************)
(* What a scan remembers is in the log, and what it is about to turn into  *)
(* a MOVE is still as it was written. That is so while no two compactors   *)
(* work on a bucket at the same time: a second one could have put a CLEAR  *)
(* there in the meantime, which the first one then overwrites.             *)
(***************************************************************************)
OnePerBucket ==
  \A c, d \in Compactors :
    c # d /\ compactors[c].step \in {"scan", "clear"} /\ compactors[d].step \in {"scan", "clear"} =>
      compactors[c].bucket # compactors[d].bucket

ScanLogged(c) ==
  LET s == compactors[c]
      D == bucket_data[s.bucket]
      L == log[s.bucket]
  IN  s.step = "scan" =>
        /\ \A r \in DOMAIN s.seen : \E t \in L : t.op_id = s.seen[r] /\ t.row = r /\ s.upper <= t.op_id
        /\ \A u \in s.updates :
             \E q \in D \cap L, t \in L : q.op_id = u.op_id /\ Supersedes(t, q) /\ t.op_id = u.target_op

LogInv ==
  /\ CompactInv
  /\ \A b \in Buckets : LogOK(bucket_data[b], log[b])
  /\ \A c \in Compactors : ScanLogged(c)

LEMMA BucketLogged ==
  ASSUME StorageOK, NEW b \in Buckets
  PROVE  IsLogged(bucket_data[b], log[b])
BY BucketIsOps DEF IsLogged, StorageOK

LEMMA CompactInit_Log ==
  ASSUME CompactInit
  PROVE  LogInv
<1>1. \A b \in Buckets : bucket_data[b] = {} /\ log[b] = {}
  BY DEF CompactInit
<1>2. LogOK({}, {})
  BY DEF LogOK, KeepsWritten, MovesSuperseded, ClearsStart, NothingMissing, TargetsWritten
<1>3. \A c \in Compactors : compactors[c].step = "idle"
  BY IdleState DEF CompactInit
<1> QED BY <1>1, <1>2, <1>3, CompactInit_Inv DEF LogInv, ScanLogged

(***************************************************************************)
(* An append does not disturb a scan: nothing it remembers changes.        *)
(***************************************************************************)
LEMMA Flush_Log ==
  ASSUME LogInv, Flush
  PROVE  LogInv'
<1>0. CompactInv /\ CompactInv' /\ op_id \in Nat
  BY Flush_Inv DEF LogInv, CompactInv, StorageOK
<1>1. PICK b \in Buckets, op \in PutOp \cup RemoveOp : AppendOp(b, op) /\ op.op_id = op_id + 1
  BY <1>0, FlushIs
<1>2. /\ bucket_data' = [bucket_data EXCEPT ![b] = @ \cup {op}]
      /\ log' = [log EXCEPT ![b] = @ \cup {op}]
      /\ compactors' = compactors
  BY <1>1 DEF AppendOp, Flush
<1>3. \A d \in Buckets : /\ bucket_data'[d] = bucket_data[d] \cup (IF d = b THEN {op} ELSE {})
                         /\ log'[d] = log[d] \cup (IF d = b THEN {op} ELSE {})
  BY <1>0, <1>2 DEF CompactInv, StorageOK
<1>4. ASSUME NEW d \in Buckets PROVE LogOK(bucket_data'[d], log'[d])
  <2>1. IsLogged(bucket_data[d], log[d]) /\ LogOK(bucket_data[d], log[d])
    BY <1>0, BucketLogged DEF CompactInv, LogInv
  <2>2. \A o \in bucket_data[d] \cup log[d] : o.op_id <= op_id
    BY <1>0 DEF CompactInv, StorageOK, OwnIds
  <2>3. CASE d = b
    <3>1. LogOK(bucket_data[d] \cup {op}, log[d] \cup {op})
      BY <1>0, <1>1, <2>1, <2>2, AppendLogged
    <3> QED BY <1>3, <2>3, <3>1
  <2>4. CASE d # b
    <3>1. bucket_data'[d] = bucket_data[d] /\ log'[d] = log[d]
      BY <1>3, <2>4
    <3> QED BY <2>1, <3>1
  <2> QED BY <2>3, <2>4
<1>5. ASSUME NEW c \in Compactors PROVE ScanLogged(c)'
  <2> SUFFICES ASSUME compactors[c].step = "scan" PROVE ScanLogged(c)'
    BY <1>2 DEF ScanLogged
  <2>1. compactors[c].bucket \in Buckets
    BY <1>0, StateFields DEF CompactorOK
  <2>2. /\ bucket_data[compactors[c].bucket] \subseteq bucket_data'[compactors[c].bucket]
        /\ log[compactors[c].bucket] \subseteq log'[compactors[c].bucket]
    BY <1>3, <2>1
  <2>3. ScanLogged(c)
    BY DEF LogInv
  <2> QED BY <1>2, <2>2, <2>3 DEF ScanLogged
<1> QED BY <1>0, <1>4, <1>5 DEF LogInv

(* A step of a compactor that does not change the storage. *)
LEMMA StateOnly_Log ==
  ASSUME LogInv, CompactInv', UNCHANGED storageVars, \A c \in Compactors : ScanLogged(c)'
  PROVE  LogInv'
BY DEF LogInv, storageVars

LEMMA OneCompactor_Log ==
  ASSUME LogInv, CompactInv', NEW c \in Compactors, NEW s, compactors' = [compactors EXCEPT ![c] = s],
         UNCHANGED storageVars, ScanLogged(c)'
  PROVE  LogInv'
<1>1. \A d \in Compactors : d # c => compactors'[d] = compactors[d]
  BY DEF LogInv, CompactInv
<1>2. ASSUME NEW d \in Compactors, d # c PROVE ScanLogged(d)'
  BY <1>1, <1>2 DEF LogInv, ScanLogged, storageVars
<1> QED BY <1>2, StateOnly_Log

LEMMA NotScanning_Log ==
  ASSUME LogInv, CompactInv', NEW c \in Compactors, NEW s, compactors' = [compactors EXCEPT ![c] = s],
         UNCHANGED storageVars, s.step # "scan"
  PROVE  LogInv'
<1>1. compactors'[c] = s
  BY DEF LogInv, CompactInv
<1>2. ScanLogged(c)'
  BY <1>1 DEF ScanLogged
<1> QED BY <1>2, OneCompactor_Log

LEMMA StartCompact_Log ==
  ASSUME LogInv, NEW c \in Compactors, StartCompact(c)
  PROVE  LogInv'
<1> DEFINE s == [Idle EXCEPT !.step = "next", !.maxOpId = checkpoint]
<1>1. compactors' = [compactors EXCEPT ![c] = s] /\ UNCHANGED storageVars
  BY DEF StartCompact
<1>2. s.step # "scan"
  BY IdleState DEF CompactorState
<1> HIDE DEF s
<1> QED BY <1>1, <1>2, StartCompact_Inv, NotScanning_Log DEF LogInv

LEMMA StopCompact_Log ==
  ASSUME LogInv, NEW c \in Compactors, StopCompact(c)
  PROVE  LogInv'
<1>1. compactors' = [compactors EXCEPT ![c] = Idle] /\ UNCHANGED storageVars
  BY DEF StopCompact
<1> QED BY <1>1, IdleState, StopCompact_Inv, NotScanning_Log DEF LogInv

LEMMA EndScan_Log ==
  ASSUME LogInv, NEW c \in Compactors, EndScan(c)
  PROVE  LogInv'
<1> DEFINE s == compactors[c]
           n == [s EXCEPT !.step = IF s.lastNotPut # Null /\ s.opsSincePut > 1 THEN "clear" ELSE "next"]
<1>1. compactors' = [compactors EXCEPT ![c] = n] /\ UNCHANGED storageVars
  BY DEF EndScan
<1>2. n.step # "scan"
  BY StateFields DEF CompactorState, LogInv
<1> HIDE DEF n
<1> QED BY <1>1, <1>2, EndScan_Inv, NotScanning_Log DEF LogInv

LEMMA CompactSingleBucket_Log ==
  ASSUME LogInv, NEW c \in Compactors, NEW b \in Buckets, CompactSingleBucket(c, b)
  PROVE  LogInv'
<1> DEFINE s == [Idle EXCEPT !.step = "scan", !.maxOpId = compactors[c].maxOpId, !.bucket = b, !.upper = MaxOp + 1]
<1>1. compactors' = [compactors EXCEPT ![c] = s] /\ UNCHANGED storageVars
  BY DEF CompactSingleBucket
<1>2. s.seen = << >> /\ s.updates = {}
  BY IdleState DEF CompactorState
<1>3. DOMAIN s.seen = {}
  <2>1. << >> \in [{} -> Nat]
    OBVIOUS
  <2> QED BY <1>2, <2>1
<1>4. compactors'[c] = s
  BY <1>1 DEF LogInv, CompactInv
<1> HIDE DEF s
<1>5. ScanLogged(c)'
  BY <1>2, <1>3, <1>4 DEF ScanLogged
<1> QED BY <1>1, <1>5, CompactSingleBucket_Inv, OneCompactor_Log DEF LogInv

LEMMA ScanOp_Log ==
  ASSUME LogInv, NEW c \in Compactors, ScanOp(c)
  PROVE  LogInv'
<1> DEFINE s == compactors[c]
           o == LastOp(Unscanned(c))
           n == [Scanned(s, o) EXCEPT !.upper = o.op_id]
           D == bucket_data[s.bucket]
           L == log[s.bucket]
<1>0. CompactInv /\ CompactInv'
  BY ScanOp_Inv DEF LogInv
<1>1. /\ s.step = "scan" /\ s.bucket \in Buckets /\ o \in D /\ o \in Op /\ o.op_id < s.upper
      /\ compactors' = [compactors EXCEPT ![c] = n] /\ compactors'[c] = n /\ UNCHANGED storageVars
  BY <1>0, ScanOpIs
<1>2. s \in CompactorState /\ s.upper \in Nat /\ s.maxOpId \in Nat
  BY <1>0, StateFields
<1>3. /\ n.bucket = s.bucket /\ n.upper = o.op_id
      /\ o.op_id > s.maxOpId => n.seen = s.seen /\ n.updates = s.updates
      /\ o.op_id <= s.maxOpId =>
           /\ n.seen = Seen(s, o)
           /\ n.updates = IF IsSuperseded(s, o)
                          THEN s.updates \cup {[op_id |-> o.op_id, target_op |-> s.seen[o.row]]}
                          ELSE s.updates
  BY <1>1, <1>2, ScannedIs
<1>4. \A r \in DOMAIN Seen(s, o) :
        \/ r \in DOMAIN s.seen /\ Seen(s, o)[r] = s.seen[r]
        \/ o.op \in {"PUT", "REMOVE"} /\ r = o.row /\ Seen(s, o)[r] = o.op_id
  BY <1>1, <1>2, SeenIs
<1>5. /\ \A r \in DOMAIN s.seen : \E t \in L : t.op_id = s.seen[r] /\ t.row = r /\ s.upper <= t.op_id
      /\ \A u \in s.updates :
           \E q \in D \cap L, t \in L : q.op_id = u.op_id /\ Supersedes(t, q) /\ t.op_id = u.target_op
  BY <1>1 DEF LogInv, ScanLogged
<1>6. IsLogged(D, L) /\ LogOK(D, L) /\ o.op_id \in Nat /\ \A t \in L : t.op_id \in Nat
  BY <1>0, <1>1, BucketLogged, LoggedFields DEF LogInv, CompactInv
<1>7. o.op \in {"PUT", "REMOVE"} => o \in L
  BY <1>1, <1>6 DEF LogOK, KeepsWritten
<1>8. bucket_data'[s.bucket] = D /\ log'[s.bucket] = L
  BY <1>1 DEF storageVars
<1>9. o.op_id > s.maxOpId \/ o.op_id <= s.maxOpId
  BY <1>2, <1>6
<1> DEFINE u == [op_id |-> o.op_id, target_op |-> s.seen[o.row]]
<1>10. u.op_id = o.op_id /\ u.target_op = s.seen[o.row]
  OBVIOUS
<1>11. n.updates = s.updates \/ (IsSuperseded(s, o) /\ n.updates = s.updates \cup {u})
  BY <1>3, <1>9
<1>12. n.seen = s.seen \/ n.seen = Seen(s, o)
  BY <1>3, <1>9
<1> HIDE DEF n, o, s, D, L, u
<1>13. \A r \in DOMAIN s.seen : \E t \in L : t.op_id = s.seen[r] /\ t.row = r /\ o.op_id < t.op_id
  BY <1>1, <1>2, <1>5, <1>6
<1>14. \A r \in DOMAIN n.seen : \E t \in L : t.op_id = n.seen[r] /\ t.row = r /\ n.upper <= t.op_id
  <2> SUFFICES ASSUME NEW r \in DOMAIN n.seen
               PROVE  \E t \in L : t.op_id = n.seen[r] /\ t.row = r /\ o.op_id <= t.op_id
    BY <1>3
  <2>1. CASE r \in DOMAIN s.seen /\ n.seen[r] = s.seen[r]
    BY <1>6, <1>13, <2>1
  <2>2. CASE o \in L /\ r = o.row /\ n.seen[r] = o.op_id
    BY <1>6, <2>2
  <2> QED BY <1>4, <1>7, <1>12, <2>1, <2>2
<1>15. ASSUME IsSuperseded(s, o)
       PROVE  o \in D \cap L /\ \E t \in L : Supersedes(t, o) /\ t.op_id = s.seen[o.row]
  <2>1. o.op \in {"PUT", "REMOVE"} /\ o.row \in DOMAIN s.seen
    BY <1>15 DEF IsSuperseded
  <2> QED BY <1>1, <1>7, <1>13, <2>1 DEF Supersedes
<1>16. \A v \in n.updates :
         \E q \in D \cap L, t \in L : q.op_id = v.op_id /\ Supersedes(t, q) /\ t.op_id = v.target_op
  BY <1>5, <1>10, <1>11, <1>15
<1>17. ScanLogged(c)'
  BY <1>1, <1>3, <1>8, <1>14, <1>16 DEF ScanLogged
<1> QED BY <1>0, <1>1, <1>17, OneCompactor_Log

-----------------------------------------------------------------------------
(***************************************************************************)
(* MOVEs for operations that are as they were written, and superseded.     *)
(***************************************************************************)
LEMMA MoveLogged ==
  ASSUME NEW D, NEW L, IsLogged(D, L), LogOK(D, L), NEW updates \in SUBSET Update,
         \A u \in updates :
           \E q \in D \cap L, t \in L : q.op_id = u.op_id /\ Supersedes(t, q) /\ t.op_id = u.target_op
  PROVE  LogOK({Moved(o, updates) : o \in D}, L)
<1> DEFINE M == {Moved(o, updates) : o \in D}
<1>1. /\ \A o, p \in D : o.op_id = p.op_id => o = p
      /\ \A o \in D : o \in Op
      /\ \A q \in L : q.op \in {"PUT", "REMOVE"} /\ q.op_id \in Nat
  BY LoggedFields
<1>2. ASSUME NEW o \in D
      PROVE  StandsFor(Moved(o, updates), o, L)
  <2> DEFINE m == Moved(o, updates)
  <2>1. /\ m.op_id = o.op_id /\ m.checksum = o.checksum
        /\ m = o \/ (m.op = "MOVE" /\ \E u \in updates : u.op_id = o.op_id /\ m.target_op = u.target_op)
    BY <1>1, MovedIs
  <2> HIDE DEF m
  <2>2. CASE m = o
    BY <2>2 DEF StandsFor, LogOK, TargetsWritten, m
  <2>3. CASE m.op = "MOVE" /\ \E u \in updates : u.op_id = o.op_id /\ m.target_op = u.target_op
    <3>1. PICK u \in updates : u.op_id = o.op_id /\ m.target_op = u.target_op
      BY <2>3
    <3>2. PICK q \in D \cap L, t \in L : q.op_id = u.op_id /\ Supersedes(t, q) /\ t.op_id = u.target_op
      BY <3>1
    <3>3. q = o
      BY <1>1, <3>1, <3>2
    <3>4. o.op \in {"PUT", "REMOVE"} /\ Supersedes(t, o) /\ t.op_id = m.target_op /\ t.op_id <= m.target_op
      BY <1>1, <3>1, <3>2, <3>3
    <3>5. StandsFor(m, o, L)
      BY <2>1, <2>3, <3>4 DEF StandsFor
    <3> QED BY <3>5 DEF m
  <2> QED BY <2>1, <2>2, <2>3
<1>3. (\A m \in M : \E o \in D : StandsFor(m, o, L)) /\ (\A o \in D : \E m \in M : StandsFor(m, o, L))
  BY <1>2
<1>4. LogOK(M, L)
  <2>1. \A m \in M : m.op_id \in Nat /\ m.target_op \in Nat
    BY <1>1, MovedIs, OpFields
  <2> HIDE DEF M
  <2> QED BY <1>3, <2>1, RewriteLogged
<1> QED BY <1>4 DEF M

LEMMA ClearIsFor ==
  ASSUME NEW D, NEW L, LogOK(D, L), NEW ops, ops \subseteq D, IsFiniteSet(ops), ops \subseteq Op, ops # {}
  PROVE  IsClearFor(ClearOf(ops), ops, L)
<1> DEFINE k == ClearOf(ops)
<1>1. /\ k.op = "CLEAR" /\ k.checksum = SumChecksums(ops) /\ k.target_op = MaxTarget(ops)
      /\ \A o \in ops : o.op_id <= k.op_id
      /\ \E o \in ops : o.op_id = k.op_id
  BY ClearOfIs
<1>2. /\ k.target_op \in Nat /\ \A o \in ops : o.target_op <= k.target_op
      /\ k.target_op = Null \/ \E o \in ops : o.target_op = k.target_op
  BY <1>1, MaxTargetIs
<1> HIDE DEF k
<1>3. k.target_op # Null => \E t \in L : t.op_id = k.target_op
  BY <1>2 DEF LogOK, TargetsWritten
<1> QED BY <1>1, <1>2, <1>3 DEF IsClearFor, k

LEMMA OneBucket_Log ==
  ASSUME LogInv, CompactInv', OnePerBucket,
         NEW c \in Compactors, compactors[c].step \in {"scan", "clear"}, compactors[c].bucket \in Buckets,
         \A d \in Compactors : d # c => compactors'[d] = compactors[d],
         NEW D, bucket_data' = [bucket_data EXCEPT ![compactors[c].bucket] = D], log' = log,
         LogOK(D, log[compactors[c].bucket]), ScanLogged(c)'
  PROVE  LogInv'
<1> DEFINE b == compactors[c].bucket
<1>1. \A d \in Buckets : bucket_data'[d] = IF d = b THEN D ELSE bucket_data[d]
  BY DEF LogInv, CompactInv, StorageOK
<1>2. \A d \in Buckets : LogOK(bucket_data'[d], log'[d])
  <2> SUFFICES ASSUME NEW d \in Buckets PROVE LogOK(bucket_data'[d], log'[d])
    OBVIOUS
  <2>1. CASE d = b
    BY <1>1, <2>1
  <2>2. CASE d # b
    <3>1. bucket_data'[d] = bucket_data[d]
      BY <1>1, <2>2
    <3> QED BY <3>1 DEF LogInv
  <2> QED BY <2>1, <2>2
<1>3. ASSUME NEW d \in Compactors, d # c PROVE ScanLogged(d)'
  <2> SUFFICES ASSUME compactors[d].step = "scan" PROVE ScanLogged(d)'
    BY <1>3 DEF ScanLogged
  <2>1. compactors[d].bucket # b /\ compactors[d].bucket \in Buckets
    BY <1>3, StateFields DEF OnePerBucket, LogInv, CompactorOK
  <2>2. bucket_data'[compactors[d].bucket] = bucket_data[compactors[d].bucket]
    BY <1>1, <2>1
  <2>3. ScanLogged(d)
    BY DEF LogInv
  <2>4. compactors'[d] = compactors[d]
    BY <1>3
  <2> HIDE DEF b
  <2> QED BY <2>2, <2>3, <2>4 DEF ScanLogged
<1> QED BY <1>2, <1>3 DEF LogInv

LEMMA FlushMoves_Log ==
  ASSUME LogInv, OnePerBucket, NEW c \in Compactors, FlushMoves(c)
  PROVE  LogInv'
<1> DEFINE s == compactors[c]
           n == [s EXCEPT !.updates = {}]
           b == s.bucket
           D == bucket_data[b]
           M == {Moved(o, s.updates) : o \in D}
<1>0. CompactInv /\ CompactInv'
  BY FlushMoves_Inv DEF LogInv
<1>1. /\ s.step = "scan" /\ b \in Buckets
      /\ bucket_data' = [bucket_data EXCEPT ![b] = M] /\ bucket_data'[b] = M
      /\ compactors' = [compactors EXCEPT ![c] = n] /\ compactors'[c] = n
      /\ log' = log
  BY <1>0, FlushMovesIs
<1>2. IsLogged(D, log[b]) /\ LogOK(D, log[b]) /\ s.updates \in SUBSET Update
  BY <1>0, <1>1, BucketLogged, StateFields DEF LogInv, CompactInv
<1>3. /\ \A r \in DOMAIN s.seen : \E t \in log[b] : t.op_id = s.seen[r] /\ t.row = r /\ s.upper <= t.op_id
      /\ \A u \in s.updates :
           \E q \in D \cap log[b], t \in log[b] : q.op_id = u.op_id /\ Supersedes(t, q) /\ t.op_id = u.target_op
  BY <1>1 DEF LogInv, ScanLogged
<1>4. LogOK(M, log[b])
  <2> HIDE DEF D, b, s
  <2> QED BY <1>2, <1>3, MoveLogged DEF M
<1>5. n.seen = s.seen /\ n.updates = {} /\ n.upper = s.upper /\ n.bucket = b
  BY <1>0, StateFields DEF CompactorState
<1> HIDE DEF n, M, D
<1>6. ScanLogged(c)'
  BY <1>1, <1>3, <1>5 DEF ScanLogged
<1>7. \A d \in Compactors : d # c => compactors'[d] = compactors[d]
  BY <1>0, <1>1 DEF CompactInv
<1> QED BY <1>0, <1>1, <1>4, <1>6, <1>7, OneBucket_Log

LEMMA ClearBucket_Log ==
  ASSUME LogInv, OnePerBucket, NEW c \in Compactors, ClearBucket(c)
  PROVE  LogInv'
<1> DEFINE s == compactors[c]
           b == s.bucket
           D == bucket_data[b]
           ops == Cleared(c)
           E == (D \ ops) \cup {ClearOf(ops)}
<1>0. CompactInv /\ CompactInv'
  BY ClearBucket_Inv DEF LogInv
<1>1. /\ s.step = "clear" /\ b \in Buckets /\ log' = log /\ UNCHANGED <<op_id, checkpoint, log>>
      /\ \A o \in ops : o.op # "PUT"
      /\ \/ bucket_data' = bucket_data /\ compactors' = [compactors EXCEPT ![c].step = "next"]
         \/ /\ ops # {} /\ UNCHANGED compactors
            /\ bucket_data' = [bucket_data EXCEPT ![b] = E]
  BY <1>0, ClearBucketIs
<1>2. CASE bucket_data' = bucket_data /\ compactors' = [compactors EXCEPT ![c].step = "next"]
  <2> DEFINE n == [s EXCEPT !.step = "next"]
  <2>1. n.step # "scan"
    BY <1>0, StateFields DEF CompactorState
  <2>2. compactors' = [compactors EXCEPT ![c] = n] /\ UNCHANGED storageVars
    BY <1>1, <1>2 DEF storageVars
  <2> HIDE DEF n
  <2> QED BY <1>0, <2>1, <2>2, NotScanning_Log
<1>3. CASE ops # {} /\ UNCHANGED compactors /\ bucket_data' = [bucket_data EXCEPT ![b] = E]
  <2>1. IsLogged(D, log[b]) /\ LogOK(D, log[b])
    BY <1>0, <1>1, BucketLogged DEF LogInv, CompactInv
  <2>2. ops \subseteq D /\ \A o \in ops, e \in D : e.op_id <= o.op_id => e \in ops
    BY <1>0, <1>1, ClearedIs
  <2>3. ScanLogged(c)'
    BY <1>1, <1>3 DEF ScanLogged
  <2>5. IsClearFor(ClearOf(ops), ops, log[b])
    BY <1>0, <1>1, <1>3, <2>1, ClearedIs, ClearIsFor
  <2> DEFINE k == ClearOf(ops)
  <2> HIDE DEF D, b, s, ops, k
  <2>4. LogOK(E, log[b])
    BY <1>1, <1>3, <2>1, <2>2, <2>5, ClearLogged DEF k
  <2> HIDE DEF E
  <2> USE DEF s, b
  <2> QED BY <1>0, <1>1, <1>3, <2>3, <2>4, OneBucket_Log
<1> QED BY <1>1, <1>2, <1>3

-----------------------------------------------------------------------------
LEMMA CompactNext_Log ==
  ASSUME LogInv, OnePerBucket, CompactNext \/ UNCHANGED compactVars
  PROVE  LogInv'
<1>1. CASE UNCHANGED compactVars
  <2>1. CompactInv'
    BY <1>1, CompactNext_Inv DEF LogInv
  <2>2. UNCHANGED storageVars /\ compactors' = compactors
    BY <1>1 DEF compactVars
  <2>3. \A c \in Compactors : ScanLogged(c)'
    BY <2>2 DEF LogInv, ScanLogged, storageVars
  <2> QED BY <2>1, <2>2, <2>3, StateOnly_Log
<1>2. CASE Commit
  <2>1. CompactInv'
    BY <1>2, Commit_Inv DEF LogInv
  <2>2. UNCHANGED <<bucket_data, log, compactors>>
    BY <1>2 DEF Commit
  <2> QED BY <2>1, <2>2 DEF LogInv, ScanLogged
<1>3. CASE CompactNext /\ ~Commit
  BY <1>3, Flush_Log, StartCompact_Log, CompactSingleBucket_Log, ScanOp_Log, FlushMoves_Log, EndScan_Log,
     ClearBucket_Log, StopCompact_Log DEF CompactNext, CompactStep
<1> QED BY <1>1, <1>2, <1>3

LEMMA ReadIsCurrent ==
  ASSUME LogInv, NEW b \in Buckets, NEW k \in 0..op_id, NEW a \in 0..k, ~IsOvertaken(b, k),
         \A o \in Read(b, a, k) : ~(o.target_op > k)
  PROVE  Reduce(Original(b, a), Read(b, a, k)) = Original(b, k)
<1>1. StorageOK /\ op_id \in Nat /\ a \in Nat /\ k \in Nat /\ a <= k
  BY DEF LogInv, CompactInv, StorageOK
<1> DEFINE D == bucket_data[b]
           L == log[b]
<1>2. IsLogged(D, L) /\ LogOK(D, L)
  BY <1>1, BucketLogged DEF LogInv
<1>3. \A o \in D : o.op_id \in Nat /\ o.target_op \in Nat
  BY <1>2, LoggedFields
<1>4. \A o \in D : o.op = "CLEAR" => o.op_id <= k
  BY <1>1, <1>3 DEF IsOvertaken
<1>5. \A o \in Between(D, a, k) : o.target_op <= k
  BY <1>1, <1>3 DEF Read, Between
<1>6. IsCurrentRead(D, L, a, k)
  BY <1>1, <1>2, <1>4, <1>5 DEF IsCurrentRead
<1> QED BY <1>6, ReadConverges DEF Original, Read

LEMMA LogInvariant == CompactSpec /\ []OnePerBucket => []LogInv
<1>1. CompactInit => LogInv
  BY CompactInit_Log
<1>2. LogInv /\ OnePerBucket /\ [CompactNext]_compactVars => LogInv'
  BY CompactNext_Log
<1> QED BY <1>1, <1>2, PTL DEF CompactSpec

(***************************************************************************)
(* Compaction goes unnoticed, as long as no two compactors work on a       *)
(* bucket at the same time: a client that has synced the bucket up to any  *)
(* op id and syncs the rest of it while the bucket is being compacted has  *)
(* what one has that never met a compaction.                               *)
(***************************************************************************)
THEOREM CompactedClientsConverge == CompactSpec /\ []OnePerBucket => []ClientsConverge
<1>1. LogInv => ClientsConverge
  <2> SUFFICES ASSUME LogInv, NEW b \in Buckets, NEW a \in 0..op_id
               PROVE  Reduce(Original(b, a), Between(bucket_data[b], a, op_id)) = Original(b, op_id)
    BY DEF ClientsConverge
  <2>1. StorageOK /\ op_id \in Nat /\ op_id \in 0..op_id
    BY DEF LogInv, CompactInv, StorageOK
  <2>2. \A o \in bucket_data[b] \cup log[b] : o.op_id \in Nat /\ o.op_id <= op_id
    BY <2>1, BucketLogged, LoggedFields DEF StorageOK, OwnIds
  <2>3. \A o \in bucket_data[b] : ~(o.target_op > op_id)
    <3> SUFFICES ASSUME NEW o \in bucket_data[b] PROVE ~(o.target_op > op_id)
      OBVIOUS
    <3>1. o.target_op = 0 \/ \E t \in log[b] : t.op_id = o.target_op
      BY DEF LogInv, LogOK, TargetsWritten, Null
    <3> QED BY <2>1, <2>2, <3>1
  <2>4. ~IsOvertaken(b, op_id)
    BY <2>1, <2>2 DEF IsOvertaken
  <2>5. \A o \in Read(b, a, op_id) : ~(o.target_op > op_id)
    BY <2>3 DEF Read, Between
  <2> QED BY <2>1, <2>4, <2>5, ReadIsCurrent DEF Read
<1> QED BY <1>1, LogInvariant, PTL

(***************************************************************************)
(* Likewise, a read at an older checkpoint is as the bucket was then, or   *)
(* meets an operation whose target_op invalidates the checkpoint, unless a *)
(* CLEAR has overtaken the checkpoint.                                     *)
(***************************************************************************)
THEOREM StaleReadsAreInvalidated == CompactSpec /\ []OnePerBucket => []StaleReadsInvalidated
<1>1. LogInv => StaleReadsInvalidated
  BY ReadIsCurrent DEF StaleReadsInvalidated
<1> QED BY <1>1, LogInvariant, PTL
================================================================================
